----------------------------- MODULE MCAccounts -----------------------------
(* Instances of Accounts for TLC: the profiles "default" (d) and "work"    *)
(* (w), two OAuth clients.                                                 *)
EXTENDS Accounts, TLC

CONSTANTS d, w, a, b

MCProfile == {d, w}
MCApp == {a, b}

AllOps == {"init", "use", "set-credential", "command", "check", "clear",
           "clear-all"}
WizardOps == {"init", "use", "command", "clear"}
InitAndUse == {"init", "use"}

AnySelect == {None, d, w}
Flagged == {d, w}
Unflagged == {None}

(* A fresh machine, and one set up by a release that knew no profiles.     *)
Fresh == {DefaultConfig}
SetUp == [DefaultConfig EXCEPT !.own[d] = [client |-> Shared, scopes |-> 1]]
SetUpWork == [DefaultConfig EXCEPT !.own[w] = [client |-> w, scopes |-> 1],
                                   !.active = w]
Legacy == [DefaultConfig EXCEPT !.top = [client |-> Shared, scopes |-> 1]]
FreshOrSetUp == {DefaultConfig, SetUp}
AnyCanonical == {DefaultConfig, SetUp, SetUpWork}
LegacyFile == {Legacy}
MixedFile == {[Legacy EXCEPT !.active = w,
                             !.own[d] = [client |-> d, scopes |-> 1]]}
AnyFile == AnyCanonical \cup MixedFile

NoClient == {[f \in Path |-> None]}
SharedClient == {[f \in Path |-> IF f = Shared THEN a ELSE None]}
MixedClient == {[f \in Path |-> IF f = w THEN None ELSE a]}
AnyClient == {[f \in Path |-> IF f = g THEN a ELSE None] : g \in Path}
SomeClient == AnyClient \cup MixedClient

Symmetry == Permutations(Proc)
=============================================================================
