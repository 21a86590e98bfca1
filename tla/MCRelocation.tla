---------------------------- MODULE MCRelocation ----------------------------
(* Instances of Relocation for TLC: the profiles "default" (d) and "work"  *)
(* (w), two OAuth clients, two scope sets.                                 *)
EXTENDS Relocation

CONSTANTS d, w, a, b

MCProfiles == <<d, w>>

AllOps == {"init", "use", "command", "clear-all"}

Bare(q) == [DefaultConfig EXCEPT !.ref = q]

(* Files as older releases, the last releases and this one write them.     *)
TopOnly == [Bare(d) EXCEPT !.top = [client |-> <<"old", "client">>, scopes |-> 1]]
ScopesOnly == [Bare(d) EXCEPT !.top = [client |-> None, scopes |-> 1]]
OldDefault == [Bare(d) EXCEPT !.own[d] = [client |-> <<"old", "client">>, scopes |-> 1]]
NewDefault == [Bare(d) EXCEPT !.own[d] = [client |-> <<"new", "client">>, scopes |-> 1]]
NewScopes == [Bare(d) EXCEPT !.own[d] = [client |-> <<"new", "client">>, scopes |-> 2]]
FileBackend == [OldDefault EXCEPT !.keyring = 1]
OldWork == [Bare(w) EXCEPT !.own[w] = [client |-> <<"old", w>>, scopes |-> 1],
                           !.own[d] = [client |-> Elsewhere, scopes |-> None]]
NewWork == [OldWork EXCEPT !.own[w].client = <<"new", w>>]
Mixed == [TopOnly EXCEPT !.own[d] = [client |-> Elsewhere, scopes |-> 2]]

(* <<old, new>>: a file in the old directory, in the new one, or in both.  *)
OldYml == {<<c, None>> : c \in {Bare(d), TopOnly, ScopesOnly, OldDefault, OldWork, Mixed,
                             FileBackend, Bad}}
BothYml == {<<OldDefault, NewDefault>>, <<FileBackend, NewDefault>>, <<OldDefault, NewScopes>>,
            <<OldWork, NewWork>>, <<Mixed, NewDefault>>, <<Bad, NewDefault>>,
            <<OldDefault, Bad>>, <<None, NewDefault>>, <<None, None>>}
AnyYml == OldYml \cup BothYml
AnyJson == {<<None, None>>, <<TopOnly, None>>, <<ScopesOnly, None>>, <<Bare(d), None>>, <<None, TopOnly>>,
            <<None, Bad>>}

OneClient == {[n \in ClientFile |-> IF n = "client" THEN a ELSE None]}
AnyClient == {[n \in ClientFile |-> IF n \in S THEN a ELSE None] :
                 S \in {{}, {"client", w}, {"credentials"}}}
=============================================================================
