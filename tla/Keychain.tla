------------------------------- MODULE Keychain -------------------------------
(***************************************************************************)
(* What the keychain promises a user of one profile, whatever releases the *)
(* machine has seen: one token, that only the user replaces or clears.     *)
(* Originals left by older releases count as the user's token only while   *)
(* the entry is empty, and go only once the entry, or something the user   *)
(* put there since, stands for them.  Migration implements this.           *)
(***************************************************************************)
CONSTANTS
    Value,   \* what a token can be
    New,     \* the tokens that users can bring
    None,    \* an empty entry
    Junk,    \* what is left of an original that is being erased
    Late     \* TRUE: an invocation may act on originals that it read before
             \* another one removed them

VARIABLES
    entry,   \* the keyring entry of the profile
    spare,   \* the originals outside the keyring
    past     \* what users have replaced or cleared

vars == <<entry, spare, past>>

Init ==
    /\ entry \in Value \cup {None}
    /\ spare \subseteq Value
    /\ past = {}

(* The promise of "config clear": what fills a cleared entry without the   *)
(* user is an original that the clear left on the machine.  Late weakens   *)
(* it to what the machine held before: an invocation that planned before   *)
(* the clear writes after it what it had read then.                        *)
Fill ==
    /\ entry = None
    /\ entry' \in spare \cup (IF Late THEN past \cup {Junk} ELSE {})
    /\ UNCHANGED <<spare, past>>

(* An original goes only when it is in the entry or was replaced there.    *)
Erase ==
    /\ spare \ spare' \subseteq past \cup {entry, Junk}
    /\ spare' \subseteq spare \cup {Junk}
    /\ UNCHANGED <<entry, past>>

(* The user (set-credential, a refresh, config clear) sets the entry, to a *)
(* token that the user brings.                                             *)
Put(v) ==
    /\ entry' = v
    /\ past' = past \cup ({entry} \ {None})
    /\ UNCHANGED spare

Next == Fill \/ Erase \/ \E v \in New \cup {None} : Put(v)

Spec == Init /\ [][Next]_vars
=============================================================================
