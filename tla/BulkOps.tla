------------------------------ MODULE BulkOps ------------------------------
(***************************************************************************)
(* The commands that change many messages, files, contacts or events of a  *)
(* Google account at once (internal/cmd and internal/rwcmd: mail archive,  *)
(* star, mark-read, categorize, label, delete, restore; drive star, trash, *)
(* restore, delete; contacts star, add-to-group, delete; calendar delete), *)
(* with the labels and contact groups they name (mail folder, contacts     *)
(* group), internal/bulk and the API clients under them.                   *)
(*                                                                         *)
(* Every request is one step; its answer may be lost after it was carried  *)
(* out.  Several invocations run at the same time on the same account.     *)
(***************************************************************************)
EXTENDS Naturals, Sequences, FiniteSets

CONSTANTS
    Proc,        \* invocations that may run at the same time
    Item,        \* messages, files, contacts or events
    Name,        \* names of labels or groups
    Label,       \* IDs of labels or groups ("contactGroups/...")
    System,      \* what always exists: INBOX, TRASH, STARRED, a system group
    None,        \* no label, no name
    Given,       \* names and IDs of labels or groups given as arguments
    NewNames,    \* new names given as arguments
    Before,      \* the labels or groups there may be at first
    IdLists,     \* ID lists given as arguments or on standard input
    Batch,       \* IDs in one batch request (1000 in the code)
    Page,        \* search results in one answer (about 100)
    MaxStarts,   \* bound on new invocations
    MaxFaults    \* bound on failed requests, lost answers and interrupts

Target == Label \cup {System}

(* The parts of an account; one row for commands with the same control     *)
(* flow.                                                                   *)
Surface == {"mail", "drive", "contacts", "calendar"}

Folder == {"folder-create", "folder-rename", "folder-rm"}   \* contacts group ...

OnMail == {"mail-modify",     \* archive, star, mark-read, categorize, delete, restore
           "mail-label",      \* label, unlabel
           "mail-erase"}      \* delete --permanent
          \cup Folder

OnDrive == {"drive-set",      \* star, unstar, trash, restore
            "drive-erase"}    \* delete --permanent

OnContacts == {"contacts-star",   \* star, unstar
               "contacts-group",  \* add-to-group, remove-from-group
               "item-delete"}     \* delete
              \cup Folder

OnCalendar == {"item-delete"}     \* delete

On(s) == CASE s = "mail" -> OnMail
           [] s = "drive" -> OnDrive
           [] s = "contacts" -> OnContacts
           [] s = "calendar" -> OnCalendar

Command == UNION {On(s) : s \in Surface}

Erases(c) == c \in {"mail-erase", "drive-erase", "item-delete"}
Queries(c) == c \notin ({"item-delete"} \cup Folder)

(* Mutant: messages are erased one by one, as files are.                   *)
HowErasedEach(c) == CASE c \in {"mail-modify", "mail-label"} -> "batch"
            [] c \in {"mail-erase", "drive-set", "drive-erase", "item-delete"} -> "each"
            [] c \in {"contacts-star", "contacts-group"} -> "once"

(* How the IDs become requests: batches, one each, or all in one.          *)
How(c) == CASE c \in {"mail-modify", "mail-label", "mail-erase"} -> "batch"
            [] c \in {"drive-set", "drive-erase", "item-delete"} -> "each"
            [] c \in {"contacts-star", "contacts-group"} -> "once"

Source == {"args", "stdin", "query"}
Ended == {"idle", "done", "refused", "failed"}
Running == {"name", "ids", "confirm", "request", "get", "folder"}

VARIABLES
    surface,  \* the part of the account the invocations work on
    alive,    \* the items that exist
    names,    \* names[l]: the name of label l, or None
    pc,       \* pc[p]: what invocation p does next, or how it ended
    cmd,      \* cmd[p]: its command
    arg,      \* arg[p]: its other arguments and flags
    target,   \* target[p]: the mark it sets or clears
    ids,      \* ids[p]: the IDs it works on
    at,       \* at[p]: the index of the first ID not requested yet
    touched,  \* touched[p]: items the account changed for it (history)
    etag,     \* etag[p]: the name of the group when p read it, or None
    agreed,   \* agreed[p]: items whose erasure its user agreed to (history)
    starts,   \* new invocations so far
    faults    \* faults so far

account == <<alive, names>>
vars == <<surface, account, pc, cmd, arg, target, ids, at, touched, etag, agreed, starts,
          faults>>

Arg == [source: Source, list: IdLists, name: Given, new: NewNames,
        dry: BOOLEAN, yes: BOOLEAN]

(* Commands that name an existing label or group; a group may be named by  *)
(* its ID.                                                                 *)
Named(c) == c \in {"mail-label", "contacts-group", "folder-rename", "folder-rm"}
ById(s, c) == s = "contacts" /\ c \in {"folder-rename", "folder-rm"}

(* Mutant: a new destructive command that does not ask.                    *)
AsksMailAndDrive(s, c) ==
    c \in {"mail-erase", "drive-erase"} \/ (s = "contacts" /\ c = "folder-rm")

(* Commands that ask before they go on.                                    *)
Asks(s, c) == Erases(c) \/ (s = "contacts" /\ c = "folder-rm")

(* The arguments that a command accepts.  What makes no difference is left *)
(* out: a field it has no use for, standard input where nobody is asked,   *)
(* and more than one form of a dry run.                                    *)
Some(S) == CHOOSE x \in S : TRUE
Accepts(s, c, a) ==
    /\ a.source = "query" => Queries(c)
    /\ a.source = "stdin" => Erases(c)
    /\ a.yes => Asks(s, c)
    /\ a.name \in Name \/ ById(s, c)
    /\ ~Named(c) /\ c # "folder-create" => a.name = Some(Given \cap Name)
    /\ c # "folder-rename" => a.new = Some(NewNames)
    /\ a.source = "query" \/ c \in Folder \/ a.dry => a.list = Some(IdLists)
    /\ a.dry => a.source # "stdin" /\ ~a.yes

Invocations ==
    {v \in [on: Surface, cmd: Command, arg: Arg] :
        v.cmd \in On(v.on) /\ Accepts(v.on, v.cmd, v.arg)}

ASSUME BulkAssumption ==
    /\ IdLists # {} /\ IdLists \subseteq Seq(Item) \ {<<>>}
    /\ Name # {} /\ Name \cap Target = {} /\ None \notin Name
    /\ System \notin Label
    /\ Before \subseteq [Label -> Name \cup {None}]
    /\ Given \subseteq Name \cup Target /\ Given \cap Name # {}
    /\ NewNames \subseteq Name /\ NewNames # {}
    /\ Batch \in Nat \ {0} /\ Page \in Nat \ {0}
    /\ MaxStarts \in Nat /\ MaxFaults \in Nat

TypeOK ==
    /\ surface \in Surface
    /\ alive \subseteq Item
    /\ names \in [Label -> Name \cup {None}]
    /\ pc \in [Proc -> Ended \cup Running]
    /\ cmd \in [Proc -> Command]
    /\ arg \in [Proc -> Arg]
    /\ target \in [Proc -> Target]
    /\ ids \in [Proc -> Seq(Item)]
    /\ at \in [Proc -> Nat]
    /\ \A p \in Proc : at[p] \in 1..(Len(ids[p]) + 1)
    /\ touched \in [Proc -> SUBSET Item]
    /\ etag \in [Proc -> Name \cup {None}]
    /\ agreed \in [Proc -> SUBSET Item]
    /\ starts \in 0..MaxStarts
    /\ faults \in 0..MaxFaults

Init ==
    /\ surface \in Surface
    /\ alive = Item
    /\ names \in Before
    /\ surface \notin {"mail", "contacts"} => \A l \in Label : names[l] = None
    /\ pc = [p \in Proc |-> "idle"]
    /\ cmd = [p \in Proc |-> CHOOSE c \in Command : TRUE]
    /\ arg = [p \in Proc |-> CHOOSE a \in Arg : TRUE]
    /\ target = [p \in Proc |-> System]
    /\ ids = [p \in Proc |-> <<>>]
    /\ at = [p \in Proc |-> 1]
    /\ touched = [p \in Proc |-> {}]
    /\ etag = [p \in Proc |-> None]
    /\ agreed = [p \in Proc |-> {}]
    /\ starts = 0
    /\ faults = 0

-----------------------------------------------------------------------------
Goto(p, label) == pc' = [pc EXCEPT ![p] = label]

(* The first step; folder commands end a dry run before anything else, and *)
(* a system group is refused before that.                                  *)
FirstStep(c, a) ==
    IF c = "folder-rm" /\ a.name = System THEN "refused"
    ELSE IF c \in Folder /\ a.dry THEN "done"
    ELSE IF c \in Folder /\ Asks(surface, c) THEN "confirm"
    ELSE IF c = "folder-create" THEN "folder"
    ELSE IF Named(c) THEN "name" ELSE "ids"

(* Mutant: the position of the last invocation is kept.                    *)
BeginKeepsAt(p, c, a) ==
    /\ target' = [target EXCEPT ![p] = System]
    /\ ids' = [ids EXCEPT ![p] = <<>>]
    /\ at' = at
    /\ touched' = [touched EXCEPT ![p] = {}]
    /\ etag' = [etag EXCEPT ![p] = None]
    /\ agreed' = [agreed EXCEPT ![p] = {}]
    /\ Goto(p, FirstStep(c, a))

Begin(p, c, a) ==
    /\ target' = [target EXCEPT ![p] = System]
    /\ ids' = [ids EXCEPT ![p] = <<>>]
    /\ at' = [at EXCEPT ![p] = 1]
    /\ touched' = [touched EXCEPT ![p] = {}]
    /\ etag' = [etag EXCEPT ![p] = None]
    /\ agreed' = [agreed EXCEPT ![p] = {}]
    /\ Goto(p, FirstStep(c, a))

(* A new command with its arguments and flags.                             *)
Start(p, c, a) ==
    /\ pc[p] \in Ended \ {"failed"}
    /\ starts < MaxStarts
    /\ starts' = starts + 1
    /\ cmd' = [cmd EXCEPT ![p] = c]
    /\ arg' = [arg EXCEPT ![p] = a]
    /\ Begin(p, c, a)
    /\ UNCHANGED <<surface, account, faults>>

(* A user repeats a command that failed.                                   *)
Again(p) ==
    /\ pc[p] = "failed"
    /\ Begin(p, cmd[p], arg[p])
    /\ UNCHANGED <<surface, account, cmd, arg, starts, faults>>

asked == <<surface, cmd, arg, starts>>   \* what only a user changes

(* The step after the label or group is known.                             *)
AfterName(p) ==
    IF cmd[p] \notin Folder THEN "ids"
    ELSE IF cmd[p] = "folder-rename" /\ surface = "contacts" THEN "get" ELSE "folder"

(* GetLabelID, ResolveGroupName: from the labels as they are at this time; *)
(* an ID is taken as it is.                                                *)
ResolveName(p) ==
    /\ pc[p] = "name"
    /\ \E m \in Target :
          /\ m = arg[p].name \/ (m \in Label /\ names[m] = arg[p].name)
          /\ target' = [target EXCEPT ![p] = m]
    /\ Goto(p, AfterName(p))
    /\ UNCHANGED <<asked, account, ids, at, touched, etag, agreed, faults>>

NameNotFound(p) ==
    /\ pc[p] = "name"
    /\ arg[p].name \in Name
    /\ \A l \in Label : names[l] # arg[p].name
    /\ Goto(p, "refused")
    /\ UNCHANGED <<asked, account, target, ids, at, touched, etag, agreed, faults>>

(* --dry-run ends here; what cannot be undone has to be confirmed.         *)
AfterIds(p) == IF arg[p].dry THEN "done"
               ELSE IF Asks(surface, cmd[p]) THEN "confirm" ELSE "request"

(* bulk.ResolveIDs with arguments or standard input.                       *)
ResolveListed(p) ==
    /\ pc[p] = "ids"
    /\ arg[p].source # "query"
    /\ ids' = [ids EXCEPT ![p] = arg[p].list]
    /\ Goto(p, AfterIds(p))
    /\ UNCHANGED <<asked, account, target, at, touched, etag, agreed, faults>>

(* What a query may find: a page of distinct items, or less.               *)
Found == {s \in UNION {[1..n -> alive] : n \in 0..Page} :
             \A j, k \in DOMAIN s : s[j] = s[k] => j = k}

(* How a command ends without a match: the contact groups get a request    *)
(* with no names, which they may not accept.                               *)
NoMatch(p) == IF surface = "contacts" /\ ~arg[p].dry THEN {"done", "refused"} ELSE {"done"}

ResolveQuery(p) ==
    /\ pc[p] = "ids"
    /\ arg[p].source = "query"
    /\ \E s \in Found :
          /\ ids' = [ids EXCEPT ![p] = s]
          /\ IF s = <<>> THEN \E e \in NoMatch(p) : Goto(p, e) ELSE Goto(p, AfterIds(p))
    /\ UNCHANGED <<asked, account, target, at, touched, etag, agreed, faults>>

(* --yes, or the answer; IDs from standard input leave no answer to read.  *)
Confirm(p) ==
    /\ pc[p] = "confirm"
    /\ arg[p].yes \/ arg[p].source # "stdin"
    /\ agreed' = [agreed EXCEPT ![p] = {ids[p][k] : k \in DOMAIN ids[p]}]
    /\ Goto(p, IF cmd[p] \in Folder THEN "name" ELSE "request")
    /\ UNCHANGED <<asked, account, target, ids, at, touched, etag, faults>>

(* Another answer, or none that can be read.                               *)
NotConfirmed(p) ==
    /\ pc[p] = "confirm"
    /\ ~arg[p].yes
    /\ Goto(p, "refused")
    /\ UNCHANGED <<asked, account, target, ids, at, touched, etag, agreed, faults>>

-----------------------------------------------------------------------------
(* The requests.                                                           *)

(* The last ID of the request.                                             *)
ChunkEnd(p) ==
    LET n == Len(ids[p])
    IN  CASE How(cmd[p]) = "batch" -> IF at[p] + Batch - 1 < n THEN at[p] + Batch - 1 ELSE n
          [] How(cmd[p]) = "each" -> at[p]
          [] How(cmd[p]) = "once" -> n

Chunk(p) == {ids[p][k] : k \in at[p]..ChunkEnd(p)}

(* Mutant: the IDs after the last full batch are forgotten.                *)
MoreFull(p) == ChunkEnd(p) + (IF How(cmd[p]) = "batch" THEN Batch ELSE 1) <= Len(ids[p])

(* Another request is due after this one.                                  *)
More(p) == ChunkEnd(p) < Len(ids[p])

(* One message, not a batch, is changed by a request of its own.           *)
Single(p) ==
    \/ How(cmd[p]) = "each"
    \/ cmd[p] \in {"mail-modify", "mail-label"} /\ Len(ids[p]) = 1

(* What a request can set or clear: a deleted label is gone.               *)
Present == {System} \cup {l \in Label : names[l] # None}

(* A request for a single object fails if it is gone, one for many skips   *)
(* what is gone; a label or group that is gone fails either.               *)
Rejected(p) ==
    \/ Single(p) /\ ~(Chunk(p) \subseteq alive)
    \/ target[p] \notin Present

(* What the account does with the request.                                 *)
Apply(p) ==
    /\ alive' = IF Erases(cmd[p]) THEN alive \ Chunk(p) ELSE alive
    /\ touched' = [touched EXCEPT ![p] = @ \cup Chunk(p)]
    /\ UNCHANGED names

Request(p) ==
    /\ pc[p] = "request"
    /\ ~Rejected(p)
    /\ Apply(p)
    /\ at' = [at EXCEPT ![p] = ChunkEnd(p) + 1]
    /\ Goto(p, IF More(p) THEN "request" ELSE "done")
    /\ UNCHANGED <<asked, target, ids, etag, agreed, faults>>

(* Mutant: the loop goes on with the next request.                         *)
RequestRejectedSkips(p) ==
    /\ pc[p] = "request"
    /\ Rejected(p)
    /\ at' = [at EXCEPT ![p] = ChunkEnd(p) + 1]
    /\ Goto(p, IF More(p) THEN "request" ELSE "done")
    /\ UNCHANGED <<asked, account, target, ids, touched, etag, agreed, faults>>

(* The first error ends the command.                                       *)
RequestRejected(p) ==
    /\ pc[p] = "request"
    /\ Rejected(p)
    /\ Goto(p, "refused")
    /\ UNCHANGED <<asked, account, target, ids, at, touched, etag, agreed, faults>>

(* The request is carried out and the answer is lost.                      *)
AnswerLost(p) ==
    /\ pc[p] = "request"
    /\ ~Rejected(p)
    /\ faults < MaxFaults
    /\ faults' = faults + 1
    /\ Apply(p)
    /\ Goto(p, "failed")
    /\ UNCHANGED <<asked, target, ids, at, etag, agreed>>

(* A request that is not carried out, an interrupt.                        *)
Stop(p) ==
    /\ pc[p] \in Running
    /\ faults < MaxFaults
    /\ faults' = faults + 1
    /\ Goto(p, "failed")
    /\ UNCHANGED <<asked, account, target, ids, at, touched, etag, agreed>>

-----------------------------------------------------------------------------
(* Labels and contact groups.                                              *)

(* RenameGroup reads the group first, for its etag.                        *)
GetGroup(p) ==
    /\ pc[p] = "get"
    /\ target[p] \in Present
    /\ etag' = [etag EXCEPT ![p] = IF target[p] = System THEN None ELSE names[target[p]]]
    /\ Goto(p, "folder")
    /\ UNCHANGED <<asked, account, target, ids, at, touched, agreed, faults>>

GroupGone(p) ==
    /\ pc[p] = "get"
    /\ target[p] \notin Present
    /\ Goto(p, "refused")
    /\ UNCHANGED <<asked, account, target, ids, at, touched, etag, agreed, faults>>

(* Name n can become the name of label l.                                  *)
Free(n, l) == \A m \in Label : m # l => names[m] # n

(* The account accepts the change of label l: a new name is free, the      *)
(* label is still there and a group was not changed since it was read.     *)
FolderMay(p, l) ==
    IF cmd[p] = "folder-create" THEN names[l] = None /\ Free(arg[p].name, l)
    ELSE /\ l = target[p] /\ names[l] # None
         /\ cmd[p] = "folder-rename" =>
               /\ Free(arg[p].new, l)
               /\ surface = "contacts" => etag[p] = names[l]

(* The name of the label after the change.                                 *)
FolderName(p) == CASE cmd[p] = "folder-create" -> arg[p].name
                   [] cmd[p] = "folder-rename" -> arg[p].new
                   [] cmd[p] = "folder-rm" -> None

FolderApply(p) ==
    /\ pc[p] = "folder"
    /\ \E l \in Label :
          /\ FolderMay(p, l)
          /\ names' = [names EXCEPT ![l] = FolderName(p)]
    /\ UNCHANGED <<asked, alive, target, ids, at, touched, etag, agreed>>

FolderChange(p) ==
    /\ FolderApply(p)
    /\ Goto(p, "done")
    /\ UNCHANGED faults

FolderAnswerLost(p) ==
    /\ FolderApply(p)
    /\ faults < MaxFaults
    /\ faults' = faults + 1
    /\ Goto(p, "failed")

(* The name is taken, or the label is gone.                                *)
FolderRejected(p) ==
    /\ pc[p] = "folder"
    /\ \A l \in Label : ~FolderMay(p, l)
    /\ Goto(p, "refused")
    /\ UNCHANGED <<asked, account, target, ids, at, touched, etag, agreed, faults>>

Step(p) ==
    \/ ResolveName(p) \/ NameNotFound(p) \/ ResolveListed(p) \/ ResolveQuery(p)
    \/ Confirm(p) \/ NotConfirmed(p)
    \/ Request(p) \/ RequestRejected(p)
    \/ GetGroup(p) \/ GroupGone(p) \/ FolderChange(p) \/ FolderRejected(p)

Next ==
    \E p \in Proc :
        \/ \E v \in Invocations : v.on = surface /\ Start(p, v.cmd, v.arg)
        \/ Again(p) \/ Step(p) \/ AnswerLost(p) \/ FolderAnswerLost(p) \/ Stop(p)

Spec == Init /\ [][Next]_vars

(* An invocation goes on, and a user repeats what failed.                  *)
Fairness == \A p \in Proc : WF_vars(Step(p)) /\ WF_vars(Again(p))

FairSpec == Spec /\ Fairness
-----------------------------------------------------------------------------
(* Properties.                                                             *)

(* The count a command reports is true: when it succeeds, a request for    *)
(* each of its IDs was carried out, and a dry run has made none            *)
(* (bulk.Result prints len(ids)).                                          *)
ReportHonest ==
    \A p \in Proc :
        pc[p] = "done" =>
            touched[p] = IF arg[p].dry THEN {} ELSE {ids[p][k] : k \in DOMAIN ids[p]}

(* The IDs up to the request at position at[p].                            *)
Reached(p) == {ids[p][k] : k \in {j \in DOMAIN ids[p] : j <= ChunkEnd(p)}}

(* A command that breaks off leaves no hole: everything before the request *)
(* that failed is done and nothing after it, whatever else happened.       *)
FailureIsPrefix ==
    \A p \in Proc :
        /\ \A k \in DOMAIN ids[p] : k < at[p] => ids[p][k] \in touched[p]
        /\ ids[p] # <<>> => touched[p] \subseteq Reached(p)

(* Nothing is erased for good that the user of that very invocation has    *)
(* not agreed to erase, by --yes or by an answer to its question.          *)
ErasedWithConsent ==
    \A p \in Proc : Erases(cmd[p]) => touched[p] \subseteq agreed[p]

(* A command that only sets or clears a mark, or erases messages, can be    *)
(* repeated as it is after a failure until it is done, though some of its  *)
(* requests were carried out before; unless others erase its items.        *)
Repeatable(p) ==
    \/ cmd[p] \in {"mail-modify", "drive-set"}
    \/ cmd[p] = "contacts-star" /\ arg[p].source # "query"
    \/ cmd[p] = "mail-erase" /\ arg[p].yes

RetryCompletes ==
    \A p \in Proc :
        (pc[p] = "failed" /\ Repeatable(p)) ~>
            (pc[p] = "done" \/ (cmd[p] # "mail-erase" /\ alive # Item))
=============================================================================
