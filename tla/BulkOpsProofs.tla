--------------------------- MODULE BulkOpsProofs ---------------------------
(***************************************************************************)
(* Proofs about BulkOps for any number of invocations, items, labels and   *)
(* IDs, any size of batches and pages and any number of faults.            *)
(***************************************************************************)
EXTENDS BulkOps, TLAPS

(* The IDs of a list.                                                      *)
Elems(s) == {s[k] : k \in DOMAIN s}

(* A label or group was given by name, or by ID where an ID will do.       *)
Accepted(p) == pc[p] # "idle" => arg[p].name \in Name \/ ById(surface, cmd[p])

(* Nothing was requested before the list is complete and agreed to.        *)
NothingYet(p) ==
    pc[p] \in Running \ {"request"} => at[p] = 1 /\ touched[p] = {}

(* Only commands over items have a list.                                   *)
ListsItems(p) ==
    /\ cmd[p] \in Folder => ids[p] = <<>>
    /\ pc[p] \in {"ids", "request"} => cmd[p] \notin Folder
    /\ pc[p] \in {"get", "folder"} => cmd[p] \in Folder

(* A loop of requests has a list with IDs left, is no dry run and has been *)
(* agreed to where the command asks.                                       *)
MayRequest(p) ==
    /\ pc[p] = "confirm" => ~arg[p].dry /\ (cmd[p] \in Folder \/ ids[p] # <<>>)
    /\ pc[p] = "request" =>
          /\ ~arg[p].dry
          /\ at[p] \in DOMAIN ids[p]
          /\ Asks(surface, cmd[p]) => Elems(ids[p]) \subseteq agreed[p]

(* What was changed is a prefix of the list, up to the request at hand.    *)
Prefix(p) ==
    /\ touched[p] \subseteq Elems(ids[p])
    /\ \A k \in DOMAIN ids[p] : k < at[p] => ids[p][k] \in touched[p]
    /\ ids[p] # <<>> => touched[p] \subseteq Reached(p)

Reports(p) ==
    pc[p] = "done" => touched[p] = IF arg[p].dry THEN {} ELSE Elems(ids[p])

Consent(p) == Erases(cmd[p]) => touched[p] \subseteq agreed[p]

Good(p) ==
    /\ Accepted(p) /\ NothingYet(p) /\ ListsItems(p) /\ MayRequest(p)
    /\ Prefix(p) /\ Reports(p) /\ Consent(p)

(* The inductive invariant: FailureIsPrefix alone is not inductive, since  *)
(* it does not say where in the list an invocation may be.                 *)
IInv == TypeOK /\ \A p \in Proc : Good(p)

(* Invocation q is where it was.                                           *)
Same(q) ==
    /\ surface' = surface
    /\ pc'[q] = pc[q] /\ cmd'[q] = cmd[q] /\ arg'[q] = arg[q]
    /\ ids'[q] = ids[q] /\ at'[q] = at[q]
    /\ touched'[q] = touched[q] /\ agreed'[q] = agreed[q]

(* What is good of an invocation is so as long as it stays where it is.    *)
LEMMA Frame ==
    ASSUME NEW q \in Proc, Good(q), Same(q)
    PROVE  Good(q)'
BY DEF Good, Same, Accepted, ById, NothingYet, ListsItems, MayRequest, Prefix, Reports, Consent,
       Reached, ChunkEnd, Asks, Erases

(* A command over items forms requests in one of three ways.               *)
LEMMA HowType ==
    ASSUME NEW c \in Command, c \notin Folder
    PROVE  How(c) \in {"batch", "each", "once"}
BY DEF Command, On, OnMail, OnDrive, OnContacts, OnCalendar, Surface, Folder, How

(* The request at hand ends at an ID of the list, not before its start.    *)
LEMMA ChunkEndType ==
    ASSUME TypeOK, NEW p \in Proc, cmd[p] \notin Folder, at[p] \in DOMAIN ids[p]
    PROVE  /\ ChunkEnd(p) \in at[p]..Len(ids[p])
           /\ ChunkEnd(p) \in DOMAIN ids[p]
<1>1. How(cmd[p]) \in {"batch", "each", "once"}
  BY HowType DEF TypeOK
<1>2. ids[p] \in Seq(Item) /\ Len(ids[p]) \in Nat /\ DOMAIN ids[p] = 1..Len(ids[p])
  BY DEF TypeOK
<1>. QED
  BY <1>1, <1>2, BulkAssumption DEF ChunkEnd

(* The request after the one at hand ends no earlier.                      *)
LEMMA ChunkEndGrows ==
    ASSUME TypeOK, NEW p \in Proc, cmd[p] \notin Folder, at[p] \in DOMAIN ids[p],
           cmd'[p] = cmd[p], ids'[p] = ids[p], at'[p] = ChunkEnd(p) + 1
    PROVE  ChunkEnd(p)' \in Nat /\ ChunkEnd(p) <= ChunkEnd(p)'
<1>1. How(cmd[p]) \in {"batch", "each", "once"}
  BY HowType DEF TypeOK
<1>2. ids[p] \in Seq(Item) /\ Len(ids[p]) \in Nat /\ DOMAIN ids[p] = 1..Len(ids[p])
  BY DEF TypeOK
<1>3. ChunkEnd(p) \in at[p]..Len(ids[p])
  BY ChunkEndType
<1>4. ChunkEnd(p)' = CASE How(cmd[p]) = "batch" ->
                             IF at'[p] + Batch - 1 < Len(ids[p])
                             THEN at'[p] + Batch - 1 ELSE Len(ids[p])
                       [] How(cmd[p]) = "each" -> at'[p]
                       [] How(cmd[p]) = "once" -> Len(ids[p])
  BY DEF ChunkEnd
<1>. QED
  BY <1>1, <1>2, <1>3, <1>4, BulkAssumption

(* The initial states are good.                                            *)
LEMMA InitGood == Init => IInv
<1>. SUFFICES ASSUME Init PROVE IInv
  OBVIOUS
<1>1. (CHOOSE c \in Command : TRUE) \in Command
  <2>1. "mail-erase" \in Command
    BY DEF Command, On, OnMail, OnDrive, OnContacts, OnCalendar, Surface, Folder
  <2>. QED
    BY <2>1
<1>2. (CHOOSE a \in Arg : TRUE) \in Arg
  <2>1. PICK l \in IdLists, g \in Given, n \in NewNames : TRUE
    BY BulkAssumption
  <2>2. [source |-> "args", list |-> l, name |-> g, new |-> n,
         dry |-> FALSE, yes |-> FALSE] \in Arg
    BY <2>1 DEF Arg, Source
  <2>. QED
    BY <2>2
<1>3. <<>> \in Seq(Item) /\ Len(<<>>) = 0 /\ DOMAIN <<>> = {}
  OBVIOUS
<1>4. TypeOK
  <2>1. /\ cmd \in [Proc -> Command]
        /\ arg \in [Proc -> Arg]
    BY <1>1, <1>2 DEF Init
  <2>. QED
    BY <1>3, <2>1, BulkAssumption DEF Init, TypeOK, Target, Ended
<1>5. ASSUME NEW p \in Proc
      PROVE  Good(p)
  BY <1>3, <1>5 DEF Init, Good, Accepted, NothingYet, ListsItems, MayRequest, Prefix, Reports,
     Consent, Elems, Running
<1>. QED
  BY <1>4, <1>5 DEF IInv

(* An invocation that begins, anew or again, has nothing behind it.        *)
LEMMA BeginGood ==
    ASSUME TypeOK, NEW p \in Proc, NEW c \in Command, NEW a \in Arg, Begin(p, c, a),
           cmd'[p] = c, arg'[p] = a, surface' = surface,
           a.name \in Name \/ ById(surface, c)
    PROVE  Good(p)'
<1>1. /\ ids'[p] = <<>> /\ at'[p] = 1 /\ touched'[p] = {}
      /\ pc'[p] = FirstStep(c, a)
  BY DEF Begin, Goto, TypeOK
<1>2. /\ pc'[p] \in {"refused", "done", "confirm", "folder", "name", "ids"}
      /\ pc'[p] = "folder" => c \in Folder
      /\ pc'[p] = "ids" => c \notin Folder
      /\ pc'[p] = "confirm" => c \in Folder /\ ~a.dry
  BY <1>1 DEF FirstStep, Named, Folder
<1>3. DOMAIN <<>> = {} /\ Elems(<<>>) = {}
  BY DEF Elems
<1>. QED
  BY <1>1, <1>2, <1>3 DEF Good, Accepted, ById, NothingYet, ListsItems, MayRequest, Prefix, Reports,
     Consent, Running

(* Begin keeps the types and leaves the other invocations alone.           *)
LEMMA BeginFrame ==
    ASSUME TypeOK, NEW p \in Proc, NEW c, NEW a, Begin(p, c, a),
           FirstStep(c, a) \in Ended \cup Running
    PROVE  /\ target' \in [Proc -> Target]
           /\ ids' \in [Proc -> Seq(Item)]
           /\ at' \in [Proc -> Nat]
           /\ \A q \in Proc : at'[q] \in 1..(Len(ids'[q]) + 1)
           /\ touched' \in [Proc -> SUBSET Item]
           /\ etag' \in [Proc -> Name \cup {None}]
           /\ agreed' \in [Proc -> SUBSET Item]
           /\ pc' \in [Proc -> Ended \cup Running]
           /\ \A q \in Proc \ {p} :
                 /\ pc'[q] = pc[q] /\ ids'[q] = ids[q] /\ at'[q] = at[q]
                 /\ touched'[q] = touched[q] /\ agreed'[q] = agreed[q]
<1>1. <<>> \in Seq(Item) /\ Len(<<>>) = 0
  OBVIOUS
<1>2. \A q \in Proc : at'[q] \in 1..(Len(ids'[q]) + 1)
  BY <1>1 DEF TypeOK, Begin
<1>. QED
  BY <1>1, <1>2 DEF TypeOK, Begin, Goto, Target

(* Every first step is a place an invocation can be.                       *)
LEMMA FirstStepType ==
    ASSUME NEW c, NEW a
    PROVE  FirstStep(c, a) \in Ended \cup Running
BY DEF FirstStep, Ended, Running

(* To begin keeps the invariant.                                           *)
LEMMA BeginKeeps ==
    ASSUME IInv, NEW p \in Proc, NEW c \in Command, NEW a \in Arg, Begin(p, c, a),
           cmd' = [cmd EXCEPT ![p] = c], arg' = [arg EXCEPT ![p] = a],
           UNCHANGED <<surface, account, faults>>, starts' \in 0..MaxStarts,
           a.name \in Name \/ ById(surface, c)
    PROVE  IInv'
<1>1. TypeOK /\ FirstStep(c, a) \in Ended \cup Running
  BY FirstStepType DEF IInv
<1>2. TypeOK'
  <2>1. /\ cmd' \in [Proc -> Command] /\ arg' \in [Proc -> Arg]
        /\ surface' \in Surface /\ alive' \subseteq Item
        /\ names' \in [Label -> Name \cup {None}] /\ faults' \in 0..MaxFaults
    BY <1>1 DEF TypeOK, account
  <2>. QED
    BY <1>1, <2>1, BeginFrame DEF TypeOK
<1>3. Good(p)'
  <2>1. cmd'[p] = c /\ arg'[p] = a /\ surface' = surface
    BY <1>1 DEF TypeOK
  <2>. QED
    BY <1>1, <2>1, BeginGood
<1>4. ASSUME NEW q \in Proc \ {p}
      PROVE  Good(q)'
  <2>1. Same(q)
    BY <1>1, BeginFrame DEF TypeOK, Same
  <2>. QED
    BY <2>1, Frame DEF IInv
<1>. QED
  BY <1>2, <1>3, <1>4 DEF IInv

(* What a query finds is a list of items.                                  *)
LEMMA FoundType ==
    ASSUME TypeOK, NEW s \in Found
    PROVE  s \in Seq(Item)
<1>1. PICK n \in 0..Page : s \in [1..n -> alive]
  BY DEF Found
<1>. QED
  BY <1>1 DEF TypeOK

(* The steps before the first request, and those that end an invocation    *)
(* without one, keep the types.                                            *)
LEMMA TypeKept ==
    ASSUME IInv, NEW p \in Proc,
           \/ ResolveName(p) \/ NameNotFound(p) \/ ResolveListed(p) \/ ResolveQuery(p)
           \/ Confirm(p) \/ NotConfirmed(p) \/ RequestRejected(p) \/ Stop(p)
           \/ GetGroup(p) \/ GroupGone(p) \/ FolderChange(p) \/ FolderRejected(p)
           \/ FolderAnswerLost(p)
    PROVE  TypeOK'
<1>. USE BulkAssumption DEF asked, account, Goto, Ended, Running
<1>0. TypeOK /\ Good(p)
  BY DEF IInv
<1>1. CASE ResolveName(p)
  BY <1>0, <1>1 DEF ResolveName, AfterName, TypeOK
<1>2. CASE NameNotFound(p)
  BY <1>0, <1>2 DEF NameNotFound, TypeOK
<1>3. CASE ResolveListed(p)
  <2>1. arg[p].list \in Seq(Item) /\ at[p] = 1
    BY <1>0, <1>3 DEF ResolveListed, TypeOK, Arg, Good, NothingYet
  <2>2. ids' \in [Proc -> Seq(Item)] /\ at' = at
    BY <1>0, <1>3, <2>1 DEF ResolveListed, TypeOK
  <2>3. \A q \in Proc : at'[q] \in 1..(Len(ids'[q]) + 1)
    BY <1>0, <1>3, <2>1, <2>2 DEF ResolveListed, TypeOK
  <2>. QED
    BY <1>0, <1>3, <2>2, <2>3 DEF ResolveListed, AfterIds, TypeOK
<1>4. CASE ResolveQuery(p)
  <2>1. PICK s \in Found : /\ ids' = [ids EXCEPT ![p] = s]
                           /\ IF s = <<>> THEN \E e \in NoMatch(p) : Goto(p, e)
                              ELSE Goto(p, AfterIds(p))
    BY <1>4 DEF ResolveQuery
  <2>2. s \in Seq(Item) /\ at[p] = 1
    BY <1>0, <1>4, FoundType DEF ResolveQuery, Good, NothingYet
  <2>3. ids' \in [Proc -> Seq(Item)] /\ at' = at
    BY <1>0, <1>4, <2>1, <2>2 DEF ResolveQuery, TypeOK
  <2>4. \A q \in Proc : at'[q] \in 1..(Len(ids'[q]) + 1)
    BY <1>0, <2>1, <2>2, <2>3 DEF TypeOK
  <2>5. pc' \in [Proc -> Ended \cup Running]
    BY <1>0, <2>1 DEF NoMatch, AfterIds, TypeOK
  <2>. QED
    BY <1>0, <1>4, <2>3, <2>4, <2>5 DEF ResolveQuery, TypeOK
<1>5. CASE Confirm(p)
  <2>1. {ids[p][k] : k \in DOMAIN ids[p]} \subseteq Item
    BY <1>0 DEF TypeOK
  <2>. QED
    BY <1>0, <1>5, <2>1 DEF Confirm, TypeOK
<1>6. CASE NotConfirmed(p)
  BY <1>0, <1>6 DEF NotConfirmed, TypeOK
<1>7. CASE RequestRejected(p)
  BY <1>0, <1>7 DEF RequestRejected, TypeOK
<1>8. CASE Stop(p)
  BY <1>0, <1>8 DEF Stop, TypeOK
<1>9. CASE GetGroup(p)
  <2>1. target[p] # System => names[target[p]] \in Name \cup {None}
    BY <1>0, <1>9 DEF GetGroup, TypeOK, Target
  <2>. QED
    BY <1>0, <1>9, <2>1 DEF GetGroup, TypeOK
<1>10. CASE GroupGone(p)
  BY <1>0, <1>10 DEF GroupGone, TypeOK
<1>11. CASE FolderChange(p) \/ FolderAnswerLost(p)
  <2>1. pc[p] = "folder" /\ cmd[p] \in Folder
    BY <1>0, <1>11 DEF FolderChange, FolderAnswerLost, FolderApply, Good, ListsItems
  <2>2. FolderName(p) \in Name \cup {None}
    <3>1. cmd[p] \in {"folder-create", "folder-rename", "folder-rm"}
      BY <2>1 DEF Folder
    <3>2. arg[p].new \in Name
      BY <1>0 DEF TypeOK, Arg
    <3>3. cmd[p] = "folder-create" => arg[p].name \in Name
      BY <1>0, <2>1 DEF Good, Accepted, ById
    <3>. QED
      BY <3>1, <3>2, <3>3 DEF FolderName
  <2>3. FolderApply(p)
    BY <1>11 DEF FolderChange, FolderAnswerLost
  <2>4. PICK l \in Label : names' = [names EXCEPT ![l] = FolderName(p)]
    BY <2>3, Zenon DEF FolderApply
  <2>5. names' \in [Label -> Name \cup {None}]
    BY <1>0, <2>2, <2>4 DEF TypeOK
  <2>6. UNCHANGED <<surface, cmd, arg, starts, alive, target, ids, at, touched, etag, agreed>>
    BY <2>3, Zenon DEF FolderApply
  <2>7. pc' \in [Proc -> Ended \cup Running] /\ faults' \in 0..MaxFaults
    <3>1. CASE FolderChange(p)
      BY <1>0, <3>1 DEF FolderChange, TypeOK
    <3>2. CASE FolderAnswerLost(p)
      BY <1>0, <3>2 DEF FolderAnswerLost, TypeOK
    <3>. QED
      BY <1>11, <3>1, <3>2
  <2>. QED
    BY <1>0, <2>5, <2>6, <2>7 DEF TypeOK
<1>12. CASE FolderRejected(p)
  BY <1>0, <1>12 DEF FolderRejected, TypeOK
<1>. QED
  BY <1>1, <1>2, <1>3, <1>4, <1>5, <1>6, <1>7, <1>8, <1>9, <1>10, <1>11, <1>12

(* A step of one invocation leaves the others where they are.              *)
LEMMA OthersStay ==
    ASSUME TypeOK, NEW p \in Proc, NEW q \in Proc \ {p},
           Step(p) \/ AnswerLost(p) \/ FolderAnswerLost(p) \/ Stop(p)
    PROVE  Same(q)
<1>. USE DEF asked, account, Goto, TypeOK, Same
<1>1. CASE ResolveName(p) \/ NameNotFound(p) \/ ResolveListed(p)
  BY <1>1 DEF ResolveName, NameNotFound, ResolveListed
<1>2. CASE ResolveQuery(p)
  <2>1. PICK s \in Found : /\ ids' = [ids EXCEPT ![p] = s]
                           /\ IF s = <<>> THEN \E e \in NoMatch(p) : Goto(p, e)
                              ELSE Goto(p, AfterIds(p))
    BY <1>2 DEF ResolveQuery
  <2>2. pc'[q] = pc[q]
    BY <2>1
  <2>. QED
    BY <1>2, <2>1, <2>2 DEF ResolveQuery
<1>3. CASE Confirm(p) \/ NotConfirmed(p) \/ RequestRejected(p) \/ Stop(p)
  BY <1>3 DEF Confirm, NotConfirmed, RequestRejected, Stop
<1>4. CASE Request(p) \/ AnswerLost(p)
  BY <1>4 DEF Request, AnswerLost, Apply
<1>5. CASE GetGroup(p) \/ GroupGone(p) \/ FolderRejected(p)
  BY <1>5 DEF GetGroup, GroupGone, FolderRejected
<1>6. CASE FolderChange(p) \/ FolderAnswerLost(p)
  <2>1. FolderApply(p) /\ \E l : Goto(p, l)
    BY <1>6 DEF FolderChange, FolderAnswerLost
  <2>2. UNCHANGED <<surface, cmd, arg, ids, at, touched, agreed>>
    BY <2>1, Zenon DEF FolderApply
  <2>3. pc'[q] = pc[q]
    BY <2>1
  <2>. QED
    BY <2>2, <2>3
<1>. QED
  BY <1>1, <1>2, <1>3, <1>4, <1>5, <1>6 DEF Step

(* Steps before the first request keep an invocation good.                 *)
LEMMA PrepareGood ==
    ASSUME TypeOK, NEW p \in Proc, Good(p),
           \/ ResolveName(p) \/ ResolveListed(p) \/ ResolveQuery(p) \/ Confirm(p)
           \/ GetGroup(p)
    PROVE  Good(p)'
<1>0. Accepted(p)'
  BY DEF Good, Accepted, ById, asked, ResolveName, ResolveListed, ResolveQuery, Confirm, GetGroup
<1>. USE <1>0 DEF asked, account, Goto, Good, Consent, Erases, Asks
<1>. DEFINE Rest == /\ UNCHANGED <<surface, cmd, arg>>
                    /\ at'[p] = 1 /\ touched'[p] = {}
<1>1. CASE ResolveName(p)
  <2>1. Rest /\ pc'[p] = AfterName(p) /\ ids'[p] = ids[p]
    BY <1>1 DEF ResolveName, TypeOK, NothingYet, Running
  <2>2. /\ pc'[p] \in {"ids", "get", "folder"}
        /\ pc'[p] = "ids" <=> cmd[p] \notin Folder
    BY <2>1 DEF AfterName
  <2>. QED
    BY <2>1, <2>2 DEF NothingYet, ListsItems, MayRequest, Prefix, Reports, Elems, TypeOK
<1>2. CASE ResolveListed(p) \/ ResolveQuery(p)
  <2>1. Rest /\ cmd[p] \notin Folder /\ agreed' = agreed
    BY <1>2 DEF ResolveListed, ResolveQuery, TypeOK, NothingYet, Running, ListsItems
  <2>2. \/ /\ ids'[p] \in Seq(Item) /\ ids'[p] # <<>>
           /\ pc'[p] = AfterIds(p)
        \/ /\ ids'[p] = <<>>
           /\ pc'[p] \in {"done", "refused"}
    <3>1. CASE ResolveListed(p)
      <4>1. arg[p].list \in Seq(Item) \ {<<>>}
        BY BulkAssumption DEF TypeOK, Arg
      <4>. QED
        BY <3>1, <4>1 DEF ResolveListed, TypeOK
    <3>2. CASE ResolveQuery(p)
      <4>1. PICK s \in Found : /\ ids' = [ids EXCEPT ![p] = s]
                               /\ IF s = <<>> THEN \E e \in NoMatch(p) : Goto(p, e)
                                  ELSE Goto(p, AfterIds(p))
        BY <3>2 DEF ResolveQuery
      <4>2. s \in Seq(Item)
        BY FoundType
      <4>3. ids'[p] = s
        BY <4>1 DEF TypeOK
      <4>4. CASE s = <<>>
        <5>1. pc'[p] \in {"done", "refused"}
          BY <4>1, <4>4 DEF NoMatch, TypeOK
        <5>. QED
          BY <4>3, <4>4, <5>1
      <4>5. CASE s # <<>>
        <5>1. pc'[p] = AfterIds(p)
          BY <4>1, <4>5 DEF TypeOK
        <5>. QED
          BY <4>2, <4>3, <4>5, <5>1
      <4>. QED
        BY <4>4, <4>5
    <3>. QED
      BY <1>2, <3>1, <3>2
  <2>3. CASE ids'[p] = <<>> /\ pc'[p] \in {"done", "refused"}
    BY <2>1, <2>3 DEF NothingYet, ListsItems, MayRequest, Prefix, Reports, Elems, Running
  <2>4. CASE ids'[p] \in Seq(Item) /\ ids'[p] # <<>> /\ pc'[p] = AfterIds(p)
    <3>1. /\ pc'[p] \in {"done", "confirm", "request"}
          /\ (pc'[p] = "done") = arg[p].dry
          /\ pc'[p] = "request" => ~Asks(surface, cmd[p])
      BY <2>4 DEF AfterIds, TypeOK, Arg
    <3>2. 1 \in DOMAIN ids'[p] /\ \A k \in DOMAIN ids'[p] : ~(k < 1)
      BY <2>4
    <3>. QED
      BY <2>1, <2>4, <3>1, <3>2
      DEF NothingYet, ListsItems, MayRequest, Prefix, Reports, Running
  <2>. QED
    BY <2>2, <2>3, <2>4
<1>3. CASE Confirm(p)
  <2>1. Rest /\ ids' = ids /\ agreed'[p] = Elems(ids[p])
    BY <1>3 DEF Confirm, TypeOK, NothingYet, Running, Elems
  <2>2. pc'[p] = IF cmd[p] \in Folder THEN "name" ELSE "request"
    BY <1>3 DEF Confirm, TypeOK
  <2>3. ids[p] # <<>> => 1 \in DOMAIN ids[p]
    BY DEF TypeOK
  <2>4. ~arg[p].dry /\ (cmd[p] \in Folder \/ ids[p] # <<>>)
    BY <1>3 DEF Confirm, MayRequest
  <2>5. \A k \in DOMAIN ids[p] : ~(k < 1)
    BY DEF TypeOK
  <2>. QED
    BY <2>1, <2>2, <2>3, <2>4, <2>5
    DEF NothingYet, ListsItems, MayRequest, Prefix, Reports, Elems, Running
<1>4. CASE GetGroup(p)
  <2>1. Rest /\ pc'[p] = "folder" /\ ids' = ids /\ cmd[p] \in Folder
    BY <1>4 DEF GetGroup, TypeOK, NothingYet, ListsItems, Running
  <2>. QED
    BY <2>1 DEF NothingYet, ListsItems, MayRequest, Prefix, Reports, Elems
<1>. QED
  BY <1>1, <1>2, <1>3, <1>4

(* The steps that end an invocation without a request keep it good: what   *)
(* was done before is a prefix still.                                      *)
LEMMA EndGood ==
    ASSUME TypeOK, NEW p \in Proc, Good(p),
           \/ NameNotFound(p) \/ NotConfirmed(p) \/ RequestRejected(p) \/ Stop(p)
           \/ GroupGone(p) \/ FolderRejected(p) \/ FolderChange(p) \/ FolderAnswerLost(p)
    PROVE  Good(p)'
<1>. DEFINE Rest == UNCHANGED <<surface, cmd, arg, ids, at, touched, agreed>>
<1>1. Rest /\ pc[p] # "idle"
  <2>1. CASE FolderChange(p) \/ FolderAnswerLost(p)
    <3>1. FolderApply(p)
      BY <2>1 DEF FolderChange, FolderAnswerLost
    <3>. QED
      BY <3>1, Zenon DEF FolderApply, asked
  <2>. QED
    BY <2>1 DEF NameNotFound, NotConfirmed, RequestRejected, Stop, GroupGone,
       FolderRejected, Running, asked
<1>2. \/ pc'[p] \in {"refused", "failed"}
      \/ pc'[p] = "done" /\ pc[p] = "folder"
  BY DEF NameNotFound, NotConfirmed, RequestRejected, Stop, GroupGone, FolderRejected,
     FolderChange, FolderAnswerLost, FolderApply, Goto, TypeOK
<1>3. pc'[p] = "done" => ids[p] = <<>> /\ touched[p] = {}
  BY <1>2 DEF Good, ListsItems, NothingYet, Running
<1>4. Elems(<<>>) = {}
  BY DEF Elems
<1>5. ChunkEnd(p)' = ChunkEnd(p)
  BY <1>1 DEF ChunkEnd
<1>6. Prefix(p)'
  BY <1>1, <1>5 DEF Good, Prefix, Reached, Elems
<1>. QED
  BY <1>1, <1>2, <1>3, <1>4, <1>6 DEF Good, Accepted, ById, NothingYet, ListsItems,
     MayRequest, Reports, Consent, Running, Erases

(* A request takes the list one step on, whether its answer comes or not.  *)
LEMMA RequestGood ==
    ASSUME TypeOK, NEW p \in Proc, Good(p), Request(p) \/ AnswerLost(p)
    PROVE  Good(p)' /\ TypeOK'
<1>. DEFINE e == ChunkEnd(p)
<1>1. /\ pc[p] = "request" /\ cmd[p] \notin Folder /\ ~arg[p].dry
      /\ at[p] \in DOMAIN ids[p]
      /\ Asks(surface, cmd[p]) => Elems(ids[p]) \subseteq agreed[p]
  BY DEF Request, AnswerLost, Good, ListsItems, MayRequest
<1>2. /\ UNCHANGED <<surface, cmd, arg, starts, names, target, ids, etag, agreed>>
      /\ touched' = [touched EXCEPT ![p] = @ \cup Chunk(p)]
      /\ alive' \subseteq Item
  BY DEF Request, AnswerLost, Apply, asked, TypeOK
<1>3. /\ e \in at[p]..Len(ids[p])
      /\ ids[p] \in Seq(Item) /\ DOMAIN ids[p] = 1..Len(ids[p]) /\ Len(ids[p]) \in Nat
  BY <1>1, ChunkEndType DEF TypeOK
<1>4. Chunk(p) \subseteq Elems(ids[p]) /\ Elems(ids[p]) \subseteq Item
  <2>1. at[p] \in Nat /\ at[p]..e \subseteq DOMAIN ids[p]
    BY <1>1, <1>3 DEF TypeOK
  <2>2. Chunk(p) \subseteq Elems(ids[p])
    BY <2>1 DEF Chunk, Elems
  <2>3. Elems(ids[p]) \subseteq Item
    BY <1>3 DEF Elems
  <2>. QED
    BY <2>2, <2>3
<1>5. \/ /\ at' = [at EXCEPT ![p] = e + 1]
         /\ faults' = faults
         /\ pc' = [pc EXCEPT ![p] = IF e < Len(ids[p]) THEN "request" ELSE "done"]
      \/ /\ at' = at
         /\ faults' \in 0..MaxFaults
         /\ pc' = [pc EXCEPT ![p] = "failed"]
  BY BulkAssumption DEF Request, AnswerLost, More, Goto, TypeOK
<1>. HIDE DEF e
<1>6. TypeOK'
  <2>1. touched' \in [Proc -> SUBSET Item]
    BY <1>2, <1>4 DEF TypeOK
  <2>2. at' \in [Proc -> Nat] /\ \A q \in Proc : at'[q] \in 1..(Len(ids'[q]) + 1)
    <3>1. e \in Nat /\ e + 1 \in 1..(Len(ids[p]) + 1)
      BY <1>1, <1>3
    <3>2. /\ at \in [Proc -> Nat] /\ ids' = ids
          /\ \A q \in Proc : at[q] \in 1..(Len(ids[q]) + 1)
      BY <1>2 DEF TypeOK
    <3>3. at' = at \/ at' = [at EXCEPT ![p] = e + 1]
      BY <1>5
    <3>. QED
      BY <3>1, <3>2, <3>3
  <2>3. pc' \in [Proc -> Ended \cup Running] /\ faults' \in 0..MaxFaults
    BY <1>5 DEF TypeOK, Ended, Running
  <2>. QED
    BY <1>2, <2>1, <2>2, <2>3 DEF TypeOK
<1>7. /\ touched'[p] = touched[p] \cup Chunk(p)
      /\ touched'[p] \subseteq Elems(ids[p])
      /\ touched'[p] \subseteq {ids[p][k] : k \in {j \in DOMAIN ids[p] : j <= e}}
  <2>1. touched[p] \subseteq {ids[p][k] : k \in {j \in DOMAIN ids[p] : j <= e}}
    BY <1>1 DEF Good, Prefix, Reached, e
  <2>2. Chunk(p) \subseteq {ids[p][k] : k \in {j \in DOMAIN ids[p] : j <= e}}
    BY <1>3, <1>1 DEF Chunk, e
  <2>. QED
    BY <1>2, <1>4, <2>1, <2>2 DEF TypeOK, Good, Prefix
<1>8. \A k \in DOMAIN ids[p] : k <= e => ids[p][k] \in touched'[p]
  <2>. SUFFICES ASSUME NEW k \in DOMAIN ids[p], k <= e
                PROVE  ids[p][k] \in touched'[p]
    OBVIOUS
  <2>1. CASE k < at[p]
    BY <1>7, <2>1 DEF Good, Prefix
  <2>2. CASE k >= at[p]
    <3>1. k \in at[p]..e
      BY <1>1, <1>3, <2>2
    <3>2. ids[p][k] \in Chunk(p)
      BY <3>1 DEF Chunk, e
    <3>. QED
      BY <1>7, <3>2
  <2>. QED
    BY <1>1, <1>3, <2>1, <2>2
<1>9. Prefix(p)'
  <2>1. CASE at'[p] = e + 1
    <3>1. ChunkEnd(p)' \in Nat /\ e <= ChunkEnd(p)'
      BY <1>1, <1>2, <2>1, ChunkEndGrows DEF e
    <3>2. touched'[p] \subseteq {ids[p][k] : k \in {j \in DOMAIN ids[p] : j <= ChunkEnd(p)'}}
      BY <1>3, <1>7, <3>1
    <3>3. \A k \in DOMAIN ids[p] : k < at'[p] => k <= e
      BY <1>3, <2>1
    <3>. QED
      BY <1>2, <1>7, <1>8, <3>2, <3>3 DEF Prefix, Reached, Elems
  <2>2. CASE at' = at
    <3>1. ChunkEnd(p)' = e
      BY <1>2, <2>2 DEF ChunkEnd, e
    <3>2. \A k \in DOMAIN ids[p] : k < at[p] => k <= e
      BY <1>1, <1>3
    <3>. QED
      BY <1>2, <1>7, <1>8, <2>2, <3>1, <3>2 DEF Prefix, Reached, Elems
  <2>. QED
    BY <1>5, <2>1, <2>2 DEF TypeOK
<1>10. Consent(p)'
  BY <1>1, <1>2, <1>7 DEF Consent, Asks, Erases
<1>11. pc'[p] = "done" => touched'[p] = Elems(ids[p])
  <2>. SUFFICES ASSUME pc'[p] = "done" PROVE Elems(ids[p]) \subseteq touched'[p]
    BY <1>7
  <2>1. ~(e < Len(ids[p]))
    BY <1>5 DEF TypeOK
  <2>2. e = Len(ids[p])
    BY <1>1, <1>3, <2>1
  <2>. QED
    BY <1>3, <1>8, <2>2 DEF Elems
<1>12. pc'[p] = "request" => at'[p] \in DOMAIN ids[p]
  BY <1>1, <1>3, <1>5 DEF TypeOK
<1>13. pc'[p] \in {"request", "done", "failed"}
  BY <1>5 DEF TypeOK
<1>14. Good(p)'
  BY <1>1, <1>2, <1>9, <1>10, <1>11, <1>12, <1>13 DEF Good, Accepted, ById, NothingYet,
     ListsItems, MayRequest, Reports, Asks, Erases, Elems, Running
<1>. QED
  BY <1>6, <1>14

(* Every step keeps every invocation good.                                 *)
LEMMA StepGood ==
    ASSUME IInv, [Next]_vars
    PROVE  IInv'
<1>. USE DEF IInv
<1>1. CASE UNCHANGED vars
  <2>1. TypeOK'
    BY <1>1 DEF vars, account, TypeOK
  <2>2. \A q \in Proc : Same(q)
    BY <1>1 DEF vars, Same
  <2>. QED
    BY <2>1, <2>2, Frame
<1>2. ASSUME NEW p \in Proc, NEW v \in Invocations, v.on = surface,
             Start(p, v.cmd, v.arg)
      PROVE  IInv'
  <2>1. /\ v.cmd \in Command /\ v.arg \in Arg
        /\ v.arg.name \in Name \/ ById(surface, v.cmd)
    BY <1>2 DEF Invocations, Accepts
  <2>2. starts' \in 0..MaxStarts
    BY <1>2, BulkAssumption DEF Start, TypeOK
  <2>. QED
    BY <1>2, <2>1, <2>2, BeginKeeps DEF Start
<1>3. ASSUME NEW p \in Proc, Again(p)
      PROVE  IInv'
  <2>1. /\ cmd[p] \in Command /\ arg[p] \in Arg /\ starts' \in 0..MaxStarts
        /\ cmd' = [cmd EXCEPT ![p] = cmd[p]] /\ arg' = [arg EXCEPT ![p] = arg[p]]
    BY <1>3 DEF Again, TypeOK
  <2>2. arg[p].name \in Name \/ ById(surface, cmd[p])
    BY <1>3 DEF Again, Good, Accepted
  <2>. QED
    BY <1>3, <2>1, <2>2, BeginKeeps DEF Again
<1>4. ASSUME NEW p \in Proc, Step(p) \/ AnswerLost(p) \/ FolderAnswerLost(p) \/ Stop(p)
      PROVE  IInv'
  <2>1. \A q \in Proc \ {p} : Good(q)'
    BY <1>4, OthersStay, Frame
  <2>2. CASE Request(p) \/ AnswerLost(p)
    BY <2>1, <2>2, RequestGood
  <2>3. CASE ~(Request(p) \/ AnswerLost(p))
    <3>1. TypeOK'
      BY <1>4, <2>3, TypeKept DEF Step
    <3>2. Good(p)'
      BY <1>4, <2>3, PrepareGood, EndGood DEF Step
    <3>. QED
      BY <2>1, <3>1, <3>2
  <2>. QED
    BY <2>2, <2>3
<1>. QED
  BY <1>1, <1>2, <1>3, <1>4 DEF Next

(* IInv holds in every state of every behaviour.                           *)
THEOREM InductiveInvariant == Spec => []IInv
<1>1. Init => IInv
  BY InitGood
<1>2. IInv /\ [Next]_vars => IInv'
  BY StepGood
<1>. QED
  BY <1>1, <1>2, PTL DEF Spec

(* Every variable keeps its type, the place of an invocation in its list   *)
(* of IDs (the loops of ModifyMessages, chunkIDs and setTrashed) included. *)
THEOREM TypeCorrect == Spec => []TypeOK
<1>1. IInv => TypeOK
  BY DEF IInv
<1>. QED
  BY <1>1, InductiveInvariant, PTL

(* The count printed by bulk.Result is true, whatever other invocations do *)
(* to the same account and however many there are.                         *)
THEOREM ReportHonestHolds == Spec => []ReportHonest
<1>1. IInv => ReportHonest
  BY DEF IInv, Good, Reports, ReportHonest, Elems
<1>. QED
  BY <1>1, InductiveInvariant, PTL

(* A command that breaks off, at an error, a lost answer or an interrupt,  *)
(* has done a prefix of its list.                                          *)
THEOREM FailureIsPrefixHolds == Spec => []FailureIsPrefix
<1>1. IInv => FailureIsPrefix
  BY DEF IInv, Good, Prefix, FailureIsPrefix
<1>. QED
  BY <1>1, InductiveInvariant, PTL

(* Nothing is erased for good without the agreement of the user of that    *)
(* invocation (confirmPermanent, confirm, confirmDelete).                  *)
THEOREM ErasedWithConsentHolds == Spec => []ErasedWithConsent
<1>1. IInv => ErasedWithConsent
  BY DEF IInv, Good, Consent, ErasedWithConsent
<1>. QED
  BY <1>1, InductiveInvariant, PTL

=============================================================================
