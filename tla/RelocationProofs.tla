-------------------------- MODULE RelocationProofs --------------------------
(***************************************************************************)
(* Proofs about Relocation for any profiles, scopes and clients, any       *)
(* machine to start with and any number of invocations and faults.         *)
(***************************************************************************)
EXTENDS Relocation, TLAPS

(* What is computed from configurations is a configuration.                *)
LEMMA ConfigType ==
    ASSUME NEW c \in Config
    PROVE  /\ ActiveOf(c) \in Profile
           /\ Defaulted(c) \in Config /\ Defaulted(c).ref \in Profile
           /\ Saved(c) \in Config
           /\ \A q \in Profile :
                 /\ Entry(c, q) \in Owned
                 /\ [c EXCEPT !.ref = q] \in Config
                 /\ \A o \in Owned :
                       /\ [c EXCEPT !.own[q] = o] \in Config
                       /\ [c EXCEPT !.own[q] = o, !.top = NoneOwned] \in Config
<1>1. /\ c.ref \in Profile \cup {None}
      /\ c.top \in Owned
      /\ c.own \in [Profile -> Owned \cup {None}]
  BY DEF Config
<1>2. NoneOwned \in Owned
  BY DEF NoneOwned, Owned
<1>3. ActiveOf(c) \in Profile
  BY <1>1, RelocationAssumption DEF ActiveOf
<1>4. ASSUME NEW q \in Profile
      PROVE  Entry(c, q) \in Owned
  BY <1>1, <1>2 DEF Entry
<1>5. ASSUME NEW q \in Profile
      PROVE  Attach(c, q) \in [Profile -> Owned \cup {None}]
  <2>1. [client |-> IF Entry(c, q).client = None THEN c.top.client ELSE Entry(c, q).client,
         scopes |-> IF Entry(c, q).scopes = None THEN c.top.scopes ELSE Entry(c, q).scopes]
        \in Owned
    BY <1>1, <1>4 DEF Owned
  <2>. QED
    BY <1>1, <2>1 DEF Attach
<1>6. Defaulted(c) \in Config /\ Defaulted(c).ref \in Profile
  BY <1>3, <1>5 DEF Defaulted, Config
<1>7. Saved(c) \in Config
  BY <1>2, <1>3, <1>5 DEF Saved, Config
<1>8. ASSUME NEW q \in Profile
      PROVE  /\ [c EXCEPT !.ref = q] \in Config
             /\ \A o \in Owned :
                   /\ [c EXCEPT !.own[q] = o] \in Config
                   /\ [c EXCEPT !.own[q] = o, !.top = NoneOwned] \in Config
  BY <1>1, <1>2 DEF Config
<1>. QED
  BY <1>3, <1>4, <1>6, <1>7, <1>8

(* A configuration that is loaded is one, with an active profile.          *)
LEMMA LoadType ==
    ASSUME TypeOK, Load # Bad
    PROVE  /\ ReadConfig \in Config /\ Load = Defaulted(ReadConfig)
           /\ Load \in Config /\ Load.ref \in Profile
<1>1. ReadConfig # Bad /\ Load = Defaulted(ReadConfig)
  BY DEF Load, LoadFails
<1>2. DefaultConfig \in Config
  BY DEF DefaultConfig, Config, NoneOwned, Owned
<1>3. ReadConfig \in Config
  <2>1. /\ yml["new"] \in Config \cup {None, Bad}
        /\ FirstConfig("old") \in Config \cup {None, Bad}
        /\ json["new"] \in Config \cup {None, Bad}
    BY DEF TypeOK, FileState, Dir, FirstConfig
  <2>2. Kind = "oldOnly" => FirstConfig("old") # None
    BY DEF Kind
  <2>. QED
    BY <1>1, <1>2, <2>1, <2>2 DEF ReadConfig
<1>. QED
  BY <1>1, <1>3, ConfigType

(* The order of the copy: the two configuration files, then the clients.   *)
LEMMA CopyOrderType ==
    /\ Len(CopyOrder) \in Nat
    /\ Len(CopyOrder) > Len(ClearOrder)
    /\ DOMAIN CopyOrder = 1..Len(CopyOrder)
    /\ \A k \in DOMAIN CopyOrder : CopyOrder[k] \in {"yml", "json"} \cup ClientFile
    /\ \A k \in DOMAIN CopyOrder : k >= FirstManaged => CopyOrder[k] \in Profile
<1>1. Profiles \in Seq(Profile) /\ Len(Profiles) \in Nat
  BY RelocationAssumption
<1>2. Len(Profiles) # 0
  BY <1>1, RelocationAssumption DEF Profile
<1>3. \A k \in 1..Len(Profiles) : Profiles[k] \in Profile
  BY DEF Profile
<1>4. <<"json", "yml", "credentials", "client">> \in Seq({"json", "yml", "credentials", "client"})
  OBVIOUS
<1>. QED
  BY <1>1, <1>2, <1>3, <1>4 DEF CopyOrder, ClearOrder, ClientFile, FirstManaged

(* The files that a relocation copies.                                     *)
Copied == {"yml", "json"} \cup ClientFile

(* A file is configuration or a client.                                    *)
LEMMA ContentsType ==
    ASSUME TypeOK, NEW d \in Dir, NEW n \in Copied
    PROVE  /\ n \in ClientFile => n \notin {"yml", "json"}
           /\ Contents(d, n) \in IF n \in {"yml", "json"} THEN FileState
                                 ELSE App \cup {None}
<1>1. n \in ClientFile => n \notin {"yml", "json"}
  BY RelocationAssumption DEF ClientFile
<1>2. /\ n = "yml" => Contents(d, n) = yml[d]
      /\ n = "json" => Contents(d, n) = json[d]
      /\ n \in ClientFile => Contents(d, n) = client[d][n]
  BY <1>1 DEF Contents
<1>. QED
  BY <1>1, <1>2 DEF TypeOK, Copied

(* A rename writes one file of the new directory.                          *)
LEMMA RenameEffect ==
    ASSUME TypeOK, NEW p \in Proc, CopyRename(p), Copying(p) \in Copied
    PROVE  \A n \in Copied :
              /\ Contents("old", n)' = Contents("old", n)
              /\ Contents("new", n)' = IF n = Copying(p) THEN buf[p] ELSE Contents("new", n)
<1>. SUFFICES ASSUME NEW n \in Copied
              PROVE  /\ Contents("old", n)' = Contents("old", n)
                     /\ Contents("new", n)' = IF n = Copying(p) THEN buf[p]
                                             ELSE Contents("new", n)
  OBVIOUS
<1>1. \A m \in Copied : m \in ClientFile => m \notin {"yml", "json"}
  BY ContentsType DEF Dir
<1>2. \A d \in Dir :
         /\ n = "yml" => Contents(d, n) = yml[d] /\ Contents(d, n)' = yml'[d]
         /\ n = "json" => Contents(d, n) = json[d] /\ Contents(d, n)' = json'[d]
         /\ n \in ClientFile => /\ Contents(d, n) = client[d][n]
                              /\ Contents(d, n)' = client'[d][n]
  BY <1>1 DEF Contents
<1>3. /\ yml' = IF Copying(p) = "yml" THEN [yml EXCEPT !["new"] = buf[p]] ELSE yml
      /\ json' = IF Copying(p) = "json" THEN [json EXCEPT !["new"] = buf[p]] ELSE json
      /\ client' = IF Copying(p) \in ClientFile
                   THEN [client EXCEPT !["new"][Copying(p)] = buf[p]] ELSE client
  BY DEF CopyRename
<1>4. CASE n = "yml"
  BY <1>2, <1>3, <1>4 DEF TypeOK, Dir
<1>5. CASE n = "json"
  BY <1>2, <1>3, <1>5 DEF TypeOK, Dir
<1>6. CASE n \in ClientFile
  BY <1>1, <1>2, <1>3, <1>6 DEF TypeOK, Dir, Copied
<1>. QED
  BY <1>4, <1>5, <1>6 DEF Copied

(* Contents is a file of one of the two directories.                       *)
LEMMA ContentsOf ==
    ASSUME TypeOK, NEW d \in Dir
    PROVE  /\ Contents(d, "yml") = yml[d] /\ Contents(d, "json") = json[d]
           /\ \A n \in ClientFile : Contents(d, n) = client[d][n]
BY RelocationAssumption DEF Contents, ClientFile

(* The initial states.                                                     *)
LEMMA InitTyped == Init => TypeOK
<1>. SUFFICES ASSUME Init PROVE TypeOK
  OBVIOUS
<1>1. yml \in [Dir -> FileState]
  <2>1. PICK c \in InitYml : yml = [d \in Dir |-> IF d = "old" THEN c[1] ELSE c[2]]
    BY DEF Init
  <2>2. c[1] \in FileState /\ c[2] \in FileState
    BY RelocationAssumption
  <2>. QED
    BY <2>1, <2>2
<1>2. json \in [Dir -> FileState]
  <2>1. PICK c \in InitJson : json = [d \in Dir |-> IF d = "old" THEN c[1] ELSE c[2]]
    BY DEF Init
  <2>2. c[1] \in FileState /\ c[2] \in FileState
    BY RelocationAssumption
  <2>. QED
    BY <2>1, <2>2
<1>3. client \in [Dir -> [ClientFile -> App \cup {None}]]
  BY RelocationAssumption DEF Init
<1>4. 1 \in 1..(Len(CopyOrder) + 1)
  BY CopyOrderType
<1>5. TypeOK
  BY <1>1, <1>2, <1>3, <1>4, RelocationAssumption
  DEF Init, TypeOK, Ended, Running, Op, FileState
<1>. QED
  BY <1>5

(* Every step keeps the types.                                             *)
LEMMA StepTyped ==
    ASSUME TypeOK, [Next]_vars
    PROVE  TypeOK'
<1>. USE DEF files, Goto, Copying
<1>0. TypeOK
  OBVIOUS
<1>1. CASE UNCHANGED vars
  BY <1>0, <1>1 DEF vars, TypeOK, Copyable
<1>2. ASSUME NEW p \in Proc, NEW o \in Ops,
             NEW q \in IF o = "use" THEN Profile ELSE {DefaultProfile}, Start(p, o, q)
      PROVE  TypeOK'
  <2>1. o \in Op /\ q \in Profile /\ 1 \in 1..(Len(CopyOrder) + 1)
    BY CopyOrderType, RelocationAssumption
  <2>2. pc' \in [Proc -> Ended \cup Running] /\ pc'[p] # "rename"
    BY <1>0, <1>2, <2>1 DEF Start, TypeOK, Op, Running
  <2>3. /\ op' \in [Proc -> Op] /\ arg' \in [Proc -> Profile]
        /\ next' \in [Proc -> 1..(Len(CopyOrder) + 1)]
        /\ starts' \in 0..MaxStarts
        /\ listed' \in [Proc -> SUBSET Copied]
        /\ UNCHANGED <<yml, json, client, buf, faults>>
        /\ \A r \in Proc \ {p} : pc'[r] = pc[r] /\ next'[r] = next[r]
    BY <1>0, <1>2, <2>1, RelocationAssumption DEF Start, TypeOK, Copied
  <2>4. TypeOK'
    BY <1>0, <2>2, <2>3 DEF TypeOK, Copyable, Copied
  <2>. QED
    BY <2>4
<1>3. ASSUME NEW p \in Proc,
             GateConflict(p) \/ GatePasses(p) \/ CopyDone(p) \/ LoadError(p) \/
             InitKeeps(p) \/ ClearDone(p)
      PROVE  TypeOK'
  <2>1. PICK l \in (Ended \cup Running) \ {"rename"} :
           /\ pc' = [pc EXCEPT ![p] = l]
           /\ UNCHANGED <<yml, json, client, op, arg, next, listed, buf, starts, faults>>
    BY <1>3 DEF GateConflict, GatePasses, CopyDone, LoadError, InitKeeps, ClearDone,
       Ended, Running
  <2>. QED
    BY <1>0, <2>1 DEF TypeOK, Copyable
<1>4. ASSUME NEW p \in Proc, CopyNext(p), next[p] \in DOMAIN CopyOrder
      PROVE  /\ pc' \in [Proc -> Ended \cup Running] /\ pc'[p] # "rename"
             /\ next' \in [Proc -> 1..(Len(CopyOrder) + 1)]
             /\ \A q \in Proc \ {p} : pc'[q] = pc[q] /\ next'[q] = next[q]
  BY <1>0, <1>4, CopyOrderType DEF CopyNext, TypeOK, Running
<1>5. ASSUME NEW p \in Proc, CopyList(p)
      PROVE  TypeOK'
  <2>1. listed' \in [Proc -> SUBSET Copied]
    BY <1>0, <1>5 DEF CopyList, TypeOK, Copied, ClientFile
  <2>2. /\ pc' = [pc EXCEPT ![p] = "copy"]
        /\ UNCHANGED <<yml, json, client, op, arg, next, buf, starts, faults>>
    BY <1>5 DEF CopyList
  <2>. QED
    BY <1>0, <2>1, <2>2 DEF TypeOK, Copyable, Copied, Running
<1>12. ASSUME NEW p \in Proc, CopySkip(p)
       PROVE  TypeOK'
  <2>1. next[p] \in DOMAIN CopyOrder /\ CopyNext(p)
    BY <1>0, <1>12, CopyOrderType DEF CopySkip, TypeOK
  <2>2. UNCHANGED <<yml, json, client, op, arg, listed, buf, starts, faults>>
    BY <1>12 DEF CopySkip
  <2>. QED
    BY <1>0, <1>4, <2>1, <2>2 DEF TypeOK, Copyable
<1>13. ASSUME NEW p \in Proc, CopyRead(p)
       PROVE  TypeOK'
  <2>. DEFINE c == Contents("old", Copying(p))
  <2>1. next[p] \in DOMAIN CopyOrder /\ Copying(p) \in Copied /\ ~(next[p] > Len(CopyOrder))
    BY <1>0, <1>13, CopyOrderType DEF CopyRead, TypeOK, Copied
  <2>2. c \in IF Copying(p) \in {"yml", "json"} THEN FileState ELSE App \cup {None}
    BY <1>0, <2>1, ContentsType DEF Dir
  <2>3. /\ buf' = [buf EXCEPT ![p] = c]
        /\ pc' = [pc EXCEPT ![p] = IF c # None THEN "rename" ELSE "failed"]
        /\ UNCHANGED <<yml, json, client, op, arg, next, listed, starts, faults>>
    BY <1>13 DEF CopyRead, Present
  <2>. HIDE DEF c
  <2>4. c # None => c \in Copyable(p)
    BY <1>0, <2>1, <2>2, ContentsType DEF Copyable, Copied, Dir
  <2>5. buf' \in [Proc -> FileState \cup App]
    <3>1. None \in FileState
      BY DEF FileState
    <3>. QED
      BY <1>0, <2>2, <2>3, <3>1 DEF TypeOK
  <2>6. pc' \in [Proc -> Ended \cup Running]
    BY <1>0, <2>3 DEF TypeOK, Ended, Running
  <2>7. ASSUME NEW q \in Proc, pc'[q] = "rename"
        PROVE  buf'[q] \in Copyable(q)'
    <3>1. Copyable(q)' = Copyable(q)
      BY <2>3 DEF Copyable
    <3>2. CASE q = p
      BY <1>0, <2>3, <2>4, <2>7, <3>1, <3>2 DEF TypeOK
    <3>3. CASE q # p
      BY <1>0, <2>3, <2>7, <3>1, <3>3 DEF TypeOK
    <3>. QED
      BY <3>2, <3>3
  <2>. QED
    BY <1>0, <2>3, <2>5, <2>6, <2>7 DEF TypeOK
<1>6. ASSUME NEW p \in Proc, CopyRename(p)
      PROVE  TypeOK'
  <2>. DEFINE n == Copying(p)
  <2>1. /\ next[p] \in DOMAIN CopyOrder /\ n \in Copied
        /\ buf[p] \in IF n \in ClientFile THEN App ELSE FileState \ {None}
    <3>1. buf[p] \in Copyable(p)
      BY <1>0, <1>6 DEF CopyRename, TypeOK
    <3>. QED
      BY <1>0, <3>1, CopyOrderType DEF Copyable, TypeOK, Copied
  <2>2. n \in ClientFile => n \notin {"yml", "json"}
    BY <1>0, <2>1, ContentsType DEF Dir
  <2>3. /\ yml' = IF n = "yml" THEN [yml EXCEPT !["new"] = buf[p]] ELSE yml
        /\ json' = IF n = "json" THEN [json EXCEPT !["new"] = buf[p]] ELSE json
        /\ client' = IF n \in ClientFile
                     THEN [client EXCEPT !["new"][n] = buf[p]] ELSE client
        /\ buf' = [buf EXCEPT ![p] = None]
        /\ CopyNext(p)
        /\ UNCHANGED <<op, arg, listed, starts, faults>>
    BY <1>6 DEF CopyRename
  <2>. HIDE DEF n
  <2>4. /\ yml' \in [Dir -> FileState]
        /\ json' \in [Dir -> FileState]
        /\ client' \in [Dir -> [ClientFile -> App \cup {None}]]
    BY <1>0, <2>1, <2>2, <2>3 DEF TypeOK, Copied
  <2>. QED
    BY <1>0, <1>4, <2>1, <2>3, <2>4 DEF TypeOK, Copyable, FileState
<1>7. ASSUME NEW p \in Proc, NEW token \in BOOLEAN, Migrate(p, token)
      PROVE  TypeOK'
  <2>1. Load \in Config /\ Load.ref \in Profile /\ ActiveEntry(Load) \in Owned
    BY <1>0, <1>7, LoadType, ConfigType DEF Migrate, ActiveEntry
  <2>. DEFINE old == <<"new", "credentials">>
              moves == client["new"]["credentials"] # None
              target == IF ActiveEntry(Load).client # None THEN ActiveEntry(Load).client
                        ELSE <<"new", "client">>
              entry == [ActiveEntry(Load) EXCEPT !.client = target]
              out == IF moves THEN [Load EXCEPT !.own[Load.ref] = entry] ELSE Load
  <2>2. target \in ClientPath
    BY <2>1 DEF Owned, ClientPath, Dir, ClientFile
  <2>3. entry \in Owned
    BY <2>1, <2>2 DEF Owned
  <2>4. Saved(out) \in FileState
    BY <2>1, <2>3, ConfigType DEF FileState
  <2>5. yml' \in {yml, [yml EXCEPT !["new"] = Saved(out)]}
    BY <1>7 DEF Migrate
  <2>6. json' \in {json, [json EXCEPT !["new"] = None]}
    BY <1>7 DEF Migrate
  <2>7. client' = [d \in Dir |-> [n \in ClientFile |->
                 IF ~moves \/ target = old THEN client[d][n]
                 ELSE IF <<d, n>> = old THEN None
                 ELSE IF <<d, n>> = target /\ client[d][n] = None
                      THEN client["new"]["credentials"]
                 ELSE client[d][n]]]
    BY <1>7 DEF Migrate
  <2>8. /\ pc' = [pc EXCEPT ![p] = AfterMigrate(p)]
        /\ UNCHANGED <<op, arg, next, listed, buf, starts, faults>>
    BY <1>7 DEF Migrate
  <2>. HIDE DEF old, moves, target, out
  <2>9. yml' \in [Dir -> FileState] /\ json' \in [Dir -> FileState]
    BY <1>0, <2>4, <2>5, <2>6 DEF TypeOK, FileState
  <2>10. client' \in [Dir -> [ClientFile -> App \cup {None}]]
    BY <1>0, <2>7 DEF TypeOK, Dir, ClientFile
  <2>11. AfterMigrate(p) \in (Ended \cup Running) \ {"rename"}
    BY DEF AfterMigrate, Ended, Running
  <2>. QED
    BY <1>0, <2>8, <2>9, <2>10, <2>11 DEF TypeOK, Copyable
<1>8. ASSUME NEW p \in Proc, NEW s \in Scopes, NEW a \in App, InitRecords(p, s, a)
      PROVE  TypeOK'
  <2>1. Load \in Config /\ Load.ref \in Profile /\ ActiveEntry(Load) \in Owned
    BY <1>0, <1>8, LoadType, ConfigType DEF InitRecords, ActiveEntry
  <2>. DEFINE f == IF ActiveEntry(Load).client # None THEN ActiveEntry(Load).client
                   ELSE <<"new", Load.ref>>
              entry == [client |-> f, scopes |-> s]
  <2>2. entry \in Owned
    BY <2>1 DEF Owned, ClientPath, Dir, ClientFile
  <2>3. Saved([Load EXCEPT !.own[Load.ref] = entry, !.top = NoneOwned]) \in FileState
    BY <2>1, <2>2, ConfigType DEF FileState
  <2>4. /\ yml' = [yml EXCEPT !["new"] =
              Saved([Load EXCEPT !.own[Load.ref] = entry, !.top = NoneOwned])]
        /\ client' = [d \in Dir |-> [n \in ClientFile |->
              IF <<d, n>> = f /\ client[d][n] = None THEN a ELSE client[d][n]]]
        /\ pc' = [pc EXCEPT ![p] = "done"]
        /\ UNCHANGED <<json, op, arg, next, listed, buf, starts, faults>>
    BY <1>8 DEF InitRecords
  <2>. HIDE DEF f, entry
  <2>5. yml' \in [Dir -> FileState]
    BY <1>0, <2>3, <2>4 DEF TypeOK
  <2>6. client' \in [Dir -> [ClientFile -> App \cup {None}]]
    BY <1>0, <2>4 DEF TypeOK
  <2>. QED
    BY <1>0, <2>4, <2>5, <2>6 DEF TypeOK, Copyable, Ended
<1>9. ASSUME NEW p \in Proc, UseProfile(p)
      PROVE  TypeOK'
  <2>1. Load \in Config /\ [Load EXCEPT !.ref = arg[p]] \in Config
    BY <1>0, <1>9, LoadType, ConfigType DEF UseProfile, TypeOK
  <2>2. Saved([Load EXCEPT !.ref = arg[p]]) \in FileState
    BY <2>1, ConfigType DEF FileState
  <2>3. yml' \in [Dir -> FileState]
    BY <1>0, <1>9, <2>2 DEF UseProfile, TypeOK
  <2>4. pc' = [pc EXCEPT ![p] = "done"] /\
        UNCHANGED <<json, client, op, arg, next, listed, buf, starts, faults>>
    BY <1>9 DEF UseProfile
  <2>. QED
    BY <1>0, <2>3, <2>4 DEF TypeOK, Copyable, Ended
<1>10. ASSUME NEW p \in Proc, ClearFile(p)
       PROVE  TypeOK'
  <2>1. yml' \in [Dir -> FileState] /\ json' \in [Dir -> FileState]
    BY <1>0, <1>10 DEF ClearFile, TypeOK, FileState
  <2>2. /\ next' \in [Proc -> 1..(Len(CopyOrder) + 1)]
        /\ \A q \in Proc \ {p} : next'[q] = next[q]
    BY <1>0, <1>10, CopyOrderType DEF ClearFile, TypeOK, ClearCount, ClearOrder
  <2>. QED
    BY <1>0, <1>10, <2>1, <2>2 DEF ClearFile, TypeOK, Copyable
<1>11. ASSUME NEW p \in Proc, Stop(p)
       PROVE  TypeOK'
  BY <1>0, <1>11, RelocationAssumption DEF Stop, TypeOK, Copyable, Ended, FileState
<1>. QED
  BY <1>1, <1>2, <1>3, <1>4, <1>5, <1>6, <1>7, <1>8, <1>9, <1>10, <1>11, <1>12, <1>13
  DEF Next, CopyStep

(* Every variable keeps its type; what is renamed into the new directory   *)
(* (copyFileAtomic) is the content of a file of the same kind.             *)
THEOREM TypeCorrect == Spec => []TypeOK
BY InitTyped, StepTyped, PTL DEF Spec

(* Whatever invocations did to the two directories, at the same time or    *)
(* one after the other, LoadConfigForRuntime takes the settings of the     *)
(* first directory that has any, or fails.                                 *)
THEOREM LoadIsHonestHolds == Spec => []LoadIsHonest
<1>1. TypeOK => LoadIsHonest
  <2>. SUFFICES ASSUME TypeOK, Load # Bad
                PROVE  LET source == IF FirstConfig("new") # None THEN FirstConfig("new")
                                     ELSE FirstConfig("old")
                       IN  IF source = None THEN Load = Defaulted(DefaultConfig)
                           ELSE source # Bad /\ Load = Defaulted(source)
    BY DEF LoadIsHonest
  <2>1. Load = Defaulted(ReadConfig) /\ ReadConfig # Bad
    BY DEF Load, LoadFails
  <2>2. CASE yml["new"] # None
    BY <2>1, <2>2 DEF ReadConfig, FirstConfig
  <2>3. CASE yml["new"] = None /\ json["new"] # None
    <3>1. Kind # "oldOnly"
      BY <2>3 DEF Kind, FirstConfig
    <3>. QED
      BY <2>1, <2>3, <3>1 DEF ReadConfig, FirstConfig
  <2>4. CASE yml["new"] = None /\ json["new"] = None
    <3>1. Kind = IF FirstConfig("old") = None THEN "none"
                 ELSE IF FirstConfig("old") = Bad THEN "divergent" ELSE "oldOnly"
      BY <2>4 DEF Kind, FirstConfig
    <3>. QED
      BY <2>1, <2>4, <3>1 DEF ReadConfig, FirstConfig
  <2>. QED
    BY <2>2, <2>3, <2>4
<1>. QED
  BY <1>1, TypeCorrect, PTL

-----------------------------------------------------------------------------
(* What two files say.                                                     *)

(* What a configuration that names its active profile is compared and      *)
(* loaded by is the same.                                                  *)
LEMMA CanonicalIsLoaded ==
    ASSUME NEW c \in Config, c.ref # None
    PROVE  /\ Defaulted(c).ref = c.ref
           /\ Defaulted(c).own = Canonical(c)
           /\ \A q \in Profile : Canonical(c)[q] \in Owned \cup {None}
<1>1. ActiveOf(c) = c.ref /\ Canonical(c) = Attach(c, c.ref)
  BY DEF ActiveOf, Canonical
<1>2. Defaulted(c) \in Config
  BY ConfigType
<1>3. Defaulted(c).ref = c.ref /\ Defaulted(c).own = Canonical(c)
  BY <1>1 DEF Defaulted, Config
<1>. QED
  BY <1>2, <1>3 DEF Config

(* Files that are compared as equal give every profile the same settings,  *)
(* if they name their active profile (configsMaterialEqual).               *)
LEMMA EqualIsSame ==
    ASSUME NEW o \in Config, NEW n \in Config, o.ref # None, MaterialEqual(o, n)
    PROVE  SameSettings(Defaulted(o), Defaulted(n))
<1>1. n.ref = o.ref
  BY DEF MaterialEqual
<1>2. /\ Defaulted(o).ref = o.ref /\ Defaulted(o).own = Canonical(o)
      /\ Defaulted(n).ref = o.ref /\ Defaulted(n).own = Canonical(n)
  BY <1>1, CanonicalIsLoaded
<1>3. ASSUME NEW q \in Profile
      PROVE  /\ Entry(Defaulted(o), q).scopes = Entry(Defaulted(n), q).scopes
             /\ SameClient(Entry(Defaulted(o), q).client, Entry(Defaulted(n), q).client)
  <2>1. \/ Canonical(o)[q] = None /\ Canonical(n)[q] = None
        \/ /\ Canonical(o)[q] # None /\ Canonical(n)[q] # None
           /\ Canonical(o)[q].scopes = Canonical(n)[q].scopes
           /\ SamePath(q, Canonical(o)[q].client, Canonical(n)[q].client)
    BY DEF MaterialEqual
  <2>2. \A a, b : SamePath(q, a, b) => SameClient(a, b)
    BY DEF SamePath, SameClient, ClientFile
  <2>3. SameClient(NoneOwned.client, NoneOwned.client)
    BY DEF SameClient
  <2>. QED
    BY <1>2, <2>1, <2>2, <2>3 DEF Entry
<1>4. Defaulted(o).keyring = Defaulted(n).keyring
  BY DEF MaterialEqual, Defaulted, Config
<1>. QED
  BY <1>2, <1>3, <1>4 DEF SameSettings

(* A file that is read first is what the directory says.                   *)
LEMMA FirstConfigType ==
    ASSUME TypeOK, NEW d \in Dir
    PROVE  FirstConfig(d) \in FileState
BY DEF TypeOK, FirstConfig

(* The verdict "equal" is about two configurations that were compared.     *)
LEMMA EqualCompared ==
    ASSUME TypeOK
    PROVE  Kind = "equal" <=> /\ FirstConfig("old") \in Config
                              /\ FirstConfig("new") \in Config
                              /\ MaterialEqual(FirstConfig("old"), FirstConfig("new"))
<1>1. FirstConfig("old") \in FileState /\ FirstConfig("new") \in FileState
  BY FirstConfigType DEF Dir
<1>. QED
  BY <1>1, RelocationAssumption DEF Kind, FileState

(* A configuration says which profile is active.                           *)
Named(c) == c \in Config => c.ref # None

(* The machine was set up by releases that write credential_ref.           *)
FilesNamed == \A c \in InitYml \cup InitJson : Named(c[1]) /\ Named(c[2])

(* Every file names its active profile, and every copy that is under way.  *)
NamedInv ==
    /\ TypeOK
    /\ \A d \in Dir : Named(yml[d]) /\ Named(json[d])
    /\ \A p \in Proc :
          pc[p] = "rename" /\ Copying(p) \in {"yml", "json"} => Named(buf[p])

(* What SaveConfig writes names its active profile.                        *)
LEMMA SavedIsNamed ==
    ASSUME NEW c \in Config
    PROVE  Named(Saved(c)) /\ Saved(c).ref \in Profile
<1>1. ActiveOf(c) \in Profile
  BY ConfigType
<1>. QED
  BY <1>1, RelocationAssumption DEF Named, Saved

(* Every step keeps the files named.                                       *)
LEMMA StepNamed ==
    ASSUME NamedInv, [Next]_vars
    PROVE  NamedInv'
<1>. DEFINE FilesKept == \A d \in Dir : Named(yml[d])' /\ Named(json[d])'
            CopiesKept == \A p \in Proc :
                pc[p]' = "rename" /\ Copying(p)' \in {"yml", "json"} => Named(buf[p])'
<1>0. TypeOK /\ TypeOK'
  BY StepTyped DEF NamedInv
<1>. SUFFICES FilesKept /\ CopiesKept
  BY <1>0 DEF NamedInv
<1>. USE DEF Goto, files
<1>1. CASE UNCHANGED vars
  BY <1>1 DEF vars, NamedInv, Copying
<1>2. ASSUME NEW p \in Proc, NEW o \in Ops, NEW q, Start(p, o, q)
      PROVE  FilesKept /\ CopiesKept
  <2>1. /\ pc'[p] # "rename"
        /\ \A r \in Proc \ {p} : pc'[r] = pc[r] /\ next'[r] = next[r]
        /\ UNCHANGED <<yml, json, buf>>
    BY <1>0, <1>2, RelocationAssumption DEF Start, TypeOK, Op
  <2>. QED
    BY <2>1 DEF NamedInv, Copying
<1>3. ASSUME NEW p \in Proc,
             \/ GateConflict(p) \/ GatePasses(p) \/ CopyDone(p) \/ LoadError(p)
             \/ InitKeeps(p) \/ ClearDone(p) \/ CopyList(p) \/ CopySkip(p) \/ Stop(p)
      PROVE  FilesKept /\ CopiesKept
  <2>1. /\ pc'[p] # "rename"
        /\ \A r \in Proc \ {p} : pc'[r] = pc[r] /\ next'[r] = next[r] /\ buf'[r] = buf[r]
        /\ UNCHANGED <<yml, json>>
    BY <1>0, <1>3 DEF GateConflict, GatePasses, CopyDone, LoadError, InitKeeps,
       ClearDone, CopyList, CopySkip, CopyNext, Stop, TypeOK
  <2>. QED
    BY <2>1 DEF NamedInv, Copying
<1>4. ASSUME NEW p \in Proc, CopyRead(p)
      PROVE  FilesKept /\ CopiesKept
  <2>1. /\ buf'[p] = Contents("old", Copying(p))
        /\ \A r \in Proc \ {p} : pc'[r] = pc[r] /\ buf'[r] = buf[r]
        /\ UNCHANGED <<yml, json, next>>
    BY <1>0, <1>4 DEF CopyRead, TypeOK
  <2>2. Copying(p) \in {"yml", "json"} => Named(Contents("old", Copying(p)))
    <3>1. /\ Contents("old", "yml") = yml["old"] /\ Contents("old", "json") = json["old"]
          /\ Named(yml["old"]) /\ Named(json["old"])
      BY <1>0, ContentsOf DEF NamedInv, Dir
    <3>. QED
      BY <3>1
  <2>. QED
    BY <2>1, <2>2 DEF NamedInv, Copying
<1>5. ASSUME NEW p \in Proc, CopyRename(p)
      PROVE  FilesKept /\ CopiesKept
  <2>1. Copying(p) \in {"yml", "json"} => Named(buf[p])
    BY <1>5 DEF NamedInv, CopyRename
  <2>2. /\ yml' = IF Copying(p) = "yml" THEN [yml EXCEPT !["new"] = buf[p]] ELSE yml
        /\ json' = IF Copying(p) = "json" THEN [json EXCEPT !["new"] = buf[p]] ELSE json
    BY <1>5 DEF CopyRename
  <2>3. FilesKept
    BY <1>0, <2>1, <2>2 DEF NamedInv, TypeOK, Dir
  <2>4. /\ pc'[p] # "rename"
        /\ \A r \in Proc \ {p} : pc'[r] = pc[r] /\ next'[r] = next[r] /\ buf'[r] = buf[r]
    BY <1>0, <1>5 DEF CopyRename, CopyNext, TypeOK
  <2>. QED
    BY <2>3, <2>4 DEF NamedInv, Copying
<1>6. ASSUME NEW p \in Proc, NEW c \in Config,
             yml' \in {yml, [yml EXCEPT !["new"] = Saved(c)]},
             json' \in {json, [json EXCEPT !["new"] = None]},
             pc'[p] # "rename",
             \A r \in Proc \ {p} : pc'[r] = pc[r],
             UNCHANGED <<next, listed, buf>>
      PROVE  FilesKept /\ CopiesKept
  <2>1. Named(Saved(c)) /\ Named(None)
    BY SavedIsNamed, RelocationAssumption DEF Named
  <2>2. FilesKept
    BY <1>0, <1>6, <2>1 DEF NamedInv, TypeOK, Dir
  <2>. QED
    BY <1>6, <2>2 DEF NamedInv, Copying
<1>7. ASSUME NEW p \in Proc, NEW token \in BOOLEAN, Migrate(p, token)
      PROVE  FilesKept /\ CopiesKept
  <2>. DEFINE target == IF ActiveEntry(Load).client # None THEN ActiveEntry(Load).client
                        ELSE <<"new", "client">>
              moved == [Load EXCEPT !.own[Load.ref] =
                          [ActiveEntry(Load) EXCEPT !.client = target]]
  <2>1. Load \in Config /\ Load.ref \in Profile /\ ActiveEntry(Load) \in Owned
    BY <1>0, <1>7, LoadType, ConfigType DEF Migrate, ActiveEntry
  <2>2. [ActiveEntry(Load) EXCEPT !.client = target] \in Owned
    BY <2>1 DEF Owned, ClientPath, Dir, ClientFile
  <2>3. moved \in Config
    BY <2>1, <2>2, ConfigType
  <2>4. \E c \in {Load, moved} : yml' \in {yml, [yml EXCEPT !["new"] = Saved(c)]}
    BY <1>7 DEF Migrate
  <2>5. /\ json' \in {json, [json EXCEPT !["new"] = None]}
        /\ UNCHANGED <<next, listed, buf>>
        /\ pc' = [pc EXCEPT ![p] = AfterMigrate(p)]
    BY <1>7 DEF Migrate
  <2>6. AfterMigrate(p) # "rename"
    BY DEF AfterMigrate
  <2>7. pc'[p] # "rename" /\ \A r \in Proc \ {p} : pc'[r] = pc[r]
    BY <1>0, <2>5, <2>6 DEF TypeOK
  <2>. HIDE DEF moved
  <2>. QED
    BY <1>6, <2>1, <2>3, <2>4, <2>5, <2>7
<1>8. ASSUME NEW p \in Proc, NEW s \in Scopes, NEW a \in App, InitRecords(p, s, a)
      PROVE  FilesKept /\ CopiesKept
  <2>. DEFINE f == IF ActiveEntry(Load).client # None THEN ActiveEntry(Load).client
                   ELSE <<"new", Load.ref>>
              recorded == [Load EXCEPT !.own[Load.ref] = [client |-> f, scopes |-> s],
                                       !.top = NoneOwned]
  <2>1. Load \in Config /\ Load.ref \in Profile /\ ActiveEntry(Load) \in Owned
    BY <1>0, <1>8, LoadType, ConfigType DEF InitRecords, ActiveEntry
  <2>2. [client |-> f, scopes |-> s] \in Owned
    BY <2>1 DEF Owned, ClientPath, Dir, ClientFile
  <2>3. recorded \in Config
    BY <2>1, <2>2, ConfigType
  <2>4. /\ yml' = [yml EXCEPT !["new"] = Saved(recorded)]
        /\ UNCHANGED <<json, next, listed, buf>>
        /\ pc' = [pc EXCEPT ![p] = "done"]
    BY <1>8 DEF InitRecords
  <2>5. pc'[p] # "rename" /\ \A r \in Proc \ {p} : pc'[r] = pc[r]
    BY <1>0, <2>4 DEF TypeOK
  <2>. HIDE DEF recorded
  <2>. QED
    BY <1>6, <2>3, <2>4, <2>5
<1>9. ASSUME NEW p \in Proc, UseProfile(p)
      PROVE  FilesKept /\ CopiesKept
  <2>1. Load \in Config /\ [Load EXCEPT !.ref = arg[p]] \in Config
    BY <1>0, <1>9, LoadType, ConfigType DEF UseProfile, TypeOK
  <2>2. /\ yml' \in {yml, [yml EXCEPT !["new"] = Saved([Load EXCEPT !.ref = arg[p]])]}
        /\ UNCHANGED <<json, next, listed, buf>>
        /\ pc' = [pc EXCEPT ![p] = "done"]
    BY <1>9 DEF UseProfile
  <2>3. pc'[p] # "rename" /\ \A r \in Proc \ {p} : pc'[r] = pc[r]
    BY <1>0, <2>2 DEF TypeOK
  <2>. QED
    BY <1>6, <2>1, <2>2, <2>3
<1>10. ASSUME NEW p \in Proc, ClearFile(p)
       PROVE  FilesKept /\ CopiesKept
  <2>1. Named(None)
    BY RelocationAssumption DEF Named
  <2>2. /\ \E d \in Dir : yml' \in {yml, [yml EXCEPT ![d] = None]} /\
                          json' \in {json, [json EXCEPT ![d] = None]}
        /\ UNCHANGED <<pc, buf>> /\ pc[p] = "clear"
        /\ \A r \in Proc \ {p} : next'[r] = next[r]
    <3>1. next[p] \in 1..4
      BY <1>0, <1>10 DEF ClearFile, ClearCount, ClearOrder, TypeOK
    <3>2. ClearOrder[next[p]][1] \in Dir
      BY <3>1 DEF ClearOrder, Dir
    <3>. QED
      BY <1>0, <1>10, <3>2 DEF ClearFile, TypeOK
  <2>3. FilesKept
    BY <1>0, <2>1, <2>2 DEF NamedInv, TypeOK
  <2>. QED
    BY <2>2, <2>3 DEF NamedInv, Copying
<1>. QED
  BY <1>1, <1>2, <1>3, <1>4, <1>5, <1>7, <1>8, <1>9, <1>10 DEF Next, CopyStep

(* Files stay named, for any number of invocations.                        *)
LEMMA NamedInvHolds ==
    ASSUME FilesNamed
    PROVE  Spec => []NamedInv
<1>1. Init => NamedInv
  <2>. SUFFICES ASSUME Init PROVE NamedInv
    OBVIOUS
  <2>1. \A d \in Dir : Named(yml[d])
    <3>1. PICK c \in InitYml : yml = [d \in Dir |-> IF d = "old" THEN c[1] ELSE c[2]]
      BY DEF Init
    <3>. QED
      BY <3>1 DEF FilesNamed
  <2>2. \A d \in Dir : Named(json[d])
    <3>1. PICK c \in InitJson : json = [d \in Dir |-> IF d = "old" THEN c[1] ELSE c[2]]
      BY DEF Init
    <3>. QED
      BY <3>1 DEF FilesNamed
  <2>. QED
    BY <2>1, <2>2, InitTyped DEF NamedInv, Init
<1>2. NamedInv /\ [Next]_vars => NamedInv'
  BY StepNamed
<1>. QED
  BY <1>1, <1>2, PTL DEF Spec

(* A load that succeeds while the directories are taken for equal reads    *)
(* the file of the new one.                                                *)
LEMMA EqualLoad ==
    ASSUME TypeOK, Kind = "equal", Load # Bad
    PROVE  Load = Defaulted(FirstConfig("new"))
<1>1. FirstConfig("new") \in Config
  BY EqualCompared
<1>2. ReadConfig = FirstConfig("new")
  BY <1>1, RelocationAssumption DEF ReadConfig, FirstConfig
<1>. QED
  BY <1>2, LoadType

(* A configuration in memory, with the entry of its active profile         *)
(* replaced, is saved as it is: what the load has attached stays attached. *)
LEMMA SavedAsLoaded ==
    ASSUME NEW n \in Config, n.ref # None, NEW m \in Owned,
           NEW q, q = n.ref,
           Defaulted(n).own[q] # None,
           m.client = None => Defaulted(n).own[q].client = None,
           m.scopes = None => Defaulted(n).own[q].scopes = None
    PROVE  LET out == [Defaulted(n) EXCEPT !.own[q] = m]
           IN  /\ Saved(out).ref = q
               /\ Saved(out).keyring = n.keyring
               /\ Saved(out).top = NoneOwned
               /\ Saved(out).own = [Canonical(n) EXCEPT ![q] = m]
<1>. DEFINE c == Defaulted(n)
            out == [c EXCEPT !.own[q] = m]
<1>1. /\ c \in Config /\ c.ref = q /\ q \in Profile /\ c.own = Canonical(n)
      /\ c.top = n.top /\ c.keyring = n.keyring /\ n.top \in Owned /\ n.own \in [Profile -> Owned \cup {None}]
  BY ConfigType, CanonicalIsLoaded DEF Defaulted, Config
<1>2. c.own = Attach(n, q)
  BY <1>1 DEF Canonical
<1>3. /\ c.own[q].client = None => n.top.client = None
      /\ c.own[q].scopes = None => n.top.scopes = None
  <2>1. CASE n.top = NoneOwned
    BY <2>1 DEF NoneOwned
  <2>2. CASE n.top # NoneOwned
    <3>1. c.own[q] = [client |-> IF Entry(n, q).client = None THEN n.top.client
                                 ELSE Entry(n, q).client,
                      scopes |-> IF Entry(n, q).scopes = None THEN n.top.scopes
                                 ELSE Entry(n, q).scopes]
      BY <1>1, <1>2, <2>2 DEF Attach
    <3>. QED
      BY <3>1
  <2>. QED
    BY <2>1, <2>2
<1>4. /\ out \in Config /\ out.ref = q /\ out.top = n.top /\ out.keyring = n.keyring
      /\ out.own = [Canonical(n) EXCEPT ![q] = m]
  BY <1>1, ConfigType DEF Config
<1>. HIDE DEF out, c
<1>5. out.own \in [Profile -> Owned \cup {None}] /\ out.own[q] = m /\ m # None
  BY <1>1, <1>4, RelocationAssumption DEF Config
<1>6. Entry(out, q) = m
  BY <1>5 DEF Entry
<1>7. m = [client |-> IF m.client = None THEN n.top.client ELSE m.client,
           scopes |-> IF m.scopes = None THEN n.top.scopes ELSE m.scopes]
  BY <1>3 DEF Owned, c
<1>8. Attach(out, q) = out.own
  <2>1. CASE out.top = NoneOwned
    BY <2>1 DEF Attach
  <2>2. CASE out.top # NoneOwned
    <3>1. Attach(out, q) = [out.own EXCEPT ![q] =
             [client |-> IF m.client = None THEN n.top.client ELSE m.client,
              scopes |-> IF m.scopes = None THEN n.top.scopes ELSE m.scopes]]
      BY <1>4, <1>6, <2>2 DEF Attach
    <3>. QED
      BY <1>5, <1>7, <3>1
  <2>. QED
    BY <2>1, <2>2
<1>9. ActiveOf(out) = q
  BY <1>4 DEF ActiveOf
<1>. QED
  BY <1>4, <1>8, <1>9 DEF Saved, out, c

(* Open turns no relocated machine into one with a conflict: neither the   *)
(* promotion of config.json nor the client path that it records            *)
(* (migrateLegacy) is a difference that detectRelocation sees.             *)
THEOREM PeaceKeptHolds == Spec => PeaceKept
<1>. DEFINE Peaceful(p) ==
              /\ \E token \in BOOLEAN : Migrate(p, token)
              /\ Kind = "equal"
              /\ LET o == FirstConfig("old")
                 IN  o.ref # None /\ Canonical(o)[o.ref] # None
              => Kind' = "equal"
<1>1. ASSUME TypeOK, NEW p \in Proc, NEW token \in BOOLEAN, Migrate(p, token), Kind = "equal",
             FirstConfig("old").ref # None,
             Canonical(FirstConfig("old"))[FirstConfig("old").ref] # None
      PROVE  Kind' = "equal"
  <2>. DEFINE o == FirstConfig("old")
              n == FirstConfig("new")
              q == o.ref
              e == Canonical(n)[q]
              target == IF e.client # None THEN e.client ELSE <<"new", "client">>
              moved == [e EXCEPT !.client = target]
              Out(m) == [Defaulted(n) EXCEPT !.own[q] = m]
  <2>1. o \in Config /\ n \in Config /\ MaterialEqual(o, n) /\ n.ref = q
    BY <1>1, EqualCompared DEF MaterialEqual
  <2>2. q \in Profile
    BY <1>1, <2>1 DEF Config
  <2>3. Load = Defaulted(n)
    BY <1>1, EqualLoad DEF Migrate
  <2>4. /\ Load.ref = q /\ Load.own = Canonical(n) /\ Load \in Config
        /\ Canonical(n) \in [Profile -> Owned \cup {None}]
    <3>1. n.ref # None
      BY <1>1, <2>1
    <3>2. Load.ref = q /\ Load.own = Canonical(n)
      BY <2>1, <2>3, <3>1, CanonicalIsLoaded
    <3>3. Load \in Config
      BY <2>1, <2>3, ConfigType
    <3>. QED
      BY <3>2, <3>3 DEF Config
  <2>5. /\ Canonical(o)[q] # None /\ e # None /\ e \in Owned
        /\ Canonical(o)[q].scopes = e.scopes
        /\ SamePath(q, Canonical(o)[q].client, e.client)
    BY <1>1, <2>1, <2>2, <2>4 DEF MaterialEqual
  <2>6. ActiveEntry(Load) = e
    BY <2>4, <2>5 DEF ActiveEntry, Entry
  <2>7. moved \in Owned
    BY <2>5 DEF Owned, ClientPath, Dir, ClientFile
  <2>8. ASSUME NEW m \in {e, moved}
        PROVE  MaterialEqual(o, Saved(Out(m))) /\ Saved(Out(m)) \in Config
    <3>1. /\ m \in Owned /\ m # None /\ m.scopes = e.scopes
          /\ m.client \in {e.client, target}
      BY <2>5, <2>7, RelocationAssumption DEF Owned
    <3>2. m.client = None => e.client = None
      BY <3>1
    <3>3. SamePath(q, Canonical(o)[q].client, m.client)
      <4>1. e.client = None => Canonical(o)[q].client \in {None, <<"old", "client">>}
        <5>1. <<"new", q>> \in ClientPath
          BY <2>2 DEF ClientPath, Dir, ClientFile
        <5>2. None # <<"new", q>>
          BY <5>1, RelocationAssumption
        <5>. QED
          BY <2>5, <5>2 DEF SamePath
      <4>. QED
        BY <2>5, <3>1, <4>1 DEF SamePath
    <3>4. Out(m) \in Config
      BY <2>2, <2>3, <2>4, <3>1, ConfigType
    <3>. DEFINE s == Saved(Out(m))
    <3>5. /\ s.ref = q /\ s.keyring = n.keyring /\ s.top = NoneOwned
          /\ s.own = [Canonical(n) EXCEPT ![q] = m]
      <4>1. Defaulted(n).own[q] = e
        BY <2>3, <2>4
      <4>. HIDE DEF e, moved
      <4>. QED
        BY <1>1, <2>1, <2>5, <3>1, <3>2, <4>1, SavedAsLoaded
    <3>6. s \in Config
      BY <3>4, ConfigType
    <3>. HIDE DEF s, o, n, e, moved
    <3>7. Canonical(s) = s.own /\ ~LegacyConflict(s)
      BY <3>5 DEF Canonical, Attach, LegacyConflict, Conflicting, Diverge, NoneOwned
    <3>8. ASSUME NEW r \in Profile
          PROVE  LET l == Canonical(o)[r]
                     t == Canonical(s)[r]
                 IN  \/ l = None /\ t = None
                     \/ /\ l # None /\ t # None
                        /\ l.scopes = t.scopes
                        /\ SamePath(r, l.client, t.client)
      <4>1. CASE r = q
        BY <2>4, <2>5, <3>1, <3>3, <3>5, <3>7, <4>1
      <4>2. CASE r # q
        <5>1. Canonical(s)[r] = Canonical(n)[r]
          BY <2>4, <3>5, <3>7, <4>2
        <5>. QED
          BY <2>1, <5>1 DEF MaterialEqual
      <4>. QED
        BY <4>1, <4>2
    <3>9. s.ref = o.ref /\ s.keyring = o.keyring /\ ~LegacyConflict(o)
      BY <2>1, <3>5 DEF MaterialEqual, q
    <3>. QED
      BY <3>6, <3>7, <3>8, <3>9 DEF MaterialEqual, s
  <2>9. Load = Out(e)
    BY <2>2, <2>3, <2>4 DEF Config
  <2>10. \E m \in {e, moved} :
            \/ yml' = [yml EXCEPT !["new"] = Saved(Out(m))]
            \/ yml' = yml /\ json' = json
    BY <1>1, <2>3, <2>4, <2>6, <2>9 DEF Migrate
  <2>11. json'["old"] = json["old"]
    BY <1>1 DEF Migrate, TypeOK, Dir
  <2>. HIDE DEF o, n, q, e, moved, Out
  <2>12. PICK m \in {e, moved} :
            \/ yml' = [yml EXCEPT !["new"] = Saved(Out(m))]
            \/ yml' = yml /\ json' = json
    BY <2>10
  <2>13. FirstConfig("old")' = o
    BY <1>1, <2>11, <2>12 DEF FirstConfig, TypeOK, Dir, o
  <2>14. FirstConfig("new")' \in {n, Saved(Out(m))}
    BY <1>1, <2>8, <2>12, RelocationAssumption DEF FirstConfig, TypeOK, Dir, n
  <2>. QED
    BY <2>1, <2>8, <2>13, <2>14, RelocationAssumption DEF Kind
<1>2. TypeOK /\ [Next]_vars => [\A p \in Proc : Peaceful(p)]_vars
  BY <1>1
<1>. QED
  BY <1>2, TypeCorrect, PTL DEF Spec, PeaceKept

-----------------------------------------------------------------------------
(* One invocation at a time.                                               *)

(* A relocation has copied a part of the old directory, from its first     *)
(* file on, and nothing but that.                                          *)
CopiedSoFar(p) ==
    pc[p] \in {"list", "copy", "rename"} =>
        /\ \A n \in {"yml", "json"} :
              Contents("new", n) \in {None, Contents("old", n)}
        /\ \A k \in 1..(next[p] - 1) :
              Contents("old", CopyOrder[k]) # None => Contents("new", CopyOrder[k]) # None

(* What os.ReadDir gave is still what the directory has: all of its files, *)
(* and once the managed clients were listed again, those.                  *)
ListedSoFar(p) ==
    (pc[p] \in {"copy", "rename"} \/ (pc[p] = "list" /\ next[p] >= FirstManaged)) =>
        /\ \A q \in Profile : q \in listed[p] <=> Present(q)
        /\ next[p] < FirstManaged =>
              \A n \in Copied : n \in listed[p] <=> Present(n)

(* The file that is about to be renamed into place is not there yet.       *)
StillAbsent(p) ==
    pc[p] = "rename" =>
        /\ buf[p] = Contents("old", Copying(p))
        /\ Contents("new", Copying(p)) = None

FromTheStart(p) ==
    /\ pc[p] = "gate" => next[p] = 1
    /\ pc[p] = "list" => next[p] \in {1, FirstManaged}

Gone(f) == IF f[2] = "yml" THEN yml[f[1]] = None ELSE json[f[1]] = None

ClearedSoFar(p) == pc[p] = "clear" => \A k \in 1..(next[p] - 1) : Gone(ClearOrder[k])

Alone(p) ==
    CopiedSoFar(p) /\ ListedSoFar(p) /\ StillAbsent(p) /\ FromTheStart(p) /\ ClearedSoFar(p)

(* The inductive invariant of a machine with one invocation at a time.     *)
OneInv == TypeOK /\ \A p \in Proc : Alone(p)

(* The steps of a relocation.                                              *)
LEMMA CopyAlone ==
    ASSUME TypeOK, NEW p \in Proc, Alone(p), CopyStep(p) \/ GatePasses(p)
    PROVE  Alone(p)'
<1>. USE DEF Goto, files
<1>0. \A q \in Profile : q \in Copied /\ q \in ClientFile /\ q \notin {"yml", "json"}
  BY RelocationAssumption DEF Copied, ClientFile
<1>1. CASE GatePasses(p)
  <2>1. /\ next[p] = 1 /\ pc'[p] \in {"list", "migrate"}
        /\ pc'[p] = "list" => Kind = "oldOnly"
        /\ UNCHANGED <<yml, json, client, next, listed, buf>>
    BY <1>1 DEF GatePasses, Alone, FromTheStart, TypeOK
  <2>2. Kind = "oldOnly" => yml["new"] = None /\ json["new"] = None
    BY DEF Kind, FirstConfig
  <2>3. Contents("new", "yml") = yml["new"] /\ Contents("new", "json") = json["new"]
    BY ContentsOf DEF Dir
  <2>4. \A d \in Dir, n \in Copied : Contents(d, n)' = Contents(d, n)
    BY <2>1 DEF Contents
  <2>. QED
    BY <2>1, <2>2, <2>3, <2>4
    DEF Alone, CopiedSoFar, ListedSoFar, StillAbsent, FromTheStart, ClearedSoFar, Dir,
        Copied, FirstManaged
<1>6. CASE CopyList(p)
  <2>1. /\ pc[p] = "list" /\ pc'[p] = "copy" /\ next' = next
        /\ next[p] \in {1, FirstManaged}
        /\ listed'[p] = IF next[p] < FirstManaged THEN {n \in Copied : Present(n)}
                        ELSE IF listed[p] \cap Profile = {} THEN {}
                        ELSE {q \in Profile : Present(q)}
    BY <1>6 DEF CopyList, TypeOK, Alone, FromTheStart, Copied
  <2>2. \A d, n : Contents(d, n)' = Contents(d, n)
    BY <1>6 DEF CopyList, Contents
  <2>3. ListedSoFar(p)'
    <3>1. CASE next[p] < FirstManaged
      BY <1>0, <2>1, <2>2, <3>1 DEF ListedSoFar, Present
    <3>2. CASE ~(next[p] < FirstManaged)
      <4>1. \A q \in Profile : q \in listed[p] <=> Present(q)
        BY <2>1, <3>2 DEF Alone, ListedSoFar, FirstManaged
      <4>. QED
        BY <2>1, <2>2, <3>2, <4>1 DEF ListedSoFar, Present
    <3>. QED
      BY <3>1, <3>2
  <2>. QED
    BY <2>1, <2>2, <2>3
    DEF Alone, CopiedSoFar, StillAbsent, FromTheStart, ClearedSoFar
<1>7. ASSUME pc[p] \in {"copy", "rename"}, next[p] \in DOMAIN CopyOrder
      PROVE  Copying(p) \in listed[p] <=> Present(Copying(p))
  <2>1. Copying(p) \in Copied /\ (next[p] >= FirstManaged => Copying(p) \in Profile)
    BY <1>7, CopyOrderType DEF Copying, Copied
  <2>2. next[p] >= FirstManaged \/ next[p] < FirstManaged
    BY <1>7, CopyOrderType DEF FirstManaged
  <2>. QED
    BY <1>7, <2>1, <2>2 DEF Alone, ListedSoFar, FirstManaged, Present
<1>8. ASSUME CopyNext(p), pc[p] \in {"copy", "rename"}, listed' = listed,
             next[p] \in DOMAIN CopyOrder,
             \A n \in Copied : Contents("old", n)' = Contents("old", n)
      PROVE  /\ pc'[p] \in {"list", "copy"} /\ next'[p] = next[p] + 1
             /\ ListedSoFar(p)' /\ FromTheStart(p)'
  <2>1. /\ next[p] \in Nat /\ next'[p] = next[p] + 1
        /\ pc'[p] = IF next[p] + 1 = FirstManaged THEN "list" ELSE "copy"
    BY <1>8, CopyOrderType DEF CopyNext, TypeOK
  <2>2. \A n \in Copied : Present(n)' <=> Present(n)
    BY <1>8 DEF Present
  <2>3. next'[p] < FirstManaged => next[p] < FirstManaged
    BY <2>1 DEF FirstManaged
  <2>. QED
    <3>1. ListedSoFar(p)'
      BY <1>0, <1>8, <2>3 DEF Alone, ListedSoFar, Present
    <3>. QED
      BY <2>1, <3>1 DEF FromTheStart
<1>2. CASE CopySkip(p)
  <2>1. /\ pc[p] = "copy" /\ next[p] \in DOMAIN CopyOrder
        /\ Copying(p) \notin listed[p] \/ Contents("new", Copying(p)) # None
        /\ CopyNext(p) /\ listed' = listed
    BY <1>2, CopyOrderType DEF CopySkip, MaySkip, TypeOK
  <2>2. \A d, n : Contents(d, n)' = Contents(d, n)
    BY <1>2 DEF CopySkip, Contents
  <2>3. /\ pc'[p] \in {"list", "copy"} /\ next'[p] = next[p] + 1 /\ next[p] \in Nat
        /\ ListedSoFar(p)' /\ FromTheStart(p)'
    BY <1>8, <2>1, <2>2, CopyOrderType
  <2>4. \A k \in 1..(next'[p] - 1) : k = next[p] \/ k \in 1..(next[p] - 1)
    BY <2>3
  <2>5. Contents("old", CopyOrder[next[p]]) = None \/
        Contents("new", CopyOrder[next[p]]) # None
    BY <1>7, <2>1 DEF Present, Copying
  <2>6. CopiedSoFar(p)'
    BY <2>1, <2>2, <2>3, <2>4, <2>5 DEF Alone, CopiedSoFar
  <2>. QED
    BY <2>3, <2>6 DEF Alone, StillAbsent, ClearedSoFar
<1>3. CASE CopyRead(p)
  <2>1. /\ pc[p] = "copy" /\ pc'[p] \in {"rename", "failed"} /\ next' = next /\ listed' = listed
        /\ buf'[p] = Contents("old", Copying(p))
        /\ Contents("new", Copying(p)) = None
    BY <1>3 DEF CopyRead, MaySkip, TypeOK
  <2>2. \A d, n : Contents(d, n)' = Contents(d, n)
    BY <1>3 DEF CopyRead, Contents
  <2>. QED
    BY <2>1, <2>2
    DEF Alone, CopiedSoFar, ListedSoFar, Present, StillAbsent, FromTheStart, ClearedSoFar,
        Copying
<1>4. CASE CopyRename(p)
  <2>1. /\ pc[p] = "rename" /\ CopyNext(p) /\ listed' = listed
        /\ next[p] \in DOMAIN CopyOrder /\ Copying(p) \in Copied
        /\ buf[p] # None /\ buf[p] = Contents("old", Copying(p))
    <3>1. pc[p] = "rename" /\ buf[p] \in Copyable(p) /\ next[p] \in 1..(Len(CopyOrder) + 1)
      BY <1>4 DEF CopyRename, TypeOK
    <3>2. next[p] \in DOMAIN CopyOrder
      BY <3>1, CopyOrderType DEF Copyable
    <3>3. Copying(p) \in Copied
      BY <3>2, CopyOrderType DEF Copying, Copied
    <3>4. buf[p] = Contents("old", Copying(p))
      BY <3>1 DEF Alone, StillAbsent
    <3>5. buf[p] # None
      BY <3>1, RelocationAssumption DEF Copyable
    <3>. QED
      BY <1>4, <3>1, <3>2, <3>3, <3>4, <3>5 DEF CopyRename
  <2>2. \A n \in Copied :
           /\ Contents("old", n)' = Contents("old", n)
           /\ Contents("new", n)' = IF n = Copying(p) THEN buf[p] ELSE Contents("new", n)
    BY <1>4, <2>1, RenameEffect
  <2>3. /\ pc'[p] \in {"list", "copy"} /\ next'[p] = next[p] + 1 /\ next[p] \in Nat
        /\ ListedSoFar(p)' /\ FromTheStart(p)'
    BY <1>8, <2>1, <2>2, CopyOrderType
  <2>4. ASSUME NEW n \in {"yml", "json"}
        PROVE  Contents("new", n)' \in {None, Contents("old", n)'}
    BY <2>1, <2>2 DEF Alone, CopiedSoFar, Copied
  <2>5. ASSUME NEW k \in 1..(next'[p] - 1), Contents("old", CopyOrder[k])' # None
        PROVE  Contents("new", CopyOrder[k])' # None
    <3>1. k = next[p] \/ k \in 1..(next[p] - 1)
      BY <2>3
    <3>2. k \in DOMAIN CopyOrder /\ CopyOrder[k] \in Copied
      BY <2>1, <2>3, CopyOrderType DEF Copied
    <3>3. Copying(p) = CopyOrder[next[p]]
      BY DEF Copying
    <3>. QED
      BY <2>1, <2>2, <2>5, <3>1, <3>2, <3>3 DEF Alone, CopiedSoFar
  <2>. QED
    BY <2>3, <2>4, <2>5 DEF Alone, CopiedSoFar, StillAbsent, ClearedSoFar
<1>5. CASE CopyDone(p)
  BY <1>5 DEF CopyDone, TypeOK, Alone, CopiedSoFar, ListedSoFar, StillAbsent, FromTheStart, ClearedSoFar
<1>. QED
  BY <1>1, <1>2, <1>3, <1>4, <1>5, <1>6 DEF CopyStep

(* The steps of a reset.                                                   *)
LEMMA ClearAlone ==
    ASSUME TypeOK, NEW p \in Proc, Alone(p), ClearFile(p)
    PROVE  Alone(p)'
<1>1. /\ pc[p] = "clear" /\ pc'[p] = "clear" /\ next[p] \in 1..4
      /\ next'[p] = next[p] + 1
  BY DEF ClearFile, TypeOK, ClearCount, ClearOrder
<1>2. ASSUME NEW k \in 1..4, k = next[p] \/ Gone(ClearOrder[k])
      PROVE  Gone(ClearOrder[k])'
  <2>. DEFINE f == ClearOrder[next[p]]
  <2>1. f[1] \in Dir /\ f[2] \in {"yml", "json"}
    BY <1>1 DEF ClearOrder, Dir
  <2>2. IF f[2] = "yml" THEN yml' = [yml EXCEPT ![f[1]] = None] /\ json' = json
        ELSE json' = [json EXCEPT ![f[1]] = None] /\ yml' = yml
    BY DEF ClearFile
  <2>3. ClearOrder[k][1] \in Dir /\ ClearOrder[k][2] \in {"yml", "json"}
    BY DEF ClearOrder, Dir
  <2>4. k = next[p] => ClearOrder[k] = f
    OBVIOUS
  <2>. HIDE DEF f
  <2>. QED
    BY <1>2, <2>1, <2>2, <2>3, <2>4 DEF Gone, TypeOK
<1>3. \A k \in 1..(next'[p] - 1) : k \in 1..4 /\ (k = next[p] \/ k \in 1..(next[p] - 1))
  BY <1>1
<1>. QED
  BY <1>1, <1>2, <1>3
  DEF Alone, CopiedSoFar, ListedSoFar, StillAbsent, FromTheStart, ClearedSoFar

(* Every step of the only invocation keeps OneInv.                         *)
LEMMA StepAlone ==
    ASSUME OneInv, [Next]_vars, \A p, q \in Proc : p = q
    PROVE  OneInv'
<1>1. TypeOK /\ TypeOK'
  BY StepTyped DEF OneInv
<1>. SUFFICES ASSUME NEW p \in Proc
              PROVE  Alone(p)'
  BY <1>1 DEF OneInv
<1>2. Alone(p)
  BY DEF OneInv
<1>3. CASE UNCHANGED vars
  BY <1>2, <1>3 DEF vars, Alone, CopiedSoFar, ListedSoFar, StillAbsent, FromTheStart, ClearedSoFar,
     Gone, Contents, Copying, Present
<1>4. CASE CopyStep(p) \/ GatePasses(p)
  BY <1>1, <1>2, <1>4, CopyAlone
<1>5. CASE ClearFile(p)
  BY <1>1, <1>2, <1>5, ClearAlone
<1>6. ASSUME NEW o \in Ops, NEW q, Start(p, o, q)
      PROVE  Alone(p)'
  <2>1. next'[p] = 1 /\ pc'[p] \in {"gate", "use", "migrate", "clear"}
    BY <1>1, <1>6, RelocationAssumption DEF Start, Goto, TypeOK, Op
  <2>. QED
    BY <2>1 DEF Alone, CopiedSoFar, ListedSoFar, StillAbsent, FromTheStart, ClearedSoFar
<1>7. ASSUME \/ GateConflict(p) \/ LoadError(p) \/ InitKeeps(p)
             \/ \E token \in BOOLEAN : Migrate(p, token)
             \/ \E s \in Scopes, a \in App : InitRecords(p, s, a)
             \/ UseProfile(p) \/ ClearDone(p) \/ Stop(p)
      PROVE  Alone(p)'
  <2>1. pc'[p] \in {"conflict", "failed", "record", "done"}
    BY <1>1, <1>7 DEF GateConflict, LoadError, Migrate, AfterMigrate, InitKeeps,
       InitRecords, UseProfile, ClearDone, Stop, Goto, TypeOK
  <2>. QED
    BY <2>1 DEF Alone, CopiedSoFar, ListedSoFar, StillAbsent, FromTheStart, ClearedSoFar
<1>. QED
  BY <1>3, <1>4, <1>5, <1>6, <1>7 DEF Next

(* OneInv holds where invocations do not overlap.                          *)
THEOREM OneInvHolds ==
    ASSUME \A p, q \in Proc : p = q
    PROVE  Spec => []OneInv
<1>1. Init => OneInv
  BY InitTyped DEF OneInv, Init, Alone, CopiedSoFar, ListedSoFar, StillAbsent, FromTheStart, ClearedSoFar
<1>2. OneInv /\ [Next]_vars => OneInv'
  BY StepAlone
<1>. QED
  BY <1>1, <1>2, PTL DEF Spec

(* Every file that is copied has a place in the order.                     *)
LEMMA CopyOrderComplete ==
    \A n \in Copied : \E k \in DOMAIN CopyOrder : CopyOrder[k] = n
<1>1. Profiles \in Seq(Profile) /\ Len(Profiles) \in Nat
  BY RelocationAssumption
<1>2. DOMAIN CopyOrder = 1..(4 + Len(Profiles))
  BY <1>1 DEF CopyOrder
<1>3. /\ CopyOrder[1] = "json" /\ CopyOrder[2] = "yml"
      /\ CopyOrder[3] = "credentials" /\ CopyOrder[4] = "client"
  BY <1>1 DEF CopyOrder
<1>4. \A i \in 1..Len(Profiles) : CopyOrder[4 + i] = Profiles[i]
  BY <1>1 DEF CopyOrder
<1>5. ASSUME NEW n \in Profile
      PROVE  \E k \in DOMAIN CopyOrder : CopyOrder[k] = n
  <2>1. PICK i \in 1..Len(Profiles) : Profiles[i] = n
    BY DEF Profile
  <2>2. 4 + i \in DOMAIN CopyOrder
    BY <1>1, <1>2
  <2>. QED
    BY <1>4, <2>1, <2>2
<1>6. {1, 2, 3, 4} \subseteq DOMAIN CopyOrder
  BY <1>1, <1>2
<1>. QED
  BY <1>3, <1>5, <1>6 DEF Copied, ClientFile

(* An init that is not interrupted leaves the configuration and every      *)
(* client file of the old directory in the new one, and overwrites none    *)
(* (ApplyConfigRelocation, copyFileAtomic).                                *)
THEOREM RelocationCompletesHolds ==
    ASSUME \A p, q \in Proc : p = q
    PROVE  Spec => RelocationCompletes
<1>. DEFINE Complete(p) ==
              /\ pc[p] = "copy" /\ pc'[p] = "migrate" =>
                    /\ FirstConfig("new") = FirstConfig("old")
                    /\ \A n \in ClientFile :
                          client["old"][n] # None => client["new"][n] # None
              /\ pc[p] \in {"copy", "rename"} =>
                    \A n \in ClientFile :
                        client["new"][n] # None =>
                            client'["new"][n] = client["new"][n]
<1>1. OneInv /\ [Next]_vars => [\A p \in Proc : Complete(p)]_vars
  <2>. SUFFICES ASSUME OneInv, Next, NEW p \in Proc
                PROVE  Complete(p)
    OBVIOUS
  <2>. USE DEF Goto, files
  <2>1. TypeOK /\ Alone(p)
    BY DEF OneInv
  <2>2. \A d \in Dir :
           /\ Contents(d, "yml") = yml[d] /\ Contents(d, "json") = json[d]
           /\ \A n \in ClientFile : Contents(d, n) = client[d][n]
    BY <2>1, ContentsOf
  <2>3. ASSUME CopyDone(p)
        PROVE  Complete(p)
    <3>1. next[p] > Len(CopyOrder) /\ next[p] \in Nat /\ pc[p] = "copy" /\ client' = client
      BY <2>1, <2>3 DEF CopyDone, TypeOK
    <3>2. \A k \in DOMAIN CopyOrder : k \in 1..(next[p] - 1)
      BY <3>1, CopyOrderType
    <3>3. \A n \in Copied : Contents("old", n) # None => Contents("new", n) # None
      BY <2>1, <3>1, <3>2, CopyOrderComplete DEF Alone, CopiedSoFar
    <3>4. \A n \in {"yml", "json"} : Contents("new", n) \in {None, Contents("old", n)}
      BY <2>1, <3>1 DEF Alone, CopiedSoFar
    <3>5. yml["new"] = yml["old"] /\ json["new"] = json["old"]
      BY <2>2, <3>3, <3>4 DEF Copied, Dir
    <3>6. FirstConfig("new") = FirstConfig("old")
      BY <3>5 DEF FirstConfig
    <3>. QED
      BY <2>2, <3>1, <3>3, <3>6 DEF Copied, Dir
  <2>4. ASSUME CopyRename(p)
        PROVE  Complete(p)
    <3>1. pc[p] = "rename" /\ Contents("new", Copying(p)) = None
      BY <2>1, <2>4 DEF CopyRename, Alone, StillAbsent
    <3>2. client' = IF Copying(p) \in ClientFile
                    THEN [client EXCEPT !["new"][Copying(p)] = buf[p]] ELSE client
      BY <2>4 DEF CopyRename
    <3>3. ASSUME NEW n \in ClientFile, client["new"][n] # None
          PROVE  client'["new"][n] = client["new"][n]
      <4>1. n # Copying(p)
        BY <2>2, <3>1, <3>3 DEF Dir
      <4>. QED
        BY <2>1, <3>2, <4>1 DEF TypeOK, Dir
    <3>. QED
      BY <3>1, <3>3
  <2>5. ASSUME CopyList(p) \/ CopySkip(p) \/ CopyRead(p) \/ Stop(p)
        PROVE  Complete(p)
    BY <2>1, <2>5 DEF CopyList, CopySkip, CopyNext, CopyRead, Stop, TypeOK
  <2>6. ASSUME pc[p] \notin {"copy", "rename"}
        PROVE  Complete(p)
    BY <2>6
  <2>7. \/ CopyStep(p) \/ Stop(p) \/ pc[p] \notin {"copy", "rename"}
    BY DEF Next, Start, GateConflict, GatePasses, LoadError, Migrate, InitKeeps,
       InitRecords, UseProfile, ClearFile, ClearDone, Ended
  <2>. QED
    BY <2>3, <2>4, <2>5, <2>6, <2>7 DEF CopyStep
<1>. QED
  BY <1>1, OneInvHolds, PTL DEF Spec, RelocationCompletes

(* No step of a relocation, and no crash in one, silently changes what     *)
(* commands work with: config.json is copied before config.yml, and in     *)
(* between a load takes the same settings or reports the conflict          *)
(* (ApplyConfigRelocation, LoadConfigForRuntime).                          *)
THEOREM SettingsSurviveHolds ==
    ASSUME \A p, q \in Proc : p = q, FilesNamed
    PROVE  Spec => SettingsSurvive
<1>. DEFINE Kept == \/ Load' = Bad
                    \/ SameSettings(Load, Load')
                    \/ SameSettings(Load', Load)
            Survives(p) == /\ pc[p] \in {"gate", "list", "copy", "rename"}
                           /\ <<pc'[p], next'[p]>> # <<pc[p], next[p]>>
                           /\ Load # Bad
                           => Load' = Bad \/ SameSettings(Load, Load')
                                          \/ SameSettings(Load', Load)
<1>1. ASSUME OneInv, NamedInv, Next, NEW p \in Proc,
             pc[p] \in {"gate", "list", "copy", "rename"}, Load # Bad
      PROVE  Kept
  <2>. USE DEF Goto, files
  <2>0. TypeOK /\ Alone(p)
    BY <1>1 DEF OneInv
  <2>1. ReadConfig \in Config /\ Load = Defaulted(ReadConfig)
    BY <1>1, <2>0, LoadType
  <2>2. ASSUME ReadConfig' = ReadConfig
        PROVE  Kept
    <3>1. Load' = Load
      BY <2>2 DEF Load, LoadFails
    <3>2. SameSettings(Load, Load)
      BY DEF SameSettings, SameClient
    <3>. QED
      BY <3>1, <3>2
  <2>3. ASSUME UNCHANGED <<yml, json>>
        PROVE  Kept
    BY <2>2, <2>3 DEF ReadConfig, Kind, FirstConfig
  <2>5. ASSUME CopyRename(p)
        PROVE  Kept
    <3>1. /\ pc[p] = "rename" /\ Copying(p) \in Copied /\ buf[p] # None
          /\ buf[p] = Contents("old", Copying(p)) /\ Contents("new", Copying(p)) = None
          /\ \A n \in {"yml", "json"} : Contents("new", n) \in {None, Contents("old", n)}
      <4>1. /\ pc[p] = "rename" /\ buf[p] \in Copyable(p)
            /\ next[p] \in 1..(Len(CopyOrder) + 1)
        BY <2>0, <2>5 DEF CopyRename, TypeOK
      <4>2. Copying(p) \in Copied
        BY <4>1, CopyOrderType DEF Copyable, Copying, Copied
      <4>3. buf[p] # None
        BY <4>1, RelocationAssumption DEF Copyable
      <4>. QED
        BY <2>0, <4>1, <4>2, <4>3 DEF Alone, StillAbsent, CopiedSoFar
    <3>2. \A d \in Dir : Contents(d, "yml") = yml[d] /\ Contents(d, "json") = json[d]
      BY <2>0, ContentsOf
    <3>3. /\ yml' = IF Copying(p) = "yml" THEN [yml EXCEPT !["new"] = buf[p]] ELSE yml
          /\ json' = IF Copying(p) = "json" THEN [json EXCEPT !["new"] = buf[p]] ELSE json
      BY <2>5 DEF CopyRename
    <3>4. \A d \in Dir : yml[d] \in FileState /\ json[d] \in FileState
      BY <2>0 DEF TypeOK
    <3>5. CASE Copying(p) = "yml"
      <4>1. /\ yml["new"] = None /\ yml["old"] # None
            /\ yml'["new"] = yml["old"] /\ json' = json
            /\ json["new"] \in {None, json["old"]}
        BY <2>0, <3>1, <3>2, <3>3, <3>5 DEF Dir, TypeOK
      <4>2. ReadConfig' = yml["old"]
        BY <4>1 DEF ReadConfig
      <4>3. FirstConfig("old") = yml["old"] /\ FirstConfig("new") = json["new"]
        BY <4>1 DEF FirstConfig
      <4>4. CASE json["new"] = None
        <5>1. ReadConfig = yml["old"]
          BY <2>1, <4>1, <4>3, <4>4, RelocationAssumption DEF ReadConfig, Kind
        <5>. QED
          BY <2>2, <4>2, <5>1
      <4>5. CASE json["new"] # None
        <5>1. Kind \in {"equal", "divergent"}
          BY <4>1, <4>3, <4>5 DEF Kind
        <5>2. Kind = "equal" /\ ReadConfig = json["new"]
          BY <2>1, <4>1, <4>5, <5>1, RelocationAssumption DEF ReadConfig
        <5>3. SameSettings(Defaulted(yml["old"]), Load)
          <6>1. yml["old"] \in Config /\ MaterialEqual(yml["old"], json["new"])
            BY <2>0, <4>3, <5>2, EqualCompared
          <6>2. yml["old"].ref # None
            BY <1>1, <6>1 DEF NamedInv, Named, Dir
          <6>. QED
            BY <2>1, <5>2, <6>1, <6>2, EqualIsSame
        <5>4. Load' \in {Bad, Defaulted(yml["old"])}
          BY <4>2 DEF Load
        <5>. QED
          BY <5>3, <5>4
      <4>. QED
        BY <4>4, <4>5
    <3>6. CASE Copying(p) = "json"
      <4>1. /\ json["new"] = None /\ json["old"] # None
            /\ json'["new"] = json["old"] /\ yml' = yml
            /\ json'["old"] = json["old"]
        BY <2>0, <3>1, <3>2, <3>3, <3>6 DEF Dir, TypeOK
      <4>2. CASE yml["new"] # None
        <5>1. ReadConfig' = ReadConfig
          BY <4>1, <4>2 DEF ReadConfig
        <5>. QED
          BY <2>2, <5>1
      <4>3. CASE yml["new"] = None
        <5>. DEFINE o == FirstConfig("old")
        <5>1. FirstConfig("new") = None /\ o # None
          BY <4>1, <4>3 DEF FirstConfig
        <5>2. ReadConfig = o
          BY <2>1, <4>3, <5>1, RelocationAssumption DEF ReadConfig, Kind
        <5>3. FirstConfig("old")' = o /\ FirstConfig("new")' = json["old"]
          BY <4>1, <4>3 DEF FirstConfig
        <5>4. /\ Kind' \in {"equal", "divergent"}
              /\ Kind' = "equal" => json["old"] # Bad /\ MaterialEqual(o, json["old"])
          BY <4>1, <5>1, <5>3 DEF Kind
        <5>5. ReadConfig' = IF Kind' = "divergent" THEN Bad ELSE json["old"]
          BY <4>1, <4>3, <5>4 DEF ReadConfig
        <5>6. CASE Kind' = "divergent"
          BY <5>5, <5>6 DEF Load, LoadFails
        <5>7. CASE Kind' = "equal"
          <6>1. json["old"] \in Config
            BY <3>4, <4>1, <5>4, <5>7 DEF FileState, Dir
          <6>2. o \in Config /\ o.ref # None
            BY <1>1, <2>1, <5>2 DEF NamedInv, Named, FirstConfig, Dir
          <6>3. SameSettings(Load, Defaulted(json["old"]))
            BY <2>1, <5>2, <5>4, <5>7, <6>1, <6>2, EqualIsSame
          <6>4. Load' \in {Bad, Defaulted(json["old"])}
            BY <5>5, <5>7 DEF Load
          <6>. QED
            BY <6>3, <6>4
        <5>. QED
          BY <5>4, <5>6, <5>7
      <4>. QED
        BY <4>2, <4>3
    <3>7. CASE Copying(p) \notin {"yml", "json"}
      BY <2>3, <3>3, <3>7
    <3>. QED
      BY <3>5, <3>6, <3>7
  <2>6. ASSUME \/ GateConflict(p) \/ GatePasses(p) \/ CopyList(p) \/ CopySkip(p)
               \/ CopyRead(p) \/ CopyDone(p) \/ Stop(p)
        PROVE  Kept
    BY <2>3, <2>6
    DEF GateConflict, GatePasses, CopyList, CopySkip, CopyRead, CopyDone, Stop
  <2>7. \/ CopyRename(p) \/ GateConflict(p) \/ GatePasses(p) \/ CopyList(p)
        \/ CopySkip(p) \/ CopyRead(p) \/ CopyDone(p) \/ Stop(p)
    BY <1>1 DEF Next, CopyStep, Start, LoadError, Migrate, InitKeeps,
       InitRecords, UseProfile, ClearFile, ClearDone, Ended
  <2>. QED
    BY <2>5, <2>6, <2>7
<1>2. OneInv /\ NamedInv /\ [Next]_vars => [\A p \in Proc : Survives(p)]_vars
  BY <1>1
<1>3. Spec => []OneInv
  BY OneInvHolds
<1>4. Spec => []NamedInv
  BY NamedInvHolds
<1>. QED
  BY <1>2, <1>3, <1>4, PTL DEF Spec, SettingsSurvive

(* A reset is final: after config clear --all has succeeded, no file is    *)
(* left that a later init would bring back (configFilesForClear).          *)
THEOREM ClearIsFinalHolds ==
    ASSUME \A p, q \in Proc : p = q
    PROVE  Spec => ClearIsFinal
<1>. DEFINE Final(p) == pc[p] = "clear" /\ pc'[p] = "done" =>
                            Kind = "none" /\ Load = Defaulted(DefaultConfig)
<1>1. OneInv /\ [Next]_vars => [\A p \in Proc : Final(p)]_vars
  <2>. SUFFICES ASSUME OneInv, Next, NEW p \in Proc, pc[p] = "clear", pc'[p] = "done"
                PROVE  Kind = "none" /\ Load = Defaulted(DefaultConfig)
    OBVIOUS
  <2>1. TypeOK /\ Alone(p)
    BY DEF OneInv
  <2>2. ClearDone(p)
    BY <2>1 DEF Next, Start, GateConflict, GatePasses, CopyStep, CopyList, CopySkip, CopyNext,
       CopyRead, CopyRename, CopyDone, LoadError, Migrate, InitKeeps, InitRecords, UseProfile,
       ClearFile, Stop, Ended, Goto, TypeOK
  <2>3. \A k \in 1..4 : Gone(ClearOrder[k])
    <3>1. next[p] > 4 /\ next[p] \in Nat
      BY <2>1, <2>2 DEF ClearDone, ClearCount, ClearOrder, TypeOK
    <3>. QED
      BY <2>1, <3>1 DEF Alone, ClearedSoFar
  <2>4. \A d \in Dir : yml[d] = None /\ json[d] = None
    BY <2>3 DEF Gone, ClearOrder, Dir
  <2>5. Kind = "none" /\ ReadConfig = DefaultConfig
    BY <2>4 DEF Kind, ReadConfig, FirstConfig, Dir
  <2>6. ReadConfig # Bad
    BY <2>5, RelocationAssumption DEF DefaultConfig, Config, NoneOwned, Owned
  <2>7. ~Conflicting(ReadConfig, ActiveOf(ReadConfig))
    BY <2>5, RelocationAssumption
    DEF Conflicting, Diverge, Entry, ActiveOf, DefaultConfig, NoneOwned
  <2>. QED
    BY <2>5, <2>6, <2>7 DEF Load, LoadFails
<1>. QED
  BY <1>1, OneInvHolds, PTL DEF Spec, ClearIsFinal

=============================================================================
