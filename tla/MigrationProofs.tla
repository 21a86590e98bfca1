--------------------------- MODULE MigrationProofs ---------------------------
(***************************************************************************)
(* Proofs about Migration for any number of processes, sources and tokens, *)
(* with or without failing reads and for any bound on faults.              *)
(***************************************************************************)
EXTENDS Migration, TLAPS

(* Every variable keeps its type: no run of the migration leaves a value   *)
(* in the keyring, a source or a file that the code has no case for.       *)
THEOREM TypeCorrect == Spec => []TypeOK
<1>. USE MigrationAssumption
     DEF Source, Value, ClientState, ConfigState, Op, Ended, Running
<1>1. Init => TypeOK
  BY DEF Init, TypeOK
<1>2. TypeOK /\ [Next]_vars => TypeOK'
  <2>. SUFFICES ASSUME TypeOK, [Next]_vars
                PROVE  TypeOK'
    OBVIOUS
  <2>. USE DEF TypeOK, Goto, diskVars, clientVars, configVars, planVars,
               tokenVars, historyVars
  <2>1. ASSUME NEW p \in Proc, NEW o \in UserOp, Start(p, o)
        PROVE  TypeOK'
    BY <2>1 DEF Start, LoadedPath, FirstStep, Ended
  <2>2. ASSUME NEW p \in Proc, ClientAbsent(p)
        PROVE  TypeOK'
    BY <2>2 DEF ClientAbsent
  <2>3. ASSUME NEW p \in Proc, ClientInPlace(p)
        PROVE  TypeOK'
    BY <2>3 DEF ClientInPlace
  <2>4. ASSUME NEW p \in Proc, ClientSuperseded(p)
        PROVE  TypeOK'
    BY <2>4 DEF ClientSuperseded
  <2>5. ASSUME NEW p \in Proc, ClientUnusable(p)
        PROVE  TypeOK'
    BY <2>5 DEF ClientUnusable
  <2>6. ASSUME NEW p \in Proc, ClientInstall(p)
        PROVE  TypeOK'
    BY <2>6 DEF ClientInstall
  <2>7. ASSUME NEW p \in Proc, InstallBegin(p)
        PROVE  TypeOK'
    BY <2>7 DEF InstallBegin
  <2>8. ASSUME NEW p \in Proc, InstallEnd(p)
        PROVE  TypeOK'
    BY <2>8 DEF InstallEnd
  <2>9. ASSUME NEW p \in Proc, PromoteNothing(p)
        PROVE  TypeOK'
    BY <2>9 DEF PromoteNothing
  <2>10. ASSUME NEW p \in Proc, PromoteSave(p)
        PROVE  TypeOK'
    BY <2>10 DEF PromoteSave
  <2>11. ASSUME NEW p \in Proc, PromoteRemove(p)
        PROVE  TypeOK'
    BY <2>11 DEF PromoteRemove
  <2>12. ASSUME NEW p \in Proc, Scan(p)
        PROVE  TypeOK'
    BY <2>12 DEF Scan, ReadsOf
  <2>13. ASSUME NEW p \in Proc, ScanNothing(p)
        PROVE  TypeOK'
    BY <2>13 DEF ScanNothing
  <2>14. ASSUME NEW p \in Proc, ScanDone(p)
        PROVE  TypeOK'
    BY <2>14 DEF ScanDone
  <2>15. ASSUME NEW p \in Proc, PlanConflict(p)
        PROVE  TypeOK'
    BY <2>15 DEF PlanConflict
  <2>16. ASSUME NEW p \in Proc, PlanCleanup(p)
        PROVE  TypeOK'
    BY <2>16 DEF PlanCleanup, Candidates
  <2>17. ASSUME NEW p \in Proc, PlanWrite(p)
        PROVE  TypeOK'
    BY <2>17 DEF PlanWrite, Candidates
  <2>18. ASSUME NEW p \in Proc, WriteKeyring(p)
        PROVE  TypeOK'
    BY <2>18 DEF WriteKeyring, Candidates
  <2>19. ASSUME NEW p \in Proc, WriteRefused(p)
        PROVE  TypeOK'
    BY <2>19 DEF WriteRefused
  <2>20. ASSUME NEW p \in Proc, NEW s \in Source, CleanupItem(p, s)
        PROVE  TypeOK'
    BY <2>20 DEF CleanupItem, NextCleanup
  <2>21. ASSUME NEW p \in Proc, NEW s \in Source, CleanupZero(p, s)
        PROVE  TypeOK'
    BY <2>21 DEF CleanupZero
  <2>22. ASSUME NEW p \in Proc, NEW s \in Source, CleanupUnlink(p, s)
        PROVE  TypeOK'
    BY <2>22 DEF CleanupUnlink, NextCleanup
  <2>23. ASSUME NEW p \in Proc, CleanupDone(p)
        PROVE  TypeOK'
    BY <2>23 DEF CleanupDone
  <2>24. ASSUME NEW p \in Proc, Save(p)
        PROVE  TypeOK'
    BY <2>24 DEF Save
  <2>25. ASSUME NEW p \in Proc, RemoveClient(p)
        PROVE  TypeOK'
    BY <2>25 DEF RemoveClient
  <2>26. ASSUME NEW p \in Proc, UseToken(p)
        PROVE  TypeOK'
    BY <2>26 DEF UseToken
  <2>27. ASSUME NEW p \in Proc, NoToken(p)
        PROVE  TypeOK'
    BY <2>27 DEF NoToken
  <2>28. ASSUME NEW p \in Proc, NEW t \in NewToken, Refresh(p, t)
        PROVE  TypeOK'
    BY <2>28 DEF Refresh, SetToken
  <2>29. ASSUME NEW p \in Proc, Finish(p)
        PROVE  TypeOK'
    BY <2>29 DEF Finish
  <2>30. ASSUME NEW p \in Proc, NEW t \in NewToken, SetCredential(p, t)
        PROVE  TypeOK'
    BY <2>30 DEF SetCredential, SetToken
  <2>31. ASSUME NEW p \in Proc, ClearToken(p)
        PROVE  TypeOK'
    BY <2>31 DEF ClearToken
  <2>32. ASSUME NEW p \in Proc, ClearSkipsToken(p)
        PROVE  TypeOK'
    BY <2>32 DEF ClearSkipsToken
  <2>33. ASSUME NEW p \in Proc, ClearYml(p)
        PROVE  TypeOK'
    BY <2>33 DEF ClearYml
  <2>34. ASSUME NEW p \in Proc, ClearJson(p)
        PROVE  TypeOK'
    BY <2>34 DEF ClearJson
  <2>35. ASSUME NEW p \in Proc, Fail(p)
        PROVE  TypeOK'
    BY <2>35 DEF Fail, Fault
  <2>36. ASSUME NEW p \in Proc, Crash(p)
        PROVE  TypeOK'
    BY <2>36 DEF Crash, Fault
  <2>37. CASE UNCHANGED vars
    BY <2>37 DEF vars
  <2>. QED
    BY <2>1, <2>2, <2>3, <2>4, <2>5, <2>6, <2>7, <2>8, <2>9, <2>10, <2>11,
       <2>12, <2>13, <2>14, <2>15, <2>16, <2>17, <2>18, <2>19, <2>20, <2>21,
       <2>22, <2>23, <2>24, <2>25, <2>26, <2>27, <2>28, <2>29, <2>30, <2>31,
       <2>32, <2>33, <2>34, <2>35, <2>36, <2>37
       DEF Next, Step, OpenStep, AfterOpen, ClearStep
<1>3. QED
  BY <1>1, <1>2, PTL DEF Spec

-----------------------------------------------------------------------------
(* What the inductive invariant adds to the types.                         *)
Safety ==
    /\ OnlyDecays
    /\ PlanIsSound
    /\ CleanupIsSafe
    /\ TokenNeverLost

(* No step of any process breaks the invariant.  The interesting cases are *)
(* the reads, the plan, the write and the three steps of the deleters; the *)
(* others move between steps, or add to what the user has replaced.        *)
LEMMA SafetyPreserved ==
    ASSUME TypeOK, TypeOK', Safety, [Next]_vars
    PROVE  Safety'
<1>. USE MigrationAssumption
     DEF Source, Value, ClientState, ConfigState, Op, Ended, Running
<1>1. Safety'
  <2>. USE DEF TypeOK, Goto, diskVars, clientVars, configVars, planVars,
               tokenVars, historyVars, Safety, PlanIsSound
  <2>1. ASSUME NEW p \in Proc, Scan(p)
        PROVE  Safety'
    <3>1. OnlyDecays'
      BY <2>1 DEF Scan, ReadsOf, OnlyDecays
    <3>2. PlannedAfterScan'
      BY <2>1 DEF Scan, ReadsOf, PlannedAfterScan
    <3>3. WriteIsAgreed'
      BY <2>1 DEF Scan, ReadsOf, WriteIsAgreed, OnlyCandidatesGo, Candidates
    <3>4. OnlyCandidatesGo'
      BY <2>1 DEF Scan, ReadsOf, OnlyCandidatesGo, Candidates
    <3>5. EmptyStaysEmpty'
      BY <2>1 DEF Scan, ReadsOf, EmptyStaysEmpty
    <3>6. DeletedIsGone'
      BY <2>1 DEF Scan, ReadsOf, DeletedIsGone, EmptyStaysEmpty,
         PlannedAfterScan, WriteIsAgreed, Candidates
    <3>7. CleanupIsSafe'
      BY <2>1 DEF Scan, ReadsOf, CleanupIsSafe, OnlyCandidatesGo,
         WriteIsAgreed, Candidates
    <3>8. TokenNeverLost'
      BY <2>1 DEF Scan, ReadsOf, TokenNeverLost, Held, CleanupIsSafe,
         OnlyDecays, OnlyCandidatesGo, Candidates
    <3>. QED
      BY <3>1, <3>2, <3>3, <3>4, <3>5, <3>6, <3>7, <3>8 DEF PlanIsSound
  <2>2. ASSUME NEW p \in Proc, PlanCleanup(p)
        PROVE  Safety'
    <3>1. OnlyDecays'
      BY <2>2 DEF PlanCleanup, Candidates, Disagrees, Agreed, ReadsOf,
         OnlyDecays
    <3>2. PlannedAfterScan'
      BY <2>2 DEF PlanCleanup, Candidates, Disagrees, Agreed, ReadsOf,
         PlannedAfterScan
    <3>3. WriteIsAgreed'
      BY <2>2 DEF PlanCleanup, Candidates, Disagrees, Agreed, ReadsOf,
         WriteIsAgreed, OnlyCandidatesGo
    <3>4. OnlyCandidatesGo'
      BY <2>2 DEF PlanCleanup, Candidates, Disagrees, Agreed, ReadsOf,
         OnlyCandidatesGo
    <3>5. EmptyStaysEmpty'
      BY <2>2 DEF PlanCleanup, Candidates, Disagrees, Agreed, ReadsOf,
         EmptyStaysEmpty
    <3>6. DeletedIsGone'
      BY <2>2 DEF PlanCleanup, Candidates, Disagrees, Agreed, ReadsOf,
         DeletedIsGone, EmptyStaysEmpty, PlannedAfterScan, WriteIsAgreed
    <3>7. CleanupIsSafe'
      BY <2>2 DEF PlanCleanup, Candidates, Disagrees, Agreed, ReadsOf,
         CleanupIsSafe, OnlyCandidatesGo, WriteIsAgreed
    <3>8. TokenNeverLost'
      BY <2>2 DEF PlanCleanup, Candidates, Disagrees, Agreed, ReadsOf,
         TokenNeverLost, Held, CleanupIsSafe, OnlyDecays, OnlyCandidatesGo
    <3>. QED
      BY <3>1, <3>2, <3>3, <3>4, <3>5, <3>6, <3>7, <3>8 DEF PlanIsSound
  <2>3. ASSUME NEW p \in Proc, PlanWrite(p)
        PROVE  Safety'
    <3>1. OnlyDecays'
      BY <2>3 DEF PlanWrite, Candidates, Disagrees, Agreed, ReadsOf,
         OnlyDecays
    <3>2. PlannedAfterScan'
      BY <2>3 DEF PlanWrite, Candidates, Disagrees, Agreed, ReadsOf,
         PlannedAfterScan
    <3>3. WriteIsAgreed'
      BY <2>3 DEF PlanWrite, Candidates, Disagrees, Agreed, ReadsOf,
         WriteIsAgreed, OnlyCandidatesGo
    <3>4. OnlyCandidatesGo'
      BY <2>3 DEF PlanWrite, Candidates, Disagrees, Agreed, ReadsOf,
         OnlyCandidatesGo
    <3>5. EmptyStaysEmpty'
      BY <2>3 DEF PlanWrite, Candidates, Disagrees, Agreed, ReadsOf,
         EmptyStaysEmpty
    <3>6. DeletedIsGone'
      BY <2>3 DEF PlanWrite, Candidates, Disagrees, Agreed, ReadsOf,
         DeletedIsGone, EmptyStaysEmpty, PlannedAfterScan, WriteIsAgreed
    <3>7. CleanupIsSafe'
      BY <2>3 DEF PlanWrite, Candidates, Disagrees, Agreed, ReadsOf,
         CleanupIsSafe, OnlyCandidatesGo, WriteIsAgreed
    <3>8. TokenNeverLost'
      BY <2>3 DEF PlanWrite, Candidates, Disagrees, Agreed, ReadsOf,
         TokenNeverLost, Held, CleanupIsSafe, OnlyDecays, OnlyCandidatesGo
    <3>. QED
      BY <3>1, <3>2, <3>3, <3>4, <3>5, <3>6, <3>7, <3>8 DEF PlanIsSound
  <2>4. ASSUME NEW p \in Proc, WriteKeyring(p)
        PROVE  Safety'
    <3>1. OnlyDecays'
      BY <2>4 DEF WriteKeyring, Candidates, MayWrite, OnlyDecays
    <3>2. PlannedAfterScan'
      BY <2>4 DEF WriteKeyring, Candidates, MayWrite, PlannedAfterScan
    <3>3. WriteIsAgreed'
      BY <2>4 DEF WriteKeyring, Candidates, MayWrite, WriteIsAgreed,
         OnlyCandidatesGo
    <3>4. OnlyCandidatesGo'
      BY <2>4 DEF WriteKeyring, Candidates, MayWrite, OnlyCandidatesGo
    <3>5. EmptyStaysEmpty'
      BY <2>4 DEF WriteKeyring, Candidates, MayWrite, EmptyStaysEmpty
    <3>6. DeletedIsGone'
      BY <2>4 DEF WriteKeyring, Candidates, MayWrite, DeletedIsGone,
         EmptyStaysEmpty, PlannedAfterScan, WriteIsAgreed
    <3>7. CleanupIsSafe'
      BY <2>4 DEF WriteKeyring, Candidates, MayWrite, CleanupIsSafe,
         OnlyCandidatesGo, WriteIsAgreed
    <3>8. TokenNeverLost'
      <4>. SUFFICES ASSUME NEW t \in known, t \notin superseded
                    PROVE  t \in Held'
        BY <2>4 DEF WriteKeyring, TokenNeverLost
      <4>1. PICK s \in Source : legacy[s] = t
        BY <2>4 DEF WriteKeyring, MayWrite, TokenNeverLost, Held
      <4>. QED
        BY <4>1, <2>4 DEF WriteKeyring, Held
    <3>. QED
      BY <3>1, <3>2, <3>3, <3>4, <3>5, <3>6, <3>7, <3>8 DEF PlanIsSound
  <2>5. ASSUME NEW p \in Proc, NEW s \in Source, CleanupItem(p, s)
        PROVE  Safety'
    <3>1. OnlyDecays'
      BY <2>5 DEF CleanupItem, NextCleanup, OnlyDecays
    <3>2. PlannedAfterScan'
      BY <2>5 DEF CleanupItem, NextCleanup, PlannedAfterScan
    <3>3. WriteIsAgreed'
      BY <2>5 DEF CleanupItem, NextCleanup, WriteIsAgreed, OnlyCandidatesGo,
         Candidates
    <3>4. OnlyCandidatesGo'
      BY <2>5 DEF CleanupItem, NextCleanup, OnlyCandidatesGo, Candidates
    <3>5. EmptyStaysEmpty'
      BY <2>5 DEF CleanupItem, NextCleanup, EmptyStaysEmpty
    <3>6. DeletedIsGone'
      BY <2>5 DEF CleanupItem, NextCleanup, DeletedIsGone, EmptyStaysEmpty,
         PlannedAfterScan, WriteIsAgreed, Candidates
    <3>7. CleanupIsSafe'
      BY <2>5 DEF CleanupItem, NextCleanup, CleanupIsSafe, OnlyCandidatesGo,
         WriteIsAgreed, Candidates
    <3>8. TokenNeverLost'
      <4>. SUFFICES ASSUME NEW t \in known, t \notin superseded
                    PROVE  t \in Held'
        BY <2>5 DEF CleanupItem, TokenNeverLost
      <4>1. CASE t = keyring
        BY <4>1, <2>5 DEF CleanupItem, Held
      <4>2. CASE \E r \in Source \ {s} : legacy[r] = t
        BY <4>2, <2>5 DEF CleanupItem, Held
      <4>3. ASSUME legacy[s] = t
            PROVE  t = keyring
        <5>1. s \in todo[p] /\ pc[p] \in {"cleanup", "erase"}
          BY <2>5 DEF CleanupItem, NextCleanup
        <5>2. t \in Token /\ found[p][s] # None
          BY <5>1 DEF OnlyCandidatesGo, Candidates
        <5>3. legacy[s] \in {found[p][s], Zeroed, None}
          BY <5>2, Zenon DEF OnlyDecays
        <5>4. found[p][s] = t
          BY <5>2, <5>3, <4>3, Zenon
        <5>. QED
          BY <5>1, <5>4 DEF CleanupIsSafe
      <4>. QED
        BY <4>1, <4>2, <4>3 DEF TokenNeverLost, Held
    <3>. QED
      BY <3>1, <3>2, <3>3, <3>4, <3>5, <3>6, <3>7, <3>8 DEF PlanIsSound
  <2>6. ASSUME NEW p \in Proc, NEW s \in Source, CleanupZero(p, s)
        PROVE  Safety'
    <3>1. OnlyDecays'
      BY <2>6 DEF CleanupZero, NextCleanup, OnlyDecays
    <3>2. PlannedAfterScan'
      BY <2>6 DEF CleanupZero, NextCleanup, PlannedAfterScan
    <3>3. WriteIsAgreed'
      BY <2>6 DEF CleanupZero, NextCleanup, WriteIsAgreed, OnlyCandidatesGo,
         Candidates
    <3>4. OnlyCandidatesGo'
      BY <2>6 DEF CleanupZero, NextCleanup, OnlyCandidatesGo, Candidates
    <3>5. EmptyStaysEmpty'
      BY <2>6 DEF CleanupZero, NextCleanup, EmptyStaysEmpty
    <3>6. DeletedIsGone'
      BY <2>6 DEF CleanupZero, NextCleanup, DeletedIsGone, EmptyStaysEmpty,
         PlannedAfterScan, WriteIsAgreed, Candidates
    <3>7. CleanupIsSafe'
      BY <2>6 DEF CleanupZero, NextCleanup, CleanupIsSafe, OnlyCandidatesGo,
         WriteIsAgreed, Candidates
    <3>8. TokenNeverLost'
      <4>. SUFFICES ASSUME NEW t \in known, t \notin superseded
                    PROVE  t \in Held'
        BY <2>6 DEF CleanupZero, TokenNeverLost
      <4>1. CASE t = keyring
        BY <4>1, <2>6 DEF CleanupZero, Held
      <4>2. CASE \E r \in Source \ {s} : legacy[r] = t
        BY <4>2, <2>6 DEF CleanupZero, Held
      <4>3. ASSUME legacy[s] = t
            PROVE  t = keyring
        <5>1. s \in todo[p] /\ pc[p] \in {"cleanup", "erase"}
          BY <2>6 DEF CleanupZero, NextCleanup
        <5>2. t \in Token /\ found[p][s] # None
          BY <5>1 DEF OnlyCandidatesGo, Candidates
        <5>3. legacy[s] \in {found[p][s], Zeroed, None}
          BY <5>2, Zenon DEF OnlyDecays
        <5>4. found[p][s] = t
          BY <5>2, <5>3, <4>3, Zenon
        <5>. QED
          BY <5>1, <5>4 DEF CleanupIsSafe
      <4>. QED
        BY <4>1, <4>2, <4>3 DEF TokenNeverLost, Held
    <3>. QED
      BY <3>1, <3>2, <3>3, <3>4, <3>5, <3>6, <3>7, <3>8 DEF PlanIsSound
  <2>7. ASSUME NEW p \in Proc, NEW s \in Source, CleanupUnlink(p, s)
        PROVE  Safety'
    <3>1. OnlyDecays'
      BY <2>7 DEF CleanupUnlink, NextCleanup, OnlyDecays
    <3>2. PlannedAfterScan'
      BY <2>7 DEF CleanupUnlink, NextCleanup, PlannedAfterScan
    <3>3. WriteIsAgreed'
      BY <2>7 DEF CleanupUnlink, NextCleanup, WriteIsAgreed,
         OnlyCandidatesGo, Candidates
    <3>4. OnlyCandidatesGo'
      BY <2>7 DEF CleanupUnlink, NextCleanup, OnlyCandidatesGo, Candidates
    <3>5. EmptyStaysEmpty'
      BY <2>7 DEF CleanupUnlink, NextCleanup, EmptyStaysEmpty
    <3>6. DeletedIsGone'
      BY <2>7 DEF CleanupUnlink, NextCleanup, DeletedIsGone,
         EmptyStaysEmpty, PlannedAfterScan, WriteIsAgreed, Candidates
    <3>7. CleanupIsSafe'
      BY <2>7 DEF CleanupUnlink, NextCleanup, CleanupIsSafe,
         OnlyCandidatesGo, WriteIsAgreed, Candidates
    <3>8. TokenNeverLost'
      <4>. SUFFICES ASSUME NEW t \in known, t \notin superseded
                    PROVE  t \in Held'
        BY <2>7 DEF CleanupUnlink, TokenNeverLost
      <4>1. CASE t = keyring
        BY <4>1, <2>7 DEF CleanupUnlink, Held
      <4>2. CASE \E r \in Source \ {s} : legacy[r] = t
        BY <4>2, <2>7 DEF CleanupUnlink, Held
      <4>3. ASSUME legacy[s] = t
            PROVE  t = keyring
        <5>1. s \in todo[p] /\ pc[p] \in {"cleanup", "erase"}
          BY <2>7 DEF CleanupUnlink, NextCleanup
        <5>2. t \in Token /\ found[p][s] # None
          BY <5>1 DEF OnlyCandidatesGo, Candidates
        <5>3. legacy[s] \in {found[p][s], Zeroed, None}
          BY <5>2, Zenon DEF OnlyDecays
        <5>4. found[p][s] = t
          BY <5>2, <5>3, <4>3, Zenon
        <5>. QED
          BY <5>1, <5>4 DEF CleanupIsSafe
      <4>. QED
        BY <4>1, <4>2, <4>3 DEF TokenNeverLost, Held
    <3>. QED
      BY <3>1, <3>2, <3>3, <3>4, <3>5, <3>6, <3>7, <3>8 DEF PlanIsSound
  <2>. USE DEF OnlyDecays, PlannedAfterScan, WriteIsAgreed, OnlyCandidatesGo,
               EmptyStaysEmpty, DeletedIsGone, CleanupIsSafe, TokenNeverLost,
               Held, Candidates
  <2>8. ASSUME NEW p \in Proc, NEW o \in UserOp, Start(p, o)
        PROVE  Safety'
    BY <2>8 DEF Start, LoadedPath, FirstStep, Ended
  <2>9. ASSUME NEW p \in Proc, ClientAbsent(p)
        PROVE  Safety'
    BY <2>9 DEF ClientAbsent
  <2>10. ASSUME NEW p \in Proc, ClientInPlace(p)
        PROVE  Safety'
    BY <2>10 DEF ClientInPlace
  <2>11. ASSUME NEW p \in Proc, ClientSuperseded(p)
        PROVE  Safety'
    BY <2>11 DEF ClientSuperseded
  <2>12. ASSUME NEW p \in Proc, ClientUnusable(p)
        PROVE  Safety'
    BY <2>12 DEF ClientUnusable
  <2>13. ASSUME NEW p \in Proc, ClientInstall(p)
        PROVE  Safety'
    BY <2>13 DEF ClientInstall
  <2>14. ASSUME NEW p \in Proc, InstallBegin(p)
        PROVE  Safety'
    <3>1. /\ UNCHANGED <<legacy, keyring, found, scan, todo, known, superseded>>
          /\ pc' = [pc EXCEPT ![p] = "installing"]
          /\ todo[p] = {}
      BY <2>14 DEF InstallBegin
    <3>. QED
      BY <3>1
  <2>15. ASSUME NEW p \in Proc, InstallEnd(p)
        PROVE  Safety'
    BY <2>15 DEF InstallEnd
  <2>16. ASSUME NEW p \in Proc, PromoteNothing(p)
        PROVE  Safety'
    BY <2>16 DEF PromoteNothing
  <2>17. ASSUME NEW p \in Proc, PromoteSave(p)
        PROVE  Safety'
    BY <2>17 DEF PromoteSave
  <2>18. ASSUME NEW p \in Proc, PromoteRemove(p)
        PROVE  Safety'
    BY <2>18 DEF PromoteRemove
  <2>19. ASSUME NEW p \in Proc, ScanNothing(p)
        PROVE  Safety'
    <3>1. /\ UNCHANGED <<legacy, keyring, found, scan, todo, known, superseded>>
          /\ \E l \in {"save", "rmclient"} : pc' = [pc EXCEPT ![p] = l]
      BY <2>19 DEF ScanNothing
    <3>2. ~FlakyReads => \A s \in Source : legacy[s] = None
      <4>. SUFFICES ASSUME ~FlakyReads, NEW s \in Source
                    PROVE  legacy[s] = None
        OBVIOUS
      <4>1. scan[p] = NumSources + 1
        <5>1. scan[p] \in 1..(NumSources + 1)
          OBVIOUS
        <5>2. scan[p] \notin 1..NumSources
          BY <2>19, Zenon DEF ScanNothing
        <5>3. NumSources \in Nat
          OBVIOUS
        <5>. HIDE DEF TypeOK, Safety, OnlyDecays, PlannedAfterScan, WriteIsAgreed,
                      EmptyStaysEmpty, DeletedIsGone, CleanupIsSafe,
                      TokenNeverLost, OnlyCandidatesGo, PlanIsSound
        <5>. QED
          BY <5>1, <5>2, <5>3
      <4>2. s < scan[p]
        BY <4>1
      <4>3. found[p][s] = None
        BY <2>19 DEF ScanNothing
      <4>. QED
        BY <4>2, <4>3 DEF EmptyStaysEmpty
    <3>. QED
      BY <3>1, <3>2
  <2>20. ASSUME NEW p \in Proc, ScanDone(p)
        PROVE  Safety'
    BY <2>20 DEF ScanDone
  <2>21. ASSUME NEW p \in Proc, PlanConflict(p)
        PROVE  Safety'
    BY <2>21 DEF PlanConflict
  <2>22. ASSUME NEW p \in Proc, WriteRefused(p)
        PROVE  Safety'
    BY <2>22 DEF WriteRefused
  <2>23. ASSUME NEW p \in Proc, CleanupDone(p)
        PROVE  Safety'
    BY <2>23 DEF CleanupDone
  <2>24. ASSUME NEW p \in Proc, Save(p)
        PROVE  Safety'
    BY <2>24 DEF Save
  <2>25. ASSUME NEW p \in Proc, RemoveClient(p)
        PROVE  Safety'
    BY <2>25 DEF RemoveClient
  <2>26. ASSUME NEW p \in Proc, UseToken(p)
        PROVE  Safety'
    BY <2>26 DEF UseToken
  <2>27. ASSUME NEW p \in Proc, NoToken(p)
        PROVE  Safety'
    BY <2>27 DEF NoToken
  <2>28. ASSUME NEW p \in Proc, NEW t \in NewToken, Refresh(p, t)
        PROVE  Safety'
    BY <2>28 DEF Refresh, SetToken
  <2>29. ASSUME NEW p \in Proc, Finish(p)
        PROVE  Safety'
    BY <2>29 DEF Finish
  <2>30. ASSUME NEW p \in Proc, NEW t \in NewToken, SetCredential(p, t)
        PROVE  Safety'
    BY <2>30 DEF SetCredential, SetToken
  <2>31. ASSUME NEW p \in Proc, ClearToken(p)
        PROVE  Safety'
    BY <2>31 DEF ClearToken
  <2>32. ASSUME NEW p \in Proc, ClearSkipsToken(p)
        PROVE  Safety'
    BY <2>32 DEF ClearSkipsToken
  <2>33. ASSUME NEW p \in Proc, ClearYml(p)
        PROVE  Safety'
    BY <2>33 DEF ClearYml
  <2>34. ASSUME NEW p \in Proc, ClearJson(p)
        PROVE  Safety'
    BY <2>34 DEF ClearJson
  <2>35. ASSUME NEW p \in Proc, Fail(p)
        PROVE  Safety'
    BY <2>35 DEF Fail, Fault
  <2>36. ASSUME NEW p \in Proc, Crash(p)
        PROVE  Safety'
    BY <2>36 DEF Crash, Fault
  <2>37. CASE UNCHANGED vars
    BY <2>37 DEF vars
  <2>. QED
    BY <2>1, <2>2, <2>3, <2>4, <2>5, <2>6, <2>7, <2>8, <2>9, <2>10, <2>11,
       <2>12, <2>13, <2>14, <2>15, <2>16, <2>17, <2>18, <2>19, <2>20, <2>21,
       <2>22, <2>23, <2>24, <2>25, <2>26, <2>27, <2>28, <2>29, <2>30, <2>31,
       <2>32, <2>33, <2>34, <2>35, <2>36, <2>37
       DEF Next, Step, OpenStep, AfterOpen, ClearStep
<1>. QED
  BY <1>1

(* The invariant holds in every reachable state.                           *)
THEOREM InductiveInvariant == Spec => []IInv
<1>1. Init => Safety
  BY MigrationAssumption
     DEF Init, Safety, OnlyDecays, PlanIsSound, PlannedAfterScan,
         WriteIsAgreed, OnlyCandidatesGo, EmptyStaysEmpty, DeletedIsGone,
         CleanupIsSafe, TokenNeverLost, Held, Candidates, Source
<1>2. TypeOK /\ TypeOK' /\ Safety /\ [Next]_vars => Safety'
  BY SafetyPreserved
<1>3. TypeOK /\ Safety => IInv
  BY DEF Safety, IInv
<1>. QED
  BY <1>1, <1>2, <1>3, TypeCorrect, PTL DEF Spec

(* A migration never loses a token: for every number of processes and      *)
(* legacy sources, with crashes between any two steps and failing reads, a *)
(* token the machine held is in the keyring or in a legacy source unless a *)
(* user action replaced it.                                                *)
THEOREM TokenNeverLostHolds == Spec => []TokenNeverLost
<1>1. IInv => TokenNeverLost
  BY DEF IInv
<1>. QED
  BY <1>1, InductiveInvariant, PTL

(* What a deleter is about to remove is in the keyring, or a user replaced  *)
(* it there: a cleanup never deletes the only copy of a token, although it  *)
(* acts on what was read before the write.                                  *)
THEOREM CleanupIsSafeHolds == Spec => []CleanupIsSafe
<1>1. IInv => CleanupIsSafe
  BY DEF IInv
<1>. QED
  BY <1>1, InductiveInvariant, PTL

(* When reads do not fail, Open returns only with every legacy original    *)
(* removed, whatever the other processes do.                               *)
THEOREM OpenedMeansMigratedHolds == Spec => []OpenedMeansMigrated
<1>1. IInv => OpenedMeansMigrated
  BY DEF IInv, PlanIsSound, DeletedIsGone, OpenedMeansMigrated
<1>. QED
  BY <1>1, InductiveInvariant, PTL

-----------------------------------------------------------------------------
(* That the migration implements the abstract keychain.  What is planned    *)
(* and what lies in the sources was held at some time, and a lone           *)
(* invocation plans with what the sources still hold.                       *)
Planning == {"client", "install", "installing", "promote", "unjson", "scan",
             "plan", "write"}

SourcesKnown == \A s \in Source : legacy[s] \in known \cup {Zeroed, None}

FoundKnown ==
    \A p \in Proc, s \in Source : found[p][s] \in known \cup {Zeroed, None}

AloneIsFresh ==
    ~Overlap =>
        \A p \in Proc : pc[p] \in Planning =>
            \A s \in Source : found[p][s] # None => legacy[s] = found[p][s]

PlanIsKnown == SourcesKnown /\ FoundKnown /\ AloneIsFresh

LEMMA PlanIsKnownPreserved ==
    ASSUME TypeOK, PlanIsKnown, [Next]_vars
    PROVE  PlanIsKnown'
<1>. USE MigrationAssumption
<1>1. PlanIsKnown'
  <2>. USE DEF TypeOK, Goto, diskVars, clientVars, configVars, planVars,
               tokenVars, historyVars, PlanIsKnown, SourcesKnown, FoundKnown,
               AloneIsFresh, Planning, Ended, Running, Overlap
  <2>1. ASSUME NEW p \in Proc, NEW o \in UserOp, Start(p, o)
        PROVE  PlanIsKnown'
    BY <2>1 DEF Start, LoadedPath, FirstStep
  <2>2. ASSUME NEW p \in Proc, ClientAbsent(p)
        PROVE  PlanIsKnown'
    BY <2>2 DEF ClientAbsent
  <2>3. ASSUME NEW p \in Proc, ClientInPlace(p)
        PROVE  PlanIsKnown'
    BY <2>3 DEF ClientInPlace
  <2>4. ASSUME NEW p \in Proc, ClientSuperseded(p)
        PROVE  PlanIsKnown'
    BY <2>4 DEF ClientSuperseded
  <2>5. ASSUME NEW p \in Proc, ClientUnusable(p)
        PROVE  PlanIsKnown'
    BY <2>5 DEF ClientUnusable
  <2>6. ASSUME NEW p \in Proc, ClientInstall(p)
        PROVE  PlanIsKnown'
    BY <2>6 DEF ClientInstall
  <2>7. ASSUME NEW p \in Proc, InstallBegin(p)
        PROVE  PlanIsKnown'
    BY <2>7 DEF InstallBegin
  <2>8. ASSUME NEW p \in Proc, InstallEnd(p)
        PROVE  PlanIsKnown'
    BY <2>8 DEF InstallEnd
  <2>9. ASSUME NEW p \in Proc, PromoteNothing(p)
        PROVE  PlanIsKnown'
    BY <2>9 DEF PromoteNothing
  <2>10. ASSUME NEW p \in Proc, PromoteSave(p)
        PROVE  PlanIsKnown'
    BY <2>10 DEF PromoteSave
  <2>11. ASSUME NEW p \in Proc, PromoteRemove(p)
        PROVE  PlanIsKnown'
    BY <2>11 DEF PromoteRemove
  <2>12. ASSUME NEW p \in Proc, Scan(p)
        PROVE  PlanIsKnown'
    BY <2>12 DEF Scan, ReadsOf
  <2>13. ASSUME NEW p \in Proc, ScanNothing(p)
        PROVE  PlanIsKnown'
    BY <2>13 DEF ScanNothing
  <2>14. ASSUME NEW p \in Proc, ScanDone(p)
        PROVE  PlanIsKnown'
    BY <2>14 DEF ScanDone
  <2>15. ASSUME NEW p \in Proc, PlanConflict(p)
        PROVE  PlanIsKnown'
    BY <2>15 DEF PlanConflict
  <2>16. ASSUME NEW p \in Proc, PlanCleanup(p)
        PROVE  PlanIsKnown'
    BY <2>16 DEF PlanCleanup
  <2>17. ASSUME NEW p \in Proc, PlanWrite(p)
        PROVE  PlanIsKnown'
    BY <2>17 DEF PlanWrite
  <2>18. ASSUME NEW p \in Proc, WriteKeyring(p)
        PROVE  PlanIsKnown'
    BY <2>18 DEF WriteKeyring
  <2>19. ASSUME NEW p \in Proc, WriteRefused(p)
        PROVE  PlanIsKnown'
    BY <2>19 DEF WriteRefused
  <2>20. ASSUME NEW p \in Proc, NEW s \in Source, CleanupItem(p, s)
        PROVE  PlanIsKnown'
    BY <2>20 DEF CleanupItem, NextCleanup
  <2>21. ASSUME NEW p \in Proc, NEW s \in Source, CleanupZero(p, s)
        PROVE  PlanIsKnown'
    BY <2>21 DEF CleanupZero, NextCleanup
  <2>22. ASSUME NEW p \in Proc, NEW s \in Source, CleanupUnlink(p, s)
        PROVE  PlanIsKnown'
    BY <2>22 DEF CleanupUnlink, NextCleanup
  <2>23. ASSUME NEW p \in Proc, CleanupDone(p)
        PROVE  PlanIsKnown'
    BY <2>23 DEF CleanupDone
  <2>24. ASSUME NEW p \in Proc, Save(p)
        PROVE  PlanIsKnown'
    BY <2>24 DEF Save
  <2>25. ASSUME NEW p \in Proc, RemoveClient(p)
        PROVE  PlanIsKnown'
    BY <2>25 DEF RemoveClient
  <2>26. ASSUME NEW p \in Proc, UseToken(p)
        PROVE  PlanIsKnown'
    BY <2>26 DEF UseToken
  <2>27. ASSUME NEW p \in Proc, NoToken(p)
        PROVE  PlanIsKnown'
    BY <2>27 DEF NoToken
  <2>28. ASSUME NEW p \in Proc, NEW t \in NewToken, Refresh(p, t)
        PROVE  PlanIsKnown'
    BY <2>28 DEF Refresh, SetToken
  <2>29. ASSUME NEW p \in Proc, Finish(p)
        PROVE  PlanIsKnown'
    BY <2>29 DEF Finish
  <2>30. ASSUME NEW p \in Proc, NEW t \in NewToken, SetCredential(p, t)
        PROVE  PlanIsKnown'
    BY <2>30 DEF SetCredential, SetToken
  <2>31. ASSUME NEW p \in Proc, ClearToken(p)
        PROVE  PlanIsKnown'
    BY <2>31 DEF ClearToken
  <2>32. ASSUME NEW p \in Proc, ClearSkipsToken(p)
        PROVE  PlanIsKnown'
    BY <2>32 DEF ClearSkipsToken
  <2>33. ASSUME NEW p \in Proc, ClearYml(p)
        PROVE  PlanIsKnown'
    BY <2>33 DEF ClearYml
  <2>34. ASSUME NEW p \in Proc, ClearJson(p)
        PROVE  PlanIsKnown'
    BY <2>34 DEF ClearJson
  <2>35. ASSUME NEW p \in Proc, Fail(p)
        PROVE  PlanIsKnown'
    BY <2>35 DEF Fail, Fault
  <2>36. ASSUME NEW p \in Proc, Crash(p)
        PROVE  PlanIsKnown'
    BY <2>36 DEF Crash, Fault
  <2>37. CASE UNCHANGED vars
    BY <2>37 DEF vars
  <2>. QED
    BY <2>1, <2>2, <2>3, <2>4, <2>5, <2>6, <2>7, <2>8, <2>9,
       <2>10, <2>11, <2>12, <2>13, <2>14, <2>15, <2>16, <2>17,
       <2>18, <2>19, <2>20, <2>21, <2>22, <2>23, <2>24, <2>25,
       <2>26, <2>27, <2>28, <2>29, <2>30, <2>31, <2>32, <2>33,
       <2>34, <2>35, <2>36, <2>37
       DEF Next, Step, OpenStep, AfterOpen, ClearStep
<1>. QED
  BY <1>1

(* Every step is a step of the abstract keychain, or leaves it alone.       *)
LEMMA StepImplements ==
    ASSUME TypeOK, Safety, PlanIsKnown, [Next]_vars
    PROVE  [K!Next]_(K!vars)
<1>. USE MigrationAssumption
<1>. DEFINE Spare == {legacy[s] : s \in Source} \ {None}
<1>0. UNCHANGED <<legacy, keyring, superseded>> => UNCHANGED K!vars
  BY DEF K!vars
<1>1. ASSUME NEW p \in Proc, WriteKeyring(p)
      PROVE  K!Fill
  <2>1. PICK s \in Candidates(p) : keyring' = found[p][s]
    BY <1>1 DEF WriteKeyring
  <2>2. keyring = None /\ UNCHANGED <<legacy, superseded>>
    BY <1>1 DEF WriteKeyring, MayWrite, historyVars
  <2>3. s \in Source /\ found[p][s] # None
    BY DEF Candidates
  <2>4. ASSUME Overlap
        PROVE  found[p][s] \in Spare \cup (superseded \cup {Zeroed})
    <3>1. found[p][s] \in known \cup {Zeroed}
      BY <2>3 DEF PlanIsKnown, FoundKnown
    <3>2. known \subseteq ({keyring} \cup {legacy[r] : r \in Source}) \cup superseded
      BY DEF Safety, TokenNeverLost, Held
    <3>. QED
      BY <3>1, <3>2, <2>2, <2>3
  <2>5. ASSUME ~Overlap
        PROVE  found[p][s] \in Spare
    <3>1. pc[p] \in Planning
      BY <1>1 DEF WriteKeyring, Planning
    <3>. QED
      BY <3>1, <2>3, <2>5 DEF PlanIsKnown, AloneIsFresh
  <2>. QED
    BY <2>1, <2>2, <2>4, <2>5 DEF K!Fill
<1>2. ASSUME NEW p \in Proc, NEW s \in Source, s \in todo[p],
             pc[p] \in {"cleanup", "erase"},
             legacy' \in {[legacy EXCEPT ![s] = None],
                         [legacy EXCEPT ![s] = Zeroed]},
             UNCHANGED <<keyring, superseded>>
      PROVE  K!Erase
  <2>1. found[p][s] # None /\ found[p][s] \in {keyring} \cup superseded
    BY <1>2 DEF Safety, PlanIsSound, OnlyCandidatesGo, Candidates, CleanupIsSafe
  <2>2. legacy[s] \in {found[p][s], Zeroed, None}
    BY <2>1 DEF Safety, OnlyDecays
  <2>3. legacy \in [Source -> Value]
    BY DEF TypeOK
  <2>4. Spare \ Spare' \subseteq superseded \cup {keyring, Zeroed}
    BY <1>2, <2>1, <2>2, <2>3
  <2>5. Spare' \subseteq Spare \cup {Zeroed}
    BY <1>2, <2>3
  <2>. QED
    BY <1>2, <2>4, <2>5 DEF K!Erase
<1>3. ASSUME NEW p \in Proc, NEW s \in Source, CleanupItem(p, s)
      PROVE  K!Erase
  BY <1>3, <1>2 DEF CleanupItem, NextCleanup, historyVars
<1>4. ASSUME NEW p \in Proc, NEW s \in Source, CleanupZero(p, s)
      PROVE  K!Erase
  <2>1. legacy' \in {[legacy EXCEPT ![s] = None], [legacy EXCEPT ![s] = Zeroed]}
    BY <1>4 DEF CleanupZero
  <2>. QED
    BY <1>4, <2>1, <1>2 DEF CleanupZero, NextCleanup, historyVars
<1>5. ASSUME NEW p \in Proc, NEW s \in Source, CleanupUnlink(p, s)
      PROVE  K!Erase
  BY <1>5, <1>2 DEF CleanupUnlink, NextCleanup, historyVars
<1>6. ASSUME NEW p \in Proc, NEW t \in NewToken,
             Refresh(p, t) \/ SetCredential(p, t)
      PROVE  K!Put(t)
  BY <1>6 DEF Refresh, SetCredential, SetToken, K!Put
<1>7. ASSUME NEW p \in Proc, ClearToken(p)
      PROVE  K!Put(None)
  BY <1>7 DEF ClearToken, K!Put
<1>8. ASSUME NEW p \in Proc,
             \/ \E o \in UserOp : Start(p, o)
             \/ Step(p) /\ ~WriteKeyring(p) /\ ~ClearToken(p)
                /\ ~(\E s \in Source : \/ CleanupItem(p, s)
                                      \/ CleanupZero(p, s)
                                      \/ CleanupUnlink(p, s))
                /\ ~(\E t \in NewToken : SetCredential(p, t))
             \/ ClearSkipsToken(p) \/ Fail(p) \/ Crash(p)
      PROVE  UNCHANGED <<legacy, keyring, superseded>>
  BY <1>8
     DEF Step, OpenStep, AfterOpen, ClearStep, diskVars, historyVars,
         Start, ClientAbsent, ClientInPlace, ClientSuperseded,
           ClientUnusable, ClientInstall, InstallBegin,
           InstallEnd, PromoteNothing, PromoteSave, PromoteRemove,
           Scan, ScanNothing, ScanDone, PlanConflict, PlanCleanup,
           PlanWrite, WriteRefused, CleanupDone, Save,
           RemoveClient, UseToken, NoToken, Finish,
           ClearSkipsToken, ClearYml, ClearJson, Fail, Crash
<1>9. CASE UNCHANGED vars
  BY <1>9, <1>0 DEF vars
<1>10. CASE Next
  <2>1. PICK p \in Proc :
          \/ \E o \in UserOp : Start(p, o)
          \/ Step(p)
          \/ \E t \in NewToken : Refresh(p, t)
          \/ ClearSkipsToken(p) \/ Fail(p) \/ Crash(p)
    BY <1>10 DEF Next
  <2>2. CASE WriteKeyring(p)
    BY <2>2, <1>1 DEF K!Next
  <2>3. CASE \E s \in Source : \/ CleanupItem(p, s)
                              \/ CleanupZero(p, s)
                              \/ CleanupUnlink(p, s)
    BY <2>3, <1>3, <1>4, <1>5 DEF K!Next
  <2>4. CASE \E t \in NewToken : Refresh(p, t) \/ SetCredential(p, t)
    BY <2>4, <1>6 DEF K!Next
  <2>5. CASE ClearToken(p)
    BY <2>5, <1>7 DEF K!Next
  <2>. QED
    BY <2>1, <2>2, <2>3, <2>4, <2>5, <1>8, <1>0
<1>. QED
  BY <1>9, <1>10

(* The migration implements the abstract keychain: whatever crashes, fails, *)
(* is retried or overlaps, for any number of invocations and sources, a     *)
(* user sees one token that only the user replaces; and where invocations   *)
(* do not overlap, what comes back after a clear is an original it left.    *)
THEOREM KeychainImplemented == Spec => ImplementsKeychain
<1>. USE MigrationAssumption
<1>1. Init => K!Init
  BY DEF Init, K!Init
<1>2. Init => PlanIsKnown
  BY DEF Init, PlanIsKnown, SourcesKnown, FoundKnown, AloneIsFresh, Planning
<1>3. TypeOK /\ PlanIsKnown /\ [Next]_vars => PlanIsKnown'
  BY PlanIsKnownPreserved
<1>4. IInv => TypeOK /\ Safety
  BY DEF IInv, Safety
<1>5. TypeOK /\ Safety /\ PlanIsKnown /\ [Next]_vars => [K!Next]_(K!vars)
  BY StepImplements
<1>. QED
  BY <1>1, <1>2, <1>3, <1>4, <1>5, InductiveInvariant, PTL
     DEF Spec, ImplementsKeychain, K!Spec

-----------------------------------------------------------------------------
(* The OAuth client JSON and the configuration.                            *)

(* Where Open is in the part that moves the client and the configuration.  *)
Promoted == {"scan", "plan", "write", "cleanup", "erase", "save", "rmclient"}
Opening == {"client", "install", "installing", "promote", "unjson"} \cup Promoted

(* What an invocation has decided about the client path, against what the  *)
(* files say now; without config clear --all nobody removes a config file. *)
Recorded(p) ==
    /\ op[p] # "clear-all" /\ pc[p] \notin {"rmyml", "rmjson"}
    /\ pc[p] = "client" => ~changed[p]
    /\ pc[p] \in {"client", "install", "installing", "promote"} => ~promoted[p]
    /\ pc[p] \in {"install", "installing"} => path[p] = "target"
    /\ pc[p] = "unjson" => yml # "absent"
    /\ pc[p] \in Promoted => yml # "absent" \/ json = "absent"
    /\ pc[p] \in Opening =>
          /\ path[p] = "legacyPath" <=> LoadedPath = "legacyPath"
          /\ changed[p] \/ rmClient[p] => path[p] = "target"
    /\ pc[p] \in Opening \ {"client"} /\ path[p] = "unset" => clientOld = "absent"
    /\ /\ pc[p] \in Opening /\ path[p] = "target"
       /\ ~changed[p] \/ promoted[p] \/ pc[p] \in {"unjson", "rmclient"}
       => clientOld = "absent" \/ LoadedPath = "target"

RecordInv == IInv /\ \A p \in Proc : Recorded(p)

(* An invocation that knows of no client path while the files name one has *)
(* nothing left to save.                                                   *)
NothingToSave(p) ==
    /\ pc[p] \in {"client", "promote", "scan", "rmclient"}
    /\ yml # "absent"
    /\ \A s \in Source : legacy[s] = None /\ found[p][s] = None

KeepsQuiet(p) ==
    /\ pc[p] = "client" => \A s \in Source : found[p][s] = None
    /\ /\ pc[p] \in Opening /\ path[p] = "unset"
       /\ clientOld = "absent" /\ LoadedPath # "unset"
       => NothingToSave(p)

(* What an invocation may do next.                                         *)
StepOf(p) ==
    \/ \E o \in UserOp : Start(p, o)
    \/ Step(p)
    \/ \E t \in NewToken : Refresh(p, t)
    \/ ClearSkipsToken(p) \/ Fail(p) \/ Crash(p)

LEMMA NextIsStepOf == Next => \E p \in Proc : StepOf(p)
BY DEF Next, StepOf

(* No step changes what another invocation has in memory.                  *)
LEMMA OthersStay ==
    ASSUME TypeOK, NEW p \in Proc, NEW r \in Proc \ {p}, StepOf(p)
    PROVE  /\ pc'[r] = pc[r] /\ op'[r] = op[r] /\ path'[r] = path[r]
           /\ changed'[r] = changed[r] /\ promoted'[r] = promoted[r]
           /\ rmClient'[r] = rmClient[r] /\ found'[r] = found[r]
<1>. USE DEF TypeOK, Goto, planVars, tokenVars
<1>1. CASE \E o \in UserOp : Start(p, o)
  BY <1>1 DEF Start
<1>2. CASE \/ ClientAbsent(p) \/ ClientInPlace(p) \/ ClientSuperseded(p)
           \/ ClientUnusable(p) \/ ClientInstall(p) \/ InstallBegin(p) \/ InstallEnd(p)
  BY <1>2 DEF ClientAbsent, ClientInPlace, ClientSuperseded, ClientUnusable,
     ClientInstall, InstallBegin, InstallEnd
<1>3. CASE \/ PromoteNothing(p) \/ PromoteSave(p) \/ PromoteRemove(p) \/ Scan(p)
           \/ ScanNothing(p) \/ ScanDone(p)
  BY <1>3 DEF PromoteNothing, PromoteSave, PromoteRemove, Scan, ScanNothing, ScanDone
<1>4. CASE \/ PlanConflict(p) \/ PlanCleanup(p) \/ PlanWrite(p) \/ WriteKeyring(p)
           \/ WriteRefused(p) \/ CleanupDone(p) \/ Save(p) \/ RemoveClient(p)
           \/ \E s \in Source : CleanupItem(p, s) \/ CleanupZero(p, s) \/ CleanupUnlink(p, s)
  BY <1>4 DEF PlanConflict, PlanCleanup, PlanWrite, WriteKeyring, WriteRefused,
     CleanupItem, CleanupZero, CleanupUnlink, CleanupDone, Save, RemoveClient
<1>5. CASE \/ AfterOpen(p) \/ ClearStep(p) \/ ClearSkipsToken(p) \/ Fail(p) \/ Crash(p)
           \/ \E t \in NewToken : Refresh(p, t)
  BY <1>5 DEF AfterOpen, UseToken, NoToken, Finish, SetCredential, ClearStep, ClearToken,
     ClearYml, ClearJson, ClearSkipsToken, Fail, Crash, Refresh
<1>. QED
  BY <1>1, <1>2, <1>3, <1>4, <1>5 DEF StepOf, Step, OpenStep

(* The steps that write or remove a file of the configuration or           *)
(* credentials.json.                                                       *)
FileStep(p) ==
    \/ PromoteSave(p) \/ PromoteRemove(p) \/ Save(p) \/ RemoveClient(p)
    \/ ClearYml(p) \/ ClearJson(p)

(* The steps of Open that decide about credentials.json.                   *)
DecisionStep(p) == ClientSuperseded(p) \/ ClientInstall(p) \/ InstallEnd(p)

(* The other steps of Open, as moves from one label to another.            *)
LEMMA PlainStep ==
    ASSUME TypeOK, NEW p \in Proc, StepOf(p), ~FileStep(p)
    PROVE  /\ UNCHANGED <<clientOld, yml, json>>
           /\ \/ \E o \in UserOp : Start(p, o)
              \/ DecisionStep(p)
              \/ /\ UNCHANGED <<op, path, changed, promoted, rmClient>>
                 /\ \/ pc[p] = "client" /\ pc'[p] = "promote" /\
                       (clientOld = "absent" \/ path[p] = "legacyPath")
                    \/ pc[p] = "install" /\ pc'[p] = "installing"
                    \/ pc[p] = "promote" /\ pc'[p] = "scan" /\
                       (yml # "absent" \/ json = "absent")
                    \/ ScanNothing(p)
                    \/ pc[p] = "scan" /\ pc'[p] = "scan"
                    \/ ScanDone(p) /\ pc'[p] = "plan"
                    \/ pc[p] \in {"plan", "write", "cleanup", "erase"} /\
                       pc'[p] \in {"write", "cleanup", "erase", "save"}
                    \/ pc'[p] \in Ended \cup {"opened"}
                    \/ op[p] = "clear-all" /\ pc'[p] = "rmyml"
<1>. USE DEF TypeOK, Goto, planVars, tokenVars, configVars, clientVars, Ended
<1>1. CASE \/ ClientAbsent(p) \/ ClientInPlace(p) \/ ClientUnusable(p) \/ InstallBegin(p)
           \/ PromoteNothing(p) \/ DecisionStep(p) \/ \E o \in UserOp : Start(p, o)
  BY <1>1 DEF ClientAbsent, ClientInPlace, ClientUnusable, InstallBegin, PromoteNothing,
     DecisionStep, ClientSuperseded, ClientInstall, InstallEnd, Start
<1>2. CASE Scan(p) \/ ScanNothing(p) \/ ScanDone(p)
  BY <1>2 DEF Scan, ScanNothing, ScanDone
<1>3. CASE \/ PlanConflict(p) \/ PlanCleanup(p) \/ PlanWrite(p) \/ WriteKeyring(p)
           \/ WriteRefused(p) \/ CleanupDone(p)
           \/ \E s \in Source : CleanupItem(p, s) \/ CleanupZero(p, s) \/ CleanupUnlink(p, s)
  BY <1>3 DEF PlanConflict, PlanCleanup, PlanWrite, WriteKeyring, WriteRefused,
     CleanupItem, CleanupZero, CleanupUnlink, CleanupDone
<1>4. CASE \/ AfterOpen(p) \/ ClearToken(p) \/ ClearSkipsToken(p) \/ Fail(p) \/ Crash(p)
           \/ \E t \in NewToken : Refresh(p, t)
  BY <1>4 DEF AfterOpen, UseToken, NoToken, Finish, SetCredential, ClearToken,
     ClearSkipsToken, Fail, Crash, Refresh
<1>. QED
  BY <1>1, <1>2, <1>3, <1>4
  DEF StepOf, Step, OpenStep, ClearStep, FileStep, DecisionStep

(* What a step may do to the files without undoing what an invocation has  *)
(* decided from them.                                                      *)
FilesAgree ==
    /\ LoadedPath' = "legacyPath" <=> LoadedPath = "legacyPath"
    /\ yml # "absent" => yml' # "absent"
    /\ json = "absent" => json' = "absent"
    /\ clientOld = "absent" => clientOld' = "absent"
    /\ LoadedPath = "target" => clientOld = "absent" \/ LoadedPath' = "target"

LEMMA FilesAgreeKept ==
    ASSUME TypeOK, NEW p \in Proc, StepOf(p), Recorded(p)
    PROVE  FilesAgree
<1>1. path[p] \in {"unset", "legacyPath", "target"}
  BY DEF TypeOK, ConfigState
<1>2. CASE ~FileStep(p)
  <2>1. UNCHANGED <<clientOld, yml, json>>
    BY <1>2, PlainStep
  <2>. QED
    BY <2>1 DEF FilesAgree, LoadedPath
<1>3. CASE PromoteSave(p)
  BY <1>1, <1>3 DEF PromoteSave, FilesAgree, LoadedPath, Recorded, Opening, clientVars
<1>4. CASE PromoteRemove(p)
  BY <1>4 DEF PromoteRemove, FilesAgree, LoadedPath, Recorded, clientVars
<1>5. CASE Save(p)
  BY <1>1, <1>5 DEF Save, FilesAgree, LoadedPath, Recorded, Opening, Promoted, clientVars
<1>6. CASE RemoveClient(p)
  BY <1>6 DEF RemoveClient, FilesAgree, LoadedPath, configVars
<1>7. CASE ClearYml(p) \/ ClearJson(p)
  BY <1>7 DEF ClearYml, ClearJson, Recorded
<1>. QED
  BY <1>2, <1>3, <1>4, <1>5, <1>6, <1>7 DEF FileStep

(* What another invocation has decided stays right.                        *)
LEMMA RecordedByOthers ==
    ASSUME TypeOK, NEW p \in Proc, NEW r \in Proc \ {p}, StepOf(p),
           Recorded(p), Recorded(r)
    PROVE  Recorded(r)'
<1>1. FilesAgree
  BY FilesAgreeKept
<1>2. /\ pc'[r] = pc[r] /\ op'[r] = op[r] /\ path'[r] = path[r]
      /\ changed'[r] = changed[r] /\ promoted'[r] = promoted[r]
      /\ rmClient'[r] = rmClient[r]
  BY OthersStay
<1>. QED
  BY <1>1, <1>2 DEF Recorded, FilesAgree

(* The decisions of an invocation itself.                                  *)
LEMMA RecordedBySelf ==
    ASSUME TypeOK, NEW p \in Proc, StepOf(p), Recorded(p), "clear-all" \notin UserOp
    PROVE  Recorded(p)'
<1>. USE DEF Recorded, Opening, Promoted
<1>1. path[p] \in {"unset", "legacyPath", "target"}
  BY DEF TypeOK, ConfigState
<1>2. ASSUME NEW o \in UserOp, Start(p, o)
      PROVE  Recorded(p)'
  <2>1. /\ op'[p] = o /\ pc'[p] \in {"client", "clear"} /\ path'[p] = LoadedPath
        /\ ~changed'[p] /\ ~promoted'[p] /\ ~rmClient'[p]
    BY <1>2 DEF Start, Goto, FirstStep, TypeOK
  <2>2. LoadedPath' = LoadedPath
    BY <1>2 DEF Start, LoadedPath, configVars
  <2>. QED
    BY <2>1, <2>2
<1>3. CASE DecisionStep(p)
  <2>1. UNCHANGED <<op, promoted, clientOld, yml, json>> /\ LoadedPath' = LoadedPath
    BY <1>3 DEF DecisionStep, ClientSuperseded, ClientInstall, InstallEnd, configVars,
       clientVars, LoadedPath
  <2>2. CASE ClientSuperseded(p)
    <3>1. /\ pc[p] = "client" /\ clientOld # "absent" /\ path[p] # "legacyPath"
          /\ pc'[p] = "promote" /\ path'[p] = "target" /\ changed'[p] = (path[p] = "unset")
      BY <2>2 DEF ClientSuperseded, Goto, TypeOK
    <3>. QED
      BY <1>1, <2>1, <3>1
  <2>3. CASE ClientInstall(p)
    <3>1. /\ pc[p] = "client" /\ clientOld # "absent" /\ path[p] # "legacyPath"
          /\ pc'[p] = "install" /\ path'[p] = "target" /\ changed'[p] = (path[p] = "unset")
      BY <2>3 DEF ClientInstall, Goto, TypeOK
    <3>. QED
      BY <1>1, <2>1, <3>1
  <2>4. CASE InstallEnd(p)
    BY <1>1, <2>1, <2>4 DEF InstallEnd, Goto, TypeOK
  <2>. QED
    BY <1>3, <2>2, <2>3, <2>4 DEF DecisionStep
<1>4. CASE ~FileStep(p) /\ ~DecisionStep(p) /\ ~\E o \in UserOp : Start(p, o)
  <2>1. UNCHANGED <<op, path, changed, promoted, rmClient, clientOld, yml, json>>
    BY <1>4, PlainStep
  <2>2. LoadedPath' = LoadedPath
    BY <2>1 DEF LoadedPath
  <2>3. CASE ScanNothing(p)
    <3>1. /\ pc[p] = "scan"
          /\ pc'[p] = IF changed[p] /\ ~promoted[p] THEN "save" ELSE "rmclient"
      BY <2>3 DEF ScanNothing, Goto, TypeOK
    <3>. QED
      BY <2>1, <2>2, <3>1
  <2>4. CASE ScanDone(p) /\ pc'[p] = "plan"
    BY <2>1, <2>2, <2>4 DEF ScanDone
  <2>. QED
    BY <1>4, <2>1, <2>2, <2>3, <2>4, PlainStep DEF Ended
<1>5. CASE PromoteSave(p)
  <2>1. /\ pc[p] = "promote" /\ pc'[p] = "unjson" /\ yml' = path[p] /\ yml = "absent"
        /\ UNCHANGED <<op, path, changed, promoted, rmClient, clientOld, json>>
    BY <1>5 DEF PromoteSave, Goto, TypeOK, planVars, clientVars
  <2>2. LoadedPath' = path[p] /\ LoadedPath = (IF json = "absent" THEN "unset" ELSE json)
    BY <1>1, <2>1 DEF LoadedPath
  <2>. QED
    BY <1>1, <2>1, <2>2
<1>6. CASE PromoteRemove(p)
  <2>1. /\ pc[p] = "unjson" /\ pc'[p] = "scan" /\ json' = "absent" /\ promoted'[p]
        /\ UNCHANGED <<op, path, changed, rmClient, clientOld, yml>>
    BY <1>6 DEF PromoteRemove, Goto, TypeOK, clientVars
  <2>2. LoadedPath' = LoadedPath
    BY <2>1 DEF LoadedPath
  <2>. QED
    BY <2>1, <2>2
<1>7. CASE Save(p)
  <2>1. /\ pc[p] = "save" /\ pc'[p] = "rmclient" /\ yml' = path[p]
        /\ UNCHANGED <<op, path, changed, promoted, rmClient, clientOld, json>>
    BY <1>7 DEF Save, Goto, TypeOK, planVars, clientVars
  <2>2. LoadedPath' = path[p]
    BY <1>1, <2>1 DEF LoadedPath
  <2>. QED
    BY <1>1, <2>1, <2>2
<1>8. CASE RemoveClient(p)
  BY <1>8 DEF RemoveClient, Goto, TypeOK, planVars
<1>9. CASE ClearYml(p) \/ ClearJson(p)
  BY <1>9 DEF ClearYml, ClearJson
<1>. QED
  BY <1>2, <1>3, <1>4, <1>5, <1>6, <1>7, <1>8, <1>9 DEF FileStep

(* The invariant where no invocation is config clear --all.                *)
LEMMA RecordInvHolds ==
    ASSUME "clear-all" \notin UserOp
    PROVE  Spec => []RecordInv
<1>. DEFINE All == \A p \in Proc : Recorded(p)
<1>1. Init => All
  BY DEF Init, Recorded, Opening, Promoted
<1>2. IInv /\ All /\ [Next]_vars => All'
  <2>. SUFFICES ASSUME IInv, All, [Next]_vars, NEW r \in Proc
                PROVE  Recorded(r)'
    OBVIOUS
  <2>1. TypeOK
    BY DEF IInv
  <2>2. CASE UNCHANGED vars
    BY <2>2 DEF vars, Recorded, LoadedPath
  <2>3. CASE Next
    <3>1. PICK p \in Proc : StepOf(p)
      BY <2>3, NextIsStepOf
    <3>. QED
      BY <2>1, <3>1, RecordedByOthers, RecordedBySelf
  <2>. QED
    BY <2>2, <2>3
<1>3. IInv /\ All => RecordInv
  BY DEF RecordInv
<1>. HIDE DEF All
<1>. QED
  BY <1>1, <1>2, <1>3, InductiveInvariant, PTL DEF Spec

(* What is on disk when credentials.json goes.                             *)
LEMMA RemovedIsReferenced ==
    ASSUME TypeOK, NEW p \in Proc, Recorded(p), RemoveClient(p),
           clientOld # "absent", clientOld' = "absent"
    PROVE  yml = "target" /\ LoadedPath = "target"
<1>1. pc[p] = "rmclient" /\ rmClient[p]
  BY DEF RemoveClient
<1>2. LoadedPath = "target" /\ (yml # "absent" \/ json = "absent")
  BY <1>1 DEF Recorded, Opening, Promoted
<1>. QED
  BY <1>2 DEF LoadedPath

(* credentials.json goes only when config.yml on disk names the file that  *)
(* replaces it (removeLegacyClient), for any number of invocations, unless *)
(* config clear --all removes the configuration in between.                *)
THEOREM ClientStaysReferencedHolds ==
    ASSUME "clear-all" \notin UserOp
    PROVE  Spec => ClientStaysReferenced
<1>1. RecordInv /\ [Next]_vars =>
        [clientOld # "absent" /\ clientOld' = "absent" => yml = "target"]_vars
  <2>. SUFFICES ASSUME RecordInv, Next, clientOld # "absent", clientOld' = "absent"
                PROVE  yml = "target"
    OBVIOUS
  <2>1. PICK p \in Proc : StepOf(p)
    BY NextIsStepOf
  <2>2. TypeOK /\ Recorded(p)
    BY DEF RecordInv, IInv
  <2>3. FileStep(p)
    BY <2>1, <2>2, PlainStep
  <2>4. RemoveClient(p)
    BY <2>3 DEF FileStep, PromoteSave, PromoteRemove, Save, ClearYml, ClearJson, clientVars
  <2>. QED
    BY <2>2, <2>4, RemovedIsReferenced
<1>2. Spec => []RecordInv
  BY RecordInvHolds
<1>. QED
  BY <1>1, <1>2, PTL DEF Spec, ClientStaysReferenced

(* An original that is gone does not come back.                            *)
LEMMA LegacyStaysGone ==
    ASSUME TypeOK, NEW p \in Proc, StepOf(p), NEW s \in Source, legacy[s] = None
    PROVE  legacy'[s] = None
<1>. USE DEF TypeOK, diskVars
<1>1. CASE \E r \in Source : CleanupItem(p, r) \/ CleanupZero(p, r) \/ CleanupUnlink(p, r)
  BY <1>1 DEF CleanupItem, CleanupZero, CleanupUnlink
<1>2. CASE ~\E r \in Source : CleanupItem(p, r) \/ CleanupZero(p, r) \/ CleanupUnlink(p, r)
  <2>1. legacy' = legacy
    BY <1>2 DEF StepOf, Step, OpenStep, AfterOpen, ClearStep, Start, ClientAbsent,
       ClientInPlace, ClientSuperseded, ClientUnusable, ClientInstall, InstallBegin,
       InstallEnd, PromoteNothing, PromoteSave, PromoteRemove, Scan, ScanNothing,
       ScanDone, PlanConflict, PlanCleanup, PlanWrite, WriteKeyring, WriteRefused,
       CleanupDone, Save, RemoveClient, UseToken, NoToken, Finish, SetCredential,
       ClearToken, ClearYml, ClearJson, Refresh, ClearSkipsToken, Fail, Crash
  <2>. QED
    BY <2>1
<1>. QED
  BY <1>1, <1>2

(* The first client path that the files name is one that an invocation has *)
(* found credentials.json for.                                             *)
Discovers(p) ==
    clientOld = "absent" /\ LoadedPath = "unset" /\ pc[p] \in Opening
        => path[p] # "target"

(* No step makes the loader forget or, once credentials.json is gone,      *)
(* learn a client path.                                                    *)
LEMMA LoadedKept ==
    ASSUME TypeOK, NEW p \in Proc, StepOf(p), Recorded(p), KeepsQuiet(p), Discovers(p)
    PROVE  /\ LoadedPath # "unset" => LoadedPath' # "unset"
           /\ LoadedPath = "unset" /\ LoadedPath' # "unset" => clientOld # "absent"
<1>. USE DEF Recorded, KeepsQuiet, NothingToSave, Discovers, Opening, Promoted
<1>1. path[p] \in {"unset", "legacyPath", "target"}
  BY DEF TypeOK, ConfigState
<1>2. CASE ~FileStep(p) \/ RemoveClient(p)
  <2>1. UNCHANGED <<yml, json>>
    BY <1>2, PlainStep DEF RemoveClient, configVars
  <2>. QED
    BY <2>1 DEF LoadedPath
<1>3. CASE PromoteSave(p)
  <2>1. pc[p] = "promote" /\ yml = "absent" /\ yml' = path[p] /\ LoadedPath' = path[p]
    BY <1>1, <1>3 DEF PromoteSave, LoadedPath
  <2>. QED
    BY <1>1, <2>1
<1>4. CASE PromoteRemove(p)
  <2>1. LoadedPath' = LoadedPath
    BY <1>4 DEF PromoteRemove, LoadedPath
  <2>. QED
    BY <2>1
<1>5. CASE Save(p)
  <2>1. pc[p] = "save" /\ yml' = path[p] /\ LoadedPath' = path[p]
    BY <1>1, <1>5 DEF Save, LoadedPath
  <2>. QED
    BY <1>1, <2>1
<1>6. CASE ClearYml(p) \/ ClearJson(p)
  BY <1>6 DEF ClearYml, ClearJson
<1>. QED
  BY <1>2, <1>3, <1>4, <1>5, <1>6 DEF FileStep

(* An invocation that waits to look for credentials.json while another     *)
(* removes it will find no token either.                                   *)
LEMMA QuietByOthers ==
    ASSUME IInv, ~FlakyReads, NEW p \in Proc, NEW r \in Proc \ {p}, StepOf(p),
           Recorded(p), KeepsQuiet(p), Discovers(p), Recorded(r), KeepsQuiet(r)
    PROVE  KeepsQuiet(r)'
<1>1. TypeOK /\ FilesAgree
  BY FilesAgreeKept DEF IInv
<1>2. pc'[r] = pc[r] /\ path'[r] = path[r] /\ found'[r] = found[r]
  BY <1>1, OthersStay
<1>3. \A s \in Source : legacy[s] = None => legacy'[s] = None
  BY <1>1, LegacyStaysGone
<1>4. ASSUME pc[r] \in Opening, path[r] = "unset", clientOld' = "absent",
             LoadedPath' # "unset"
      PROVE  NothingToSave(r)'
  <2>1. CASE clientOld = "absent"
    <3>1. LoadedPath # "unset"
      BY <1>1, <1>4, <2>1, LoadedKept
    <3>. QED
      BY <1>1, <1>2, <1>3, <1>4, <2>1, <3>1 DEF KeepsQuiet, NothingToSave, FilesAgree
  <2>2. CASE clientOld # "absent"
    <3>1. pc[r] = "client"
      BY <1>4, <2>2 DEF Recorded
    <3>2. RemoveClient(p)
      <4>1. FileStep(p)
        BY <1>1, <1>4, <2>2, PlainStep
      <4>. QED
        BY <1>4, <2>2, <4>1
        DEF FileStep, PromoteSave, PromoteRemove, Save, ClearYml, ClearJson, clientVars
    <3>3. yml = "target"
      BY <1>1, <1>4, <2>2, <3>2, RemovedIsReferenced
    <3>4. \A s \in Source : legacy[s] = None
      BY <3>2 DEF RemoveClient, IInv, PlanIsSound, DeletedIsGone
    <3>5. \A s \in Source : found[r][s] = None
      BY <3>1 DEF KeepsQuiet
    <3>. QED
      BY <1>1, <1>2, <1>3, <3>1, <3>3, <3>4, <3>5 DEF NothingToSave, FilesAgree
  <2>. QED
    BY <2>1, <2>2
<1>. QED
  BY <1>2, <1>4 DEF KeepsQuiet

(* ... and it goes on to find nothing.                                     *)
LEMMA QuietBySelf ==
    ASSUME TypeOK, ~FlakyReads, NEW p \in Proc, StepOf(p),
           Recorded(p), KeepsQuiet(p), Discovers(p)
    PROVE  KeepsQuiet(p)'
<1>0. \A s \in Source : legacy[s] = None => legacy'[s] = None
  BY LegacyStaysGone
<1>1. ASSUME NEW o \in UserOp, Start(p, o)
      PROVE  KeepsQuiet(p)'
  <2>1. path'[p] = LoadedPath /\ LoadedPath' = LoadedPath
        /\ \A s \in Source : found'[p][s] = None
    BY <1>1 DEF Start, TypeOK, configVars, LoadedPath
  <2>. QED
    BY <2>1 DEF KeepsQuiet
<1>2. CASE DecisionStep(p)
  <2>1. path'[p] = "target" /\ pc'[p] # "client"
    BY <1>2 DEF DecisionStep, ClientSuperseded, ClientInstall, InstallEnd, Goto, TypeOK,
       Recorded
  <2>. QED
    BY <2>1 DEF KeepsQuiet
<1>3. CASE ~FileStep(p) /\ ~DecisionStep(p) /\ ~\E o \in UserOp : Start(p, o)
  <2>1. UNCHANGED <<op, path, changed, promoted, rmClient, clientOld, yml, json>>
    BY <1>3, PlainStep
  <2>2. LoadedPath' = LoadedPath
    BY <2>1 DEF LoadedPath
  <2>3. op[p] # "clear-all"
    BY DEF Recorded
  <2>4. pc'[p] # "client" /\ (pc'[p] \in Opening => pc[p] \in Opening)
    BY <1>3, <2>3, PlainStep DEF ScanNothing, ScanDone, Goto, TypeOK, Opening, Promoted, Ended
  <2>5. ASSUME pc[p] \in Opening, path[p] = "unset", clientOld = "absent",
               LoadedPath # "unset", pc'[p] \in Opening
        PROVE  NothingToSave(p)'
    <3>1. NothingToSave(p) /\ ~changed[p]
      BY <2>5 DEF KeepsQuiet, Recorded
    <3>2. \A s \in Source : found'[p][s] = None
      <4>1. \/ found' = found
            \/ \E v \in ReadsOf(legacy[scan[p]]) :
                  scan[p] \in Source /\ found' = [found EXCEPT ![p][scan[p]] = v]
        BY <2>3, <2>5, <1>3
        DEF StepOf, Step, OpenStep, AfterOpen, ClearStep, ClientAbsent, ClientInPlace,
            ClientUnusable, InstallBegin, PromoteNothing, Scan, ScanNothing, ScanDone,
            PlanConflict, PlanCleanup, PlanWrite, WriteKeyring, WriteRefused,
            CleanupItem, CleanupZero, CleanupUnlink, CleanupDone, FileStep, DecisionStep,
            UseToken, NoToken, Finish, SetCredential, ClearToken, Refresh,
            ClearSkipsToken, Fail, Crash, tokenVars
      <4>. QED
        BY <3>1, <4>1 DEF NothingToSave, ReadsOf, TypeOK
    <3>3. pc'[p] \in {"promote", "scan", "rmclient"}
      <4>1. ~ScanDone(p)
        BY <3>1 DEF ScanDone, Candidates, NothingToSave
      <4>2. ScanNothing(p) => pc'[p] = "rmclient"
        BY <3>1 DEF ScanNothing, Goto, TypeOK
      <4>. QED
        BY <1>3, <2>3, <2>5, <3>1, <4>1, <4>2, PlainStep
        DEF NothingToSave, Opening, Promoted, Ended
    <3>. QED
      BY <1>0, <2>1, <3>1, <3>2, <3>3 DEF NothingToSave
  <2>. QED
    BY <2>1, <2>2, <2>4, <2>5 DEF KeepsQuiet
<1>4. CASE PromoteSave(p) \/ Save(p)
  <2>1. path' = path /\ yml' = path[p] /\ pc'[p] # "client"
    BY <1>4 DEF PromoteSave, Save, planVars, Goto, TypeOK
  <2>2. path[p] = "unset" => LoadedPath' = "unset"
    BY <2>1 DEF LoadedPath
  <2>. QED
    BY <2>1, <2>2 DEF KeepsQuiet
<1>5. CASE PromoteRemove(p)
  <2>1. pc[p] = "unjson" /\ pc'[p] = "scan" /\ UNCHANGED <<path, clientOld, yml>>
        /\ json' = "absent"
    BY <1>5 DEF PromoteRemove, Goto, TypeOK, clientVars
  <2>2. LoadedPath' = LoadedPath
    BY <2>1 DEF LoadedPath, Recorded
  <2>. QED
    BY <2>1, <2>2 DEF KeepsQuiet, NothingToSave, Opening
<1>6. CASE RemoveClient(p)
  BY <1>6 DEF RemoveClient, KeepsQuiet, Goto, TypeOK, Opening, Promoted
<1>7. CASE ClearYml(p) \/ ClearJson(p)
  BY <1>7 DEF ClearYml, ClearJson, Recorded
<1>. QED
  BY <1>1, <1>2, <1>3, <1>4, <1>5, <1>6, <1>7 DEF FileStep

(* Without credentials.json nobody comes to name a client path.            *)
LEMMA DiscoversKept ==
    ASSUME TypeOK, NEW p \in Proc, NEW r \in Proc, StepOf(p),
           Recorded(p), KeepsQuiet(p), Discovers(p), Discovers(r)
    PROVE  Discovers(r)'
<1>. SUFFICES ASSUME clientOld' = "absent", LoadedPath' = "unset", pc'[r] \in Opening
              PROVE  path'[r] # "target"
  BY DEF Discovers
<1>1. LoadedPath = "unset"
  BY LoadedKept
<1>2. clientOld = "absent"
  <2>1. ASSUME clientOld # "absent"
        PROVE  FALSE
    <3>1. FileStep(p)
      BY <2>1, PlainStep
    <3>2. RemoveClient(p)
      BY <2>1, <3>1
      DEF FileStep, PromoteSave, PromoteRemove, Save, ClearYml, ClearJson, clientVars
    <3>. QED
      BY <1>1, <2>1, <3>2, RemovedIsReferenced
  <2>. QED
    BY <2>1
<1>3. CASE r # p
  BY <1>1, <1>2, <1>3, OthersStay DEF Discovers
<1>4. CASE r = p
  <2>1. CASE FileStep(p)
    BY <1>1, <1>2, <1>4, <2>1
    DEF FileStep, PromoteSave, PromoteRemove, Save, RemoveClient, ClearYml, ClearJson,
        planVars, Goto, TypeOK, Discovers, Opening, Promoted
  <2>2. CASE ~FileStep(p)
    <3>1. CASE \E o \in UserOp : Start(p, o)
      BY <1>1, <1>4, <3>1 DEF Start, TypeOK
    <3>2. CASE DecisionStep(p)
      BY <1>1, <1>2, <1>4, <3>2 DEF DecisionStep, ClientSuperseded, ClientInstall,
         InstallEnd, Recorded, Discovers, Opening
    <3>3. CASE ~DecisionStep(p) /\ ~\E o \in UserOp : Start(p, o)
      <4>1. pc[p] \in Opening /\ path' = path
        BY <1>4, <2>2, <3>3, PlainStep
        DEF ScanNothing, ScanDone, Recorded, Opening, Promoted, Ended
      <4>. QED
        BY <1>1, <1>2, <1>4, <4>1 DEF Discovers
    <3>. QED
      BY <3>1, <3>2, <3>3
  <2>. QED
    BY <2>1, <2>2
<1>. QED
  BY <1>3, <1>4

(* A client path that a configuration file records is never forgotten by   *)
(* the loader, whatever invocations overlap, unless config clear --all     *)
(* removes the file or a read of a token source fails                      *)
(* (promoteLegacyConfigJSON, SaveConfig of a copy that was loaded before). *)
THEOREM AssociationKeptHolds ==
    ASSUME "clear-all" \notin UserOp, ~FlakyReads
    PROVE  Spec => AssociationKept
<1>. DEFINE Kept == \A p \in Proc : KeepsQuiet(p) /\ Discovers(p)
<1>1. Init => Kept
  BY DEF Init, KeepsQuiet, Discovers, Opening, Promoted
<1>2. RecordInv /\ Kept /\ [Next]_vars => Kept'
  <2>. SUFFICES ASSUME RecordInv, Kept, [Next]_vars, NEW r \in Proc
                PROVE  KeepsQuiet(r)' /\ Discovers(r)'
    OBVIOUS
  <2>1. IInv /\ TypeOK /\ \A p \in Proc : Recorded(p)
    BY DEF RecordInv, IInv
  <2>2. CASE UNCHANGED vars
    BY <2>2 DEF vars, KeepsQuiet, NothingToSave, Discovers, LoadedPath
  <2>3. CASE Next
    <3>1. PICK p \in Proc : StepOf(p)
      BY <2>3, NextIsStepOf
    <3>. QED
      BY <2>1, <3>1, QuietByOthers, QuietBySelf, DiscoversKept
  <2>. QED
    BY <2>2, <2>3
<1>3. RecordInv /\ Kept /\ [Next]_vars =>
        [LoadedPath # "unset" => LoadedPath' # "unset"]_vars
  <2>. SUFFICES ASSUME RecordInv, Kept, Next
                PROVE  LoadedPath # "unset" => LoadedPath' # "unset"
    OBVIOUS
  <2>1. PICK p \in Proc : StepOf(p)
    BY NextIsStepOf
  <2>. QED
    BY <2>1, LoadedKept DEF RecordInv, IInv
<1>4. Spec => []RecordInv
  BY RecordInvHolds
<1>. HIDE DEF Kept
<1>. QED
  BY <1>1, <1>2, <1>3, <1>4, PTL DEF Spec, AssociationKept

-----------------------------------------------------------------------------
(* One invocation at a time.                                               *)

(* The client JSON that an invocation is about to remove or to overwrite   *)
(* another file still has.                                                 *)
ClientSafe(p) ==
    /\ pc[p] \in {"client", "install", "installing"} => ~rmClient[p]
    /\ pc[p] \in {"install", "installing"} => clientOld = "valid"
    /\ rmClient[p] => clientNew = "valid"

(* A crash in the truncating copy of the client JSON leaves                *)
(* credentials.json to retry from, and it goes only when the copy is whole *)
(* (migrateOAuthClientJSONDeferred), with one invocation at a time.        *)
THEOREM ClientNeverLostHolds ==
    ASSUME \A p, q \in Proc : p = q
    PROVE  Spec => ClientNeverLost
<1>. DEFINE All == \A p \in Proc : ClientSafe(p)
<1>1. Init => All
  BY DEF Init, ClientSafe
<1>2. ASSUME TypeOK, All, Next
      PROVE  All' /\ (ClientUsable => ClientUsable')
  <2>1. PICK p \in Proc : StepOf(p)
    BY <1>2, NextIsStepOf
  <2>2. TypeOK /\ ClientSafe(p)
    BY <1>2
  <2>. SUFFICES ClientSafe(p)' /\ (ClientUsable => ClientUsable')
    OBVIOUS
  <2>. HIDE DEF All
  <2>. USE DEF Goto, TypeOK, planVars, clientVars, ClientSafe, ClientUsable
  <2>3. CASE InstallBegin(p)
    BY <2>2, <2>3 DEF InstallBegin
  <2>4. CASE InstallEnd(p)
    BY <2>2, <2>4 DEF InstallEnd
  <2>5. CASE RemoveClient(p)
    BY <2>2, <2>5 DEF RemoveClient
  <2>6. CASE ClientSuperseded(p) \/ ClientInstall(p)
    BY <2>2, <2>6 DEF ClientSuperseded, ClientInstall
  <2>7. CASE PromoteRemove(p) \/ PromoteSave(p) \/ Save(p) \/ ClearYml(p) \/ ClearJson(p)
    BY <2>2, <2>7 DEF PromoteRemove, PromoteSave, Save, ClearYml, ClearJson
  <2>8. ASSUME NEW o \in UserOp, Start(p, o)
        PROVE  ClientSafe(p)' /\ (ClientUsable => ClientUsable')
    BY <2>2, <2>8 DEF Start, FirstStep
  <2>9. CASE /\ ~FileStep(p) /\ ~DecisionStep(p) /\ ~InstallBegin(p)
             /\ ~\E o \in UserOp : Start(p, o)
    <3>1. UNCHANGED <<rmClient, clientOld, clientNew>>
      BY <2>1, <2>9 DEF StepOf, Step, OpenStep, AfterOpen, ClearStep, ClientAbsent,
         ClientInPlace, ClientUnusable, PromoteNothing, Scan, ScanNothing, ScanDone,
         PlanConflict, PlanCleanup, PlanWrite, WriteKeyring, WriteRefused,
         CleanupItem, CleanupZero, CleanupUnlink, CleanupDone, FileStep, DecisionStep,
         UseToken, NoToken, Finish, SetCredential, ClearToken, Refresh,
         ClearSkipsToken, Fail, Crash
    <3>2. pc'[p] \in {"client", "install", "installing"} => pc[p] = "install"
      BY <2>1, <2>2, <2>9, PlainStep DEF ScanNothing, Ended
    <3>. QED
      BY <2>2, <3>1, <3>2
  <2>. QED
    BY <2>1, <2>3, <2>4, <2>5, <2>6, <2>7, <2>8, <2>9 DEF FileStep, DecisionStep
<1>3. TypeOK /\ All /\ [Next]_vars => All'
  <2>1. UNCHANGED vars /\ All => All'
    BY DEF vars, ClientSafe
  <2>. QED
    BY <1>2, <2>1
<1>4. TypeOK /\ All /\ [Next]_vars => [ClientUsable => ClientUsable']_vars
  BY <1>2
<1>. HIDE DEF All
<1>. QED
  BY <1>1, <1>3, <1>4, TypeCorrect, PTL DEF Spec, ClientNeverLost
=============================================================================
