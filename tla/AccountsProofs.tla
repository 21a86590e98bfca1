--------------------------- MODULE AccountsProofs ---------------------------
(***************************************************************************)
(* Proofs about Accounts for any number of profiles, clients, releases and *)
(* concurrent invocations.  Two inductive invariants: OverrideInv, when    *)
(* every invocation names its profile, and ApartInv, when no config.yml    *)
(* starts with the older top-level fields.                                 *)
(***************************************************************************)
EXTENDS Accounts, TLAPS

(* Loading, saving and changing one profile give configurations again.     *)
LEMMA ConfigType ==
    ASSUME NEW c \in Config
    PROVE  /\ Loaded(c) \in Config
           /\ Saved(c) \in Config
           /\ \A q \in Profile :
                 /\ c.own[q].client \in Path \cup {None}
                 /\ c.own[q].scopes \in Version \cup {None}
                 /\ [c EXCEPT !.active = q] \in Config
                 /\ \A o \in Owned : [c EXCEPT !.own[q] = o] \in Config
                 /\ \A f \in Path \cup {None} :
                       [c EXCEPT !.own[q].client = f] \in Config
BY AccountsAssumption DEF Config, Owned, Loaded, Saved, Fill, NoneOwned

(* An invocation that has not started has a state of the right type.       *)
LEMMA IdleType == IdleRun \in Run
BY AccountsAssumption DEF IdleRun, Run, Ended, Op, DefaultConfig, Config, Owned, NoneOwned

LEMMA StartType ==
    ASSUME NEW l \in Running, NEW o \in Op, NEW s \in Profile \cup {None},
           NEW q \in Profile \cup {None}, NEW c \in App \cup {None}
    PROVE  [IdleRun EXCEPT !.pc = l, !.op = o, !.sel = s, !.tgt = q,
                           !.new = c] \in Run
BY IdleType DEF Run

(* Goto moves one invocation on and changes nothing else of any.           *)
LEMMA GotoFrame ==
    ASSUME TypeOK, NEW p \in Proc, NEW l \in Ended \cup Running, Goto(p, l)
    PROVE  /\ run' \in [Proc -> Run]
           /\ run'[p].pc = l
           /\ \A q \in Proc : 
                 /\ run'[q].tgt = run[q].tgt
                 /\ run'[q].api = run[q].api
                 /\ run'[q].tok = run[q].tok
                 /\ run'[q].map = run[q].map
                 /\ run'[q].sel = run[q].sel
                 /\ run'[q].path = run[q].path
                 /\ run'[q].cfg = run[q].cfg
                 /\ q # p => run'[q] = run[q]
BY DEF TypeOK, Goto, Run

(* End forgets what one invocation had in memory.                          *)
LEMMA EndFrame ==
    ASSUME TypeOK, NEW p \in Proc, NEW l \in Ended, End(p, l)
    PROVE  /\ run' \in [Proc -> Run]
           /\ run'[p].pc = l
           /\ run'[p].cfg = DefaultConfig
           /\ \A q \in Proc \ {p} : run'[q] = run[q]
<1>1. [IdleRun EXCEPT !.pc = l] \in Run
  BY IdleType DEF Run
<1>. QED
  BY <1>1 DEF TypeOK, End, IdleRun

(* A profile has a readable client of known type or none.                  *)
LEMMA ClientOfType ==
    ASSUME TypeOK, NEW q \in Profile
    PROVE  /\ ClientFile(q) \in Path \cup {None}
           /\ ClientOf(q) \in App \cup {None}
<1>1. ClientFile(q) \in Path \cup {None}
  BY ConfigType DEF TypeOK, ClientFile
<1>. QED
  BY <1>1 DEF TypeOK, ClientOf

(* An API client captures the profile and its token.                       *)
Opened(p, q, l) ==
    /\ run' \in [Proc -> Run]
    /\ run'[p].pc = l /\ run'[p].api = q /\ run'[p].tok = keyring[q]
    /\ keyring[q] \in Token
    /\ \A r \in Proc :
          /\ run'[r].tgt = run[r].tgt
          /\ run'[r].map = run[r].map
          /\ run'[r].sel = run[r].sel
          /\ run'[r].path = run[r].path
          /\ run'[r].cfg = run[r].cfg
          /\ r # p => run'[r] = run[r]

LEMMA OpenFrame ==
    ASSUME TypeOK, NEW p \in Proc, NEW q \in Profile, NEW l \in Running,
           OpenFor(p, q, l)
    PROVE  Opened(p, q, l)
<1>. DEFINE t == keyring[q]
            c == [run[p] EXCEPT !.api = q, !.tok = t, !.pc = l]
<1>1. t \in Token
  BY DEF TypeOK, OpenFor, Opens
<1>2. run' = [run EXCEPT ![p] = c]
  BY DEF OpenFor, TypeOK, Run
<1>. HIDE DEF t
<1>3. /\ c \in Run /\ c.pc = l /\ c.api = q /\ c.tok = t
      /\ c.tgt = run[p].tgt /\ c.map = run[p].map /\ c.sel = run[p].sel
      /\ c.path = run[p].path /\ c.cfg = run[p].cfg
  BY <1>1 DEF TypeOK, Run
<1>. HIDE DEF c
<1>. QED
  BY <1>1, <1>2, <1>3 DEF TypeOK, t, Opened

LEMMA OpenSteps ==
    ASSUME TypeOK, NEW p \in Proc
    PROVE  /\ Effective(p) \in Profile
           /\ OpenClient(p) => Opened(p, Effective(p), "running")
           /\ OpenVerifier(p) =>
                 /\ run[p].pc \in {"verify", "people"}
                 /\ Opened(p, Effective(p), "verifying") \/ Opened(p, Effective(p), "asking")
           /\ \A q \in Profile : CheckRow(p, q) => Opened(p, q, "row")
<1>1. Effective(p) \in Profile
  BY DEF Effective, TypeOK, Run, Config
<1>2. {"running", "verifying", "asking", "row"} \subseteq Running
  BY DEF Running, Initing, Others
<1>. QED
  BY <1>1, <1>2, OpenFrame DEF OpenClient, OpenVerifier, CheckRow

(* A load of the identity cache keeps everything but the map in memory.     *)
MapLoaded(p, q) ==
    /\ run' \in [Proc -> Run]
    /\ run'[p].pc \in Saving
    /\ run'[p].map = [identity EXCEPT ![q] = run[p].tok.for]
    /\ run'[p].map \in [Profile -> Profile \cup {None}]
    /\ \A r \in Proc :
          /\ run'[r].tgt = run[r].tgt
          /\ run'[r].tok = run[r].tok
          /\ run'[r].sel = run[r].sel
          /\ run'[r].path = run[r].path
          /\ run'[r].cfg = run[r].cfg
          /\ r # p => run'[r] = run[r]
    /\ run[p].pc # "row" => run'[p].pc = "identity_save"
    /\ run[p].pc = "row" => run'[p].pc = "row_save"

LEMMA PutFrame ==
    ASSUME TypeOK, KnowsTarget, NEW p \in Proc, NEW q \in Profile,
           run[p].pc \in {"identity", "row"}, PutLoad(p, q)
    PROVE  MapLoaded(p, q)
<1>. DEFINE m == [identity EXCEPT ![q] = run[p].tok.for]
            l == PutStep[run[p].pc]
<1>1. m \in [Profile -> Profile \cup {None}]
  BY DEF TypeOK, KnowsTarget, WithToken, WithApi, Token
<1>2. /\ l \in Saving
      /\ run[p].pc # "row" => l = "identity_save"
      /\ run[p].pc = "row" => l = "row_save"
  BY DEF PutStep, Saving
<1>3. run' = [run EXCEPT ![p].map = m, ![p].pc = l]
  BY DEF PutLoad, TypeOK, Run
<1>4. l \in Ended \cup Running
  BY <1>2 DEF Saving, Running, Initing, Others
<1>. HIDE DEF m, l
<1>5. run' \in [Proc -> Run]
  <2>. DEFINE c == [run[p] EXCEPT !.map = m, !.pc = l]
  <2>1. c \in Run
    BY <1>1, <1>4 DEF TypeOK, Run
  <2>2. run' = [run EXCEPT ![p] = c]
    BY <1>3, Zenon
  <2>. HIDE DEF c
  <2>. QED
    BY <2>1, <2>2 DEF TypeOK
<1>6. run'[p].pc = l /\ run'[p].map = m
  BY <1>3 DEF TypeOK, Run
<1>7. \A r \in Proc : 
         /\ run'[r].tgt = run[r].tgt
         /\ run'[r].tok = run[r].tok
         /\ run'[r].sel = run[r].sel
         /\ run'[r].path = run[r].path
         /\ run'[r].cfg = run[r].cfg
         /\ r # p => run'[r] = run[r]
  BY <1>3 DEF TypeOK, Run
<1>. USE DEF m
<1>. QED
  BY <1>1, <1>2, <1>5, <1>6, <1>7 DEF MapLoaded

(* Such a load takes no invocation's target or token away.                 *)
LEMMA PutKnows ==
    ASSUME KnowsTarget, NEW p \in Proc, NEW q \in Profile, MapLoaded(p, q),
           run[p].pc \in {"identity", "row"}
    PROVE  KnowsTarget'
<1>1. /\ run'[p].pc \in Aimed => run[p].pc \in Aimed
      /\ run'[p].pc \in Initing \ {"path"} => run[p].pc \in Initing \ {"path"}
      /\ run'[p].pc \notin {"check", "write", "fill"}
      /\ run'[p].pc \notin WithToken \cup WithApi
  BY DEF MapLoaded, Saving, WithToken, WithApi, Aimed, Initing
<1>2. /\ run'[p].map \in [Profile -> Profile \cup {None}]
      /\ run'[p].tgt = run[p].tgt /\ run'[p].path = run[p].path
      /\ \A r \in Proc : r # p => run'[r] = run[r]
  BY DEF MapLoaded
<1>. QED
  BY <1>1, <1>2 DEF KnowsTarget

LEMMA PutHoldsOwn ==
    ASSUME HoldsOwnToken, NEW p \in Proc, NEW q \in Profile, MapLoaded(p, q),
           \A u \in Profile : run'[p].map[u] \in {None, u}
    PROVE  HoldsOwnToken'
<1>1. run'[p].pc \notin WithToken \cup WithApi \cup {"identity", "store"}
  BY DEF MapLoaded, Saving, WithToken, WithApi
<1>2. \A r \in Proc : r # p => run'[r] = run[r]
  BY DEF MapLoaded
<1>. QED
  BY <1>1, <1>2 DEF HoldsOwnToken

(* After the identity cache an invocation ends or goes on with what it had.*)
LEMMA RecordedFrame ==
    ASSUME TypeOK, NEW p \in Proc, Recorded(p)
    PROVE  /\ run[p].pc \in Saving
           /\ run' \in [Proc -> Run]
           /\ \A r \in Proc : r # p => run'[r] = run[r]
           /\ \/ run'[p].pc = "done" /\ run'[p].cfg = DefaultConfig
              \/ /\ \/ run[p].pc = "row_save" /\ run'[p].pc = "rows"
                    \/ run[p].pc = "identity_save" /\ run'[p].pc = "people"
                 /\ run'[p].tgt = run[p].tgt
                 /\ run'[p].sel = run[p].sel
                 /\ run'[p].path = run[p].path
                 /\ run'[p].cfg = run[p].cfg
<1>1. CASE run[p].pc = "identity_save" /\ ~ProfileScope
  BY <1>1, EndFrame DEF Recorded, Saving, Ended
<1>2. CASE \/ run[p].pc = "row_save"
           \/ run[p].pc = "identity_save" /\ ProfileScope
  <2>. DEFINE l == IF run[p].pc = "row_save" THEN "rows" ELSE "people"
  <2>1. run' = [run EXCEPT ![p].map = None, ![p].pc = l]
    BY <1>2 DEF Recorded, TypeOK, Run
  <2>2. l \in Running
    BY DEF Running, Initing, Others
  <2>3. \/ run[p].pc = "row_save" /\ l = "rows"
        \/ run[p].pc = "identity_save" /\ l = "people"
    BY <1>2 DEF Recorded
  <2>. HIDE DEF l
  <2>. QED
    BY <2>1, <2>2, <2>3 DEF TypeOK, Run, Saving
<1>. QED
  BY <1>1, <1>2 DEF Recorded

(* Every step keeps the types, and an invocation past its announcement has *)
(* a target and, past the consent or the read of it, a token.              *)
LEMMA TypeStep ==
    ASSUME TypeOK, KnowsTarget, [Next]_vars
    PROVE  TypeOK' /\ KnowsTarget'
<1>. USE AccountsAssumption
     DEF TypeOK, KnowsTarget, stores, envVars, history, Initing, Others, Aimed, WithApi, WithToken,
         Saving, Running,
         Ended
<1>0. CASE UNCHANGED vars
  BY <1>0 DEF vars
<1>1. ASSUME NEW p \in Proc, NEW o \in Ops, NEW s \in Select,
             NEW q \in ArgOf(o), NEW c \in NewOf(o), Start(p, o, s, q, c)
     PROVE  TypeOK' /\ KnowsTarget'
  <2>1. FirstStep(o) \in Running /\ o \in Op
    BY DEF FirstStep, Op
  <2>2. /\ s \in Profile \cup {None}
        /\ q \in Profile \cup {None}
        /\ c \in App \cup {None}
    BY DEF ArgOf, NewOf
  <2>. DEFINE r == [IdleRun EXCEPT !.pc = FirstStep(o), !.op = o, !.sel = s,
                                   !.tgt = q, !.new = c]
  <2>3. r \in Run
    <3>. HIDE DEF TypeOK, KnowsTarget, Running
    <3>. QED
      BY <2>1, <2>2, StartType
  <2>4. r.pc = FirstStep(o) /\ r.op = o /\ r.tgt = q
    BY IdleType DEF IdleRun, Run
  <2>5. run' = [run EXCEPT ![p] = r]
    BY <1>1 DEF Start
  <2>. HIDE DEF r
  <2>6. KnowsTarget'
    BY <2>3, <2>4, <2>5 DEF FirstStep, ArgOf, Op
  <2>. QED
    BY <2>3, <2>5, <2>6, <1>1 DEF Start
<1>2. ASSUME Upgrade
     PROVE  TypeOK' /\ KnowsTarget'
  BY <1>2 DEF Upgrade, Version
<1>3. ASSUME NEW p \in Proc, Describe(p)
     PROVE  TypeOK' /\ KnowsTarget'
  <2>. DEFINE r == [run[p] EXCEPT !.tgt = Effective(p), !.pc = "path"]
  <2>1. Effective(p) \in Profile /\ run[p] \in Run
    BY OpenSteps
  <2>2. r \in Run /\ r.pc = "path" /\ r.tgt \in Profile
    <3>. HIDE AccountsAssumption DEF TypeOK, KnowsTarget, Ended
    <3>. QED
      BY <2>1 DEF Run
  <2>3. run' = [run EXCEPT ![p] = r]
    BY <1>3, <2>1 DEF Describe, Run
  <2>. HIDE DEF r
  <2>. QED
    BY <2>2, <2>3, <1>3 DEF Describe
<1>4. ASSUME NEW p \in Proc, DescribeBlind(p)
     PROVE  TypeOK' /\ KnowsTarget'
  BY <1>4 DEF DescribeBlind, Run, Config
<1>5. ASSUME NEW p \in Proc, ResolvePath(p)
     PROVE  TypeOK' /\ KnowsTarget'
  <2>1. PathFor(Loaded(file), run[p].tgt, run[p].tgt) \in Path
    BY <1>5, ConfigType DEF ResolvePath, PathFor, Path
  <2>. DEFINE f == PathFor(Loaded(file), run[p].tgt, run[p].tgt)
              r == [run[p] EXCEPT !.path = f, !.pc = "creds"]
  <2>2. run' = [run EXCEPT ![p].path = f, ![p].pc = "creds"]
    BY <1>5 DEF ResolvePath
  <2>3. run[p] \in Run /\ run[p].tgt \in Profile
    BY <1>5 DEF ResolvePath
  <2>. HIDE DEF f
  <2>4. r \in Run /\ r.pc = "creds" /\ r.tgt \in Profile /\ r.path \in Path
    <3>1. f \in Path
      BY <2>1 DEF f
    <3>. HIDE AccountsAssumption DEF TypeOK, KnowsTarget, Ended
    <3>. QED
      BY <2>3, <3>1 DEF Run
  <2>5. run' = [run EXCEPT ![p] = r]
    BY <2>2, <2>3 DEF Run
  <2>. HIDE DEF r
  <2>. QED
    BY <2>4, <2>5, <1>5 DEF ResolvePath
<1>6. ASSUME NEW p \in Proc, KeepClient(p)
     PROVE  TypeOK' /\ KnowsTarget'
  BY <1>6, GotoFrame DEF KeepClient
<1>7. ASSUME NEW p \in Proc, AdoptClient(p)
     PROVE  TypeOK' /\ KnowsTarget'
  <2>. DEFINE d == [Loaded(file) EXCEPT !.own[run[p].tgt].client =
                       run[p].path]
  <2>1. d \in Config
    BY <1>7, ConfigType DEF AdoptClient, Run
  <2>2. run' = [run EXCEPT ![p].cfg = d, ![p].pc = "adopt"]
    BY <1>7 DEF AdoptClient
  <2>. HIDE DEF d
  <2>. QED
    BY <2>1, <2>2, <1>7 DEF AdoptClient, Run
<1>8. ASSUME NEW p \in Proc, NEW c \in App, ImportClient(p, c)
     PROVE  TypeOK' /\ KnowsTarget'
  <2>1. PathFor(Loaded(file), run[p].tgt, run[p].path) \in Path
    BY <1>8, ConfigType DEF ImportClient, PathFor
  <2>. DEFINE d == [Loaded(file) EXCEPT !.own[run[p].tgt].client =
                       PathFor(Loaded(file), run[p].tgt, run[p].path)]
  <2>2. d \in Config
    BY <2>1, <1>8, ConfigType DEF ImportClient
  <2>4. d.own[run[p].tgt].client \in Path
    <3>1. Loaded(file) \in Config /\ run[p].tgt \in Profile
      BY <1>8, ConfigType DEF ImportClient
    <3>. HIDE DEF TypeOK, KnowsTarget
    <3>. QED
      BY <2>1, <3>1 DEF Config, Owned
  <2>3. run' = [run EXCEPT ![p].cfg = d, ![p].new = c, ![p].pc = "check"]
    BY <1>8 DEF ImportClient
  <2>. HIDE DEF d
  <2>. DEFINE r == [run[p] EXCEPT !.cfg = d, !.new = c, !.pc = "check"]
  <2>5. /\ run[p] \in Run /\ run[p].tgt \in Profile /\ run[p].path \in Path
    BY <1>8 DEF ImportClient
  <2>6. /\ r \in Run /\ r.pc = "check" /\ r.tgt = run[p].tgt
        /\ r.path = run[p].path /\ r.cfg = d
    BY <2>2, <2>5 DEF Run
  <2>7. run' = [run EXCEPT ![p] = r]
    BY <2>3, <2>5 DEF Run
  <2>. HIDE DEF r
  <2>. QED
    BY <2>4, <2>5, <2>6, <2>7, <1>8 DEF ImportClient
<1>9. ASSUME NEW p \in Proc, RefuseClient(p)
     PROVE  TypeOK' /\ KnowsTarget'
  BY <1>9, EndFrame DEF RefuseClient
<1>10. ASSUME NEW p \in Proc, AcceptClient(p)
     PROVE  TypeOK' /\ KnowsTarget'
  BY <1>10, GotoFrame DEF AcceptClient
<1>11. ASSUME NEW p \in Proc, WriteClient(p)
     PROVE  TypeOK' /\ KnowsTarget'
  <2>1. client' \in [Path -> App \cup {None, Torn}]
    BY <1>11 DEF WriteClient, Run
  <2>. QED
    BY <2>1, <1>11, GotoFrame DEF WriteClient
<1>12. ASSUME NEW p \in Proc, SaveClient(p)
     PROVE  TypeOK' /\ KnowsTarget'
  <2>1. Saved(run[p].cfg) \in Config
    BY ConfigType DEF Run
  <2>. QED
    BY <2>1, <1>12, GotoFrame DEF SaveClient
<1>13. ASSUME NEW p \in Proc, NoStoredToken(p)
     PROVE  TypeOK' /\ KnowsTarget'
  BY <1>13, GotoFrame DEF NoStoredToken
<1>14. ASSUME NEW p \in Proc, StoredToken(p)
     PROVE  TypeOK' /\ KnowsTarget'
  BY <1>14, GotoFrame DEF StoredToken
<1>15. ASSUME NEW p \in Proc, StaleRecord(p)
     PROVE  TypeOK' /\ KnowsTarget'
  <2>1. Goto(p, "reauth") /\ run[p].pc = "judge" /\ UNCHANGED <<stores, envVars>>
    BY <1>15 DEF StaleRecord
  <2>. QED
    BY <2>1, GotoFrame
<1>16. ASSUME NEW p \in Proc, CurrentRecord(p)
     PROVE  TypeOK' /\ KnowsTarget'
  <2>1. Goto(p, "verify") /\ run[p].pc = "judge" /\ UNCHANGED <<stores, envVars>>
    BY <1>16 DEF CurrentRecord
  <2>. QED
    BY <2>1, GotoFrame
<1>17. ASSUME NEW p \in Proc, SkipVerify(p)
     PROVE  TypeOK' /\ KnowsTarget'
  BY <1>17, EndFrame DEF SkipVerify
<1>18. ASSUME NEW p \in Proc, Verify(p)
     PROVE  TypeOK' /\ KnowsTarget'
  BY <1>18, GotoFrame DEF Verify
<1>19. ASSUME NEW p \in Proc, VerifyAuthError(p)
     PROVE  TypeOK' /\ KnowsTarget'
  BY <1>19, GotoFrame DEF VerifyAuthError
<1>20. ASSUME NEW p \in Proc, VerifyFails(p)
     PROVE  TypeOK' /\ KnowsTarget'
  BY <1>20, EndFrame DEF VerifyFails
<1>21. ASSUME NEW p \in Proc, RecordIdentity(p)
     PROVE  TypeOK' /\ KnowsTarget'
  <2>1. Effective(p) \in Profile
    BY DEF Effective, Run, Config
  <2>2. /\ run[p].pc = "identity"
        /\ PutLoad(p, Effective(p))
        /\ UNCHANGED <<stores, envVars>>
    BY <1>21 DEF RecordIdentity
  <2>3. MapLoaded(p, Effective(p))
    <3>1. TypeOK /\ KnowsTarget /\ run[p].pc \in {"identity", "row"}
      BY <2>2
    <3>. HIDE DEF TypeOK, KnowsTarget
    <3>. QED
      BY <3>1, <2>1, <2>2, PutFrame
  <2>4. TypeOK'
    BY <2>2, <2>3 DEF MapLoaded
  <2>5. KnowsTarget'
    <3>1. KnowsTarget /\ run[p].pc \in {"identity", "row"}
      BY <2>2
    <3>. HIDE DEF KnowsTarget
    <3>. QED
      BY <3>1, <2>1, <2>3, PutKnows
  <2>. QED
    BY <2>4, <2>5
<1>22. ASSUME NEW p \in Proc, SaveIdentity(p)
     PROVE  TypeOK' /\ KnowsTarget'
  <2>1. identity' \in [Profile -> Profile \cup {None}]
    BY <1>22, RecordedFrame DEF SaveIdentity
  <2>. QED
    BY <2>1, <1>22, RecordedFrame DEF SaveIdentity
<1>23. ASSUME NEW p \in Proc, PeopleAccepts(p)
     PROVE  TypeOK' /\ KnowsTarget'
  BY <1>23, EndFrame DEF PeopleAccepts
<1>24. ASSUME NEW p \in Proc, PeopleScopeError(p)
     PROVE  TypeOK' /\ KnowsTarget'
  BY <1>24, GotoFrame DEF PeopleScopeError
<1>25. ASSUME NEW p \in Proc, ConfirmReauth(p)
     PROVE  TypeOK' /\ KnowsTarget'
  <2>1. keyring' \in [Profile -> Token \cup {None}]
    BY <1>25 DEF ConfirmReauth, Run
  <2>. QED
    BY <2>1, <1>25, GotoFrame DEF ConfirmReauth
<1>26. ASSUME NEW p \in Proc, DeclineReauth(p)
     PROVE  TypeOK' /\ KnowsTarget'
  BY <1>26, EndFrame DEF DeclineReauth
<1>27. ASSUME NEW p \in Proc, Consent(p)
     PROVE  TypeOK' /\ KnowsTarget'
  <2>. DEFINE k == [for |-> run[p].tgt, app |-> ClientOf(run[p].tgt), scopes |-> version]
              r == [run[p] EXCEPT !.tok = k, !.pc = "store"]
  <2>1. run[p] \in Run /\ run[p].tgt \in Profile /\ run[p].path \in Path
    BY <1>27 DEF Consent
  <2>2. k \in Token
    BY <2>1, <1>27, ClientOfType DEF Consent, Token
  <2>3. run' = [run EXCEPT ![p].tok = k, ![p].pc = "store"]
    BY <1>27 DEF Consent
  <2>. HIDE DEF k
  <2>4. /\ r \in Run /\ r.pc = "store" /\ r.tgt = run[p].tgt
        /\ r.path = run[p].path /\ r.tok = k
    BY <2>1, <2>2 DEF Run
  <2>5. run' = [run EXCEPT ![p] = r]
    BY <2>1, <2>3 DEF Run
  <2>. HIDE DEF r
  <2>. QED
    BY <2>1, <2>2, <2>4, <2>5, <1>27 DEF Consent
<1>28. ASSUME NEW p \in Proc, NoConsent(p)
     PROVE  TypeOK' /\ KnowsTarget'
  BY <1>28, EndFrame DEF NoConsent
<1>29. ASSUME NEW p \in Proc, StoreToken(p)
     PROVE  TypeOK' /\ KnowsTarget'
  <2>1. keyring' \in [Profile -> Token \cup {None}]
    BY <1>29 DEF StoreToken, Run
  <2>2. run' = [run EXCEPT ![p].fresh = TRUE, ![p].pc = "record"] /\ cut' \in SUBSET Path
    BY <1>29 DEF StoreToken
  <2>. QED
    BY <2>1, <2>2, <1>29 DEF StoreToken, Run
<1>30. ASSUME NEW p \in Proc, RecordScopes(p)
     PROVE  TypeOK' /\ KnowsTarget'
  <2>1. PathFor(Loaded(file), run[p].tgt, run[p].path) \in Path \cup {None}
    BY <1>30, ConfigType DEF RecordScopes, PathFor, Run
  <2>. DEFINE o == [client |-> PathFor(Loaded(file), run[p].tgt, run[p].path),
                    scopes |-> version]
              d == [Loaded(file) EXCEPT !.own[run[p].tgt] = o]
  <2>2. o \in Owned
    BY <2>1 DEF Owned
  <2>. HIDE DEF o
  <2>3. d \in Config
    BY <2>2, <1>30, ConfigType DEF RecordScopes
  <2>. USE DEF o
  <2>4. run' = [run EXCEPT ![p].cfg = d, ![p].pc = "record_save"]
    BY <1>30 DEF RecordScopes
  <2>. HIDE DEF d, o
  <2>. QED
    BY <2>3, <2>4, <1>30 DEF RecordScopes, Run
<1>31. ASSUME NEW p \in Proc, SaveRecord(p)
     PROVE  TypeOK' /\ KnowsTarget'
  <2>1. Saved(run[p].cfg) \in Config
    BY ConfigType DEF Run
  <2>. QED
    BY <2>1, <1>31, GotoFrame DEF SaveRecord
<1>32. ASSUME NEW p \in Proc, SaveRecordFails(p)
     PROVE  TypeOK' /\ KnowsTarget'
  BY <1>32, GotoFrame DEF SaveRecordFails
<1>33. ASSUME NEW p \in Proc, UseLoad(p)
     PROVE  TypeOK' /\ KnowsTarget'
  <2>. DEFINE d == [Loaded(file) EXCEPT !.active = run[p].tgt]
              r == [run[p] EXCEPT !.cfg = d, !.pc = "use_save"]
  <2>1. d \in Config
    BY <1>33, ConfigType DEF UseLoad
  <2>2. run' = [run EXCEPT ![p].cfg = d, ![p].pc = "use_save"]
    BY <1>33 DEF UseLoad
  <2>3. run[p] \in Run /\ run[p].tgt \in Profile
    BY <1>33 DEF UseLoad
  <2>. HIDE DEF d
  <2>4. r \in Run /\ r.pc = "use_save" /\ r.tgt \in Profile
    <3>. HIDE AccountsAssumption DEF TypeOK, KnowsTarget, Ended
    <3>. QED
      BY <2>1, <2>3 DEF Run
  <2>5. run' = [run EXCEPT ![p] = r]
    BY <2>2, <2>3 DEF Run
  <2>. HIDE DEF r
  <2>. QED
    BY <2>4, <2>5, <1>33 DEF UseLoad
<1>34. ASSUME NEW p \in Proc, UseActive(p)
     PROVE  TypeOK' /\ KnowsTarget'
  BY <1>34, EndFrame DEF UseActive
<1>35. ASSUME NEW p \in Proc, UseSave(p)
     PROVE  TypeOK' /\ KnowsTarget'
  <2>1. Saved(run[p].cfg) \in Config
    BY ConfigType DEF Run
  <2>. QED
    BY <2>1, <1>35, EndFrame DEF UseSave
<1>36. ASSUME NEW p \in Proc, SaveRefused(p)
     PROVE  TypeOK' /\ KnowsTarget'
  BY <1>36, EndFrame DEF SaveRefused
<1>37. ASSUME NEW p \in Proc, NEW a \in App, NEW v \in Version,
             SetCredential(p, a, v)
     PROVE  TypeOK' /\ KnowsTarget'
  <2>1. Effective(p) \in Profile
    BY DEF Effective, Run, Config
  <2>. DEFINE t == [for |-> Effective(p), app |-> a, scopes |-> v]
  <2>2. t \in Token
    BY <2>1 DEF Token
  <2>3. keyring' = [keyring EXCEPT ![Effective(p)] = t]
    BY <1>37 DEF SetCredential
  <2>4. keyring' \in [Profile -> Token \cup {None}]
    <3>. HIDE DEF t
    <3>. QED
      BY <2>1, <2>2, <2>3
  <2>. QED
    BY <2>4, <1>37, EndFrame DEF SetCredential
<1>38. ASSUME NEW p \in Proc, OpenClient(p)
     PROVE  TypeOK' /\ KnowsTarget'
  <2>1. TypeOK
    OBVIOUS
  <2>2. Effective(p) \in Profile /\ (Opened(p, Effective(p), "running"))
    <3>. HIDE DEF TypeOK, KnowsTarget
    <3>. QED
      BY <2>1, <1>38, OpenSteps
  <2>. QED
    BY <2>2, <1>38 DEF OpenClient, Opened
<1>39. ASSUME NEW p \in Proc, OpenFails(p)
     PROVE  TypeOK' /\ KnowsTarget'
  BY <1>39, EndFrame DEF OpenFails
<1>40. ASSUME NEW p \in Proc, Refresh(p)
     PROVE  TypeOK' /\ KnowsTarget'
  BY <1>40 DEF Refresh
<1>41. ASSUME NEW p \in Proc, CommandEnds(p)
     PROVE  TypeOK' /\ KnowsTarget'
  BY <1>41, EndFrame DEF CommandEnds
<1>42. ASSUME NEW p \in Proc, ClearToken(p)
     PROVE  TypeOK' /\ KnowsTarget'
  <2>1. keyring' \in [Profile -> Token \cup {None}]
    BY <1>42 DEF ClearToken
  <2>2. CASE run[p].op = "clear-all"
    BY <2>1, <2>2, <1>42, GotoFrame DEF ClearToken
  <2>3. CASE run[p].op # "clear-all"
    BY <2>1, <2>3, <1>42, EndFrame DEF ClearToken
  <2>. QED
    BY <2>2, <2>3
<1>43. ASSUME NEW p \in Proc, ClearConfig(p)
     PROVE  TypeOK' /\ KnowsTarget'
  <2>1. DefaultConfig \in Config
    BY DEF DefaultConfig, Config, Owned, NoneOwned
  <2>. QED
    BY <2>1, <1>43, GotoFrame DEF ClearConfig
<1>44. ASSUME NEW p \in Proc, Stop(p)
     PROVE  TypeOK' /\ KnowsTarget'
  <2>1. cut' \in SUBSET Path
    BY <1>44 DEF Stop
  <2>. QED
    BY <2>1, <1>44, EndFrame DEF Stop
<1>45. ASSUME NEW p \in Proc, SaveIdentityFails(p)
     PROVE  TypeOK' /\ KnowsTarget'
  BY <1>45, RecordedFrame DEF SaveIdentityFails
<1>46. ASSUME NEW p \in Proc, NEW q \in Profile, CheckRow(p, q)
     PROVE  TypeOK' /\ KnowsTarget'
  <2>1. TypeOK
    OBVIOUS
  <2>2. Effective(p) \in Profile /\ (Opened(p, q, "row"))
    <3>. HIDE DEF TypeOK, KnowsTarget
    <3>. QED
      BY <2>1, <1>46, OpenSteps
  <2>. QED
    BY <2>2, <1>46 DEF CheckRow, Opened
<1>47. ASSUME NEW p \in Proc, RecordRow(p)
     PROVE  TypeOK' /\ KnowsTarget'
  <2>1. run[p].api \in Profile
    BY <1>47 DEF RecordRow
  <2>2. /\ run[p].pc = "row"
        /\ PutLoad(p, run[p].api)
        /\ UNCHANGED <<stores, envVars>>
    BY <1>47 DEF RecordRow
  <2>3. MapLoaded(p, run[p].api)
    <3>1. TypeOK /\ KnowsTarget /\ run[p].pc \in {"identity", "row"}
      BY <2>2
    <3>. HIDE DEF TypeOK, KnowsTarget
    <3>. QED
      BY <3>1, <2>1, <2>2, PutFrame
  <2>4. TypeOK'
    BY <2>2, <2>3 DEF MapLoaded
  <2>5. KnowsTarget'
    <3>1. KnowsTarget /\ run[p].pc \in {"identity", "row"}
      BY <2>2
    <3>. HIDE DEF KnowsTarget
    <3>. QED
      BY <3>1, <2>1, <2>3, PutKnows
  <2>. QED
    BY <2>4, <2>5
<1>48. ASSUME NEW p \in Proc, RefuseTorn(p)
     PROVE  TypeOK' /\ KnowsTarget'
  BY <1>48, EndFrame DEF RefuseTorn
<1>49. ASSUME NEW p \in Proc, TruncateClient(p)
     PROVE  TypeOK' /\ KnowsTarget'
  <2>1. client' \in [Path -> App \cup {None, Torn}]
    BY <1>49 DEF TruncateClient, Run
  <2>. QED
    BY <2>1, <1>49, GotoFrame DEF TruncateClient
<1>50. ASSUME NEW p \in Proc, OpenVerifier(p)
     PROVE  TypeOK' /\ KnowsTarget'
  <2>1. TypeOK
    OBVIOUS
  <2>2. Effective(p) \in Profile /\ (Opened(p, Effective(p), "verifying") \/ Opened(p, Effective(p), "asking"))
    <3>. HIDE DEF TypeOK, KnowsTarget
    <3>. QED
      BY <2>1, <1>50, OpenSteps
  <2>. QED
    BY <2>2, <1>50 DEF OpenVerifier, Opened
<1>51. ASSUME NEW p \in Proc, ClearCache(p)
     PROVE  TypeOK' /\ KnowsTarget'
  BY <1>51, EndFrame DEF ClearCache
<1>. HIDE DEF TypeOK, KnowsTarget
<1>. QED
  BY <1>0, <1>1, <1>2, <1>3, <1>4, <1>5, <1>6, <1>7, <1>8, <1>9, <1>10, <1>11,
     <1>12, <1>13, <1>14, <1>15, <1>16, <1>17, <1>18, <1>19, <1>20, <1>21,
     <1>22, <1>23, <1>24, <1>25, <1>26, <1>27, <1>28, <1>29, <1>30, <1>31,
     <1>32, <1>33, <1>34, <1>35, <1>36, <1>37, <1>38, <1>39, <1>40, <1>41,
     <1>42, <1>43, <1>44, <1>45, <1>46, <1>47, <1>48, <1>49, <1>50, <1>51
     DEF Next, InitStep, UseStep, OtherStep, vars

(* What OverrideInv adds to the types.                                     *)
OverrideParts ==
    AnnouncesOverride /\ HoldsOwnToken /\ TokenOnTarget /\ IdentityOnTarget

(* Opening an API client for one's own profile, or any for a list, keeps   *)
(* every token where it belongs.                                           *)
LEMMA OpenOverrides ==
    ASSUME OverrideInv, NEW p \in Proc, NEW q \in Profile, NEW l \in WithApi,
           Opened(p, q, l), UNCHANGED <<keyring, identity>>,
           run[p].pc \in Running,
           l \in {"verifying", "asking"} =>
              q = run[p].sel /\ run[p].tgt = run[p].sel
    PROVE  OverrideParts'
<1>. USE DEF OverrideInv, OverrideParts
<1>0. /\ keyring[q] # None /\ keyring[q].for = q
  BY TokenAssumption DEF Opened, TokenOnTarget
<1>1. /\ run'[p].pc = l /\ run'[p].api = q /\ run'[p].tok = keyring[q]
      /\ run'[p].sel = run[p].sel /\ run'[p].tgt = run[p].tgt
      /\ \A r \in Proc \ {p} : run'[r] = run[r]
  BY DEF Opened
<1>2. /\ l \in Initing => l \in {"verifying", "asking"}
      /\ l \notin {"identity", "store"} \cup Saving
  BY DEF WithApi, Initing, Saving
<1>3. AnnouncesOverride'
  BY <1>1, <1>2 DEF AnnouncesOverride
<1>4. HoldsOwnToken'
  BY <1>0, <1>1, <1>2 DEF HoldsOwnToken
<1>. QED
  BY <1>3, <1>4 DEF TokenOnTarget, IdentityOnTarget

LEMMA OverrideOpens ==
    ASSUME OverrideInv, NEW p \in Proc,
           OpenClient(p) \/ OpenVerifier(p) \/ \E q \in Profile : CheckRow(p, q)
    PROVE  OverrideParts'
<1>0. TypeOK /\ AnnouncesOverride
  BY DEF OverrideInv
<1>1. run[p].pc \in Running /\ UNCHANGED <<keyring, identity>>
  BY DEF OpenClient, OpenVerifier, CheckRow, stores, Running, Initing, Others
<1>2. run[p].sel \in Profile /\ Effective(p) = run[p].sel /\ None \notin Profile
  BY <1>0, <1>1, AccountsAssumption DEF AnnouncesOverride, Effective, Path
<1>3. {"running", "verifying", "asking", "row"} \subseteq WithApi
  BY DEF WithApi
<1>4. CASE OpenClient(p)
  BY <1>0, <1>1, <1>2, <1>3, <1>4, OpenSteps, OpenOverrides
<1>5. CASE OpenVerifier(p)
  <2>1. run[p].pc \in Initing
    BY <1>0, <1>5, OpenSteps DEF Initing
  <2>2. run[p].tgt = run[p].sel
    BY <1>0, <2>1 DEF AnnouncesOverride
  <2>. QED
    BY <1>0, <1>1, <1>2, <1>3, <1>5, <2>2, OpenSteps, OpenOverrides
<1>6. ASSUME NEW q \in Profile, CheckRow(p, q)
      PROVE  OverrideParts'
  BY <1>0, <1>1, <1>3, <1>6, OpenSteps, OpenOverrides
<1>. QED
  BY <1>4, <1>5, <1>6

(* With overrides, every step keeps token, email and announcement together: *)
(* Effective(p) is the override, whatever the active profile becomes.      *)
LEMMA OverrideStep ==
    ASSUME Select \subseteq Profile, FlakyKeyring \cap Profile = {},
           OverrideInv, [Next]_vars
    PROVE  OverrideParts'
<1>. USE AccountsAssumption
     DEF OverrideInv, OverrideParts, TypeOK, KnowsTarget, AnnouncesOverride,
         HoldsOwnToken, TokenOnTarget, IdentityOnTarget, stores, envVars, history,
         Initing, Others, Aimed, WithApi, WithToken, Saving, Running,
         Ended
<1>00. \A p \in Proc : run[p].pc \in Running =>
                           Effective(p) = run[p].sel /\ run[p].sel \in Profile
  BY DEF Effective, Path
<1>0. CASE UNCHANGED vars
  BY <1>0 DEF vars
<1>1. ASSUME NEW p \in Proc, NEW o \in Ops, NEW s \in Select,
             NEW q \in ArgOf(o), NEW c \in NewOf(o), Start(p, o, s, q, c)
     PROVE  OverrideParts'
  <2>. DEFINE r == [IdleRun EXCEPT !.pc = FirstStep(o), !.op = o, !.sel = s,
                                   !.tgt = q, !.new = c]
  <2>1. r.pc = FirstStep(o) /\ r.sel = s /\ r.op = o
    BY DEF IdleRun
  <2>2. run' = [run EXCEPT ![p] = r]
    BY <1>1 DEF Start
  <2>. HIDE DEF r
  <2>. QED
    BY <2>1, <2>2, <1>1 DEF Start, FirstStep, Op
<1>2. ASSUME Upgrade
     PROVE  OverrideParts'
  BY <1>2 DEF Upgrade
<1>3. ASSUME NEW p \in Proc, Describe(p)
     PROVE  OverrideParts'
  BY <1>00, <1>3 DEF Describe
<1>4. ASSUME NEW p \in Proc, DescribeBlind(p)
     PROVE  OverrideParts'
  BY <1>4 DEF DescribeBlind
<1>5. ASSUME NEW p \in Proc, ResolvePath(p)
     PROVE  OverrideParts'
  BY <1>5 DEF ResolvePath
<1>6. ASSUME NEW p \in Proc, KeepClient(p)
     PROVE  OverrideParts'
  BY <1>6, GotoFrame DEF KeepClient
<1>7. ASSUME NEW p \in Proc, AdoptClient(p)
     PROVE  OverrideParts'
  <2>. DEFINE d == [Loaded(file) EXCEPT !.own[run[p].tgt].client = run[p].path]
  <2>1. run' = [run EXCEPT ![p].cfg = d, ![p].pc = "adopt"]
    BY <1>7 DEF AdoptClient
  <2>. HIDE DEF d
  <2>. QED
    BY <2>1, <1>7 DEF AdoptClient
<1>8. ASSUME NEW p \in Proc, NEW c \in App, ImportClient(p, c)
     PROVE  OverrideParts'
  <2>. DEFINE d == [Loaded(file) EXCEPT !.own[run[p].tgt].client =
                       PathFor(Loaded(file), run[p].tgt, run[p].path)]
  <2>1. run' = [run EXCEPT ![p].cfg = d, ![p].new = c, ![p].pc = "check"]
    BY <1>8 DEF ImportClient
  <2>. HIDE DEF d
  <2>. QED
    BY <2>1, <1>8 DEF ImportClient
<1>9. ASSUME NEW p \in Proc, RefuseClient(p)
     PROVE  OverrideParts'
  BY <1>9, EndFrame DEF RefuseClient
<1>10. ASSUME NEW p \in Proc, AcceptClient(p)
     PROVE  OverrideParts'
  BY <1>10, GotoFrame DEF AcceptClient
<1>11. ASSUME NEW p \in Proc, WriteClient(p)
     PROVE  OverrideParts'
  BY <1>11, GotoFrame DEF WriteClient
<1>12. ASSUME NEW p \in Proc, SaveClient(p)
     PROVE  OverrideParts'
  BY <1>12, GotoFrame DEF SaveClient
<1>13. ASSUME NEW p \in Proc, NoStoredToken(p)
     PROVE  OverrideParts'
  BY <1>13, GotoFrame DEF NoStoredToken
<1>14. ASSUME NEW p \in Proc, StoredToken(p)
     PROVE  OverrideParts'
  BY <1>14, GotoFrame DEF StoredToken
<1>15. ASSUME NEW p \in Proc, StaleRecord(p)
     PROVE  OverrideParts'
  <2>1. Goto(p, "reauth") /\ run[p].pc = "judge" /\ UNCHANGED <<stores, envVars>>
    BY <1>15 DEF StaleRecord
  <2>. QED
    BY <2>1, GotoFrame
<1>16. ASSUME NEW p \in Proc, CurrentRecord(p)
     PROVE  OverrideParts'
  <2>1. Goto(p, "verify") /\ run[p].pc = "judge" /\ UNCHANGED <<stores, envVars>>
    BY <1>16 DEF CurrentRecord
  <2>. QED
    BY <2>1, GotoFrame
<1>17. ASSUME NEW p \in Proc, SkipVerify(p)
     PROVE  OverrideParts'
  BY <1>17, EndFrame DEF SkipVerify
<1>18. ASSUME NEW p \in Proc, Verify(p)
     PROVE  OverrideParts'
  BY <1>18, GotoFrame DEF Verify
<1>19. ASSUME NEW p \in Proc, VerifyAuthError(p)
     PROVE  OverrideParts'
  BY <1>19, GotoFrame DEF VerifyAuthError
<1>20. ASSUME NEW p \in Proc, VerifyFails(p)
     PROVE  OverrideParts'
  BY <1>20, EndFrame DEF VerifyFails
<1>21. ASSUME NEW p \in Proc, RecordIdentity(p)
     PROVE  OverrideParts'
  <2>1. Effective(p) = run[p].sel /\ run[p].sel \in Profile
    BY <1>00, <1>21 DEF RecordIdentity
  <2>2. /\ run[p].pc = "identity"
        /\ run[p].tok.for = run[p].sel
        /\ PutLoad(p, run[p].sel)
        /\ UNCHANGED <<keyring, identity>>
    BY <2>1, <1>21 DEF RecordIdentity
  <2>3. MapLoaded(p, run[p].sel)
    <3>1. TypeOK /\ KnowsTarget /\ run[p].pc \in {"identity", "row"}
      BY <2>2
    <3>. HIDE DEF OverrideInv, TypeOK, KnowsTarget, AnnouncesOverride, HoldsOwnToken,
             TokenOnTarget, IdentityOnTarget
    <3>. QED
      BY <3>1, <2>1, <2>2, PutFrame
  <2>4. \A q \in Profile : run'[p].map[q] \in {None, q}
    BY <2>1, <2>2, <2>3 DEF MapLoaded
  <2>5. AnnouncesOverride'
    BY <2>2, <2>3 DEF MapLoaded
  <2>6. HoldsOwnToken'
    <3>1. HoldsOwnToken
      OBVIOUS
    <3>. HIDE DEF OverrideInv, TypeOK, KnowsTarget, AnnouncesOverride, HoldsOwnToken,
             TokenOnTarget, IdentityOnTarget
    <3>. QED
      BY <3>1, <2>1, <2>2, <2>3, <2>4, PutHoldsOwn
  <2>. QED
    BY <2>5, <2>6, <2>2
<1>22. ASSUME NEW p \in Proc, SaveIdentity(p)
     PROVE  OverrideParts'
  BY <1>22, RecordedFrame DEF SaveIdentity
<1>23. ASSUME NEW p \in Proc, PeopleAccepts(p)
     PROVE  OverrideParts'
  BY <1>23, EndFrame DEF PeopleAccepts
<1>24. ASSUME NEW p \in Proc, PeopleScopeError(p)
     PROVE  OverrideParts'
  BY <1>24, GotoFrame DEF PeopleScopeError
<1>25. ASSUME NEW p \in Proc, ConfirmReauth(p)
     PROVE  OverrideParts'
  BY <1>25, GotoFrame DEF ConfirmReauth
<1>26. ASSUME NEW p \in Proc, DeclineReauth(p)
     PROVE  OverrideParts'
  BY <1>26, EndFrame DEF DeclineReauth
<1>27. ASSUME NEW p \in Proc, Consent(p)
     PROVE  OverrideParts'
  BY <1>27 DEF Consent
<1>28. ASSUME NEW p \in Proc, NoConsent(p)
     PROVE  OverrideParts'
  BY <1>28, EndFrame DEF NoConsent
<1>29. ASSUME NEW p \in Proc, StoreToken(p)
     PROVE  OverrideParts'
  BY <1>00, <1>29 DEF StoreToken
<1>30. ASSUME NEW p \in Proc, RecordScopes(p)
     PROVE  OverrideParts'
  BY <1>30 DEF RecordScopes
<1>31. ASSUME NEW p \in Proc, SaveRecord(p)
     PROVE  OverrideParts'
  BY <1>31, GotoFrame DEF SaveRecord
<1>32. ASSUME NEW p \in Proc, SaveRecordFails(p)
     PROVE  OverrideParts'
  BY <1>32, GotoFrame DEF SaveRecordFails
<1>33. ASSUME NEW p \in Proc, UseLoad(p)
     PROVE  OverrideParts'
  BY <1>33 DEF UseLoad
<1>34. ASSUME NEW p \in Proc, UseActive(p)
     PROVE  OverrideParts'
  BY <1>34, EndFrame DEF UseActive
<1>35. ASSUME NEW p \in Proc, UseSave(p)
     PROVE  OverrideParts'
  BY <1>35, EndFrame DEF UseSave
<1>36. ASSUME NEW p \in Proc, SaveRefused(p)
     PROVE  OverrideParts'
  BY <1>36, EndFrame DEF SaveRefused
<1>37. ASSUME NEW p \in Proc, NEW a \in App, NEW v \in Version,
             SetCredential(p, a, v)
     PROVE  OverrideParts'
  <2>1. keyring' = [keyring EXCEPT ![run[p].sel] =
                        [for |-> run[p].sel, app |-> a, scopes |-> v]]
    BY <1>00, <1>37 DEF SetCredential
  <2>2. TokenOnTarget'
    BY <2>1
  <2>. QED
    BY <2>2, <1>37, EndFrame DEF SetCredential
<1>38. ASSUME NEW p \in Proc, OpenClient(p)
     PROVE  OverrideParts'
  <2>1. OverrideInv
    OBVIOUS
  <2>. HIDE DEF OverrideInv, OverrideParts, TypeOK, KnowsTarget, AnnouncesOverride,
           HoldsOwnToken, TokenOnTarget, IdentityOnTarget
  <2>. QED
    BY <2>1, <1>38, OverrideOpens
<1>39. ASSUME NEW p \in Proc, OpenFails(p)
     PROVE  OverrideParts'
  BY <1>39, EndFrame DEF OpenFails
<1>40. ASSUME NEW p \in Proc, Refresh(p)
     PROVE  OverrideParts'
  BY <1>40 DEF Refresh
<1>41. ASSUME NEW p \in Proc, CommandEnds(p)
     PROVE  OverrideParts'
  BY <1>41, EndFrame DEF CommandEnds
<1>42. ASSUME NEW p \in Proc, ClearToken(p)
     PROVE  OverrideParts'
  <2>1. CASE run[p].op = "clear-all"
    BY <2>1, <1>42, GotoFrame DEF ClearToken
  <2>2. CASE run[p].op # "clear-all"
    BY <2>2, <1>42, EndFrame DEF ClearToken
  <2>. QED
    BY <2>1, <2>2
<1>43. ASSUME NEW p \in Proc, ClearConfig(p)
     PROVE  OverrideParts'
  BY <1>43, GotoFrame DEF ClearConfig
<1>44. ASSUME NEW p \in Proc, Stop(p)
     PROVE  OverrideParts'
  BY <1>44, EndFrame DEF Stop
<1>45. ASSUME NEW p \in Proc, SaveIdentityFails(p)
     PROVE  OverrideParts'
  BY <1>45, RecordedFrame DEF SaveIdentityFails
<1>46. ASSUME NEW p \in Proc, NEW q \in Profile, CheckRow(p, q)
     PROVE  OverrideParts'
  <2>1. OverrideInv
    OBVIOUS
  <2>. HIDE DEF OverrideInv, OverrideParts, TypeOK, KnowsTarget, AnnouncesOverride,
           HoldsOwnToken, TokenOnTarget, IdentityOnTarget
  <2>. QED
    BY <2>1, <1>46, OverrideOpens
<1>47. ASSUME NEW p \in Proc, RecordRow(p)
     PROVE  OverrideParts'
  <2>1. /\ run[p].pc = "row"
        /\ run[p].tok.for = run[p].api
        /\ run[p].api \in Profile
        /\ PutLoad(p, run[p].api)
        /\ UNCHANGED <<keyring, identity>>
    BY <1>47 DEF RecordRow
  <2>2. MapLoaded(p, run[p].api)
    <3>1. TypeOK /\ KnowsTarget /\ run[p].pc \in {"identity", "row"}
      BY <2>1
    <3>. HIDE DEF OverrideInv, TypeOK, KnowsTarget, AnnouncesOverride, HoldsOwnToken,
             TokenOnTarget, IdentityOnTarget
    <3>. QED
      BY <3>1, <2>1, PutFrame
  <2>3. \A q \in Profile : run'[p].map[q] \in {None, q}
    BY <2>1, <2>2 DEF MapLoaded
  <2>4. AnnouncesOverride'
    BY <2>1, <2>2 DEF MapLoaded
  <2>5. HoldsOwnToken'
    <3>1. HoldsOwnToken
      OBVIOUS
    <3>. HIDE DEF OverrideInv, TypeOK, KnowsTarget, AnnouncesOverride, HoldsOwnToken,
             TokenOnTarget, IdentityOnTarget
    <3>. QED
      BY <3>1, <2>1, <2>2, <2>3, PutHoldsOwn
  <2>. QED
    BY <2>4, <2>5, <2>1
<1>48. ASSUME NEW p \in Proc, RefuseTorn(p)
     PROVE  OverrideParts'
  BY <1>48, EndFrame DEF RefuseTorn
<1>49. ASSUME NEW p \in Proc, TruncateClient(p)
     PROVE  OverrideParts'
  BY <1>49, GotoFrame DEF TruncateClient
<1>50. ASSUME NEW p \in Proc, OpenVerifier(p)
     PROVE  OverrideParts'
  <2>1. OverrideInv
    OBVIOUS
  <2>. HIDE DEF OverrideInv, OverrideParts, TypeOK, KnowsTarget, AnnouncesOverride,
           HoldsOwnToken, TokenOnTarget, IdentityOnTarget
  <2>. QED
    BY <2>1, <1>50, OverrideOpens
<1>51. ASSUME NEW p \in Proc, ClearCache(p)
     PROVE  OverrideParts'
  BY <1>51, EndFrame DEF ClearCache
<1>. HIDE DEF TypeOK, KnowsTarget, AnnouncesOverride, HoldsOwnToken,
         TokenOnTarget, IdentityOnTarget, OverrideInv
<1>. QED
  BY <1>0, <1>1, <1>2, <1>3, <1>4, <1>5, <1>6, <1>7, <1>8, <1>9, <1>10, <1>11,
     <1>12, <1>13, <1>14, <1>15, <1>16, <1>17, <1>18, <1>19, <1>20, <1>21,
     <1>22, <1>23, <1>24, <1>25, <1>26, <1>27, <1>28, <1>29, <1>30, <1>31,
     <1>32, <1>33, <1>34, <1>35, <1>36, <1>37, <1>38, <1>39, <1>40, <1>41,
     <1>42, <1>43, <1>44, <1>45, <1>46, <1>47, <1>48, <1>49, <1>50, <1>51
     DEF Next, InitStep, UseStep, OtherStep, vars

(* Without top-level fields a load and a save change nothing.              *)
LEMMA ApartOps ==
    ASSUME NEW c \in Config, Apart(c)
    PROVE  Loaded(c) = c /\ Saved(c) = c
<1>1. /\ Fill(c.own[c.active], c.top) = c.own[c.active]
      /\ c.top = NoneOwned
  BY AccountsAssumption DEF Apart, Fill, NoneOwned, Config, Owned
<1>. QED
  BY <1>1 DEF Loaded, Saved, Config

(* Giving a profile a client file of its own keeps the profiles apart.     *)
LEMMA ApartSet ==
    ASSUME NEW c \in Config, Apart(c), NEW q \in Profile,
           NEW f \in {q, origin[q]}
    PROVE  Apart([c EXCEPT !.own[q].client = f])
BY DEF Apart, Config, Owned

(* What ApartInv adds to the types.                                        *)
ApartParts ==
    /\ Apart(file)
    /\ \A p \in Proc : Apart(run[p].cfg)
    /\ AimsAtOwnFile

(* An invocation that ends, having saved at most its own configuration.    *)
LEMMA EndApart ==
    ASSUME ApartInv, NEW p \in Proc, NEW l \in Ended, End(p, l),
           file' \in {file, run[p].cfg, DefaultConfig}, UNCHANGED origin
    PROVE  ApartParts'
<1>. USE AccountsAssumption DEF ApartInv
<1>1. Apart(DefaultConfig)
  BY DEF Apart, DefaultConfig, NoneOwned
<1>2. Apart(file)' /\ \A q \in Proc : Apart(run[q].cfg)'
  BY <1>1, EndFrame DEF Apart
<1>3. AimsAtOwnFile'
  BY EndFrame DEF AimsAtOwnFile, Initing, Others, Aimed, WithApi, WithToken, Saving, Running,
         Ended
<1>. QED
  BY <1>2, <1>3 DEF ApartParts

(* An invocation that goes on with the target, path and configuration that *)
(* it had, having saved at most that configuration.                        *)
AimedInit == Initing \ {"path"}

LEMMA KeepApart ==
    ASSUME ApartInv, NEW p \in Proc, run' \in [Proc -> Run],
           run'[p].tgt = run[p].tgt, run'[p].path = run[p].path,
           run'[p].cfg = run[p].cfg,
           run'[p].pc \in AimedInit => run[p].pc \in AimedInit,
           \A q \in Proc \ {p} : run'[q] = run[q],
           file' \in {file, run[p].cfg}, UNCHANGED origin
    PROVE  ApartParts'
<1>. USE DEF ApartInv
<1>1. Apart(file)' /\ \A q \in Proc : Apart(run[q].cfg)'
  BY DEF Apart
<1>2. AimsAtOwnFile'
  BY DEF AimsAtOwnFile, AimedInit
<1>. QED
  BY <1>1, <1>2 DEF ApartParts

LEMMA GotoApart ==
    ASSUME ApartInv, NEW p \in Proc, NEW l \in Ended \cup Running, Goto(p, l),
           l \in AimedInit => run[p].pc \in AimedInit,
           file' \in {file, run[p].cfg}, UNCHANGED origin
    PROVE  ApartParts'
<1>1. TypeOK
  BY DEF ApartInv
<1>2. /\ run' \in [Proc -> Run]
      /\ run'[p].pc = l
      /\ run'[p].tgt = run[p].tgt /\ run'[p].path = run[p].path
      /\ run'[p].cfg = run[p].cfg
      /\ \A q \in Proc \ {p} : run'[q] = run[q]
  BY <1>1, GotoFrame
<1>. QED
  BY <1>2, KeepApart

LEMMA PutApart ==
    ASSUME ApartInv, NEW p \in Proc, NEW q \in Profile, PutLoad(p, q),
           run[p].pc \in {"identity", "row"},
           UNCHANGED <<file, origin>>
    PROVE  ApartParts'
<1>1. TypeOK /\ KnowsTarget
  BY DEF ApartInv
<1>0. MapLoaded(p, q)
  BY <1>1, PutFrame
<1>2. run'[p].pc \in AimedInit => run[p].pc \in AimedInit
  BY <1>0 DEF MapLoaded, AimedInit, Initing, Saving
<1>. QED
  BY <1>0, <1>2, KeepApart DEF MapLoaded

LEMMA RecordedApart ==
    ASSUME ApartInv, NEW p \in Proc, Recorded(p), UNCHANGED <<file, origin>>
    PROVE  ApartParts'
<1>1. TypeOK
  BY DEF ApartInv
<1>2. CASE End(p, "done")
  BY <1>2, EndApart DEF Ended
<1>3. CASE ~End(p, "done")
  <2>1. /\ run' \in [Proc -> Run]
        /\ run'[p].tgt = run[p].tgt /\ run'[p].path = run[p].path
        /\ run'[p].cfg = run[p].cfg
        /\ run'[p].pc \in {"rows", "people"}
        /\ run'[p].pc = "people" => run[p].pc = "identity_save"
        /\ \A q \in Proc \ {p} : run'[q] = run[q]
    <3>. DEFINE l == IF run[p].pc = "row_save" THEN "rows" ELSE "people"
    <3>1. run' = [run EXCEPT ![p].map = None, ![p].pc = l]
      BY <1>1, <1>3 DEF Recorded, TypeOK, Run
    <3>2. l \in Running /\ l \in {"rows", "people"}
      BY DEF Running, Initing, Others
    <3>3. l = "people" => run[p].pc = "identity_save"
      BY <1>3 DEF Recorded
    <3>. DEFINE c == [run[p] EXCEPT !.map = None, !.pc = l]
    <3>. HIDE DEF l
    <3>4. c \in Run
      BY <1>1, <3>2 DEF TypeOK, Run
    <3>5. /\ c.tgt = run[p].tgt /\ c.path = run[p].path
          /\ c.cfg = run[p].cfg /\ c.pc = l
      BY <1>1 DEF TypeOK, Run
    <3>6. run' = [run EXCEPT ![p] = c]
      BY <3>1
    <3>. HIDE DEF c
    <3>. QED
      BY <1>1, <3>2, <3>3, <3>4, <3>5, <3>6 DEF TypeOK
  <2>2. run'[p].pc \in AimedInit => run[p].pc \in AimedInit
    BY <2>1 DEF AimedInit, Initing
  <2>. QED
    BY <2>1, <2>2, KeepApart
<1>. QED
  BY <1>2, <1>3 DEF Recorded

(* An API client that opens.                                               *)
LEMMA OpenApart ==
    ASSUME ApartInv, NEW p \in Proc,
           OpenClient(p) \/ OpenVerifier(p) \/ \E q \in Profile : CheckRow(p, q)
    PROVE  ApartParts'
<1>0. TypeOK /\ AimsAtOwnFile /\ Apart(file) /\ \A r \in Proc : Apart(run[r].cfg)
  BY DEF ApartInv
<1>1. UNCHANGED <<file, origin>>
  BY DEF OpenClient, OpenVerifier, CheckRow, stores, envVars, history
<1>2. PICK q, l : /\ Opened(p, q, l) /\ l \in WithApi
                  /\ l \in {"verifying", "asking"} => run[p].pc \in {"verify", "people"}
  BY <1>0, OpenSteps DEF WithApi
<1>3. /\ run'[p].pc = l
      /\ \A r \in Proc :
            /\ run'[r].cfg = run[r].cfg
            /\ run'[r].tgt = run[r].tgt /\ run'[r].path = run[r].path
            /\ r # p => run'[r] = run[r]
  BY <1>2 DEF Opened
<1>4. run'[p].pc \in Initing \ {"path"} => run[p].pc \in Initing \ {"path"}
  BY <1>2, <1>3 DEF WithApi, Initing
<1>5. AimsAtOwnFile'
  BY <1>0, <1>1, <1>3, <1>4 DEF AimsAtOwnFile
<1>. QED
  BY <1>0, <1>1, <1>3, <1>5 DEF ApartParts, Apart

(* Every step keeps the profiles' clients apart, in config.yml and in every *)
(* configuration in memory that may still be saved.                        *)
LEMMA ApartStep ==
    ASSUME ApartInv, [Next]_vars
    PROVE  ApartParts'
<1>. USE AccountsAssumption
     DEF ApartInv, ApartParts, Apart, TypeOK, KnowsTarget, AimsAtOwnFile,
         stores, envVars, history, Initing, Others, Aimed, WithApi, WithToken, Saving, Running,
         Ended
<1>01. Apart(DefaultConfig)
  BY DEF DefaultConfig, NoneOwned
<1>02. /\ Loaded(file) = file
       /\ \A p \in Proc : Saved(run[p].cfg) = run[p].cfg
  BY ApartOps DEF Run
<1>03. \A q \in Profile : \A f \in {q, origin[q]} :
          Apart([file EXCEPT !.own[q].client = f])
  BY ApartSet
<1>0. CASE UNCHANGED vars
  BY <1>0 DEF vars
<1>1. ASSUME NEW p \in Proc, NEW o \in Ops, NEW s \in Select,
             NEW q \in ArgOf(o), NEW c \in NewOf(o), Start(p, o, s, q, c)
     PROVE  ApartParts'
  <2>. DEFINE r == [IdleRun EXCEPT !.pc = FirstStep(o), !.op = o, !.sel = s,
                                   !.tgt = q, !.new = c]
  <2>1. r.pc = FirstStep(o) /\ r.cfg = DefaultConfig
    BY DEF IdleRun
  <2>2. run' = [run EXCEPT ![p] = r]
    BY <1>1 DEF Start
  <2>3. FirstStep(o) \in {"describe", "load", "open", "rows", "clear"}
    BY DEF FirstStep, Op
  <2>. HIDE DEF r
  <2>. QED
    BY <1>01, <2>1, <2>2, <2>3, <1>1 DEF Start
<1>2. ASSUME Upgrade
     PROVE  ApartParts'
  BY <1>2 DEF Upgrade
<1>3. ASSUME NEW p \in Proc, Describe(p)
     PROVE  ApartParts'
  BY <1>3 DEF Describe
<1>4. ASSUME NEW p \in Proc, DescribeBlind(p)
     PROVE  ApartParts'
  BY <1>4 DEF DescribeBlind
<1>5. ASSUME NEW p \in Proc, ResolvePath(p)
     PROVE  ApartParts'
  <2>. DEFINE f == PathFor(file, run[p].tgt, run[p].tgt)
  <2>1. f \in {run[p].tgt, origin[run[p].tgt]}
    BY <1>5 DEF ResolvePath, PathFor
  <2>2. run' = [run EXCEPT ![p].path = f, ![p].pc = "creds"]
    BY <1>02, <1>5 DEF ResolvePath
  <2>. HIDE DEF f
  <2>. QED
    BY <2>1, <2>2, <1>5 DEF ResolvePath
<1>6. ASSUME NEW p \in Proc, KeepClient(p)
     PROVE  ApartParts'
  BY <1>6, GotoApart DEF AimedInit, KeepClient
<1>7. ASSUME NEW p \in Proc, AdoptClient(p)
     PROVE  ApartParts'
  <2>. DEFINE d == [file EXCEPT !.own[run[p].tgt].client = run[p].path]
  <2>1. Apart(d)
    BY <1>03, <1>7 DEF AdoptClient
  <2>2. run' = [run EXCEPT ![p].cfg = d, ![p].pc = "adopt"]
    BY <1>02, <1>7 DEF AdoptClient
  <2>. HIDE DEF d
  <2>. QED
    BY <2>1, <2>2, <1>7 DEF AdoptClient
<1>8. ASSUME NEW p \in Proc, NEW c \in App, ImportClient(p, c)
     PROVE  ApartParts'
  <2>. DEFINE d == [file EXCEPT !.own[run[p].tgt].client =
                       PathFor(file, run[p].tgt, run[p].path)]
  <2>1. PathFor(file, run[p].tgt, run[p].path)
           \in {run[p].tgt, origin[run[p].tgt]}
    BY <1>8 DEF ImportClient, PathFor
  <2>2. Apart(d)
    BY <1>03, <2>1, <1>8 DEF ImportClient
  <2>3. run' = [run EXCEPT ![p].cfg = d, ![p].new = c, ![p].pc = "check"]
    BY <1>02, <1>8 DEF ImportClient
  <2>4. run[p].pc = "creds" /\ UNCHANGED <<stores, envVars>>
    BY <1>8 DEF ImportClient
  <2>. HIDE DEF d
  <2>. QED
    BY <2>2, <2>3, <2>4
<1>9. ASSUME NEW p \in Proc, RefuseClient(p)
     PROVE  ApartParts'
  BY <1>9, EndApart DEF RefuseClient
<1>10. ASSUME NEW p \in Proc, AcceptClient(p)
     PROVE  ApartParts'
  BY <1>10, GotoApart DEF AimedInit, AcceptClient
<1>11. ASSUME NEW p \in Proc, WriteClient(p)
     PROVE  ApartParts'
  BY <1>11, GotoApart DEF AimedInit, WriteClient
<1>12. ASSUME NEW p \in Proc, SaveClient(p)
     PROVE  ApartParts'
  BY <1>02, <1>12, GotoApart DEF AimedInit, SaveClient
<1>13. ASSUME NEW p \in Proc, NoStoredToken(p)
     PROVE  ApartParts'
  BY <1>13, GotoApart DEF AimedInit, NoStoredToken
<1>14. ASSUME NEW p \in Proc, StoredToken(p)
     PROVE  ApartParts'
  BY <1>14, GotoApart DEF AimedInit, StoredToken
<1>15. ASSUME NEW p \in Proc, StaleRecord(p)
     PROVE  ApartParts'
  BY <1>15, GotoApart DEF AimedInit, StaleRecord
<1>16. ASSUME NEW p \in Proc, CurrentRecord(p)
     PROVE  ApartParts'
  BY <1>16, GotoApart DEF AimedInit, CurrentRecord
<1>17. ASSUME NEW p \in Proc, SkipVerify(p)
     PROVE  ApartParts'
  BY <1>17, EndApart DEF SkipVerify
<1>18. ASSUME NEW p \in Proc, Verify(p)
     PROVE  ApartParts'
  BY <1>18, GotoApart DEF AimedInit, Verify
<1>19. ASSUME NEW p \in Proc, VerifyAuthError(p)
     PROVE  ApartParts'
  BY <1>19, GotoApart DEF AimedInit, VerifyAuthError
<1>20. ASSUME NEW p \in Proc, VerifyFails(p)
     PROVE  ApartParts'
  BY <1>20, EndApart DEF VerifyFails
<1>21. ASSUME NEW p \in Proc, RecordIdentity(p)
     PROVE  ApartParts'
  <2>1. Effective(p) \in Profile
    BY DEF Effective, Run, Config
  <2>2. run[p].pc \in AimedInit /\ UNCHANGED <<file, origin>>
    BY <1>21 DEF RecordIdentity, AimedInit
  <2>. QED
    BY <2>1, <2>2, <1>21, PutApart DEF RecordIdentity
<1>22. ASSUME NEW p \in Proc, SaveIdentity(p)
     PROVE  ApartParts'
  <2>1. UNCHANGED <<file, origin>>
    BY <1>22 DEF SaveIdentity
  <2>. QED
    BY <2>1, <1>22, RecordedApart DEF SaveIdentity
<1>23. ASSUME NEW p \in Proc, PeopleAccepts(p)
     PROVE  ApartParts'
  BY <1>23, EndApart DEF PeopleAccepts
<1>24. ASSUME NEW p \in Proc, PeopleScopeError(p)
     PROVE  ApartParts'
  BY <1>24, GotoApart DEF AimedInit, PeopleScopeError
<1>25. ASSUME NEW p \in Proc, ConfirmReauth(p)
     PROVE  ApartParts'
  BY <1>25, GotoApart DEF AimedInit, ConfirmReauth
<1>26. ASSUME NEW p \in Proc, DeclineReauth(p)
     PROVE  ApartParts'
  BY <1>26, EndApart DEF DeclineReauth
<1>27. ASSUME NEW p \in Proc, Consent(p)
     PROVE  ApartParts'
  <2>. DEFINE t == [for |-> run[p].tgt, app |-> ClientOf(run[p].tgt),
                    scopes |-> version]
  <2>1. run' = [run EXCEPT ![p].tok = t, ![p].pc = "store"]
    BY <1>27 DEF Consent
  <2>. HIDE DEF t
  <2>. QED
    BY <2>1, <1>27 DEF Consent
<1>28. ASSUME NEW p \in Proc, NoConsent(p)
     PROVE  ApartParts'
  BY <1>28, EndApart DEF NoConsent
<1>29. ASSUME NEW p \in Proc, StoreToken(p)
     PROVE  ApartParts'
  BY <1>29 DEF StoreToken
<1>30. ASSUME NEW p \in Proc, RecordScopes(p)
     PROVE  ApartParts'
  <2>. DEFINE f == PathFor(file, run[p].tgt, run[p].path)
              d == [file EXCEPT !.own[run[p].tgt] =
                       [client |-> f, scopes |-> version]]
  <2>1. f \in {run[p].tgt, origin[run[p].tgt]}
    BY <1>30 DEF RecordScopes, PathFor
  <2>. HIDE DEF f
  <2>2. Apart(d)
    BY <2>1, <1>30 DEF RecordScopes, Config
  <2>. USE DEF f
  <2>3. run' = [run EXCEPT ![p].cfg = d, ![p].pc = "record_save"]
    BY <1>02, <1>30 DEF RecordScopes
  <2>. HIDE DEF d
  <2>. QED
    BY <2>2, <2>3, <1>30 DEF RecordScopes
<1>31. ASSUME NEW p \in Proc, SaveRecord(p)
     PROVE  ApartParts'
  BY <1>02, <1>31, GotoApart DEF AimedInit, SaveRecord
<1>32. ASSUME NEW p \in Proc, SaveRecordFails(p)
     PROVE  ApartParts'
  BY <1>32, GotoApart DEF AimedInit, SaveRecordFails
<1>33. ASSUME NEW p \in Proc, UseLoad(p)
     PROVE  ApartParts'
  <2>. DEFINE d == [file EXCEPT !.active = run[p].tgt]
  <2>1. Apart(d)
    BY DEF Config
  <2>2. run' = [run EXCEPT ![p].cfg = d, ![p].pc = "use_save"]
    BY <1>02, <1>33 DEF UseLoad
  <2>. HIDE DEF d
  <2>. QED
    BY <2>1, <2>2, <1>33 DEF UseLoad
<1>34. ASSUME NEW p \in Proc, UseActive(p)
     PROVE  ApartParts'
  BY <1>34, EndApart DEF UseActive
<1>35. ASSUME NEW p \in Proc, UseSave(p)
     PROVE  ApartParts'
  <2>1. file' = run[p].cfg
    BY <1>02, <1>35 DEF UseSave
  <2>. QED
    BY <2>1, <1>35, EndApart DEF UseSave
<1>36. ASSUME NEW p \in Proc, SaveRefused(p)
     PROVE  ApartParts'
  BY <1>36, EndApart DEF SaveRefused
<1>37. ASSUME NEW p \in Proc, NEW a \in App, NEW v \in Version,
             SetCredential(p, a, v)
     PROVE  ApartParts'
  BY <1>37, EndApart DEF SetCredential
<1>38. ASSUME NEW p \in Proc, OpenClient(p)
     PROVE  ApartParts'
  <2>1. ApartInv
    OBVIOUS
  <2>. HIDE DEF ApartInv, ApartParts, TypeOK, KnowsTarget, Apart, AimsAtOwnFile
  <2>. QED
    BY <2>1, <1>38, OpenApart
<1>39. ASSUME NEW p \in Proc, OpenFails(p)
     PROVE  ApartParts'
  BY <1>39, EndApart DEF OpenFails
<1>40. ASSUME NEW p \in Proc, Refresh(p)
     PROVE  ApartParts'
  BY <1>40 DEF Refresh
<1>41. ASSUME NEW p \in Proc, CommandEnds(p)
     PROVE  ApartParts'
  BY <1>41, EndApart DEF CommandEnds
<1>42. ASSUME NEW p \in Proc, ClearToken(p)
     PROVE  ApartParts'
  <2>1. CASE run[p].op = "clear-all"
    BY <2>1, <1>42, GotoApart DEF AimedInit, ClearToken
  <2>2. CASE run[p].op # "clear-all"
    BY <2>2, <1>42, EndApart DEF ClearToken
  <2>. QED
    BY <2>1, <2>2
<1>43. ASSUME NEW p \in Proc, ClearConfig(p)
     PROVE  ApartParts'
  BY <1>01, <1>43, GotoFrame DEF ClearConfig
<1>44. ASSUME NEW p \in Proc, Stop(p)
     PROVE  ApartParts'
  BY <1>44, EndApart DEF Stop
<1>45. ASSUME NEW p \in Proc, SaveIdentityFails(p)
     PROVE  ApartParts'
  <2>1. UNCHANGED <<file, origin>>
    BY <1>45 DEF SaveIdentityFails
  <2>. QED
    BY <2>1, <1>45, RecordedApart DEF SaveIdentityFails
<1>46. ASSUME NEW p \in Proc, NEW q \in Profile, CheckRow(p, q)
     PROVE  ApartParts'
  <2>1. ApartInv
    OBVIOUS
  <2>. HIDE DEF ApartInv, ApartParts, TypeOK, KnowsTarget, Apart, AimsAtOwnFile
  <2>. QED
    BY <2>1, <1>46, OpenApart
<1>47. ASSUME NEW p \in Proc, RecordRow(p)
     PROVE  ApartParts'
  <2>1. run[p].api \in Profile /\ UNCHANGED <<file, origin>>
    BY <1>47 DEF RecordRow
  <2>. QED
    BY <2>1, <1>47, PutApart DEF RecordRow
<1>48. ASSUME NEW p \in Proc, RefuseTorn(p)
     PROVE  ApartParts'
  BY <1>48, EndApart DEF RefuseTorn
<1>49. ASSUME NEW p \in Proc, TruncateClient(p)
     PROVE  ApartParts'
  BY <1>49, GotoApart DEF AimedInit, TruncateClient
<1>50. ASSUME NEW p \in Proc, OpenVerifier(p)
     PROVE  ApartParts'
  <2>1. ApartInv
    OBVIOUS
  <2>. HIDE DEF ApartInv, ApartParts, TypeOK, KnowsTarget, Apart, AimsAtOwnFile
  <2>. QED
    BY <2>1, <1>50, OpenApart
<1>51. ASSUME NEW p \in Proc, ClearCache(p)
     PROVE  ApartParts'
  BY <1>51, EndApart DEF ClearCache
<1>. HIDE DEF TypeOK, KnowsTarget, Apart, AimsAtOwnFile, ApartInv, ApartParts
<1>. QED
  BY <1>0, <1>1, <1>2, <1>3, <1>4, <1>5, <1>6, <1>7, <1>8, <1>9, <1>10, <1>11,
     <1>12, <1>13, <1>14, <1>15, <1>16, <1>17, <1>18, <1>19, <1>20, <1>21,
     <1>22, <1>23, <1>24, <1>25, <1>26, <1>27, <1>28, <1>29, <1>30, <1>31,
     <1>32, <1>33, <1>34, <1>35, <1>36, <1>37, <1>38, <1>39, <1>40, <1>41,
     <1>42, <1>43, <1>44, <1>45, <1>46, <1>47, <1>48, <1>49, <1>50, <1>51
     DEF Next, InitStep, UseStep, OtherStep, vars

(* The initial states have the right types.                                *)
LEMMA InitType == Init => TypeOK /\ KnowsTarget
<1>. SUFFICES ASSUME Init
              PROVE  TypeOK /\ KnowsTarget
  OBVIOUS
<1>1. file \in Config
  BY AccountsAssumption DEF Init
<1>2. origin \in [Profile -> Path \cup {None}]
  BY <1>1, ConfigType DEF Init, ClientFile
<1>3. run \in [Proc -> Run]
  BY IdleType DEF Init
<1>4. client \in [Path -> App \cup {None, Torn}] /\ version \in Version
  BY AccountsAssumption DEF Init, Version
<1>5. identity \in [Profile -> Profile \cup {None}]
  BY DEF Init
<1>6. starts \in 0..MaxStarts /\ faults \in 0..MaxFaults
  BY AccountsAssumption DEF Init
<1>7. KnowsTarget
  BY DEF Init, IdleRun, KnowsTarget, Initing, Others, Aimed, WithApi, WithToken, Saving, Running
<1>. QED
  BY <1>1, <1>2, <1>3, <1>4, <1>5, <1>6, <1>7 DEF TypeOK, Init

(* Machines without the older top-level fields start apart.                *)
LEMMA ApartStarts ==
    ASSUME Init, \A f \in InitFile : f.top = NoneOwned
    PROVE  ApartInv
<1>1. TypeOK /\ KnowsTarget
  BY InitType
<1>2. Loaded(file) = file
  <2>1. Fill(file.own[file.active], file.top) = file.own[file.active]
    BY <1>1, AccountsAssumption
       DEF Init, TypeOK, Fill, NoneOwned, Config, Owned
  <2>. QED
    BY <2>1, <1>1 DEF Loaded, TypeOK, Config
<1>3. Apart(file)
  BY <1>1, <1>2 DEF Init, ClientFile, Apart, TypeOK, Config
<1>4. \A p \in Proc : Apart(run[p].cfg)
  BY DEF Init, Apart, IdleRun, DefaultConfig, NoneOwned
<1>5. AimsAtOwnFile
  BY DEF Init, IdleRun, AimsAtOwnFile, Initing, Others, Aimed, Running
<1>. QED
  BY <1>1, <1>3, <1>4, <1>5 DEF ApartInv

(* Every variable keeps its type, whatever the invocations do and however  *)
(* many there are: init never goes on without a target or stores nothing.  *)
THEOREM TypeCorrect == Spec => []TypeOK
<1>1. Init => TypeOK /\ KnowsTarget
  BY InitType
<1>2. TypeOK /\ KnowsTarget /\ [Next]_vars => TypeOK' /\ KnowsTarget'
  BY TypeStep
<1>. QED
  BY <1>1, <1>2, PTL DEF Spec

(* With overrides and a keyring that opens, OverrideInv always holds.      *)
LEMMA OverrideInvHolds ==
    ASSUME Select \subseteq Profile, FlakyKeyring \cap Profile = {}
    PROVE  Spec => []OverrideInv
<1>1. Init => OverrideInv
  <2>. SUFFICES ASSUME Init
                PROVE  OverrideInv
    OBVIOUS
  <2>1. AnnouncesOverride /\ HoldsOwnToken
    BY DEF Init, IdleRun, AnnouncesOverride, HoldsOwnToken, Initing, Others, Aimed, WithApi,
           WithToken, Saving, Running
  <2>2. TokenOnTarget /\ IdentityOnTarget
    BY DEF Init, InitToken, TokenOnTarget, IdentityOnTarget
  <2>. QED
    BY <2>1, <2>2, InitType DEF OverrideInv
<1>2. OverrideInv /\ [Next]_vars => OverrideInv'
  <2>1. OverrideInv /\ [Next]_vars => TypeOK' /\ KnowsTarget'
    BY TypeStep DEF OverrideInv
  <2>2. OverrideInv /\ [Next]_vars => OverrideParts'
    BY OverrideStep
  <2>. QED
    BY <2>1, <2>2 DEF OverrideInv, OverrideParts
<1>. QED
  BY <1>1, <1>2, PTL DEF Spec

(* With a --profile or environment override on every invocation and a      *)
(* keyring that opens, init, set-credential and the refresh persister put  *)
(* no token under another profile, for any number of profiles and          *)
(* concurrent invocations, crashes and config saves included.              *)
THEOREM TokenOnTargetHolds ==
    ASSUME Select \subseteq Profile, FlakyKeyring \cap Profile = {}
    PROVE  Spec => []TokenOnTarget
<1>1. OverrideInv => TokenOnTarget
  BY DEF OverrideInv
<1>. QED
  BY <1>1, OverrideInvHolds, PTL

(* Nor does any of them, or profiles list --check, record one profile's    *)
(* email for another, although each saves the whole identity cache that it *)
(* loaded before.                                                          *)
THEOREM IdentityOnTargetHolds ==
    ASSUME Select \subseteq Profile, FlakyKeyring \cap Profile = {}
    PROVE  Spec => []IdentityOnTarget
<1>1. OverrideInv => IdentityOnTarget
  BY DEF OverrideInv
<1>. QED
  BY <1>1, OverrideInvHolds, PTL

(* On machines whose config.yml no longer has the older top-level fields,  *)
(* no profile ever gets the OAuth client of another, with or without       *)
(* overrides and whatever invocations, failed saves and crashes do.        *)
THEOREM OwnClientHolds ==
    ASSUME \A f \in InitFile : f.top = NoneOwned
    PROVE  Spec => []OwnClient
<1>1. Init => ApartInv
  BY ApartStarts
<1>2. ApartInv /\ [Next]_vars => ApartInv'
  <2>1. ApartInv /\ [Next]_vars => TypeOK' /\ KnowsTarget'
    BY TypeStep DEF ApartInv
  <2>2. ApartInv /\ [Next]_vars => ApartParts'
    BY ApartStep
  <2>. QED
    BY <2>1, <2>2 DEF ApartInv, ApartParts
<1>3. ApartInv => OwnClient
  BY ApartOps DEF ApartInv, OwnClient, ClientFile, Apart, TypeOK
<1>. QED
  BY <1>1, <1>2, <1>3, PTL DEF Spec
=============================================================================
