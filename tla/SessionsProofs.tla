---------------------------- MODULE SessionsProofs ----------------------------
(***************************************************************************)
(* Proofs about Sessions for any number of profiles, accounts and          *)
(* concurrent invocations.  ApartInv adds to AccountsApart what each       *)
(* invocation has in memory: the profile of its client and that of its     *)
(* cache once they are resolved, and a token of the former's account.      *)
(***************************************************************************)
EXTENDS Sessions, TLAPS

(* An invocation that may write knows both of its profiles, its token      *)
(* opens the account of the profile that its client was opened for, and    *)
(* with an override both profiles are the one it names.                    *)
HoldsOwnAccount ==
    \A p \in Proc :
        /\ run[p].pc = "idle" => run[p].ref = None /\ run[p].dir = None
        /\ run[p].pc \in {"read", "list", "save"} =>
              run[p].ref \in Profile /\ run[p].dir \in Profile
        /\ run[p].ref # None =>
              run[p].tok \in Account /\ Of[run[p].tok] = run[p].ref
        /\ run[p].sel # None =>
              {run[p].ref, run[p].dir} \subseteq {None, run[p].sel}

ApartInv == TypeOK /\ HoldsOwnAccount /\ AccountsApart

(* Where every command has an override, none has two profiles.             *)
Uncrossed ==
    /\ \A p \in Proc : run[p].pc # "idle" => run[p].sel # None
    /\ crossed = {}

(* An invocation that is over is in the state it had before it started.    *)
LEMMA IdleType == IdleRun \in Run
BY DEF IdleRun, Run

(* An invocation that starts, opens its client or opens its cache.         *)
LEMMA RunUpdates ==
    ASSUME NEW r \in Run, NEW l \in Running, NEW s \in Profile \cup {None},
           NEW q \in Profile
    PROVE  /\ [r EXCEPT !.pc = l, !.sel = s] \in Run
           /\ \A t \in Account : [r EXCEPT !.ref = q, !.tok = t, !.pc = l] \in Run
           /\ [r EXCEPT !.dir = q, !.pc = l] \in Run
BY DEF Run

(* The profile that a command resolves, for its client or for its cache.   *)
LEMMA EffectiveType ==
    ASSUME TypeOK, NEW s \in Select
    PROVE  Selected(s) \in Profile
BY SessionsAssumption DEF TypeOK, Selected

LEMMA EffectiveRun ==
    ASSUME TypeOK, NEW p \in Proc
    PROVE  Effective(p) \in Profile
BY DEF TypeOK, Effective, Selected, Run

(* Goto moves one invocation on and keeps what it has in memory.           *)
LEMMA GotoFrame ==
    ASSUME TypeOK, NEW p \in Proc, NEW l \in Running, Goto(p, l)
    PROVE  /\ run' \in [Proc -> Run]
           /\ run'[p].pc = l
           /\ \A q \in Proc :
                 /\ run'[q].sel = run[q].sel
                 /\ run'[q].ref = run[q].ref
                 /\ run'[q].tok = run[q].tok
                 /\ run'[q].dir = run[q].dir
                 /\ q # p => run'[q] = run[q]
BY DEF TypeOK, Goto, Run

(* End forgets it.                                                         *)
LEMMA EndFrame ==
    ASSUME TypeOK, NEW p \in Proc, End(p)
    PROVE  run' \in [Proc -> Run] /\ run'[p] = IdleRun
           /\ \A q \in Proc \ {p} : run'[q] = run[q]
BY IdleType DEF TypeOK, End

(* A step that keeps the stores, and the invocations but for one that ends *)
(* or moves on with what it has.                                           *)
LEMMA QuietStep ==
    ASSUME ApartInv, NEW p \in Proc, UNCHANGED <<stores, crossed>>,
           events' \in 0..MaxEvents,
           \/ End(p)
           \/ Goto(p, "list") /\ run[p].pc = "read"
           \/ Goto(p, "save") /\ run[p].pc = "list"
    PROVE  ApartInv'
<1>. USE SessionsAssumption DEF ApartInv
<1>1. TypeOK'
  BY GotoFrame, EndFrame DEF TypeOK, stores, Running
<1>2. AccountsApart'
  BY DEF AccountsApart, stores
<1>3. CASE End(p)
  <2>1. HoldsOwnAccount'
    BY <1>3, EndFrame DEF HoldsOwnAccount, IdleRun
  <2>. QED
    BY <1>1, <1>2, <2>1
<1>4. CASE ~End(p)
  <2>. DEFINE l == IF run[p].pc = "read" THEN "list" ELSE "save"
  <2>1. /\ Goto(p, l) /\ run[p].pc \in {"read", "list"}
        /\ l \in Running \ {"idle"}
    BY <1>4 DEF Running
  <2>. HIDE DEF l
  <2>2. HoldsOwnAccount'
    <3>1. run'[p].pc = l /\ run[p].pc \in {"read", "list"}
      BY <2>1, GotoFrame
    <3>. QED
      BY <2>1, <3>1, GotoFrame DEF HoldsOwnAccount
  <2>. QED
    BY <1>1, <1>2, <2>2
<1>. QED
  BY <1>3, <1>4

(* The stores are written with values of the right types, and an           *)
(* invocation has resolved what it goes on with.                           *)
LEMMA ApartStep ==
    ASSUME ApartInv, [Next]_vars
    PROVE  ApartInv'
<1>. USE SessionsAssumption DEF Event
<1>. TypeOK /\ HoldsOwnAccount /\ AccountsApart
  BY DEF ApartInv
<1>0. CASE UNCHANGED vars
  BY <1>0 DEF vars, stores, ApartInv, TypeOK, HoldsOwnAccount, AccountsApart
<1>1. ASSUME NEW p \in Proc, NEW s \in Select, NEW l \in Running,
             l \notin {"read", "list", "save"}, Begin(p, l, s),
             events' \in 0..MaxEvents
      PROVE  ApartInv'
  <2>1. /\ run[p].pc = "idle"
        /\ run' = [run EXCEPT ![p].pc = l, ![p].sel = s]
        /\ UNCHANGED <<stores, crossed>>
    BY <1>1 DEF Begin
  <2>2. TypeOK'
    <3>. DEFINE r == [run[p] EXCEPT !.pc = l, !.sel = s]
    <3>1. r \in Run
      <4>1. run[p] \in Run /\ s \in Profile \cup {None}
        BY DEF TypeOK
      <4>. QED
        BY <4>1 DEF Run
    <3>2. run' = [run EXCEPT ![p] = r]
      BY <2>1 DEF TypeOK, Run
    <3>3. UNCHANGED <<stores, crossed>> /\ events' \in 0..MaxEvents
      BY <2>1, <1>1
    <3>. HIDE DEF r
    <3>. QED
      BY <3>1, <3>2, <3>3 DEF TypeOK, stores
  <2>3. HoldsOwnAccount' /\ AccountsApart'
    BY <2>1, <1>1 DEF HoldsOwnAccount, AccountsApart, TypeOK, stores, Run
  <2>. QED
    BY <2>2, <2>3 DEF ApartInv
<1>2. ASSUME NEW p \in Proc, NEW s \in Select,
             StartDrives(p, s) \/ StartRefresh(p, s) \/ StartReset(p, s)
      PROVE  ApartInv'
  BY <1>1, <1>2 DEF StartDrives, StartRefresh, StartReset, Running, TypeOK
<1>3. ASSUME NEW p \in Proc, OpenClient(p)
      PROVE  ApartInv'
  <2>. DEFINE q == Effective(p)
              l == IF run[p].dir = None THEN "cache" ELSE "list"
  <2>1. /\ q \in Profile /\ keyring[q] \in Account /\ Of[keyring[q]] = q
        /\ run[p].sel # None => q = run[p].sel
    BY <1>3, EffectiveRun
       DEF OpenClient, TypeOK, AccountsApart, Effective, Selected
  <2>2. /\ run' = [run EXCEPT ![p].ref = q, ![p].tok = keyring[q],
                              ![p].pc = l]
        /\ UNCHANGED <<stores, events, crossed>>
    BY <1>3 DEF OpenClient
  <2>3. l \in Running /\ (l = "list" => run[p].dir \in Profile)
        /\ l \in {"cache", "list"}
    BY DEF Running, TypeOK, Run
  <2>. HIDE DEF q, l
  <2>4. TypeOK'
    <3>. DEFINE r == [run[p] EXCEPT !.ref = q, !.tok = keyring[q], !.pc = l]
    <3>1. r \in Run
      <4>1. run[p] \in Run
        BY DEF TypeOK
      <4>. QED
        BY <4>1, <2>1, <2>3, RunUpdates
    <3>2. run' = [run EXCEPT ![p] = r]
      BY <2>2 DEF TypeOK, Run
    <3>3. UNCHANGED <<stores, events, crossed>>
      BY <2>2
    <3>. HIDE DEF r
    <3>. QED
      BY <3>1, <3>2, <3>3 DEF TypeOK, stores
  <2>5. HoldsOwnAccount' /\ AccountsApart'
    BY <2>1, <2>2, <2>3 DEF HoldsOwnAccount, AccountsApart, TypeOK, stores, Run
  <2>. QED
    BY <2>4, <2>5 DEF ApartInv
<1>4. ASSUME NEW p \in Proc, NewCache(p)
      PROVE  ApartInv'
  <2>. DEFINE q == Effective(p)
              l == IF run[p].ref = None THEN "client" ELSE "read"
  <2>1. q \in Profile /\ (run[p].sel # None => q = run[p].sel)
    BY EffectiveRun DEF Effective, Selected
  <2>2. /\ run' = [run EXCEPT ![p].dir = q, ![p].pc = l]
        /\ UNCHANGED <<stores, events, crossed>>
    BY <1>4 DEF NewCache
  <2>3. l \in Running /\ (l = "read" => run[p].ref \in Profile)
        /\ l \in {"client", "read"}
    BY DEF Running, TypeOK, Run
  <2>. HIDE DEF q, l
  <2>4. TypeOK'
    <3>. DEFINE r == [run[p] EXCEPT !.dir = q, !.pc = l]
    <3>1. r \in Run
      <4>1. run[p] \in Run
        BY DEF TypeOK
      <4>. QED
        BY <4>1, <2>1, <2>3, RunUpdates
    <3>2. run' = [run EXCEPT ![p] = r]
      BY <2>2 DEF TypeOK, Run
    <3>3. UNCHANGED <<stores, events, crossed>>
      BY <2>2
    <3>. HIDE DEF r
    <3>. QED
      BY <3>1, <3>2, <3>3 DEF TypeOK, stores
  <2>5. HoldsOwnAccount' /\ AccountsApart'
    BY <2>1, <2>2, <2>3 DEF HoldsOwnAccount, AccountsApart, TypeOK, stores, Run
  <2>. QED
    BY <2>4, <2>5 DEF ApartInv
<1>5. ASSUME NEW p \in Proc, NoToken(p) \/ Hit(p) \/ Miss(p) \/ SkipCache(p)
                             \/ List(p) \/ Stop(p)
      PROVE  ApartInv'
  BY <1>5, QuietStep DEF ApartInv, NoToken, Hit, Miss, SkipCache, List, Stop,
     TypeOK
<1>6. ASSUME NEW p \in Proc, Save(p)
      PROVE  ApartInv'
  <2>. DEFINE q == run[p].dir
              d == [acct |-> run[p].tok, fresh |-> TRUE]
  <2>1. /\ q \in Profile /\ d \in Listing
        /\ d.acct = run[p].tok /\ Of[run[p].tok] = run[p].ref
        /\ run[p].sel # None => run[p].ref = q
    BY <1>6 DEF Save, HoldsOwnAccount, Listing
  <2>2. /\ drives' = [drives EXCEPT ![q] = d]
        /\ crossed' = IF q # run[p].ref /\ run[p].sel = None
                      THEN crossed \cup {q} ELSE crossed \ {q}
        /\ End(p)
        /\ UNCHANGED <<active, keyring, events>>
    BY <1>6 DEF Save
  <2>. HIDE DEF q, d
  <2>3. TypeOK'
    BY <2>1, <2>2, EndFrame DEF TypeOK
  <2>4. HoldsOwnAccount'
    BY <2>2, EndFrame DEF HoldsOwnAccount, IdleRun
  <2>5. AccountsApart'
    BY <2>1, <2>2 DEF AccountsApart, TypeOK
  <2>. QED
    BY <2>3, <2>4, <2>5 DEF ApartInv
<1>7. ASSUME NEW p \in Proc, RefreshToken(p)
      PROVE  ApartInv'
  <2>1. /\ run[p].ref \in Profile /\ run[p].tok \in Account
        /\ Of[run[p].tok] = run[p].ref
    BY <1>7 DEF RefreshToken, HoldsOwnAccount
  <2>2. TypeOK' /\ AccountsApart'
    BY <2>1, <1>7 DEF RefreshToken, TypeOK, AccountsApart
  <2>3. HoldsOwnAccount'
    BY <1>7 DEF RefreshToken, HoldsOwnAccount
  <2>. QED
    BY <2>2, <2>3 DEF ApartInv
<1>8. ASSUME NEW p \in Proc, ClearToken(p)
      PROVE  ApartInv'
  <2>1. TypeOK' /\ AccountsApart'
    BY <1>8, GotoFrame DEF ClearToken, TypeOK, AccountsApart, Running
  <2>2. HoldsOwnAccount'
    <3>1. Goto(p, "clear_config") /\ "clear_config" \in Running
      BY <1>8 DEF ClearToken, Running
    <3>. QED
      BY <3>1, GotoFrame DEF HoldsOwnAccount
  <2>. QED
    BY <2>1, <2>2 DEF ApartInv
<1>9. ASSUME NEW p \in Proc, ClearConfig(p)
      PROVE  ApartInv'
  <2>1. TypeOK' /\ AccountsApart'
    BY <1>9, GotoFrame DEF ClearConfig, TypeOK, AccountsApart, Running
  <2>2. HoldsOwnAccount'
    <3>1. Goto(p, "clear_cache") /\ "clear_cache" \in Running
      BY <1>9 DEF ClearConfig, Running
    <3>. QED
      BY <3>1, GotoFrame DEF HoldsOwnAccount
  <2>. QED
    BY <2>1, <2>2 DEF ApartInv
<1>10. ASSUME NEW p \in Proc, ClearCache(p)
      PROVE  ApartInv'
  <2>1. TypeOK' /\ AccountsApart'
    BY <1>10, EndFrame DEF ClearCache, TypeOK, AccountsApart
  <2>2. HoldsOwnAccount'
    BY <1>10, EndFrame DEF ClearCache, HoldsOwnAccount, IdleRun
  <2>. QED
    BY <2>1, <2>2 DEF ApartInv
<1>11. ASSUME NEW q \in Profile, Expire(q)
      PROVE  ApartInv'
  <2>. DEFINE d == [drives[q] EXCEPT !.fresh = FALSE]
  <2>1. drives[q] \in Listing
    BY <1>11 DEF Expire, Usable, TypeOK
  <2>2. d \in Listing /\ d.acct = drives[q].acct
    BY <2>1 DEF Listing
  <2>3. drives' = [drives EXCEPT ![q] = d]
    BY <1>11 DEF Expire
  <2>. HIDE DEF d
  <2>4. UNCHANGED <<active, keyring, run, events, crossed>>
    BY <1>11 DEF Expire
  <2>5. TypeOK' /\ AccountsApart'
    BY <2>1, <2>2, <2>3, <2>4 DEF TypeOK, AccountsApart
  <2>6. HoldsOwnAccount'
    BY <2>4 DEF HoldsOwnAccount
  <2>. QED
    BY <2>5, <2>6 DEF ApartInv
<1>12. ASSUME UserStep
      PROVE  ApartInv'
  <2>1. ASSUME NEW s \in Select, Clear(s)
        PROVE  ApartInv'
    BY <2>1, EffectiveType
       DEF Clear, ApartInv, TypeOK, HoldsOwnAccount, AccountsApart
  <2>2. ASSUME NEW s \in Select, NEW x \in Account, SetCredential(s, x)
        PROVE  ApartInv'
    BY <2>2, EffectiveType
       DEF SetCredential, ApartInv, TypeOK, HoldsOwnAccount, AccountsApart
  <2>3. ASSUME NEW q \in Profile, Use(q)
        PROVE  ApartInv'
    BY <2>3 DEF Use, ApartInv, TypeOK, HoldsOwnAccount, AccountsApart
  <2>. QED
    BY <2>1, <2>2, <2>3, <1>12 DEF UserStep
<1>. QED
  BY <1>0, <1>2, <1>3, <1>4, <1>5, <1>6, <1>7, <1>8, <1>9, <1>10, <1>11, <1>12
     DEF Next, CommandStep

(* Nothing is cached or in memory at the start.                            *)
LEMMA ApartStart == Init => ApartInv
<1>. SUFFICES ASSUME Init
              PROVE  ApartInv
  OBVIOUS
<1>1. TypeOK
  BY SessionsAssumption, IdleType DEF Init, TypeOK
<1>2. HoldsOwnAccount /\ AccountsApart
  BY DEF Init, IdleRun, HoldsOwnAccount, AccountsApart
<1>. QED
  BY <1>1, <1>2 DEF ApartInv

(* Every variable keeps its type: a list is saved, and a refreshed token   *)
(* stored, only by a command that knows whose they are.                    *)
THEOREM TypeCorrect == Spec => []TypeOK
<1>1. ApartInv => TypeOK
  BY DEF ApartInv
<1>. QED
  BY <1>1, ApartStart, ApartStep, PTL DEF Spec

(* The accounts of the profiles stay apart, for any number of profiles,    *)
(* accounts and invocations, whatever the users do in between.             *)
THEOREM AccountsApartHolds == Spec => []AccountsApart
<1>1. ApartInv => AccountsApart
  BY DEF ApartInv
<1>. QED
  BY <1>1, ApartStart, ApartStep, PTL DEF Spec

(* With overrides, no command crosses two profiles.                        *)
LEMMA UncrossedStep ==
    ASSUME Select \subseteq Profile, ApartInv, Uncrossed, [Next]_vars
    PROVE  Uncrossed'
<1>. USE SessionsAssumption DEF Uncrossed
<1>. TypeOK /\ HoldsOwnAccount
  BY DEF ApartInv
<1>1. ASSUME NEW p \in Proc, NEW s \in Select, NEW l \in Running,
             Begin(p, l, s)
      PROVE  Uncrossed'
  BY <1>1 DEF Begin, TypeOK, Run
<1>2. ASSUME NEW p \in Proc, OpenClient(p) \/ NewCache(p)
      PROVE  Uncrossed'
  <2>1. run[p].pc # "idle" /\ UNCHANGED crossed
    BY <1>2 DEF OpenClient, NewCache
  <2>2. run'[p].sel = run[p].sel /\ \A q \in Proc \ {p} : run'[q] = run[q]
    BY <1>2 DEF OpenClient, NewCache, TypeOK, Run
  <2>. QED
    BY <2>1, <2>2
<1>3. ASSUME NEW p \in Proc, End(p), crossed' = {}
      PROVE  Uncrossed'
  BY <1>3, EndFrame DEF IdleRun
<1>4. ASSUME NEW p \in Proc, NEW l \in Running, Goto(p, l),
             run[p].pc # "idle", UNCHANGED crossed
      PROVE  Uncrossed'
  BY <1>4, GotoFrame
<1>5. ASSUME NEW p \in Proc, Save(p)
      PROVE  Uncrossed'
  <2>1. crossed' = {}
    BY <1>5 DEF Save
  <2>. QED
    BY <2>1, <1>3, <1>5 DEF Save
<1>6. ASSUME NEW p \in Proc, NEW s \in Select,
             StartDrives(p, s) \/ StartRefresh(p, s) \/ StartReset(p, s)
      PROVE  Uncrossed'
  BY <1>1, <1>6 DEF StartDrives, StartRefresh, StartReset, Running
<1>7. ASSUME NEW p \in Proc, NoToken(p) \/ Hit(p) \/ ClearCache(p) \/ Stop(p)
      PROVE  Uncrossed'
  BY <1>3, <1>7 DEF NoToken, Hit, ClearCache, Stop
<1>8. ASSUME NEW p \in Proc, Miss(p) \/ SkipCache(p) \/ List(p)
                             \/ ClearToken(p) \/ ClearConfig(p)
      PROVE  Uncrossed'
  BY <1>4, <1>8 DEF Miss, SkipCache, List, ClearToken, ClearConfig, Running
<1>9. ASSUME UserStep \/ (\E q \in Profile : Expire(q))
             \/ (\E p \in Proc : RefreshToken(p)) \/ UNCHANGED vars
      PROVE  Uncrossed'
  BY <1>9 DEF UserStep, Clear, SetCredential, Use, Expire, RefreshToken, vars
<1>. HIDE DEF Uncrossed
<1>. QED
  BY <1>2, <1>5, <1>6, <1>7, <1>8, <1>9 DEF Next, CommandStep

(* Where every command has an override, no cache ever shows the drives of  *)
(* another profile's account, without exception.                           *)
THEOREM OverridesNeverCross ==
    ASSUME Select \subseteq Profile
    PROVE  Spec => [](\A q \in Profile :
                         drives[q] # None => Of[drives[q].acct] = q)
<1>1. Init => Uncrossed
  BY DEF Init, IdleRun, Uncrossed
<1>2. ApartInv /\ Uncrossed /\ [Next]_vars => Uncrossed'
  BY UncrossedStep
<1>3. ApartInv /\ Uncrossed =>
         \A q \in Profile : drives[q] # None => Of[drives[q].acct] = q
  BY DEF ApartInv, AccountsApart, Uncrossed
<1>. QED
  BY <1>1, <1>2, <1>3, ApartStart, ApartStep, PTL DEF Spec
=============================================================================
