------------------------ MODULE AccountsAloneProofs ------------------------
(***************************************************************************)
(* Proofs about Accounts for invocations that follow one another: what the *)
(* recorded scopes and clients say of the stored tokens, and what an init  *)
(* that reports success leaves.  The inductive invariant is AloneInv: what *)
(* an invocation has in memory is still so in the stores, through every    *)
(* failed save, interrupt and upgrade.                                     *)
(***************************************************************************)
EXTENDS AccountsProofs

(* No two invocations overlap; nobody brings a token granted elsewhere, or *)
(* removes config.yml but not the tokens; and a keyring that may not open  *)
(* is that of the configured profile.                                      *)
OneAtATime ==
    /\ \A p, q \in Proc : p = q
    /\ Ops \cap {"set-credential", "clear-all"} = {}
    /\ FlakyKeyring \cap Profile = {}

(* The files of machines that a release with profiles has set up: no       *)
(* profile uses the client file of another.                                *)
StartsApart ==
    \A f \in InitFile :
        /\ f.top = NoneOwned
        /\ \A q \in Profile :
              /\ f.own[q].scopes \in {None, 1}
              /\ \A r \in Profile \ {q} :
                    f.own[q].client # None => f.own[q].client \notin {r, f.own[r].client}

-----------------------------------------------------------------------------
(* The stores.                                                             *)

(* Loading changes nothing, so that a profile's client file is the one in  *)
(* config.yml.                                                             *)
LEMMA ClientIs ==
    ASSUME TypeOK, Apart(file)
    PROVE  /\ Loaded(file) = file
           /\ \A q \in Profile : ClientFile(q) = file.own[q].client
BY ApartOps DEF TypeOK, ClientFile

LEMMA ClientIsNext ==
    ASSUME TypeOK', Apart(file)'
    PROVE  /\ Loaded(file') = file'
           /\ \A q \in Profile : ClientFile(q)' = file'.own[q].client
<1>1. Apart(file)' /\ file' \in Config
  BY DEF TypeOK
<1>2. Loaded(file') = file'
  <2>1. /\ Fill(file'.own[file'.active], file'.top) = file'.own[file'.active]
        /\ file'.top = NoneOwned
    BY <1>1, AccountsAssumption DEF Apart, Fill, NoneOwned, Config, Owned
  <2>. QED
    BY <1>1, <2>1 DEF Loaded, Config
<1>. QED
  BY <1>2 DEF ClientFile

(* A profile's own client file is no other profile's.                      *)
LEMMA OwnPathIs ==
    ASSUME TypeOK, Apart(file), StoresAgree, NEW q \in Profile
    PROVE  /\ OwnPath(file, q) \in Path
           /\ ClientFile(q) # None => ClientFile(q) = OwnPath(file, q)
           /\ \A r \in Profile \ {q} : ClientFile(r) # OwnPath(file, q)
<1>1. \A r \in Profile : file.own[r].client \in Path \cup {None}
  BY ConfigType DEF TypeOK
<1>2. \A r \in Profile : file.own[r].client \in {None, r, origin[r]}
  BY DEF Apart
<1>3. None \notin Path /\ Profile \subseteq Path
  BY AccountsAssumption DEF Path
<1>4. \A r \in Profile : ClientFile(r) = file.own[r].client
  BY ClientIs
<1>. QED
  BY <1>1, <1>2, <1>3, <1>4 DEF OwnPath, PathFor, StoresAgree

(* What WithOwn sets and what it leaves.                                   *)
LEMMA WithOwnIs ==
    ASSUME NEW c \in Config, NEW q \in Profile, NEW s
    PROVE  /\ WithOwn(c, q, s).active = c.active
           /\ WithOwn(c, q, s).top = c.top
           /\ WithOwn(c, q, s).own[q].client = OwnPath(c, q)
           /\ WithOwn(c, q, s).own[q].scopes = s
           /\ \A r \in Profile \ {q} : WithOwn(c, q, s).own[r] = c.own[r]
BY DEF WithOwn, Config

(* Setting its client alone is the same.                                   *)
LEMMA SetClientIs ==
    ASSUME NEW c \in Config, NEW q \in Profile, NEW f
    PROVE  [c EXCEPT !.own[q].client = f]
              = [c EXCEPT !.own[q] = [client |-> f, scopes |-> c.own[q].scopes]]
<1>1. c.own[q] \in Owned
  BY DEF Config
<1>2. [c.own[q] EXCEPT !.client = f] = [client |-> f, scopes |-> c.own[q].scopes]
  BY <1>1 DEF Owned
<1>3. [c EXCEPT !.own[q].client = f] = [c EXCEPT !.own[q] = [c.own[q] EXCEPT !.client = f]]
  BY DEF Config
<1>. QED
  BY <1>2, <1>3

LEMMA OwnClientIs ==
    ASSUME NEW c \in Config, NEW q \in Profile
    PROVE  [c EXCEPT !.own[q].client = OwnPath(c, q)] = WithOwn(c, q, c.own[q].scopes)
BY SetClientIs DEF WithOwn

(* The scopes on record, where loading changes nothing.                    *)
LEMMA HonestIs ==
    ASSUME TypeOK, Apart(file)
    PROVE  ScopesHonest <=>
              \A q \in Profile :
                  file.own[q].scopes # None /\ keyring[q] # None =>
                      keyring[q].scopes >= file.own[q].scopes
BY ClientIs DEF ScopesHonest

LEMMA HonestIsNext ==
    ASSUME TypeOK', Apart(file)'
    PROVE  ScopesHonest' <=>
              \A q \in Profile :
                  file'.own[q].scopes # None /\ keyring'[q] # None =>
                      keyring'[q].scopes >= file'.own[q].scopes
BY ClientIsNext DEF ScopesHonest

SameStores == UNCHANGED <<file, client, keyring, version, origin, cut>>

StoresParts == StoresAgree /\ TornIsCut /\ ScopesHonest

(* Unless p is writing a client file, the torn ones are those of writes    *)
(* that were interrupted.                                                  *)
LEMMA TornAreCut ==
    ASSUME OneAtATime, TornIsCut, NEW p \in Proc, run[p].pc # "fill"
    PROVE  \A f \in Path : client[f] = Torn => f \in cut
BY DEF OneAtATime, TornIsCut

LEMMA StoresKept ==
    ASSUME OneAtATime, StoresParts, SameStores, NEW p \in Proc, run[p].pc # "fill"
    PROVE  StoresParts'
<1>1. \A f \in Path : client[f] = Torn => f \in cut
  BY TornAreCut DEF StoresParts
<1>2. TornIsCut'
  BY <1>1 DEF SameStores, TornIsCut
<1>. QED
  BY <1>2 DEF SameStores, StoresParts, StoresAgree, ScopesHonest, ClientFile

-----------------------------------------------------------------------------
(* The only invocation there is.                                           *)

LEMMA OnlyRun ==
    ASSUME OneAtATime, NEW p \in Proc,
           run'[p].pc \in Initing => InitUpToDate(run[p])',
           OtherUpToDate(run[p])'
    PROVE  UpToDate'
BY DEF OneAtATime, UpToDate

(* Where nothing changes, what is known stays so.                          *)
LEMMA StutterUp ==
    ASSUME UpToDate, SameStores, run' = run
    PROVE  UpToDate'
<1>1. \A q : /\ ClientFile(q)' = ClientFile(q) /\ ClientOf(q)' = ClientOf(q)
            /\ Opens(q)' = Opens(q)
  BY DEF SameStores, ClientFile, ClientOf, Opens
<1>2. ASSUME NEW p \in Proc, run[p].pc \in Initing
      PROVE  InitUpToDate(run[p])'
  <2>1. InitUpToDate(run[p])
    BY <1>2 DEF UpToDate
  <2>. QED
    BY <1>1, <2>1 DEF InitUpToDate, SameStores
<1>3. ASSUME NEW p \in Proc
      PROVE  OtherUpToDate(run[p])'
  BY <1>3 DEF UpToDate, OtherUpToDate, SameStores
<1>. QED
  BY <1>2, <1>3 DEF UpToDate

(* The steps of an init are not those of the other commands.               *)
LEMMA Steps ==
    /\ Initing \cap Ended = {} /\ Others \cap Ended = {} /\ Initing \cap Others = {}
    /\ MayBeFresh \subseteq Initing /\ Verified \subseteq MayBeFresh
    /\ "describe" \notin Initing \cup Others \cup Ended
BY DEF Initing, Others, Ended, MayBeFresh, Verified

(* An invocation that has ended knows nothing.                             *)
LEMMA EndUp ==
    ASSUME OneAtATime, TypeOK, NEW p \in Proc, NEW l \in Ended, End(p, l)
    PROVE  UpToDate'
<1>1. run'[p].pc = l /\ run'[p].op = "command" /\ run'[p].fresh = FALSE
  BY DEF End, TypeOK, IdleRun
<1>2. OtherUpToDate(run[p])'
  BY <1>1 DEF OtherUpToDate, Ended, Others
<1>. QED
  BY <1>1, <1>2, Steps, OnlyRun

(* What an invocation keeps beside its place.                              *)
Kept(p) ==
    /\ run'[p].op = run[p].op
    /\ run'[p].sel = run[p].sel
    /\ run'[p].tgt = run[p].tgt
    /\ run'[p].path = run[p].path
    /\ run'[p].cfg = run[p].cfg
    /\ run'[p].new = run[p].new

LEMMA GotoKeeps ==
    ASSUME TypeOK, NEW p \in Proc, NEW l, Goto(p, l)
    PROVE  run'[p].pc = l /\ Kept(p) /\ run'[p].fresh = run[p].fresh
BY DEF TypeOK, Goto, Run, Kept

LEMMA PutKeeps ==
    ASSUME TypeOK, NEW p \in Proc, NEW q, PutLoad(p, q)
    PROVE  run'[p].pc = PutStep[run[p].pc] /\ Kept(p) /\ run'[p].fresh = run[p].fresh
BY DEF TypeOK, PutLoad, Run, Kept

(* An API client that opened.                                              *)
LEMMA OpenKeeps ==
    ASSUME TypeOK, NEW p \in Proc, NEW q, NEW l, OpenFor(p, q, l)
    PROVE  /\ run'[p].pc = l /\ Kept(p) /\ run'[p].fresh = run[p].fresh
           /\ run'[p].api = q /\ run'[p].tok = keyring[q] /\ Opens(q)
BY DEF TypeOK, OpenFor, Run, Kept

(* An init past its announcement: it targets what it would open now.       *)
InitAt(p) ==
    /\ run[p].pc \in Initing
    /\ run[p].tgt \in Profile /\ Effective(p) = run[p].tgt
    /\ InitUpToDate(run[p]) /\ OtherUpToDate(run[p])

LEMMA InitIsAt ==
    ASSUME AloneInv, NEW p \in Proc, run[p].pc \in Initing
    PROVE  InitAt(p)
BY DEF AloneInv, ApartInv, KnowsTarget, Aimed, UpToDate, InitUpToDate, Effective, InitAt

LEMMA AloneIs ==
    ASSUME AloneInv
    PROVE  /\ TypeOK /\ KnowsTarget /\ Apart(file)
           /\ StoresAgree /\ TornIsCut /\ ScopesHonest /\ StoresParts
           /\ \A p \in Proc : Apart(run[p].cfg) /\ OtherUpToDate(run[p])
           /\ Loaded(file) = file
           /\ \A q \in Profile : ClientFile(q) = file.own[q].client
BY ClientIs DEF AloneInv, ApartInv, UpToDate, StoresParts

AloneParts == StoresParts /\ UpToDate

(* An init with an associated client goes on to a step for which it need   *)
(* not have prepared.                                                      *)
Simple == {"token", "judge", "verify", "reauth", "consent", "record", "identity",
           "identity_save", "people"}

LEMMA InitGoesOn ==
    ASSUME OneAtATime, NEW p \in Proc, Kept(p), InitAt(p), run[p].pc # "path",
           run'[p].pc \in Simple,
           file'.active = file.active,
           OwnPath(file', run[p].tgt) = OwnPath(file, run[p].tgt),
           ClientFile(run[p].tgt)' # None,
           client'[ClientFile(run[p].tgt)'] # None,
           run'[p].pc \in {"judge", "verify"} /\ run[p].sel \notin FlakyKeyring =>
              keyring'[run[p].tgt] # None,
           run'[p].pc \in Verified \/ run'[p].fresh => Opens(run[p].tgt)',
           run'[p].pc = "consent" => keyring'[run[p].tgt] = None,
           run'[p].pc = "record" => run'[p].fresh /\ keyring'[run[p].tgt].scopes = version',
           run'[p].fresh => run'[p].pc \in MayBeFresh
    PROVE  UpToDate'
<1>1. /\ run'[p].tgt = run[p].tgt /\ run'[p].op = run[p].op /\ run'[p].sel = run[p].sel
      /\ run'[p].path = run[p].path
  BY DEF Kept
<1>2. /\ run'[p].pc \in Initing
      /\ run'[p].pc \notin NoClientYet \cup Placed
                            \cup {"record_save", "store", "verifying", "asking"}
  BY DEF Simple, Initing, NoClientYet, Placed
<1>3. InitUpToDate(run[p])'
  BY <1>1, <1>2 DEF InitUpToDate, InitAt, NoClientYet, Placed
<1>4. OtherUpToDate(run[p])'
  BY <1>1, <1>2, Steps
     DEF OtherUpToDate, InitAt, InitUpToDate, Initing, Others
<1>. QED
  BY <1>3, <1>4, OnlyRun

(* The same, when no store changes.                                        *)
LEMMA InitGoto ==
    ASSUME AloneInv, OneAtATime, NEW p \in Proc, Kept(p), run'[p].fresh = run[p].fresh,
           SameStores, InitAt(p), run[p].pc # "path", run'[p].pc \in Simple \ {"record"},
           run[p].pc \notin NoClientYet \cup Placed
              \/ /\ ClientFile(run[p].tgt) # None
                 /\ client[ClientFile(run[p].tgt)] # None,
           run'[p].pc \in {"judge", "verify"} /\ run[p].sel \notin FlakyKeyring =>
              keyring[run[p].tgt] # None,
           run'[p].pc \in Verified => Opens(run[p].tgt),
           run'[p].pc = "consent" => keyring[run[p].tgt] = None,
           run[p].fresh => run'[p].pc \in MayBeFresh
    PROVE  UpToDate'
<1>. DEFINE q == run[p].tgt
<1>1. ClientFile(q) # None /\ client[ClientFile(q)] # None
  BY DEF InitAt, InitUpToDate
<1>2. run[p].fresh => Opens(q)
  BY DEF InitAt, InitUpToDate
<1>3. file' = file /\ client' = client /\ keyring' = keyring /\ version' = version
  BY DEF SameStores
<1>4. ClientFile(q)' = ClientFile(q) /\ Opens(q)' = Opens(q)
  <2>1. q' = q
    BY DEF Kept
  <2>. QED
    BY <1>3, <2>1 DEF ClientFile, Opens, ClientOf
<1>5. /\ client'[ClientFile(q)'] # None
      /\ run'[p].pc # "record"
  BY <1>1, <1>3, <1>4
<1>. QED
  BY <1>1, <1>2, <1>3, <1>4, <1>5, InitGoesOn

-----------------------------------------------------------------------------
(* The steps of an init.                                                   *)

(* An init announces its profile and the path of its client.               *)
LEMMA AloneAnnounces ==
    ASSUME AloneInv, OneAtATime, NEW p \in Proc,
           Describe(p) \/ DescribeBlind(p) \/ ResolvePath(p)
    PROVE  AloneParts'
<1>. USE DEF stores, envVars, history
<1>0. TypeOK /\ StoresParts /\ OtherUpToDate(run[p]) /\ Loaded(file) = file
  BY AloneIs
<1>1. SameStores /\ run[p].pc \in {"describe", "path"}
  BY DEF SameStores, Describe, DescribeBlind, ResolvePath
<1>2. StoresParts'
  BY <1>0, <1>1, StoresKept
<1>3. CASE Describe(p) \/ DescribeBlind(p)
  <2>1. run[p].op = "init" /\ run[p].fresh = FALSE
    BY <1>0, <1>3 DEF OtherUpToDate, Describe, DescribeBlind, MayBeFresh, Verified, TypeOK, Run
  <2>2. /\ run'[p].pc = "path" /\ run'[p].op = "init" /\ run'[p].fresh = FALSE
        /\ run'[p].sel = run[p].sel
        /\ run'[p].tgt = IF run[p].sel # None THEN run[p].sel ELSE file.active
    <3>2. CASE Describe(p)
      BY <1>0, <2>1, <3>2 DEF Describe, Effective, TypeOK, Run
    <3>3. CASE DescribeBlind(p)
      <4>1. run[p].sel = None
        BY <1>0, <3>3 DEF DescribeBlind, OneAtATime, TypeOK, Run
      <4>. QED
        BY <1>0, <2>1, <3>3, <4>1 DEF DescribeBlind, TypeOK, Run
    <3>. QED
      BY <1>3, <3>2, <3>3
  <2>3. InitUpToDate(run[p])'
    BY <1>1, <2>2 DEF InitUpToDate, SameStores, NoClientYet, Placed, Verified
  <2>4. OtherUpToDate(run[p])'
    BY <2>2 DEF OtherUpToDate, Others
  <2>. QED
    BY <1>2, <2>3, <2>4, OnlyRun DEF AloneParts
<1>4. CASE ResolvePath(p)
  <2>1. InitAt(p)
    BY <1>4, InitIsAt DEF ResolvePath, Initing
  <2>2. /\ run'[p].pc = "creds" /\ run'[p].path = OwnPath(file, run[p].tgt)
        /\ run'[p].op = run[p].op /\ run'[p].sel = run[p].sel /\ run'[p].tgt = run[p].tgt
        /\ run'[p].fresh = run[p].fresh /\ run[p].pc = "path"
    BY <1>0, <1>4 DEF ResolvePath, OwnPath, TypeOK, Run
  <2>3. ~run[p].fresh
    BY <1>0, <2>2 DEF OtherUpToDate, MayBeFresh, Verified
  <2>4. InitUpToDate(run[p])'
    BY <1>1, <2>1, <2>2, <2>3
       DEF InitUpToDate, InitAt, SameStores, NoClientYet, Placed, Verified
  <2>5. OtherUpToDate(run[p])'
    BY <2>1, <2>2, <2>3 DEF OtherUpToDate, InitAt, Others
  <2>. QED
    BY <1>2, <2>4, <2>5, OnlyRun DEF AloneParts
<1>. QED
  BY <1>3, <1>4

(* An init that prepares a configuration with its profile's own client.    *)
LEMMA Prepares ==
    ASSUME AloneInv, OneAtATime, NEW p \in Proc, InitAt(p), SameStores,
           NEW l \in {"adopt", "check"}, run'[p].pc = l, run[p].pc = "creds",
           run'[p].cfg = [file EXCEPT !.own[run[p].tgt].client = OwnPath(file, run[p].tgt)],
           run'[p].op = run[p].op, run'[p].sel = run[p].sel, run'[p].tgt = run[p].tgt,
           run'[p].path = run[p].path, run'[p].fresh = run[p].fresh,
           l = "check" => run'[p].new \in App,
           l = "adopt" => client[run[p].path] \notin {None, Torn}
    PROVE  AloneParts'
<1>. DEFINE q == run[p].tgt
<1>1. run'[p].cfg = WithOwn(file, q, file.own[q].scopes)
  BY AloneIs, OwnClientIs DEF InitAt, TypeOK
<1>2. ~run[p].fresh
  BY DEF InitAt, OtherUpToDate, MayBeFresh, Verified
<1>3. InitUpToDate(run[p])'
  BY <1>1, <1>2 DEF InitUpToDate, InitAt, SameStores, NoClientYet, Placed, Verified
<1>4. OtherUpToDate(run[p])'
  BY <1>2 DEF OtherUpToDate, InitAt, Others
<1>5. StoresParts'
  BY AloneIs, StoresKept
<1>. QED
  BY <1>3, <1>4, <1>5, OnlyRun, Steps DEF AloneParts

LEMMA AloneChooses ==
    ASSUME AloneInv, OneAtATime, NEW p \in Proc,
           \/ KeepClient(p) \/ AdoptClient(p) \/ RefuseTorn(p)
           \/ \E c \in App : ImportClient(p, c)
           \/ RefuseClient(p) \/ AcceptClient(p)
    PROVE  AloneParts'
<1>. USE DEF stores, envVars, history
<1>. DEFINE q == run[p].tgt
<1>0. /\ TypeOK /\ StoresParts /\ StoresAgree /\ TornIsCut /\ OtherUpToDate(run[p])
      /\ Loaded(file) = file /\ Apart(file)
  BY AloneIs
<1>1. SameStores /\ run[p].pc \in {"creds", "check"}
  BY DEF SameStores, KeepClient, AdoptClient, RefuseTorn, ImportClient, RefuseClient,
         AcceptClient
<1>2. StoresParts'
  BY <1>0, <1>1, StoresKept
<1>3. InitAt(p) /\ ~run[p].fresh
  BY <1>1, InitIsAt DEF Initing, InitAt, OtherUpToDate, MayBeFresh, Verified
<1>4. q \in Profile /\ run[p].path = OwnPath(file, q)
  BY <1>1, <1>3 DEF InitAt, InitUpToDate
<1>5. CASE KeepClient(p)
  <2>1. run'[p].pc = "token" /\ Kept(p) /\ run'[p].fresh = run[p].fresh
    BY <1>0, <1>5, GotoKeeps DEF KeepClient
  <2>2. ClientFile(q) # None /\ client[ClientFile(q)] # None /\ run[p].pc # "path"
    BY <1>0, <1>4, <1>5, OwnPathIs DEF KeepClient, HasClientFile
  <2>. QED
    BY <1>1, <1>2, <1>3, <2>1, <2>2, InitGoto DEF Simple, Verified, AloneParts
<1>6. CASE AdoptClient(p)
  <2>. DEFINE d == [file EXCEPT !.own[q].client = OwnPath(file, q)]
  <2>1. run' = [run EXCEPT ![p].cfg = d, ![p].pc = "adopt"]
    BY <1>0, <1>4, <1>6 DEF AdoptClient
  <2>2. client[run[p].path] \notin {None, Torn} /\ run[p].pc = "creds"
    BY <1>6 DEF AdoptClient, HasClientFile
  <2>. HIDE DEF d
  <2>3. /\ run'[p].pc = "adopt" /\ run'[p].cfg = d /\ run'[p].path = run[p].path
        /\ run'[p].op = run[p].op /\ run'[p].sel = run[p].sel /\ run'[p].tgt = q
        /\ run'[p].fresh = run[p].fresh
    BY <1>0, <2>1 DEF TypeOK, Run
  <2>. QED
    BY <1>1, <1>3, <2>2, <2>3, Prepares DEF d
<1>7. ASSUME NEW c \in App, ImportClient(p, c)
      PROVE  AloneParts'
  <2>. DEFINE d == [file EXCEPT !.own[q].client = OwnPath(file, q)]
  <2>1. PathFor(file, q, run[p].path) = OwnPath(file, q) /\ run[p].pc = "creds"
    BY <1>4, <1>7 DEF ImportClient, OwnPath, PathFor
  <2>2. run' = [run EXCEPT ![p].cfg = d, ![p].new = c, ![p].pc = "check"]
    BY <1>0, <1>7, <2>1 DEF ImportClient
  <2>. HIDE DEF d
  <2>3. /\ run'[p].pc = "check" /\ run'[p].cfg = d /\ run'[p].path = run[p].path
        /\ run'[p].new = c /\ run'[p].fresh = run[p].fresh
        /\ run'[p].op = run[p].op /\ run'[p].sel = run[p].sel /\ run'[p].tgt = q
    BY <1>0, <2>2 DEF TypeOK, Run
  <2>. QED
    BY <1>1, <1>3, <2>1, <2>3, Prepares DEF d
<1>8. CASE RefuseClient(p) \/ RefuseTorn(p)
  <2>1. End(p, "failed")
    BY <1>8 DEF RefuseClient, RefuseTorn
  <2>. QED
    BY <1>0, <1>2, <2>1, EndUp DEF Ended, AloneParts
<1>9. CASE AcceptClient(p)
  <2>1. run'[p].pc = "write" /\ Kept(p) /\ run'[p].fresh = run[p].fresh
        /\ run[p].pc = "check"
    BY <1>0, <1>9, GotoKeeps DEF AcceptClient
  <2>2. ASSUME keyring[q] # None
        PROVE  ClientFile(q) \in cut \/ keyring[q].app = run[p].new
    <3>1. ClientOf(q) \in {None, run[p].new}
      BY <1>3, <1>9, <2>2 DEF AcceptClient, OtherClient, NoTokenSeen, InitAt
    <3>2. /\ ClientFile(q) # None /\ client[ClientFile(q)] # None
          /\ ClientFile(q) \in cut \/ client[ClientFile(q)] \in {Torn, keyring[q].app}
      BY <1>0, <1>4, <2>2 DEF StoresAgree
    <3>3. client[ClientFile(q)] = Torn => ClientFile(q) \in cut
      BY <1>0, <1>4, <2>1, <3>2, TornAreCut, ClientOfType
    <3>. QED
      BY <3>1, <3>2, <3>3 DEF ClientOf
  <2>3. InitUpToDate(run[p])'
    BY <1>1, <1>3, <2>1, <2>2
       DEF Kept, InitUpToDate, InitAt, SameStores, ClientFile, NoClientYet, Placed, Verified
  <2>4. OtherUpToDate(run[p])'
    BY <1>3, <2>1 DEF Kept, OtherUpToDate, InitAt, Others
  <2>. QED
    BY <1>2, <2>3, <2>4, OnlyRun DEF AloneParts
<1>. QED
  BY <1>5, <1>6, <1>7, <1>8, <1>9

(* The client file of an init's profile is no other profile's, and a token *)
(* of that profile was granted through what is written to it.              *)
LEMMA AloneWrites ==
    ASSUME AloneInv, OneAtATime, [Next]_vars, NEW p \in Proc,
           TruncateClient(p) \/ WriteClient(p)
    PROVE  AloneParts'
<1>. DEFINE q == run[p].tgt
            f == OwnPath(file, q)
            v == IF run[p].pc = "write" THEN Torn ELSE run[p].new
<1>0. /\ TypeOK /\ StoresAgree /\ TornIsCut /\ ScopesHonest /\ Apart(file)
      /\ OtherUpToDate(run[p])
  BY AloneIs
<1>1. InitAt(p) /\ run[p].pc \in {"write", "fill"}
  BY InitIsAt DEF TruncateClient, WriteClient, Initing
<1>2. /\ UNCHANGED <<file, keyring, version, origin, cut>>
      /\ run'[p].pc = IF run[p].pc = "write" THEN "fill" ELSE "import"
      /\ Kept(p) /\ run'[p].fresh = run[p].fresh
  BY <1>0, GotoKeeps DEF TruncateClient, WriteClient, envVars, history
<1>3. /\ q \in Profile
      /\ run[p].path = f
      /\ run[p].cfg = WithOwn(file, q, file.own[q].scopes)
      /\ keyring[q] # None => ClientFile(q) \in cut \/ keyring[q].app = run[p].new
      /\ run[p].new \in App
  BY <1>1 DEF InitAt, InitUpToDate
<1>4. run[p].cfg.own[q].client = f
  BY <1>0, <1>3, WithOwnIs DEF TypeOK
<1>5. client' = [client EXCEPT ![f] = v]
  BY <1>1, <1>4 DEF TruncateClient, WriteClient
<1>6. /\ f \in Path
      /\ ClientFile(q) # None => ClientFile(q) = f
      /\ \A r \in Profile \ {q} : ClientFile(r) # f
  BY <1>0, <1>3, OwnPathIs
<1>7. v # None /\ client'[f] = v /\ \A g \in Path \ {f} : client'[g] = client[g]
  BY <1>0, <1>3, <1>5, <1>6, AccountsAssumption DEF TypeOK
<1>8. \A r \in Profile : ClientFile(r)' = ClientFile(r) /\ ClientFile(r) \in Path \cup {None}
  BY <1>0, <1>2, ClientOfType DEF ClientFile
<1>. HIDE DEF v
<1>9. StoresAgree'
  <2>1. ASSUME NEW r \in Profile, keyring[r] # None
        PROVE  /\ ClientFile(r) # None /\ client'[ClientFile(r)] # None
               /\ ClientFile(r) \in cut
                     \/ client'[ClientFile(r)] \in {Torn, keyring[r].app}
    <3>1. /\ ClientFile(r) # None /\ client[ClientFile(r)] # None
          /\ ClientFile(r) \in cut \/ client[ClientFile(r)] \in {Torn, keyring[r].app}
      BY <1>0, <2>1 DEF StoresAgree
    <3>2. CASE r # q
      BY <1>6, <1>7, <1>8, <3>1, <3>2
    <3>3. CASE r = q
      BY <1>3, <1>6, <1>7, <2>1, <3>1, <3>3 DEF v
    <3>. QED
      BY <3>2, <3>3
  <2>. QED
    BY <1>0, <1>2, <1>8, <2>1 DEF StoresAgree
<1>10. TornIsCut'
  <2>1. ASSUME NEW g \in Path, client'[g] = Torn
        PROVE  g \in cut \/ (run'[p].pc = "fill" /\ run'[p].path = g)
    <3>1. CASE g = f
      <4>1. v = Torn
        BY <1>7, <2>1, <3>1
      <4>2. run[p].pc = "write"
        BY <1>3, <4>1, AccountsAssumption DEF v
      <4>. QED
        BY <1>2, <1>3, <3>1, <4>2 DEF Kept
    <3>2. CASE g # f
      <4>1. client[g] = Torn
        BY <1>7, <2>1, <3>2
      <4>2. \A r \in Proc : r = p
        BY DEF OneAtATime
      <4>3. g \in cut \/ \E r \in Proc : run[r].pc = "fill" /\ run[r].path = g
        BY <1>0, <2>1, <4>1 DEF TornIsCut
      <4>. QED
        BY <1>3, <3>2, <4>2, <4>3
    <3>. QED
      BY <3>1, <3>2
  <2>. QED
    BY <1>2, <2>1 DEF TornIsCut
<1>11. ScopesHonest'
  BY <1>0, <1>2 DEF ScopesHonest
<1>12. InitUpToDate(run[p])'
  <2>1. ~run[p].fresh
    BY <1>0, <1>1 DEF OtherUpToDate, MayBeFresh, Verified
  <2>2. run'[p].pc \in Placed => client'[run'[p].path] \notin {None, Torn}
    BY <1>1, <1>2, <1>3, <1>7, AccountsAssumption DEF v, Placed, Kept
  <2>3. ClientFile(run[p].tgt)' = ClientFile(run[p].tgt)
    BY <1>2 DEF ClientFile, Kept
  <2>. QED
    BY <1>1, <1>2, <2>1, <2>2, <2>3
       DEF Kept, InitUpToDate, InitAt, NoClientYet, Placed, Verified
<1>13. OtherUpToDate(run[p])'
  BY <1>0, <1>1, <1>2 DEF Kept, OtherUpToDate, InitAt, Others, MayBeFresh, Verified
<1>. QED
  BY <1>9, <1>10, <1>11, <1>12, <1>13, OnlyRun DEF AloneParts, StoresParts

(* A save of what an init has in memory: nothing else in config.yml        *)
(* changes, and its profile keeps its client or gets its own.              *)
LEMMA SavesOwn ==
    ASSUME AloneInv, OneAtATime, NEW p \in Proc, InitAt(p), [Next]_vars,
           run[p].pc # "fill",
           NEW s \in {file.own[run[p].tgt].scopes, version},
           keyring[run[p].tgt] # None /\ s # None => keyring[run[p].tgt].scopes >= s,
           file' = WithOwn(file, run[p].tgt, s),
           UNCHANGED <<client, keyring, version, origin, cut>>
    PROVE  /\ StoresParts'
           /\ file'.active = file.active
           /\ file'.own[run[p].tgt].client = OwnPath(file, run[p].tgt)
           /\ OwnPath(file', run[p].tgt) = OwnPath(file, run[p].tgt)
           /\ \A r \in Profile :
                 /\ ClientFile(r)' = file'.own[r].client
                 /\ ClientFile(r) # None => ClientFile(r)' = ClientFile(r)
<1>. DEFINE q == run[p].tgt
<1>0. /\ TypeOK /\ StoresAgree /\ TornIsCut /\ ScopesHonest /\ Apart(file) /\ q \in Profile
      /\ \A r \in Profile : ClientFile(r) = file.own[r].client
  BY AloneIs DEF InitAt
<1>1. TypeOK' /\ Apart(file)'
  BY TypeStep, ApartStep DEF AloneInv, ApartInv, ApartParts
<1>2. /\ file'.active = file.active
      /\ file'.own[q].client = OwnPath(file, q)
      /\ file'.own[q].scopes = s
      /\ \A r \in Profile \ {q} : file'.own[r] = file.own[r]
  BY <1>0, WithOwnIs DEF TypeOK
<1>3. /\ OwnPath(file, q) \in Path
      /\ ClientFile(q) # None => ClientFile(q) = OwnPath(file, q)
  BY <1>0, OwnPathIs
<1>4. OwnPath(file', q) = OwnPath(file, q)
  BY <1>2, <1>3, AccountsAssumption DEF OwnPath, PathFor
<1>5. \A r \in Profile :
          /\ ClientFile(r)' = file'.own[r].client
          /\ ClientFile(r) # None => ClientFile(r)' = ClientFile(r)
  BY <1>0, <1>1, <1>2, <1>3, ClientIsNext
<1>6. \A r \in Profile : file'.own[r].scopes # None => file'.own[r].scopes <= version
  <2>1. version <= version
    BY <1>0 DEF TypeOK, Version
  <2>. QED
    BY <1>0, <1>2, <2>1 DEF StoresAgree
<1>7. StoresAgree'
  BY <1>0, <1>5, <1>6 DEF StoresAgree
<1>8. ScopesHonest'
  <2>1. \A r \in Profile :
            file.own[r].scopes # None /\ keyring[r] # None =>
                keyring[r].scopes >= file.own[r].scopes
    BY <1>0, HonestIs
  <2>. QED
    BY <1>1, <1>2, <2>1, HonestIsNext
<1>9. TornIsCut'
  BY <1>0, TornAreCut DEF TornIsCut
<1>. QED
  BY <1>2, <1>4, <1>5, <1>7, <1>8, <1>9 DEF StoresParts

LEMMA AloneSaves ==
    ASSUME AloneInv, OneAtATime, [Next]_vars, NEW p \in Proc,
           SaveClient(p) \/ SaveRecord(p) \/ SaveRecordFails(p)
    PROVE  AloneParts'
<1>. DEFINE q == run[p].tgt
<1>0. /\ TypeOK /\ StoresParts /\ ScopesHonest /\ Apart(file) /\ OtherUpToDate(run[p])
      /\ Saved(run[p].cfg) = run[p].cfg
  BY AloneIs, ApartOps DEF TypeOK, Run
<1>1. InitAt(p)
  BY InitIsAt DEF SaveClient, SaveRecord, SaveRecordFails, Initing
<1>2. CASE SaveClient(p)
  <2>1. /\ run'[p].pc = "token" /\ Kept(p) /\ run'[p].fresh = run[p].fresh
        /\ UNCHANGED <<client, keyring, version, origin, cut>>
        /\ run[p].pc \in Placed
    BY <1>0, <1>2, GotoKeeps DEF SaveClient, envVars, history, Placed
  <2>2. file' = WithOwn(file, q, file.own[q].scopes)
    BY <1>0, <1>1, <1>2, <2>1 DEF SaveClient, InitAt, InitUpToDate
  <2>3. file.own[q].scopes # None /\ keyring[q] # None => keyring[q].scopes >= file.own[q].scopes
    BY <1>0, <1>1, HonestIs DEF InitAt
  <2>4. run[p].pc # "fill" /\ run[p].pc # "path"
    BY <2>1 DEF Placed
  <2>5. /\ StoresParts' /\ file'.active = file.active
        /\ OwnPath(file', q) = OwnPath(file, q)
        /\ file'.own[q].client = OwnPath(file, q)
        /\ \A r \in Profile : ClientFile(r)' = file'.own[r].client
    BY <1>1, <2>1, <2>2, <2>3, <2>4, SavesOwn
  <2>6. OwnPath(file, q) # None /\ client[OwnPath(file, q)] # None
    <3>1. run[p].path = OwnPath(file, q) /\ client[run[p].path] # None
      BY <1>1, <2>1, <2>4 DEF InitAt, InitUpToDate
    <3>2. OwnPath(file, q) \in Path
      BY <1>0, <1>1, AloneIs, OwnPathIs DEF InitAt
    <3>. QED
      BY <3>1, <3>2, AccountsAssumption
  <2>7. q' = q /\ q \in Profile
    BY <1>1, <2>1 DEF Kept, InitAt
  <2>8. ClientFile(q)' = OwnPath(file, q)
    BY <2>5, <2>7
  <2>9. ~run[p].fresh
    BY <1>0, <2>1 DEF OtherUpToDate, MayBeFresh, Verified, Placed
  <2>10. run'[p].pc \in Simple /\ run'[p].pc \notin Verified
    BY <2>1 DEF Simple, Verified
  <2>11. ClientFile(q)' # None /\ client'[ClientFile(q)'] # None
    BY <2>1, <2>6, <2>8
  <2>12. UpToDate'
    BY <1>1, <2>1, <2>4, <2>5, <2>9, <2>10, <2>11, InitGoesOn
  <2>. QED
    BY <2>5, <2>12 DEF AloneParts
<1>3. CASE SaveRecord(p) \/ SaveRecordFails(p)
  <2>1. /\ run'[p].pc = "verify" /\ Kept(p) /\ run'[p].fresh = run[p].fresh
        /\ UNCHANGED <<client, keyring, version, origin, cut>>
        /\ run[p].pc = "record_save"
    BY <1>0, <1>3, GotoKeeps DEF SaveRecord, SaveRecordFails, envVars, history, stores
  <2>2. file' = file \/ file' = WithOwn(file, q, version)
    BY <1>0, <1>1, <1>3, <2>1 DEF SaveRecord, SaveRecordFails, stores, InitAt, InitUpToDate
  <2>3. keyring[q] # None /\ keyring[q].scopes = version /\ run[p].fresh /\ Opens(q)
        /\ ClientFile(q) # None /\ q \in Profile
    BY <1>1, <2>1 DEF InitAt, InitUpToDate, Opens, ClientOf
  <2>4. keyring[q].scopes >= version
    BY <1>0, <2>3 DEF TypeOK, Version
  <2>5. /\ StoresParts' /\ file'.active = file.active
        /\ OwnPath(file', q) = OwnPath(file, q)
        /\ \A r \in Profile : ClientFile(r) # None => ClientFile(r)' = ClientFile(r)
    <3>1. CASE file' = file
      BY <1>0, <2>1, <3>1, StoresKept DEF SameStores, ClientFile
    <3>2. CASE file' = WithOwn(file, q, version)
      BY <1>1, <2>1, <2>4, <3>2, SavesOwn
    <3>. QED
      BY <2>2, <3>1, <3>2
  <2>6. q' = q
    BY <2>1 DEF Kept
  <2>7. ClientFile(q)' = ClientFile(q)
    BY <2>3, <2>5, <2>6
  <2>8. /\ Opens(q)' /\ ClientFile(q)' # None /\ client'[ClientFile(q)'] # None
        /\ keyring'[q] # None
    BY <2>1, <2>3, <2>6, <2>7 DEF Opens, ClientOf
  <2>9. run'[p].pc \in Simple /\ run'[p].pc \in MayBeFresh
    BY <2>1 DEF Simple, MayBeFresh
  <2>10. UpToDate'
    BY <1>1, <2>1, <2>5, <2>8, <2>9, InitGoesOn
  <2>. QED
    BY <2>5, <2>10 DEF AloneParts
<1>. QED
  BY <1>2, <1>3

(* The steps of an init that look at its token.                            *)
LEMMA AloneLooks ==
    ASSUME AloneInv, OneAtATime, NEW p \in Proc,
           \/ NoStoredToken(p) \/ StoredToken(p) \/ StaleRecord(p) \/ CurrentRecord(p)
           \/ SkipVerify(p) \/ Verify(p) \/ VerifyAuthError(p) \/ VerifyFails(p)
           \/ RecordIdentity(p)
           \/ PeopleAccepts(p) \/ PeopleScopeError(p) \/ DeclineReauth(p) \/ NoConsent(p)
    PROVE  AloneParts'
<1>0. TypeOK /\ StoresParts
  BY AloneIs
<1>1. /\ SameStores
      /\ run[p].pc \in {"token", "judge", "verify", "verifying", "identity", "people",
                         "asking", "reauth", "consent"}
  BY DEF SameStores, NoStoredToken, StoredToken, StaleRecord, CurrentRecord, SkipVerify,
         Verify, VerifyAuthError, VerifyFails, RecordIdentity, PeopleAccepts,
         PeopleScopeError, DeclineReauth, NoConsent, stores, envVars, history
<1>2. StoresParts'
  BY <1>0, <1>1, StoresKept
<1>3. CASE SkipVerify(p) \/ VerifyFails(p) \/ PeopleAccepts(p) \/ DeclineReauth(p) \/ NoConsent(p)
  <2>1. PICK l \in Ended : End(p, l)
    BY <1>3 DEF SkipVerify, VerifyFails, PeopleAccepts, DeclineReauth, NoConsent, Ended
  <2>. QED
    BY <1>0, <1>2, <2>1, EndUp DEF AloneParts
<1>4. CASE \/ NoStoredToken(p) \/ StoredToken(p) \/ StaleRecord(p) \/ CurrentRecord(p)
           \/ Verify(p) \/ VerifyAuthError(p) \/ RecordIdentity(p) \/ PeopleScopeError(p)
  <2>1. InitAt(p)
    BY <1>1, InitIsAt DEF Initing
  <2>2. run[p].pc \notin NoClientYet \cup Placed /\ run[p].pc # "path"
    BY <1>1 DEF NoClientYet, Placed
  <2>3. run[p].fresh => run[p].pc \in MayBeFresh
    BY <2>1 DEF InitAt, OtherUpToDate
  <2>4. Kept(p) /\ run'[p].fresh = run[p].fresh
    BY <1>0, <1>4, GotoKeeps, PutKeeps
       DEF NoStoredToken, StoredToken, StaleRecord, CurrentRecord, Verify, VerifyAuthError,
           RecordIdentity, PeopleScopeError
  <2>5. \/ /\ run[p].pc = "token" /\ run'[p].pc = "consent" /\ keyring[run[p].tgt] = None
        \/ /\ run[p].pc = "token" /\ run'[p].pc = "judge"
           /\ keyring[run[p].tgt] # None \/ run[p].sel \in FlakyKeyring
        \/ run[p].pc = "judge" /\ run'[p].pc \in {"reauth", "verify"}
        \/ run[p].pc = "verifying" /\ run'[p].pc = "identity"
        \/ run[p].pc \in {"verifying", "asking"} /\ run'[p].pc = "reauth" /\ ~run[p].fresh
        \/ run[p].pc = "identity" /\ run'[p].pc = "identity_save"
    BY <1>0, <1>4, <2>1, GotoKeeps, PutKeeps
       DEF NoStoredToken, StoredToken, StaleRecord, CurrentRecord, Verify, VerifyAuthError,
           RecordIdentity, PeopleScopeError, TokenSeen, NoTokenSeen, InitAt, PutStep
  <2>6. /\ run'[p].pc \in Simple \ {"record"}
        /\ run'[p].pc \in Verified => run[p].pc \in Verified
        /\ run[p].fresh => run'[p].pc \in MayBeFresh
    BY <2>3, <2>5 DEF Simple, Verified, MayBeFresh
  <2>7. /\ run'[p].pc \in Verified => Opens(run[p].tgt)
        /\ run'[p].pc \in {"judge", "verify"} /\ run[p].sel \notin FlakyKeyring =>
              keyring[run[p].tgt] # None
        /\ run'[p].pc = "consent" => keyring[run[p].tgt] = None
    BY <2>1, <2>5, <2>6 DEF InitAt, InitUpToDate
  <2>8. UpToDate'
    BY <1>1, <2>1, <2>2, <2>4, <2>6, <2>7, InitGoto
  <2>. QED
    BY <1>2, <2>8 DEF AloneParts
<1>. QED
  BY <1>3, <1>4

(* A client is opened to verify a token, its email is recorded, and an     *)
(* init goes on, as a list does.                                           *)
LEMMA AloneVerifies ==
    ASSUME AloneInv, OneAtATime, NEW p \in Proc,
           OpenVerifier(p) \/ SaveIdentity(p) \/ SaveIdentityFails(p)
    PROVE  AloneParts'
<1>0. TypeOK /\ StoresParts /\ OtherUpToDate(run[p])
  BY AloneIs
<1>1. SameStores /\ run[p].pc \in {"verify", "people", "identity_save", "row_save"}
  BY DEF SameStores, OpenVerifier, SaveIdentity, SaveIdentityFails, Recorded, stores,
         envVars, history
<1>2. StoresParts'
  BY <1>0, <1>1, StoresKept
<1>3. CASE OpenVerifier(p)
  <2>1. InitAt(p)
    BY <1>3, InitIsAt DEF OpenVerifier, Initing
  <2>2. /\ run'[p].pc \in {"verifying", "asking"} /\ Kept(p) /\ run'[p].fresh = run[p].fresh
        /\ run'[p].api = run[p].tgt /\ run'[p].tok = keyring[run[p].tgt]
        /\ Opens(run[p].tgt)
    BY <1>0, <1>3, <2>1, OpenKeeps DEF OpenVerifier, InitAt
  <2>3. run[p].pc \notin NoClientYet \cup Placed
    BY <1>3 DEF OpenVerifier, NoClientYet, Placed
  <2>4. Opens(run[p].tgt)' /\ ClientFile(run[p].tgt)' = ClientFile(run[p].tgt)
    BY <1>1, <2>2 DEF SameStores, Opens, ClientOf, ClientFile, Kept
  <2>5. InitUpToDate(run[p])'
    BY <1>1, <2>1, <2>2, <2>3, <2>4
       DEF InitUpToDate, InitAt, Kept, SameStores, NoClientYet, Placed
  <2>6. OtherUpToDate(run[p])'
    BY <1>0, <2>1, <2>2
       DEF OtherUpToDate, InitAt, InitUpToDate, Kept, Others, MayBeFresh, Verified
  <2>. QED
    BY <1>2, <2>5, <2>6, OnlyRun DEF AloneParts
<1>4. CASE SaveIdentity(p) \/ SaveIdentityFails(p)
  <2>1. Recorded(p)
    BY <1>4 DEF SaveIdentity, SaveIdentityFails
  <2>2. CASE End(p, "done")
    BY <1>0, <1>2, <2>2, EndUp DEF Ended, AloneParts
  <2>3. CASE ~End(p, "done")
    <3>1. /\ Kept(p) /\ run'[p].fresh = run[p].fresh
          /\ run'[p].pc = IF run[p].pc = "row_save" THEN "rows" ELSE "people"
          /\ run[p].pc \in {"row_save", "identity_save"}
      BY <1>0, <2>1, <2>3 DEF Recorded, Kept, TypeOK, Run
    <3>2. CASE run[p].pc = "row_save"
      <4>1. OtherUpToDate(run[p])'
        BY <1>0, <3>1, <3>2 DEF OtherUpToDate, Kept, Others, MayBeFresh, Verified
      <4>2. run'[p].pc \notin Initing
        BY <3>1, <3>2 DEF Initing
      <4>. QED
        BY <1>2, <4>1, <4>2, OnlyRun DEF AloneParts
    <3>3. CASE run[p].pc = "identity_save"
      <4>1. InitAt(p)
        BY <3>3, InitIsAt DEF Initing
      <4>2. Opens(run[p].tgt)
        BY <3>3, <4>1 DEF InitAt, InitUpToDate, Verified
      <4>3. /\ run'[p].pc \in Simple \ {"record"} /\ run'[p].pc \in MayBeFresh
            /\ run'[p].pc \notin {"judge", "verify", "consent"}
            /\ run[p].pc \notin NoClientYet \cup Placed /\ run[p].pc # "path"
        BY <3>1, <3>3 DEF Simple, MayBeFresh, Verified, NoClientYet, Placed
      <4>4. UpToDate'
        BY <1>1, <3>1, <4>1, <4>2, <4>3, InitGoto
      <4>. QED
        BY <1>2, <4>4 DEF AloneParts
    <3>. QED
      BY <3>1, <3>2, <3>3
  <2>. QED
    BY <2>2, <2>3
<1>. QED
  BY <1>3, <1>4

(* A keyring that changes for one profile, to nothing or to a token of the *)
(* profile's client that has all the scopes of this release.               *)
LEMMA KeyringSteps ==
    ASSUME OneAtATime, TypeOK, Apart(file), StoresParts, NEW q \in Profile,
           NEW p \in Proc, run[p].pc # "fill",
           NEW t, keyring' = [keyring EXCEPT ![q] = t],
           t # None => t.app = ClientOf(q) /\ ClientOf(q) # None /\ t.scopes = version,
           cut' = cut \/ (t # None /\ cut' = cut \ {ClientFile(q)}),
           UNCHANGED <<file, client, version, origin>>
    PROVE  StoresParts'
<1>0. StoresAgree /\ TornIsCut /\ ScopesHonest
  BY DEF StoresParts
<1>1. \A r \in Profile : keyring'[r] = IF r = q THEN t ELSE keyring[r]
  BY DEF TypeOK
<1>2. \A r \in Profile :
          /\ ClientFile(r)' = ClientFile(r)
          /\ Loaded(file').own[r].scopes = file.own[r].scopes
  BY ClientIs DEF ClientFile
<1>3. t # None => ClientFile(q) # None /\ client[ClientFile(q)] = t.app
                    /\ t.app \notin {None, Torn}
  BY ClientOfType, AccountsAssumption DEF ClientOf
<1>4. \A r \in Profile \ {q} : ClientFile(r) = None \/ ClientFile(r) # ClientFile(q)
  BY <1>0, OwnPathIs, ClientOfType
<1>5. StoresAgree'
  <2>1. ASSUME NEW r \in Profile, keyring'[r] # None
        PROVE  /\ ClientFile(r) # None /\ client[ClientFile(r)] # None
               /\ ClientFile(r) \in cut'
                     \/ client[ClientFile(r)] \in {Torn, keyring'[r].app}
    <3>1. CASE r = q
      BY <1>1, <1>3, <2>1, <3>1
    <3>2. CASE r # q
      <4>1. /\ ClientFile(r) # None /\ client[ClientFile(r)] # None
            /\ ClientFile(r) \in cut \/ client[ClientFile(r)] \in {Torn, keyring[r].app}
        BY <1>0, <1>1, <2>1, <3>2 DEF StoresAgree
      <4>. QED
        BY <1>1, <1>4, <3>2, <4>1
    <3>. QED
      BY <3>1, <3>2
  <2>. QED
    BY <1>0, <1>2, <2>1 DEF StoresAgree
<1>6. \A r \in Profile : file.own[r].scopes # None => version >= file.own[r].scopes
  BY <1>0, ConfigType DEF StoresAgree, TypeOK, Version
<1>7. ScopesHonest'
  <2>1. \A r \in Profile :
            file.own[r].scopes # None /\ keyring[r] # None =>
                keyring[r].scopes >= file.own[r].scopes
    BY <1>0, HonestIs
  <2>. QED
    BY <1>1, <1>2, <1>6, <2>1 DEF ScopesHonest
<1>8. TornIsCut'
  <2>1. \A f \in Path : client[f] = Torn => f \in cut
    BY <1>0, TornAreCut
  <2>. QED
    BY <1>3, <2>1 DEF TornIsCut
<1>. QED
  BY <1>5, <1>7, <1>8 DEF StoresParts

(* Consent, and the token it gives.                                        *)
LEMMA AloneConsents ==
    ASSUME AloneInv, OneAtATime, NEW p \in Proc,
           ConfirmReauth(p) \/ Consent(p) \/ StoreToken(p) \/ RecordScopes(p)
    PROVE  AloneParts'
<1>. DEFINE q == run[p].tgt
<1>0. /\ TypeOK /\ StoresParts /\ OtherUpToDate(run[p]) /\ KnowsTarget
      /\ Loaded(file) = file /\ Apart(file)
  BY AloneIs
<1>1. InitAt(p) /\ q \in Profile
  BY InitIsAt DEF ConfirmReauth, Consent, StoreToken, RecordScopes, Initing, InitAt
<1>2. /\ run[p].pc \in {"reauth", "consent", "store", "record"}
      /\ run[p].pc \notin NoClientYet \cup Placed
  BY DEF ConfirmReauth, Consent, StoreToken, RecordScopes, NoClientYet, Placed
<1>3. /\ ClientFile(q) # None /\ client[ClientFile(q)] # None
      /\ run[p].path = OwnPath(file, q)
  BY <1>1, <1>2 DEF InitAt, InitUpToDate
<1>4. CASE ConfirmReauth(p)
  <2>1. /\ run'[p].pc = "consent" /\ Kept(p) /\ UNCHANGED <<file, client, version, origin, cut>>
        /\ run[p].pc = "reauth" /\ run'[p].fresh = run[p].fresh
        /\ keyring' = [keyring EXCEPT ![q] = None]
    BY <1>0, <1>1, <1>4, GotoKeeps DEF ConfirmReauth, envVars, history, InitAt
  <2>2. StoresParts'
    BY <1>0, <1>1, <2>1, KeyringSteps
  <2>3. ~run[p].fresh
    BY <1>0, <2>1 DEF OtherUpToDate, MayBeFresh, Verified
  <2>4. q' = q /\ keyring'[q] = None
    BY <1>0, <1>1, <2>1 DEF Kept, TypeOK
  <2>5. ClientFile(q)' = ClientFile(q)
    BY <2>1, <2>4 DEF ClientFile
  <2>6. /\ ClientFile(q)' # None /\ client'[ClientFile(q)'] # None
        /\ run'[p].pc \in Simple /\ run'[p].pc \notin Verified /\ run[p].pc # "path"
    BY <1>3, <2>1, <2>5 DEF Simple, Verified
  <2>7. UpToDate'
    BY <1>1, <2>1, <2>3, <2>4, <2>6, InitGoesOn
  <2>. QED
    BY <2>2, <2>7 DEF AloneParts
<1>5. CASE Consent(p)
  <2>. DEFINE t == [for |-> q, app |-> ClientOf(q), scopes |-> version]
  <2>1. run' = [run EXCEPT ![p].tok = t, ![p].pc = "store"] /\ SameStores
        /\ run[p].pc = "consent" /\ ClientOf(q) # None
    BY <1>5 DEF Consent, SameStores, stores, envVars, history
  <2>2. t.app = ClientOf(q) /\ t.scopes = version
    OBVIOUS
  <2>. HIDE DEF t
  <2>3. run'[p].pc = "store" /\ Kept(p) /\ run'[p].tok = t /\ run'[p].fresh = run[p].fresh
    BY <1>0, <2>1 DEF TypeOK, Run, Kept
  <2>4. StoresParts'
    BY <1>0, <2>1, StoresKept
  <2>5. /\ ClientOf(run[p].tgt)' = ClientOf(q)
        /\ ClientFile(run[p].tgt)' = ClientFile(q)
    BY <2>1, <2>3 DEF SameStores, ClientOf, ClientFile, Kept
  <2>6. ~run[p].fresh /\ keyring[q] = None
    BY <1>0, <1>1, <2>1 DEF OtherUpToDate, MayBeFresh, Verified, InitAt, InitUpToDate
  <2>7. InitUpToDate(run[p])'
    BY <1>1, <1>3, <2>1, <2>2, <2>3, <2>5, <2>6
       DEF InitUpToDate, InitAt, SameStores, Kept, NoClientYet, Placed, Verified
  <2>8. OtherUpToDate(run[p])'
    BY <1>0, <2>3, <2>6 DEF OtherUpToDate, Kept, Others
  <2>. QED
    BY <2>4, <2>7, <2>8, OnlyRun DEF AloneParts
<1>6. CASE StoreToken(p)
  <2>1. /\ run'[p].pc = "record" /\ Kept(p) /\ UNCHANGED <<file, client, version, origin>>
        /\ run[p].pc = "store" /\ run'[p].fresh = TRUE
        /\ keyring' = [keyring EXCEPT ![q] = run[p].tok]
        /\ cut' = cut \ {ClientFile(q)}
    <3>1. run' = [run EXCEPT ![p].fresh = TRUE, ![p].pc = "record"]
      BY <1>6 DEF StoreToken
    <3>2. run'[p].pc = "record" /\ Kept(p) /\ run'[p].fresh = TRUE
      BY <1>0, <3>1 DEF TypeOK, Run, Kept
    <3>. QED
      BY <1>1, <1>6, <3>2 DEF StoreToken, InitAt
  <2>2. run[p].tok \in Token /\ run[p].tok # None
    BY <1>0, <2>1, TokenAssumption DEF KnowsTarget, WithToken
  <2>3. run[p].tok.app = ClientOf(q) /\ ClientOf(q) # None /\ run[p].tok.scopes = version
    BY <1>1, <2>1 DEF InitAt, InitUpToDate
  <2>4. StoresParts'
    BY <1>0, <1>1, <2>1, <2>2, <2>3, KeyringSteps
  <2>5. keyring'[q] = run[p].tok /\ q' = q
    BY <1>0, <1>1, <2>1 DEF Kept, TypeOK
  <2>6. ClientFile(q)' = ClientFile(q) /\ ClientOf(q)' = ClientOf(q)
    BY <2>1, <2>5 DEF ClientFile, ClientOf
  <2>7. /\ ClientFile(q)' # None /\ client'[ClientFile(q)'] # None
        /\ Opens(q)' /\ keyring'[q].scopes = version'
        /\ run'[p].pc \in Simple /\ run'[p].pc \in MayBeFresh
    BY <1>3, <2>1, <2>2, <2>3, <2>5, <2>6 DEF Simple, MayBeFresh, Opens
  <2>8. UpToDate'
    BY <1>1, <2>1, <2>5, <2>7, InitGoesOn
  <2>. QED
    BY <2>4, <2>8 DEF AloneParts
<1>7. CASE RecordScopes(p)
  <2>. DEFINE o == [client |-> PathFor(file, q, run[p].path), scopes |-> version]
              d == [file EXCEPT !.own[q] = o]
  <2>1. SameStores /\ run[p].pc = "record"
    BY <1>7 DEF RecordScopes, SameStores, stores, envVars, history
  <2>2. PathFor(file, q, run[p].path) = OwnPath(file, q)
    BY <1>3 DEF OwnPath, PathFor
  <2>3. d = WithOwn(file, q, version)
    BY <2>2 DEF WithOwn
  <2>4. run' = [run EXCEPT ![p].cfg = d, ![p].pc = "record_save"]
    BY <1>0, <1>7 DEF RecordScopes
  <2>. HIDE DEF d, o
  <2>5. /\ run'[p].pc = "record_save" /\ run'[p].cfg = d /\ run'[p].path = run[p].path
        /\ run'[p].op = run[p].op /\ run'[p].sel = run[p].sel /\ run'[p].tgt = q
        /\ run'[p].fresh = run[p].fresh
    BY <1>0, <2>4 DEF TypeOK, Run
  <2>6. run[p].fresh /\ keyring[q].scopes = version /\ Opens(q)
    BY <1>1, <2>1 DEF InitAt, InitUpToDate
  <2>7. Opens(run[p].tgt)' /\ ClientFile(run[p].tgt)' = ClientFile(q)
    BY <2>1, <2>5, <2>6 DEF SameStores, Opens, ClientOf, ClientFile
  <2>8. InitUpToDate(run[p])'
    BY <1>1, <1>3, <2>1, <2>3, <2>5, <2>6, <2>7
       DEF InitUpToDate, InitAt, SameStores, NoClientYet, Placed, Verified
  <2>9. OtherUpToDate(run[p])'
    BY <1>0, <2>5 DEF OtherUpToDate, Others, MayBeFresh
  <2>10. StoresParts'
    BY <1>0, <2>1, StoresKept
  <2>. QED
    BY <2>8, <2>9, <2>10, OnlyRun DEF AloneParts
<1>. QED
  BY <1>4, <1>5, <1>6, <1>7

-----------------------------------------------------------------------------
(* The steps of the other commands.                                        *)

LEMMA AloneUses ==
    ASSUME AloneInv, OneAtATime, [Next]_vars, NEW p \in Proc, UseStep(p)
    PROVE  AloneParts'
<1>. USE DEF stores, envVars, history
<1>0. /\ TypeOK /\ StoresParts /\ StoresAgree /\ TornIsCut /\ ScopesHonest
      /\ OtherUpToDate(run[p]) /\ KnowsTarget
      /\ Loaded(file) = file /\ Apart(file) /\ Saved(run[p].cfg) = run[p].cfg
      /\ \A q \in Profile : ClientFile(q) = file.own[q].client
  BY AloneIs, ApartOps DEF TypeOK, Run
<1>1. CASE UseLoad(p)
  <2>. DEFINE d == [file EXCEPT !.active = run[p].tgt]
  <2>1. SameStores /\ run[p].pc = "load"
    BY <1>1 DEF UseLoad, SameStores
  <2>2. run' = [run EXCEPT ![p].cfg = d, ![p].pc = "use_save"]
    BY <1>0, <1>1 DEF UseLoad
  <2>3. d = [file EXCEPT !.active = run[p].tgt]
    OBVIOUS
  <2>. HIDE DEF d
  <2>4. /\ run'[p].pc = "use_save" /\ run'[p].cfg = d
        /\ run'[p].op = run[p].op /\ run'[p].tgt = run[p].tgt
        /\ run'[p].fresh = run[p].fresh
    BY <1>0, <2>2 DEF TypeOK, Run
  <2>5. OtherUpToDate(run[p])'
    BY <1>0, <2>1, <2>3, <2>4 DEF OtherUpToDate, Others, SameStores, MayBeFresh, Verified
  <2>6. run'[p].pc \notin Initing
    BY <2>4 DEF Initing
  <2>7. StoresParts'
    BY <1>0, <2>1, StoresKept
  <2>. QED
    BY <2>5, <2>6, <2>7, OnlyRun DEF AloneParts
<1>2. CASE UseActive(p) \/ SaveRefused(p)
  <2>1. PICK l \in Ended : End(p, l)
    BY <1>2 DEF UseActive, SaveRefused, Ended
  <2>2. SameStores /\ run[p].pc # "fill"
    BY <1>2 DEF UseActive, SaveRefused, SameStores
  <2>. QED
    BY <1>0, <2>1, <2>2, EndUp, StoresKept DEF AloneParts
<1>3. CASE UseSave(p)
  <2>1. UpToDate'
    BY <1>0, <1>3, EndUp DEF UseSave, Ended
  <2>2. file' = [file EXCEPT !.active = run[p].tgt]
    BY <1>0, <1>3 DEF UseSave, OtherUpToDate
  <2>3. file'.own = file.own /\ UNCHANGED <<client, keyring, version, origin, cut>>
    BY <1>0, <1>3, <2>2 DEF UseSave, TypeOK, Config
  <2>4. TypeOK' /\ Apart(file)'
    BY TypeStep, ApartStep DEF AloneInv, ApartInv, ApartParts
  <2>5. \A q \in Profile : ClientFile(q)' = ClientFile(q)
    BY <1>0, <2>3, <2>4, ClientIsNext
  <2>6. StoresAgree'
    BY <1>0, <2>3, <2>5 DEF StoresAgree
  <2>7. ScopesHonest'
    BY <1>0, <2>3, <2>4, HonestIs, HonestIsNext
  <2>8. TornIsCut'
    <3>1. run[p].pc # "fill"
      BY <1>3 DEF UseSave
    <3>. QED
      BY <1>0, <2>3, <3>1, TornAreCut DEF TornIsCut
  <2>. QED
    BY <2>1, <2>6, <2>7, <2>8 DEF AloneParts, StoresParts
<1>. QED
  BY <1>1, <1>2, <1>3 DEF UseStep

LEMMA AloneOthers ==
    ASSUME AloneInv, OneAtATime, NEW p \in Proc, OtherStep(p)
    PROVE  AloneParts'
<1>. USE DEF stores, envVars, history
<1>0. /\ TypeOK /\ StoresParts /\ OtherUpToDate(run[p]) /\ KnowsTarget
      /\ Loaded(file) = file /\ Apart(file)
  BY AloneIs
<1>1. ASSUME NEW a \in App, NEW v \in Version, SetCredential(p, a, v)
      PROVE  AloneParts'
  BY <1>0, <1>1 DEF SetCredential, OtherUpToDate
<1>2. CASE OpenFails(p) \/ CommandEnds(p)
  <2>1. PICK l \in Ended : End(p, l)
    BY <1>2 DEF OpenFails, CommandEnds, Ended
  <2>2. SameStores /\ run[p].pc # "fill"
    BY <1>2 DEF OpenFails, CommandEnds, SameStores
  <2>. QED
    BY <1>0, <2>1, <2>2, EndUp, StoresKept DEF AloneParts
<1>3. CASE OpenClient(p) \/ \E q \in Profile : CheckRow(p, q)
  <2>1. SameStores /\ run[p].pc \in {"open", "rows"}
    BY <1>3 DEF OpenClient, CheckRow, SameStores
  <2>2. /\ run'[p].pc \in {"running", "row"} /\ Kept(p) /\ run'[p].fresh = run[p].fresh
        /\ run'[p].tok = keyring[run'[p].api]
    BY <1>0, <1>3, OpenKeeps DEF OpenClient, CheckRow
  <2>3. OtherUpToDate(run[p])'
    BY <1>0, <2>1, <2>2
       DEF OtherUpToDate, Kept, Others, MayBeFresh, Verified, SameStores
  <2>4. run'[p].pc \notin Initing
    BY <2>2 DEF Initing
  <2>5. StoresParts'
    BY <1>0, <2>1, StoresKept
  <2>. QED
    BY <2>3, <2>4, <2>5, OnlyRun DEF AloneParts
<1>4. CASE RecordRow(p)
  <2>1. /\ SameStores /\ Kept(p) /\ run[p].pc = "row" /\ run'[p].pc = "row_save"
        /\ run'[p].fresh = run[p].fresh
    BY <1>0, <1>4, PutKeeps DEF RecordRow, PutStep, SameStores
  <2>2. OtherUpToDate(run[p])'
    BY <1>0, <2>1 DEF OtherUpToDate, Others, Kept, MayBeFresh, Verified
  <2>3. run'[p].pc \notin Initing
    BY <2>1 DEF Initing
  <2>4. StoresParts'
    BY <1>0, <2>1, StoresKept
  <2>. QED
    BY <2>2, <2>3, <2>4, OnlyRun DEF AloneParts
<1>5. CASE Refresh(p)
  <2>1. run[p].tok = keyring[run[p].api] /\ run[p].api \in Profile
    <3>1. run[p].pc \in WithApi
      BY <1>5 DEF Refresh
    <3>2. CASE run[p].pc \in {"verifying", "asking"}
      BY <1>0, <3>1, <3>2, InitIsAt DEF InitAt, InitUpToDate, KnowsTarget, Initing
    <3>3. CASE run[p].pc \in {"running", "row"}
      BY <1>0, <3>1, <3>3 DEF OtherUpToDate, KnowsTarget
    <3>. QED
      BY <3>1, <3>2, <3>3 DEF WithApi
  <2>2. keyring' = keyring
    BY <1>0, <1>5, <2>1 DEF Refresh, TypeOK
  <2>3. SameStores /\ run' = run /\ run[p].pc # "fill"
    BY <1>5, <2>2 DEF Refresh, SameStores, WithApi
  <2>4. StoresParts'
    BY <1>0, <2>3, StoresKept
  <2>5. UpToDate'
    BY <2>3, StutterUp DEF AloneInv
  <2>. QED
    BY <2>4, <2>5 DEF AloneParts
<1>6. CASE ClearToken(p)
  <2>1. /\ UNCHANGED <<file, client, version, origin, cut>> /\ Effective(p) \in Profile
        /\ keyring' = [keyring EXCEPT ![Effective(p)] = None] /\ run[p].pc # "fill"
    BY <1>0, <1>6, OpenSteps DEF ClearToken
  <2>2. StoresParts'
    BY <1>0, <2>1, KeyringSteps
  <2>3. End(p, "done")
    BY <1>0, <1>6 DEF ClearToken, OtherUpToDate
  <2>. QED
    BY <1>0, <2>2, <2>3, EndUp DEF Ended, AloneParts
<1>7. ~ClearConfig(p) /\ ~ClearCache(p)
  BY <1>0 DEF ClearConfig, ClearCache, OtherUpToDate
<1>. QED
  BY <1>1, <1>2, <1>3, <1>4, <1>5, <1>6, <1>7 DEF OtherStep

(* An interrupt, which may leave a client file torn.                       *)
LEMMA AloneStops ==
    ASSUME AloneInv, OneAtATime, NEW p \in Proc, Stop(p)
    PROVE  AloneParts'
<1>0. TypeOK /\ StoresParts /\ StoresAgree /\ TornIsCut /\ ScopesHonest
  BY AloneIs
<1>1. End(p, "failed") /\ UNCHANGED <<file, client, keyring, version, origin>>
  BY DEF Stop, stores
<1>2. UpToDate'
  BY <1>0, <1>1, EndUp DEF Ended
<1>3. CASE run[p].pc # "fill"
  <2>1. SameStores
    BY <1>1, <1>3 DEF Stop, SameStores
  <2>. QED
    BY <1>0, <1>2, <1>3, <2>1, StoresKept DEF AloneParts
<1>4. CASE run[p].pc = "fill"
  <2>. DEFINE q == run[p].tgt
  <2>1. InitAt(p)
    BY <1>4, InitIsAt DEF Initing
  <2>2. run[p].cfg.own[q].client = run[p].path
    BY <1>0, <1>4, <2>1, WithOwnIs DEF InitAt, InitUpToDate, TypeOK
  <2>3. cut' = cut \cup {run[p].path}
    BY <1>4, <2>2 DEF Stop
  <2>4. \A r \in Proc : r = p
    BY DEF OneAtATime
  <2>5. TornIsCut'
    BY <1>0, <1>1, <2>3, <2>4 DEF TornIsCut
  <2>6. \A r \in Profile : ClientFile(r)' = ClientFile(r)
    BY <1>1 DEF ClientFile
  <2>7. StoresAgree' /\ ScopesHonest'
    BY <1>0, <1>1, <2>3, <2>6 DEF StoresAgree, ScopesHonest
  <2>. QED
    BY <1>2, <2>5, <2>7 DEF AloneParts, StoresParts
<1>. QED
  BY <1>3, <1>4

-----------------------------------------------------------------------------
(* What an invocation knows, and what the stores say, survives every step. *)
LEMMA AloneStep ==
    ASSUME AloneInv, OneAtATime, [Next]_vars
    PROVE  AloneParts'
<1>0. TypeOK /\ StoresParts /\ StoresAgree /\ TornIsCut /\ ScopesHonest /\ Apart(file)
  BY AloneIs
<1>1. CASE UNCHANGED vars
  <2>1. SameStores /\ run' = run
    BY <1>1 DEF vars, SameStores
  <2>2. UpToDate'
    BY <2>1, StutterUp DEF AloneInv
  <2>3. StoresParts'
    BY <1>0, <2>1
       DEF StoresParts, SameStores, StoresAgree, TornIsCut, ScopesHonest, ClientFile
  <2>. QED
    BY <2>2, <2>3 DEF AloneParts
<1>2. ASSUME NEW p \in Proc, NEW o \in Ops, NEW s \in Select,
             NEW q \in ArgOf(o), NEW c \in NewOf(o), Start(p, o, s, q, c)
      PROVE  AloneParts'
  <2>1. SameStores /\ run[p].pc # "fill"
    BY <1>2 DEF Start, SameStores, history, Ended
  <2>2. run'[p].pc = FirstStep(o) /\ run'[p].op = o /\ run'[p].fresh = FALSE
    BY <1>0, <1>2 DEF Start, TypeOK, IdleRun
  <2>3. o \in Op /\ o \notin {"set-credential", "clear-all"}
    BY AccountsAssumption DEF OneAtATime
  <2>4. run'[p].pc \notin Initing
    BY <2>2, <2>3 DEF FirstStep, Op, Initing
  <2>5. OtherUpToDate(run[p])'
    BY <2>2, <2>3 DEF FirstStep, Op, OtherUpToDate, Others
  <2>. QED
    BY <1>0, <2>1, <2>4, <2>5, OnlyRun, StoresKept DEF AloneParts
<1>3. CASE Upgrade
  <2>1. /\ UNCHANGED <<file, client, keyring, origin, cut, run>> /\ version' = version + 1
        /\ \A p \in Proc : run[p].pc \in Ended
    BY <1>3 DEF Upgrade, history
  <2>2. StoresAgree'
    <3>1. \A q \in Profile : file.own[q].scopes # None => file.own[q].scopes <= version + 1
      <4>1. \A q \in Profile : file.own[q].scopes \in Version \cup {None}
        BY <1>0, ConfigType DEF TypeOK
      <4>2. version \in Nat /\ Version \subseteq Nat
        BY <1>0 DEF TypeOK, Version
      <4>3. \A q \in Profile : file.own[q].scopes # None => file.own[q].scopes <= version
        BY <1>0 DEF StoresAgree
      <4>4. \A v \in Nat, w \in Nat : v <= w => v <= w + 1
        OBVIOUS
      <4>. QED
        BY <4>1, <4>2, <4>3, <4>4
    <3>. QED
      BY <1>0, <2>1, <3>1 DEF StoresAgree, ClientFile
  <2>3. ScopesHonest' /\ TornIsCut'
    BY <1>0, <2>1 DEF ScopesHonest, TornIsCut
  <2>4. \A p \in Proc : run'[p].pc \notin Initing
    BY <2>1, Steps
  <2>5. \A p \in Proc : OtherUpToDate(run[p])'
    BY <2>1, AloneIs DEF OtherUpToDate, Ended, Others
  <2>. QED
    BY <2>2, <2>3, <2>4, <2>5 DEF AloneParts, StoresParts, UpToDate
<1>4. ASSUME NEW p \in Proc, InitStep(p)
      PROVE  AloneParts'
  BY <1>4, AloneAnnounces, AloneChooses, AloneWrites, AloneSaves, AloneLooks, AloneVerifies,
     AloneConsents DEF InitStep
<1>. QED
  BY <1>1, <1>2, <1>3, <1>4, AloneUses, AloneOthers, AloneStops DEF Next

(* The machines that a release with profiles has set up agree.             *)
LEMMA AloneStarts ==
    ASSUME Init, StartsApart
    PROVE  AloneInv
<1>1. /\ file \in InitFile /\ file.top = NoneOwned /\ version = 1
      /\ \A q \in Profile :
            /\ file.own[q].scopes \in {None, 1}
            /\ \A r \in Profile \ {q} :
                  file.own[q].client # None => file.own[q].client \notin {r, file.own[r].client}
  BY DEF Init, StartsApart
<1>2. TypeOK /\ ApartInv
  BY ApartStarts, InitType DEF StartsApart
<1>3. Apart(file) /\ Loaded(file) = file /\ \A q \in Profile : ClientFile(q) = file.own[q].client
  BY <1>2, ClientIs DEF ApartInv
<1>4. \A q \in Profile : origin[q] = file.own[q].client
  BY <1>3 DEF Init
<1>5. \A q \in Profile : keyring[q] # None =>
          /\ ClientOf(q) # None /\ keyring[q].app = ClientOf(q)
          /\ keyring[q].scopes = IF file.own[q].scopes = None THEN 1 ELSE file.own[q].scopes
  <2>. SUFFICES ASSUME NEW q \in Profile, keyring[q] # None
                PROVE  /\ ClientOf(q) # None /\ keyring[q].app = ClientOf(q)
                       /\ keyring[q].scopes = IF file.own[q].scopes = None THEN 1
                                              ELSE file.own[q].scopes
    OBVIOUS
  <2>1. keyring[q] \in InitToken(q)
    BY DEF Init
  <2>. QED
    BY <1>3, <2>1 DEF InitToken
<1>6. StoresAgree
  <2>1. \A q \in Profile : keyring[q] # None =>
            /\ ClientFile(q) # None /\ client[ClientFile(q)] # None
            /\ client[ClientFile(q)] = keyring[q].app
    BY <1>5 DEF ClientOf
  <2>. QED
    BY <1>1, <1>4, <2>1 DEF StoresAgree
<1>7. ScopesHonest
  BY <1>1, <1>2, <1>3, <1>5, HonestIs
<1>8. TornIsCut
  <2>1. client \in [Path -> App \cup {None}]
    BY AccountsAssumption DEF Init
  <2>. QED
    BY <2>1, AccountsAssumption DEF TornIsCut
<1>9. UpToDate
  BY DEF Init, IdleRun, UpToDate, OtherUpToDate, Initing, Others
<1>. QED
  BY <1>2, <1>6, <1>7, <1>8, <1>9 DEF AloneInv

(* AloneInv always holds when invocations follow one another.              *)
LEMMA AloneInvHolds ==
    ASSUME OneAtATime, StartsApart
    PROVE  Spec => []AloneInv
<1>1. Init => AloneInv
  BY AloneStarts
<1>2. AloneInv /\ [Next]_vars => AloneInv'
  <2>. SUFFICES ASSUME AloneInv, [Next]_vars
                PROVE  AloneInv'
    OBVIOUS
  <2>1. TypeOK' /\ KnowsTarget'
    BY TypeStep DEF AloneInv, ApartInv
  <2>2. ApartParts'
    BY ApartStep DEF AloneInv
  <2>3. AloneParts'
    BY AloneStep
  <2>. QED
    BY <2>1, <2>2, <2>3 DEF AloneInv, AloneParts, StoresParts, ApartInv, ApartParts
<1>. QED
  BY <1>1, <1>2, PTL DEF Spec

-----------------------------------------------------------------------------
(* What the steps that the properties speak of can be.                     *)

(* The places from which an init ends well.                                *)
LEMMA InitEnds ==
    ASSUME AloneInv, OneAtATime, [Next]_vars, NEW p \in Proc,
           run[p].op = "init", run[p].pc \notin Ended, run'[p].pc \in {"done", "accepted"}
    PROVE  /\ SameStores /\ run[p].pc \in {"verify", "identity_save", "asking"}
           /\ run'[p].pc = "done" => run[p].pc \in Verified \/ run[p].fresh
           /\ run'[p].pc = "accepted" => run[p].pc = "verify"
<1>. USE DEF stores, envVars, history, SameStores
<1>0. /\ TypeOK /\ OtherUpToDate(run[p]) /\ {"done", "accepted", "failed"} \subseteq Ended
      /\ \A r \in Proc : r = p
  BY AloneIs DEF Ended, OneAtATime
<1>1. ~Upgrade /\ ~UNCHANGED vars
  BY <1>0 DEF Upgrade, vars
<1>2. ASSUME NEW o \in Ops, NEW s \in Select, NEW q \in ArgOf(o), NEW c \in NewOf(o)
      PROVE  ~Start(p, o, s, q, c)
  BY DEF Start
<1>3. \A l : Goto(p, l) => l \in {"done", "accepted"}
  BY <1>0, GotoKeeps
<1>4. \A l \in Ended : End(p, l) => l = run'[p].pc
  BY <1>0, EndFrame
<1>5. ~Stop(p)
  BY <1>0, <1>4 DEF Stop
<1>6. ~UseStep(p)
  <2>1. ~UseLoad(p) /\ ~UseActive(p) /\ ~UseSave(p)
    BY <1>0 DEF UseLoad, UseActive, UseSave, OtherUpToDate, Others
  <2>2. ~SaveRefused(p)
    BY <1>0, <1>4 DEF SaveRefused
  <2>. QED
    BY <2>1, <2>2 DEF UseStep
<1>7. ~OtherStep(p)
  <2>1. ~Refresh(p)
    BY <1>0 DEF Refresh, WithApi, Ended
  <2>. QED
    BY <1>0, <2>1
       DEF OtherStep, SetCredential, OpenClient, OpenFails, CommandEnds, RecordRow,
           CheckRow, ClearToken, ClearConfig, ClearCache, OtherUpToDate, Others
<1>9. \A t, l : run' = [run EXCEPT ![p].tok = t, ![p].pc = l] => l \in {"done", "accepted"}
  BY <1>0 DEF TypeOK, Run
<1>10. /\ ~Describe(p) /\ ~DescribeBlind(p) /\ ~ResolvePath(p) /\ ~AdoptClient(p)
       /\ \A c \in App : ~ImportClient(p, c)
       /\ ~Consent(p) /\ ~RecordScopes(p) /\ ~StoreToken(p)
  <2>1. ~Describe(p) /\ ~DescribeBlind(p) /\ ~ResolvePath(p) /\ ~StoreToken(p)
    BY <1>0 DEF Describe, DescribeBlind, ResolvePath, StoreToken, TypeOK, Run
  <2>2. ~AdoptClient(p) /\ ~RecordScopes(p)
    <3>1. ASSUME AdoptClient(p) \/ RecordScopes(p) PROVE FALSE
      <4>1. PICK c, l : /\ run' = [run EXCEPT ![p].cfg = c, ![p].pc = l]
                        /\ l \in {"adopt", "record_save"}
        BY <3>1, Zenon DEF AdoptClient, RecordScopes
      <4>2. run'[p].pc = l
        BY <1>0, <4>1 DEF TypeOK, Run
      <4>. QED
        BY <1>0, <4>1, <4>2
    <3>. QED
      BY <3>1
  <2>3. ASSUME NEW a \in App, ImportClient(p, a) PROVE FALSE
    <3>1. PICK c : run' = [run EXCEPT ![p].cfg = c, ![p].new = a, ![p].pc = "check"]
      BY <2>3 DEF ImportClient
    <3>. QED
      BY <1>0, <3>1 DEF TypeOK, Run
  <2>4. ~Consent(p)
    BY <1>9 DEF Consent
  <2>. QED
    BY <2>1, <2>2, <2>3, <2>4
<1>11. ~RecordIdentity(p) /\ ~OpenVerifier(p)
  BY <1>0, PutKeeps, OpenKeeps DEF RecordIdentity, PutStep, OpenVerifier
<1>12. /\ ~KeepClient(p) /\ ~AcceptClient(p) /\ ~TruncateClient(p) /\ ~WriteClient(p)
       /\ ~SaveClient(p)
       /\ ~NoStoredToken(p) /\ ~StoredToken(p) /\ ~StaleRecord(p) /\ ~CurrentRecord(p)
       /\ ~Verify(p) /\ ~VerifyAuthError(p) /\ ~PeopleScopeError(p) /\ ~ConfirmReauth(p)
       /\ ~SaveRecord(p) /\ ~SaveRecordFails(p)
  BY <1>3 DEF KeepClient, AcceptClient, TruncateClient, WriteClient, SaveClient,
              NoStoredToken, StoredToken, StaleRecord, CurrentRecord, Verify,
              VerifyAuthError, PeopleScopeError, ConfirmReauth, SaveRecord, SaveRecordFails
<1>13. /\ ~RefuseClient(p) /\ ~RefuseTorn(p) /\ ~VerifyFails(p) /\ ~DeclineReauth(p)
       /\ ~NoConsent(p)
  BY <1>0, <1>4 DEF RefuseClient, RefuseTorn, VerifyFails, DeclineReauth, NoConsent
<1>14. CASE SkipVerify(p)
  BY <1>0, <1>4, <1>14 DEF SkipVerify
<1>15. CASE PeopleAccepts(p)
  BY <1>0, <1>4, <1>15 DEF PeopleAccepts, Verified
<1>16. CASE SaveIdentity(p) \/ SaveIdentityFails(p)
  <2>1. SameStores /\ Recorded(p)
    BY <1>16 DEF SaveIdentity, SaveIdentityFails
  <2>2. run[p].pc = "identity_save"
    BY <1>0, <2>1 DEF Recorded, OtherUpToDate, Others
  <2>3. run'[p].pc = "done"
    <3>1. CASE End(p, "done")
      BY <1>0, <1>4, <3>1
    <3>2. CASE ~End(p, "done")
      BY <1>0, <2>1, <2>2, <3>2 DEF Recorded, TypeOK, Run
    <3>. QED
      BY <3>1, <3>2
  <2>. QED
    BY <2>1, <2>2, <2>3 DEF Verified
<1>17. InitStep(p)
  BY <1>0, <1>1, <1>2, <1>5, <1>6, <1>7 DEF Next
<1>. QED
  BY <1>10, <1>11, <1>12, <1>13, <1>14, <1>15, <1>16, <1>17 DEF InitStep

(* config.yml keeps the client of every profile that has one.              *)
LEMMA FileSteps ==
    ASSUME AloneInv, [Next]_vars, NEW q \in Profile, file.own[q].client # None
    PROVE  file'.own[q].client = file.own[q].client
<1>. USE DEF stores, envVars
<1>0. /\ TypeOK /\ StoresAgree /\ Apart(file)
      /\ \A p \in Proc : OtherUpToDate(run[p]) /\ Saved(run[p].cfg) = run[p].cfg
      /\ \A r \in Profile : ClientFile(r) = file.own[r].client
  BY AloneIs, ApartOps DEF TypeOK, Run
<1>1. ASSUME NEW p \in Proc, SaveClient(p) \/ SaveRecord(p), file' # file
      PROVE  file'.own[q].client = file.own[q].client
  <2>. DEFINE t == run[p].tgt
  <2>1. InitAt(p)
    BY <1>1, InitIsAt DEF SaveClient, SaveRecord, Initing
  <2>2. file' = run[p].cfg
    BY <1>0, <1>1 DEF SaveClient, SaveRecord
  <2>3. PICK s : file' = WithOwn(file, t, s)
    BY <1>1, <2>1, <2>2 DEF SaveClient, SaveRecord, InitAt, InitUpToDate, Placed
  <2>4. /\ file'.own[t].client = OwnPath(file, t)
        /\ \A r \in Profile \ {t} : file'.own[r] = file.own[r]
    BY <1>0, <2>1, <2>3, WithOwnIs DEF InitAt, TypeOK
  <2>5. file.own[t].client # None => file.own[t].client = OwnPath(file, t)
    BY <1>0, <2>1, OwnPathIs DEF InitAt
  <2>. QED
    BY <2>4, <2>5
<1>2. ASSUME NEW p \in Proc, UseSave(p)
      PROVE  file'.own = file.own
  BY <1>0, <1>2 DEF UseSave, OtherUpToDate, TypeOK, Config
<1>3. \A p \in Proc : ~ClearConfig(p)
  BY <1>0 DEF ClearConfig, OtherUpToDate
<1>4. ASSUME NEW p \in Proc, InitStep(p), ~SaveClient(p), ~SaveRecord(p)
      PROVE  file' = file
  BY <1>4 DEF InitStep,
         Describe, DescribeBlind, ResolvePath, KeepClient, AdoptClient, RefuseTorn,
         ImportClient, RefuseClient, AcceptClient, TruncateClient, WriteClient,
         NoStoredToken, StoredToken, StaleRecord, CurrentRecord, SkipVerify, OpenVerifier,
         Verify, VerifyAuthError, VerifyFails, RecordIdentity, SaveIdentity,
         SaveIdentityFails, PeopleAccepts, PeopleScopeError, ConfirmReauth,
         DeclineReauth, Consent, NoConsent, StoreToken, RecordScopes, SaveRecordFails
<1>5. ASSUME NEW p \in Proc, UseStep(p) \/ OtherStep(p), ~UseSave(p), ~ClearConfig(p)
      PROVE  file' = file
  BY <1>5 DEF UseStep, OtherStep, UseLoad, UseActive, SaveRefused,
         SetCredential, OpenClient, OpenFails, Refresh, CommandEnds, RecordRow, CheckRow,
         ClearToken, ClearCache
<1>6. \/ file' = file
      \/ \E p \in Proc : InitStep(p) \/ UseStep(p) \/ OtherStep(p)
  BY DEF Next, vars, Upgrade, Start, Stop
<1>. QED
  BY <1>1, <1>2, <1>3, <1>4, <1>5, <1>6

-----------------------------------------------------------------------------
(* The theorems.                                                           *)

(* Through any sequence of inits, switches, checks and clears, failed      *)
(* saves and interrupts, and upgrades to releases that ask for more, the   *)
(* scopes that config.yml records for a profile were granted to its token: *)
(* the check for stale scopes lets no stale token pass.                    *)
THEOREM ScopesHonestHolds ==
    ASSUME OneAtATime, StartsApart
    PROVE  Spec => []ScopesHonest
<1>1. AloneInv => ScopesHonest
  BY DEF AloneInv
<1>. QED
  BY <1>1, AloneInvHolds, PTL

(* A profile's client file, where it can be read, stays the client that    *)
(* the profile's token was granted through: an init imports another one    *)
(* only when no token would be left without its client.  Where a write of  *)
(* the file was interrupted nothing is claimed until the next consent.     *)
THEOREM ClientMatchesHolds ==
    ASSUME OneAtATime, StartsApart
    PROVE  Spec => []ClientMatches
<1>1. AloneInv => ClientMatches
  BY DEF AloneInv, StoresAgree, ClientMatches, Opens, ClientOf
<1>. QED
  BY <1>1, AloneInvHolds, PTL

(* No init stores its token over one that is still there: it consents      *)
(* anew only after it saw that the keyring has none or deleted the one it  *)
(* has, and takes a keyring that does not open for one that has.           *)
THEOREM NeverClobbersHolds ==
    ASSUME OneAtATime, StartsApart
    PROVE  Spec => []NeverClobbers
<1>1. AloneInv => NeverClobbers
  <2>. SUFFICES ASSUME AloneInv, NEW p \in Proc, run[p].pc = "store"
                PROVE  keyring[Effective(p)] = None
    BY DEF NeverClobbers
  <2>1. InitAt(p)
    BY InitIsAt DEF Initing
  <2>. QED
    BY <2>1 DEF InitAt, InitUpToDate
<1>. QED
  BY <1>1, AloneInvHolds, PTL

(* When init reports success, a command can open the profile that it       *)
(* named, whatever became of its saves; told not to verify a token that it *)
(* found, it has seen the token where the keyring opened, and a client     *)
(* file that is readable unless its writing was interrupted.               *)
THEOREM InitLeavesUsableHolds ==
    ASSUME OneAtATime, StartsApart
    PROVE  Spec => InitLeavesUsable
<1>1. AloneInv /\ [Next]_vars =>
          \A p \in Proc, q \in Profile :
              run[p].op = "init" /\ run[p].tgt = q /\ run[p].pc \notin Ended =>
                  /\ run'[p].pc = "done" => Opens(q)'
                  /\ run'[p].pc = "accepted" =>
                        /\ keyring'[q] # None \/ run[p].sel \in FlakyKeyring
                        /\ ClientOf(q)' # None \/ ClientFile(q)' \in cut'
  <2>. SUFFICES ASSUME AloneInv, [Next]_vars, NEW p \in Proc, NEW q \in Profile,
                       run[p].op = "init", run[p].tgt = q, run[p].pc \notin Ended,
                       run'[p].pc \in {"done", "accepted"}
                PROVE  /\ run'[p].pc = "done" => Opens(q)'
                       /\ run'[p].pc = "accepted" =>
                             /\ keyring'[q] # None \/ run[p].sel \in FlakyKeyring
                             /\ ClientOf(q)' # None \/ ClientFile(q)' \in cut'
    OBVIOUS
  <2>1. /\ SameStores /\ run[p].pc \in {"verify", "identity_save", "asking"}
        /\ run'[p].pc = "done" => run[p].pc \in Verified \/ run[p].fresh
        /\ run'[p].pc = "accepted" => run[p].pc = "verify"
    BY InitEnds
  <2>2. InitAt(p)
    BY <2>1, InitIsAt DEF Initing
  <2>3. /\ Opens(q)' = Opens(q) /\ ClientOf(q)' = ClientOf(q)
        /\ ClientFile(q)' = ClientFile(q)
    BY <2>1 DEF SameStores, Opens, ClientOf, ClientFile
  <2>4. run'[p].pc = "done" => Opens(q)'
    BY <2>1, <2>2, <2>3 DEF InitAt, InitUpToDate
  <2>5. ASSUME run'[p].pc = "accepted"
        PROVE  /\ keyring[q] # None \/ run[p].sel \in FlakyKeyring
               /\ ClientOf(q) # None \/ ClientFile(q) \in cut
    <3>1. run[p].pc = "verify" /\ run[p].pc \notin NoClientYet \cup Placed
      BY <2>1, <2>5 DEF NoClientYet, Placed
    <3>2. /\ keyring[q] # None \/ run[p].sel \in FlakyKeyring
          /\ ClientFile(q) # None /\ client[ClientFile(q)] # None
      BY <2>2, <3>1 DEF InitAt, InitUpToDate
    <3>3. client[ClientFile(q)] = Torn => ClientFile(q) \in cut
      <4>1. ClientFile(q) \in Path
        BY <3>2, AloneIs, ClientOfType
      <4>. QED
        BY <3>1, <4>1, AloneIs, TornAreCut
    <3>. QED
      BY <3>2, <3>3 DEF ClientOf
  <2>. QED
    BY <2>1, <2>3, <2>4, <2>5 DEF SameStores
<1>. QED
  BY <1>1, AloneInvHolds, PTL DEF Spec, InitLeavesUsable

(* A profile that has a client in config.yml keeps it, whatever is done    *)
(* for other profiles and wherever it is interrupted.                      *)
THEOREM AssociationDurableHolds ==
    ASSUME OneAtATime, StartsApart
    PROVE  Spec => AssociationDurable
<1>1. AloneInv /\ [Next]_vars =>
          \A q \in Profile : ClientFile(q) # None => ClientFile(q)' # None
  <2>. SUFFICES ASSUME AloneInv, [Next]_vars, NEW q \in Profile, ClientFile(q) # None
                PROVE  ClientFile(q)' # None
    OBVIOUS
  <2>1. ClientFile(q) = file.own[q].client /\ ClientFile(q)' = file'.own[q].client
    <3>1. TypeOK' /\ Apart(file)'
      BY TypeStep, ApartStep DEF AloneInv, ApartInv, ApartParts
    <3>. QED
      BY <3>1, AloneIs, ClientIsNext
  <2>2. file'.own[q].client = file.own[q].client
    BY <2>1, FileSteps
  <2>. QED
    BY <2>1, <2>2
<1>. QED
  BY <1>1, AloneInvHolds, PTL DEF Spec, AssociationDurable
=============================================================================
