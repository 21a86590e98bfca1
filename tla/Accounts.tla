------------------------------- MODULE Accounts -------------------------------
(***************************************************************************)
(* Profiles and their accounts: which profile a command runs as, and what  *)
(* init, profiles use, set-credential, config clear and the refresh        *)
(* persister write to the three shared stores - config.yml, the OAuth      *)
(* client files and the keyring.                                           *)
(*                                                                         *)
(* Every process is one invocation.  config.yml is loaded whole and saved  *)
(* whole, and each command resolves "its" profile anew every time it opens *)
(* the store, so each load, save, keyring operation and API call is an     *)
(* action.  The legacy migration that Open may run is modelled by          *)
(* Migration; the machines here have none of the older files.              *)
(***************************************************************************)
EXTENDS Naturals

CONSTANTS
    Proc,            \* invocations that may run at the same time
    Profile,         \* bare profile names
    DefaultProfile,  \* the profile of DefaultCredentialRef
    Shared,          \* oauth_client.json, the client path of older releases
    App,             \* OAuth client IDs
    None,            \* an absent or empty value
    Torn,            \* a client file cut short while it was written
    ProfileScope,    \* the CLI requests the profile scope: gro, not grw
    Ops,             \* the operations users run
    Select,          \* --profile / environment overrides in use; None: without
    FlakyKeyring,    \* overrides under which opening the keyring may fail
    MaxVersion,      \* bound on releases that widen the scope set
    MaxStarts,       \* bound on invocations
    MaxFaults,       \* bound on crashes and failed saves
    InitFile,        \* config.yml contents a machine may start with
    InitClient       \* client files a machine may start with

(* The managed client path oauth_clients/<profile>.json is named by its    *)
(* profile.                                                                *)
Path == Profile \cup {Shared}

(* The scope set of release v is v; a token and a record carry the set     *)
(* they were granted under.                                                *)
Version == 1..MaxVersion

(* The non-secret state one profile owns in config.yml (ProfileConfig).    *)
Owned == [client: Path \cup {None}, scopes: Version \cup {None}]

(* config.yml: top is the older top-level client and scopes.  A missing    *)
(* file and the defaults are the same.                                     *)
Config == [active: Profile, top: Owned, own: [Profile -> Owned]]

NoneOwned == [client |-> None, scopes |-> None]

DefaultConfig ==
    [active |-> DefaultProfile, top |-> NoneOwned,
     own |-> [q \in Profile |-> NoneOwned]]

(* A token: the OAuth client and scope set it was granted under, and the   *)
(* profile that its user was told it was for.                              *)
Token == [for: Profile, app: App, scopes: Version]

Op == {"init", "use", "set-credential", "command", "check", "clear",
       "clear-all"}

(* "accepted" is the success of an init that was told not to verify the    *)
(* token it found.                                                         *)
Ended == {"idle", "done", "accepted", "failed"}
Initing == {"path", "creds", "adopt", "check", "write", "fill", "import",
            "token", "judge", "verify", "verifying", "identity",
            "identity_save", "people", "asking", "reauth", "consent", "store",
            "record", "record_save"}
Others == {"load", "use_save", "open", "running", "rows", "row", "row_save",
           "clear", "clear_config", "clear_cache"}
Running == {"describe"} \cup Initing \cup Others

(* oauthClientPathEquivalent, scopesEqual: two values that are both set    *)
(* and differ.                                                             *)
Diverge(a, b) == a # None /\ b # None /\ a # b
OwnedDiverge(a, b) == Diverge(a.client, b.client) \/ Diverge(a.scopes, b.scopes)

ASSUME AccountsAssumption ==
    /\ DefaultProfile \in Profile
    /\ Shared \notin Profile
    /\ None \notin Path \cup App \cup Version
    /\ Torn \notin App \cup {None}
    /\ ProfileScope \in BOOLEAN
    /\ Ops \subseteq Op
    /\ Select \subseteq Profile \cup {None}
    /\ MaxVersion \in Nat \ {0}
    /\ MaxStarts \in Nat
    /\ MaxFaults \in Nat
    /\ InitFile \subseteq Config
    /\ \A f \in InitFile : ~OwnedDiverge(f.top, f.own[f.active])
    /\ InitClient \subseteq [Path -> App \cup {None}]

ASSUME TokenAssumption == None \notin Token

ASSUME FlakyAssumption == FlakyKeyring \subseteq Profile \cup {None}

VARIABLES
    file,      \* config.yml
    client,    \* client[f]: the OAuth client in file f
    keyring,   \* keyring[q]: the oauth_token of profile q
    identity,  \* the identity cache, a map: identity[q]: whose token last
               \* proved profile q's email
    run,       \* run[p]: the state of invocation p
    version,   \* the installed release
    starts,    \* invocations so far
    faults,    \* crashes and failed saves so far
    origin,    \* history: the clients each profile had at the start
    cut        \* history: client files that an interrupted write left torn,
               \* until a token is granted through them anew

stores == <<file, client, keyring, identity>>
history == <<origin, cut>>
envVars == <<version, starts, faults, history>>
vars == <<file, client, keyring, identity, run, version, starts, faults,
          origin, cut>>

(* sel: override of this invocation; tgt: targetRef; path: credPath; cfg:  *)
(* the configuration in memory; new: the client JSON to import; api: the   *)
(* profile an API client was opened for; tok, map: the token and the       *)
(* identity cache in memory; fresh: this init has stored a new token.      *)
Run == [pc: Ended \cup Running, op: Op, sel: Profile \cup {None},
        tgt: Profile \cup {None}, path: Path \cup {None}, cfg: Config,
        new: App \cup {None}, api: Profile \cup {None},
        tok: Token \cup {None},
        map: [Profile -> Profile \cup {None}] \cup {None}, fresh: BOOLEAN]

IdleRun == [pc |-> "idle", op |-> "command", sel |-> None, tgt |-> None,
            path |-> None, cfg |-> DefaultConfig, new |-> None, api |-> None,
            tok |-> None, map |-> None, fresh |-> FALSE]

TypeOK ==
    /\ file \in Config
    /\ client \in [Path -> App \cup {None, Torn}]
    /\ keyring \in [Profile -> Token \cup {None}]
    /\ identity \in [Profile -> Profile \cup {None}]
    /\ run \in [Proc -> Run]
    /\ version \in Version
    /\ starts \in 0..MaxStarts
    /\ faults \in 0..MaxFaults
    /\ origin \in [Profile -> Path \cup {None}]
    /\ cut \in SUBSET Path

-----------------------------------------------------------------------------
(* internal/config: load and save.                                         *)

(* One profile's state with the top-level fields filled in.                *)
Fill(own, top) ==
    [client |-> IF own.client = None THEN top.client ELSE own.client,
     scopes |-> IF own.scopes = None THEN top.scopes ELSE own.scopes]

(* applyDefaults attaches the top-level fields to the active profile and   *)
(* leaves them set in memory.                                              *)
Loaded(f) == [f EXCEPT !.own[f.active] = Fill(@, f.top)]

(* Mutant: saving keeps only the active profile's state.                   *)
SavedActiveOnly(c) ==
    [c EXCEPT !.own = [q \in Profile |-> IF q = c.active THEN Fill(c.own[q], c.top)
                                         ELSE NoneOwned],
              !.top = NoneOwned]

(* SaveConfig attaches them to the profile that is active now, and writes  *)
(* them no more.                                                           *)
Saved(c) == [c EXCEPT !.own[c.active] = Fill(@, c.top), !.top = NoneOwned]

Saveable(c) == ~OwnedDiverge(c.top, c.own[c.active])

ClientFile(q) == Loaded(file).own[q].client

(* GetOAuthConfigForRef: the client a profile would use now, if it reads.  *)
ClientOf(q) ==
    LET f == ClientFile(q)
    IN  IF f = None \/ client[f] = Torn THEN None ELSE client[f]

(* applyCredentialRefOverride: flag or environment, else config.yml as it  *)
(* is at this moment.                                                      *)
Effective(p) == IF run[p].sel # None THEN run[p].sel ELSE file.active

-----------------------------------------------------------------------------
(* A profile with a readable client may have a token granted through it,   *)
(* with the scopes recorded or, where none are, those of the first release.*)
InitToken(q) ==
    LET s == Loaded(file).own[q].scopes
    IN  IF ClientOf(q) = None THEN {None}
        ELSE {None, [for |-> q, app |-> ClientOf(q),
                     scopes |-> IF s = None THEN 1 ELSE s]}

Init ==
    /\ file \in InitFile
    /\ client \in InitClient
    /\ keyring \in [Profile -> Token \cup {None}]
    /\ \A q \in Profile : keyring[q] \in InitToken(q)
    /\ identity = [q \in Profile |-> None]
    /\ run = [p \in Proc |-> IdleRun]
    /\ version = 1
    /\ starts = 0
    /\ faults = 0
    /\ origin = [q \in Profile |-> ClientFile(q)]
    /\ cut = {}

Goto(p, label) == run' = [run EXCEPT ![p].pc = label]

(* The invocation is over and forgets what it had in memory.               *)
End(p, outcome) == run' = [run EXCEPT ![p] = [IdleRun EXCEPT !.pc = outcome]]

FirstStep(o) ==
    CASE o = "init" -> "describe"
      [] o = "use" -> "load"
      [] o \in {"set-credential", "command"} -> "open"
      [] o = "check" -> "rows"
      [] o \in {"clear", "clear-all"} -> "clear"

(* The argument of profiles use and the --credentials-file of init.        *)
ArgOf(o) == IF o = "use" THEN Profile ELSE {None}
NewOf(o) == IF o = "init" THEN App \cup {None} ELSE {None}

Start(p, o, s, q, c) ==
    /\ run[p].pc \in Ended
    /\ starts < MaxStarts
    /\ starts' = starts + 1
    /\ run' = [run EXCEPT ![p] = [IdleRun EXCEPT !.pc = FirstStep(o), !.op = o,
                                  !.sel = s, !.tgt = q, !.new = c]]
    /\ UNCHANGED <<file, client, keyring, identity, version, faults, history>>

(* A release with a wider scope set is installed while nothing runs.       *)
Upgrade ==
    /\ \A p \in Proc : run[p].pc \in Ended
    /\ version < MaxVersion
    /\ version' = version + 1
    /\ UNCHANGED <<file, client, keyring, identity, run, starts, faults, history>>

-----------------------------------------------------------------------------
(* init: which profile, and its OAuth client.                              *)

(* describeTarget opens the store, so an override applies.                 *)
Describe(p) ==
    /\ run[p].pc = "describe"
    /\ run' = [run EXCEPT ![p].tgt = Effective(p), ![p].pc = "path"]
    /\ UNCHANGED <<stores, envVars>>

(* Mutant: when the keyring does not open, the built-in default is named.  *)
DescribeBlindDefault(p) ==
    /\ run[p].pc = "describe"
    /\ run[p].sel \in FlakyKeyring
    /\ run' = [run EXCEPT ![p].tgt = DefaultProfile, ![p].pc = "path"]
    /\ UNCHANGED <<stores, envVars>>

(* When the keyring does not open, the configured profile is named instead.*)
DescribeBlind(p) ==
    /\ run[p].pc = "describe"
    /\ run[p].sel \in FlakyKeyring
    /\ run' = [run EXCEPT ![p].tgt = file.active, ![p].pc = "path"]
    /\ UNCHANGED <<stores, envVars>>

(* Mutant: a profile without a client takes the active profile's.          *)
PathForShared(c, q, fallback) ==
    IF c.own[q].client # None THEN c.own[q].client
    ELSE IF c.own[c.active].client # None THEN c.own[c.active].client
    ELSE fallback

(* The client path in config.yml, else the one managed for the profile.    *)
PathFor(c, q, fallback) ==
    IF c.own[q].client # None THEN c.own[q].client ELSE fallback

ResolvePath(p) ==
    /\ run[p].pc = "path"
    /\ run' = [run EXCEPT
                 ![p].path = PathFor(Loaded(file), run[p].tgt, run[p].tgt),
                 ![p].pc = "creds"]
    /\ UNCHANGED <<stores, envVars>>

(* No import is asked for, and a client file is there, readable or not.    *)
HasClientFile(p) == run[p].new = None /\ client[run[p].path] # None

KeepClient(p) ==
    /\ run[p].pc = "creds"
    /\ HasClientFile(p)
    /\ ClientFile(run[p].tgt) # None
    /\ Goto(p, "token")
    /\ UNCHANGED <<stores, envVars>>

(* associateExistingProfileClient: a file whose association was not saved. *)
AdoptClient(p) ==
    /\ run[p].pc = "creds"
    /\ HasClientFile(p)
    /\ ClientFile(run[p].tgt) = None
    /\ client[run[p].path] # Torn
    /\ run' = [run EXCEPT
                 ![p].cfg = [Loaded(file) EXCEPT
                                !.own[run[p].tgt].client = run[p].path],
                 ![p].pc = "adopt"]
    /\ UNCHANGED <<stores, envVars>>

(* The file is read before its path is recorded.                           *)
RefuseTorn(p) ==
    /\ run[p].pc = "creds"
    /\ HasClientFile(p)
    /\ ClientFile(run[p].tgt) = None
    /\ client[run[p].path] = Torn
    /\ End(p, "failed")
    /\ UNCHANGED <<stores, envVars>>

(* importProfileJSON: --credentials-file, or what the wizard or a sibling  *)
(* CLI supplies when there is no client file; it goes to the path that the *)
(* configuration has for the target.                                       *)
ImportClient(p, c) ==
    /\ run[p].pc = "creds"
    /\ \/ run[p].new = c
       \/ run[p].new = None /\ client[run[p].path] = None
    /\ LET f == Loaded(file)
           q == run[p].tgt
       IN  run' = [run EXCEPT
                     ![p].cfg = [f EXCEPT !.own[q].client =
                                    PathFor(f, q, run[p].path)],
                     ![p].new = c,
                     ![p].pc = "check"]
    /\ UNCHANGED <<stores, envVars>>

(* storeHasToken answers yes as well when the keyring does not open.       *)
TokenSeen(p) == keyring[Effective(p)] # None \/ run[p].sel \in FlakyKeyring

(* Mutant: a keyring that does not open has no token.                      *)
NoTokenSeenFlaky(p) ==
    keyring[Effective(p)] = None \/ run[p].sel \in FlakyKeyring

NoTokenSeen(p) == keyring[Effective(p)] = None

(* The target has a readable client, and it is another one.                *)
OtherClient(p) == ClientOf(run[p].tgt) \notin {None, run[p].new}

RefuseClient(p) ==
    /\ run[p].pc = "check"
    /\ TokenSeen(p) /\ OtherClient(p)
    /\ End(p, "failed")
    /\ UNCHANGED <<stores, envVars>>

(* Mutant: any client is accepted.                                         *)
AcceptAnyClient(p) ==
    /\ run[p].pc = "check"
    /\ Goto(p, "write")
    /\ UNCHANGED <<stores, envVars>>

AcceptClient(p) ==
    /\ run[p].pc = "check"
    /\ NoTokenSeen(p) \/ ~OtherClient(p)
    /\ Goto(p, "write")
    /\ UNCHANGED <<stores, envVars>>

(* os.WriteFile empties the file, or creates an empty one ...              *)
TruncateClient(p) ==
    /\ run[p].pc = "write"
    /\ client' = [client EXCEPT ![run[p].cfg.own[run[p].tgt].client] = Torn]
    /\ Goto(p, "fill")
    /\ UNCHANGED <<file, keyring, identity, envVars>>

(* ... and writes the client into it.                                      *)
WriteClient(p) ==
    /\ run[p].pc = "fill"
    /\ client' = [client EXCEPT ![run[p].cfg.own[run[p].tgt].client] = run[p].new]
    /\ Goto(p, "import")
    /\ UNCHANGED <<file, keyring, identity, envVars>>

SaveClient(p) ==
    /\ run[p].pc \in {"adopt", "import"}
    /\ Saveable(run[p].cfg)
    /\ file' = Saved(run[p].cfg)
    /\ Goto(p, "token")
    /\ UNCHANGED <<client, keyring, identity, envVars>>

-----------------------------------------------------------------------------
(* init: the token that is already there.                                  *)

NoStoredToken(p) ==
    /\ run[p].pc = "token"
    /\ NoTokenSeen(p)
    /\ Goto(p, "consent")
    /\ UNCHANGED <<stores, envVars>>

StoredToken(p) ==
    /\ run[p].pc = "token"
    /\ TokenSeen(p)
    /\ Goto(p, "judge")
    /\ UNCHANGED <<stores, envVars>>

Stale(s) == s # None /\ s # version

(* CheckScopesMigration on the scopes recorded for the target.             *)
StaleRecord(p) ==
    /\ run[p].pc = "judge"
    /\ Stale(Loaded(file).own[run[p].tgt].scopes)
    /\ Goto(p, "reauth")
    /\ UNCHANGED <<stores, envVars>>

CurrentRecord(p) ==
    /\ run[p].pc = "judge"
    /\ ~Stale(Loaded(file).own[run[p].tgt].scopes)
    /\ Goto(p, "verify")
    /\ UNCHANGED <<stores, envVars>>

(* --no-verify, on the token that was found or on a new one.               *)
SkipVerify(p) ==
    /\ run[p].pc = "verify"
    /\ End(p, IF run[p].fresh THEN "done" ELSE "accepted")
    /\ UNCHANGED <<stores, envVars>>

(* What an API client for profile q would authenticate with, if it opens.  *)
Opens(q) == ClientOf(q) # None /\ keyring[q] # None

(* clientFromStore captures the profile and its token.                     *)
OpenFor(p, q, label) ==
    /\ Opens(q)
    /\ run' = [run EXCEPT ![p].api = q, ![p].tok = keyring[q], ![p].pc = label]

(* GmailVerify and PeopleGetMe each open a client of their own.            *)
OpenVerifier(p) ==
    /\ \/ run[p].pc = "verify" /\ OpenFor(p, Effective(p), "verifying")
       \/ run[p].pc = "people" /\ OpenFor(p, Effective(p), "asking")
    /\ UNCHANGED <<stores, envVars>>

(* Gmail answers with the email of the profile's token ...                 *)
Verify(p) ==
    /\ run[p].pc = "verifying"
    /\ Goto(p, "identity")
    /\ UNCHANGED <<stores, envVars>>

(* ... or the token was revoked or belongs to another client ...           *)
VerifyAuthError(p) ==
    /\ run[p].pc = "verifying" /\ ~run[p].fresh
    /\ Goto(p, "reauth")
    /\ UNCHANGED <<stores, envVars>>

(* ... or an API call fails otherwise, as it must when nothing opens; on a *)
(* new token every failure ends the init.                                  *)
VerifyFails(p) ==
    /\ run[p].pc \in {"verify", "verifying", "people", "asking"}
    /\ End(p, "failed")
    /\ UNCHANGED <<stores, envVars>>

PutStep == [identity |-> "identity_save", row |-> "row_save"]

(* identitycache.Put loads the map of every profile's email, sets one ...  *)
PutLoad(p, q) ==
    run' = [run EXCEPT ![p].map = [identity EXCEPT ![q] = run[p].tok.for],
                       ![p].pc = PutStep[@]]

(* Mutant: the email is recorded for the active profile.                   *)
RecordIdentityActive(p) ==
    /\ run[p].pc = "identity"
    /\ PutLoad(p, file.active)
    /\ UNCHANGED <<stores, envVars>>

(* recordIdentity resolves the profile once more.                          *)
RecordIdentity(p) ==
    /\ run[p].pc = "identity"
    /\ PutLoad(p, Effective(p))
    /\ UNCHANGED <<stores, envVars>>

(* What an invocation does after it recorded an email, or could not.  Only *)
(* a CLI with the profile scope asks the People API as well.               *)
Recorded(p) ==
    \/ run[p].pc = "identity_save" /\ ~ProfileScope /\ End(p, "done")
    \/ /\ run[p].pc = "row_save" \/ (run[p].pc = "identity_save" /\ ProfileScope)
       /\ run' = [run EXCEPT ![p].map = None,
                             ![p].pc = IF @ = "row_save" THEN "rows"
                                                         ELSE "people"]

(* ... and saves it whole, over what others have saved since.              *)
SaveIdentity(p) ==
    /\ Recorded(p)
    /\ identity' = run[p].map
    /\ UNCHANGED <<file, client, keyring, envVars>>

SaveIdentityFails(p) ==
    /\ Recorded(p)
    /\ faults < MaxFaults
    /\ faults' = faults + 1
    /\ UNCHANGED <<stores, version, starts, history>>

(* Mutant: an accepted token is recorded as granted the current scopes.    *)
PeopleAcceptsRecording(p) ==
    /\ run[p].pc = "asking"
    /\ file' = [Saved(Loaded(file)) EXCEPT !.own[run[p].tgt].scopes = version]
    /\ End(p, "done")
    /\ UNCHANGED <<client, keyring, identity, envVars>>

(* PeopleGetMe: done (finishExisting records no scopes) ...                *)
PeopleAccepts(p) ==
    /\ run[p].pc = "asking"
    /\ End(p, "done")
    /\ UNCHANGED <<stores, envVars>>

(* ... or the token found lacks a scope that Gmail does not need.          *)
PeopleScopeError(p) ==
    /\ run[p].pc = "asking" /\ ~run[p].fresh
    /\ run[p].tok.scopes # version
    /\ Goto(p, "reauth")
    /\ UNCHANGED <<stores, envVars>>

(* promptAndDeleteForReauth: the user agrees ...                           *)
ConfirmReauth(p) ==
    /\ run[p].pc = "reauth"
    /\ keyring' = [keyring EXCEPT ![Effective(p)] = None]
    /\ Goto(p, "consent")
    /\ UNCHANGED <<file, client, identity, envVars>>

(* ... or not.                                                             *)
DeclineReauth(p) ==
    /\ run[p].pc = "reauth"
    /\ End(p, "failed")
    /\ UNCHANGED <<stores, envVars>>

-----------------------------------------------------------------------------
(* init: the OAuth flow and what it records.                               *)

(* Mutant: the scopes on record are requested, not those required.         *)
ConsentRecorded(p) ==
    /\ run[p].pc = "consent"
    /\ ClientOf(run[p].tgt) # None
    /\ run' = [run EXCEPT
                 ![p].tok = [for |-> run[p].tgt, app |-> ClientOf(run[p].tgt),
                             scopes |-> Loaded(file).own[run[p].tgt].scopes],
                 ![p].pc = "store"]
    /\ UNCHANGED <<stores, envVars>>

(* The user consents in the browser, for the profile that was announced.   *)
Consent(p) ==
    /\ run[p].pc = "consent"
    /\ ClientOf(run[p].tgt) # None
    /\ run' = [run EXCEPT
                 ![p].tok = [for |-> run[p].tgt, app |-> ClientOf(run[p].tgt),
                             scopes |-> version],
                 ![p].pc = "store"]
    /\ UNCHANGED <<stores, envVars>>

NoConsent(p) ==
    /\ run[p].pc = "consent"
    /\ End(p, "failed")
    /\ UNCHANGED <<stores, envVars>>

(* Mutant: the token goes to the active profile.                           *)
StoreTokenActive(p) ==
    /\ run[p].pc = "store"
    /\ keyring' = [keyring EXCEPT ![file.active] = run[p].tok]
    /\ run' = [run EXCEPT ![p].fresh = TRUE, ![p].pc = "record"]
    /\ UNCHANGED <<file, client, identity, envVars>>

(* storeSetToken resolves the profile once more.                           *)
StoreToken(p) ==
    /\ run[p].pc = "store"
    /\ keyring' = [keyring EXCEPT ![Effective(p)] = run[p].tok]
    /\ run' = [run EXCEPT ![p].fresh = TRUE, ![p].pc = "record"]
    /\ cut' = cut \ {ClientFile(Effective(p))}
    /\ UNCHANGED <<file, client, identity, version, starts, faults, origin>>

(* Mutant: the record of the scopes forgets the client.                    *)
RecordScopesOnly(p) ==
    /\ run[p].pc = "record"
    /\ run' = [run EXCEPT
                 ![p].cfg = [Loaded(file) EXCEPT !.own[run[p].tgt] =
                                [client |-> None, scopes |-> version]],
                 ![p].pc = "record_save"]
    /\ UNCHANGED <<stores, envVars>>

RecordScopes(p) ==
    /\ run[p].pc = "record"
    /\ LET q == run[p].tgt
           c == Loaded(file)
       IN  run' = [run EXCEPT
                     ![p].cfg = [c EXCEPT !.own[q] =
                                    [client |-> PathFor(c, q, run[p].path),
                                     scopes |-> version]],
                     ![p].pc = "record_save"]
    /\ UNCHANGED <<stores, envVars>>

SaveRecord(p) ==
    /\ run[p].pc = "record_save"
    /\ file' = IF Saveable(run[p].cfg) THEN Saved(run[p].cfg) ELSE file
    /\ Goto(p, "verify")
    /\ UNCHANGED <<client, keyring, identity, envVars>>

(* A failed save of the record is a warning only.                          *)
SaveRecordFails(p) ==
    /\ run[p].pc = "record_save"
    /\ faults < MaxFaults
    /\ faults' = faults + 1
    /\ Goto(p, "verify")
    /\ UNCHANGED <<stores, version, starts, history>>

-----------------------------------------------------------------------------
(* profiles use.                                                           *)

UseLoad(p) ==
    /\ run[p].pc = "load"
    /\ file.active # run[p].tgt
    /\ run' = [run EXCEPT
                 ![p].cfg = [Loaded(file) EXCEPT !.active = run[p].tgt],
                 ![p].pc = "use_save"]
    /\ UNCHANGED <<stores, envVars>>

UseActive(p) ==
    /\ run[p].pc = "load"
    /\ file.active = run[p].tgt
    /\ End(p, "done")
    /\ UNCHANGED <<stores, envVars>>

UseSave(p) ==
    /\ run[p].pc = "use_save"
    /\ Saveable(run[p].cfg)
    /\ file' = Saved(run[p].cfg)
    /\ End(p, "done")
    /\ UNCHANGED <<client, keyring, identity, envVars>>

(* Two clients or scope sets for one profile: nothing is saved.            *)
SaveRefused(p) ==
    /\ run[p].pc \in {"adopt", "import", "use_save"}
    /\ ~Saveable(run[p].cfg)
    /\ End(p, "failed")
    /\ UNCHANGED <<stores, envVars>>

-----------------------------------------------------------------------------
(* set-credential, API commands and config clear.                          *)

(* A token that a user brings to the profile, granted anywhere.            *)
SetCredential(p, a, v) ==
    /\ run[p].pc = "open"
    /\ run[p].op = "set-credential"
    /\ keyring' = [keyring EXCEPT ![Effective(p)] =
                      [for |-> Effective(p), app |-> a, scopes |-> v]]
    /\ End(p, "done")
    /\ UNCHANGED <<file, client, identity, envVars>>

OpenClient(p) ==
    /\ run[p].pc = "open"
    /\ run[p].op = "command"
    /\ OpenFor(p, Effective(p), "running")
    /\ UNCHANGED <<stores, envVars>>

OpenFails(p) ==
    /\ run[p].pc = "open"
    /\ run[p].op = "command"
    /\ ~Opens(Effective(p))
    /\ End(p, "failed")
    /\ UNCHANGED <<stores, envVars>>

(* profiles list --check: one profile after another, with a client of its  *)
(* own, and the email that Gmail answers is recorded.                      *)
CheckRow(p, q) ==
    /\ run[p].pc = "rows"
    /\ OpenFor(p, q, "row")
    /\ UNCHANGED <<stores, envVars>>

RecordRow(p) ==
    /\ run[p].pc = "row"
    /\ PutLoad(p, run[p].api)
    /\ UNCHANGED <<stores, envVars>>

(* An API client is open, and may refresh its token.                       *)
WithApi == {"verifying", "asking", "running", "row"}

(* Mutant: the refreshed token goes to the profile that is active now.     *)
RefreshActive(p) ==
    /\ run[p].pc \in WithApi
    /\ keyring' = [keyring EXCEPT ![file.active] = run[p].tok]
    /\ UNCHANGED <<file, client, identity, run, envVars>>

(* The persister writes the rotated token under the captured profile.      *)
Refresh(p) ==
    /\ run[p].pc \in WithApi
    /\ keyring' = [keyring EXCEPT ![run[p].api] = run[p].tok]
    /\ UNCHANGED <<file, client, identity, run, envVars>>

(* A list ends after its last row.                                         *)
CommandEnds(p) ==
    /\ run[p].pc \in {"running", "rows"}
    /\ End(p, "done")
    /\ UNCHANGED <<stores, envVars>>

ClearToken(p) ==
    /\ run[p].pc = "clear"
    /\ keyring' = [keyring EXCEPT ![Effective(p)] = None]
    /\ IF run[p].op = "clear-all" THEN Goto(p, "clear_config")
                                  ELSE End(p, "done")
    /\ UNCHANGED <<file, client, identity, envVars>>

(* --all removes config.yml with the state of every profile ...            *)
ClearConfig(p) ==
    /\ run[p].pc = "clear_config"
    /\ file' = DefaultConfig
    /\ Goto(p, "clear_cache")
    /\ UNCHANGED <<client, keyring, identity, envVars>>

(* ... and then the cache; the client files and the tokens of the other    *)
(* profiles stay.                                                          *)
ClearCache(p) ==
    /\ run[p].pc = "clear_cache"
    /\ identity' = [q \in Profile |-> None]
    /\ End(p, "done")
    /\ UNCHANGED <<file, client, keyring, envVars>>

(* A crash, an I/O error or a user's ctrl-C ends an invocation anywhere,   *)
(* in the middle of a write to the client file too.                        *)
Stop(p) ==
    /\ run[p].pc \in Running
    /\ faults < MaxFaults
    /\ faults' = faults + 1
    /\ End(p, "failed")
    /\ cut' = IF run[p].pc = "fill"
                 THEN cut \cup {run[p].cfg.own[run[p].tgt].client} ELSE cut
    /\ UNCHANGED <<stores, version, starts, origin>>

-----------------------------------------------------------------------------
InitStep(p) ==
    \/ Describe(p) \/ DescribeBlind(p) \/ ResolvePath(p) \/ KeepClient(p)
    \/ AdoptClient(p) \/ RefuseTorn(p) \/ \E c \in App : ImportClient(p, c)
    \/ RefuseClient(p) \/ AcceptClient(p) \/ TruncateClient(p)
    \/ WriteClient(p) \/ SaveClient(p)
    \/ NoStoredToken(p) \/ StoredToken(p) \/ StaleRecord(p)
    \/ CurrentRecord(p) \/ SkipVerify(p) \/ OpenVerifier(p) \/ Verify(p)
    \/ VerifyAuthError(p)
    \/ VerifyFails(p) \/ RecordIdentity(p) \/ SaveIdentity(p)
    \/ SaveIdentityFails(p) \/ PeopleAccepts(p) \/ PeopleScopeError(p) \/ ConfirmReauth(p)
    \/ DeclineReauth(p) \/ Consent(p) \/ NoConsent(p) \/ StoreToken(p)
    \/ RecordScopes(p) \/ SaveRecord(p) \/ SaveRecordFails(p)

UseStep(p) == UseLoad(p) \/ UseActive(p) \/ UseSave(p) \/ SaveRefused(p)

OtherStep(p) ==
    \/ \E a \in App, v \in Version : SetCredential(p, a, v)
    \/ OpenClient(p) \/ OpenFails(p) \/ Refresh(p) \/ CommandEnds(p)
    \/ RecordRow(p) \/ \E q \in Profile : CheckRow(p, q)
    \/ ClearToken(p) \/ ClearConfig(p) \/ ClearCache(p)

Next ==
    \/ Upgrade
    \/ \E p \in Proc :
          \/ \E o \in Ops, s \in Select :
                \E q \in ArgOf(o), c \in NewOf(o) : Start(p, o, s, q, c)
          \/ InitStep(p) \/ UseStep(p) \/ OtherStep(p) \/ Stop(p)

Spec == Init /\ [][Next]_vars

-----------------------------------------------------------------------------
(* Properties.                                                             *)

(* A token is stored under the profile its user was told it is for: no     *)
(* init, refresh or switch puts one account's token under another profile. *)
TokenOnTarget == \A q \in Profile : keyring[q] # None => keyring[q].for = q

(* profiles list and the consent prompt of init name the account of the    *)
(* profile's own token.                                                    *)
IdentityOnTarget == \A q \in Profile : identity[q] \in {None, q}

(* A profile's client is the one it had at the start or the managed file   *)
(* of that profile, never another profile's.                               *)
OwnClient ==
    \A q \in Profile : ClientFile(q) \in {None, q, origin[q]}

(* What the proofs need beside these.  Past its announcement an init has a *)
(* target, as profiles use has, and then a path for its client; past the   *)
(* consent or the read of it there is a token.                             *)
Aimed == Initing \cup {"load", "use_save"}
WithToken == WithApi \cup {"identity", "store"}
Saving == {"identity_save", "row_save"}

KnowsTarget ==
    \A p \in Proc :
        /\ run[p].pc \in Aimed => run[p].tgt \in Profile
        /\ run[p].pc \in Initing \ {"path"} => run[p].path \in Path
        /\ run[p].pc \in {"check", "write", "fill"} =>
              run[p].cfg.own[run[p].tgt].client \in Path
        /\ run[p].pc \in WithApi => run[p].api \in Profile
        /\ run[p].pc \in WithToken => run[p].tok \in Token
        /\ run[p].pc \in Saving =>
              run[p].map \in [Profile -> Profile \cup {None}]

(* An overridden invocation announces the profile it will write ...        *)
AnnouncesOverride ==
    \A p \in Proc :
        /\ run[p].pc \in Running => run[p].sel \in Profile
        /\ run[p].pc \in Initing => run[p].tgt = run[p].sel
        /\ run[p].pc \in {"verifying", "asking"} => run[p].api = run[p].sel

(* ... the token in its memory is that profile's, and so are the emails.   *)
HoldsOwnToken ==
    \A p \in Proc :
        /\ run[p].pc \in WithApi => run[p].tok.for = run[p].api
        /\ run[p].pc \in {"identity", "store"} => run[p].tok.for = run[p].sel
        /\ run[p].pc \in Saving =>
              \A q \in Profile : run[p].map[q] \in {None, q}

(* The inductive invariant when every invocation has an override and the   *)
(* keyring opens.                                                          *)
OverrideInv ==
    /\ TypeOK
    /\ KnowsTarget
    /\ AnnouncesOverride
    /\ HoldsOwnToken
    /\ TokenOnTarget
    /\ IdentityOnTarget

(* A configuration without the older top-level fields that gives each      *)
(* profile its own client.                                                 *)
Apart(c) ==
    /\ c.top = NoneOwned
    /\ \A q \in Profile : c.own[q].client \in {None, q, origin[q]}

(* An init past its choice of path will use a client file of its target.   *)
AimsAtOwnFile ==
    \A p \in Proc :
        run[p].pc \in Initing \ {"path"} =>
            run[p].path \in {run[p].tgt, origin[run[p].tgt]}

(* The inductive invariant when no machine starts with those fields.       *)
ApartInv ==
    /\ TypeOK
    /\ KnowsTarget
    /\ Apart(file)
    /\ \A p \in Proc : Apart(run[p].cfg)
    /\ AimsAtOwnFile

(* The scopes recorded for a profile never claim more than its token was   *)
(* granted, or the check for stale scopes would pass a stale token.        *)
ScopesHonest ==
    \A q \in Profile :
        LET s == Loaded(file).own[q].scopes
        IN  s # None /\ keyring[q] # None => keyring[q].scopes >= s

(* A stored token is tied to the OAuth client it was granted through: the  *)
(* profile's client file, if readable, is still that client.  The check of *)
(* importProfileJSON cannot see to it after an interrupted write, when the *)
(* old client is gone.                                                     *)
ClientMatches ==
    \A q \in Profile :
        Opens(q) /\ ClientFile(q) \notin cut => keyring[q].app = ClientOf(q)

(* When init reports success, a command can open the profile that it named.*)
(* Told not to verify a token that was there, it vouches for less: the     *)
(* token is there if the keyring opened, and the client file, read or not. *)
InitLeavesUsable ==
    [][\A p \in Proc, q \in Profile :
          run[p].op = "init" /\ run[p].tgt = q /\ run[p].pc \notin Ended =>
              /\ run'[p].pc = "done" => Opens(q)'
              /\ run'[p].pc = "accepted" =>
                    /\ keyring'[q] # None \/ run[p].sel \in FlakyKeyring
                    /\ ClientOf(q)' # None \/ ClientFile(q)' \in cut']_vars

(* init stores a new token where there is none, or where the user agreed   *)
(* to give up the old one: a keyring that does not open counts as full.    *)
NeverClobbers ==
    \A p \in Proc : run[p].pc = "store" => keyring[Effective(p)] = None

(* A profile that has a client keeps one, whatever other profiles do.      *)
AssociationDurable ==
    [][\A q \in Profile :
          ClientFile(q) # None => ClientFile(q)' # None]_vars

(* What the proofs of the last five need, for invocations that do not      *)
(* overlap.  A token in the keyring has a client file, with the client it  *)
(* was granted through while no write was interrupted; no record is of a   *)
(* release to come; and no two profiles had or will be given the same      *)
(* client file.                                                            *)
StoresAgree ==
    /\ \A q \in Profile :
          /\ keyring[q] # None =>
                /\ ClientFile(q) # None /\ client[ClientFile(q)] # None
                /\ ClientFile(q) \in cut
                      \/ client[ClientFile(q)] \in {Torn, keyring[q].app}
          /\ file.own[q].scopes # None => file.own[q].scopes <= version
    /\ \A q, r \in Profile :
          q # r /\ origin[q] # None => origin[q] \notin {r, origin[r]}

(* A torn file is being written, or the write was interrupted.             *)
TornIsCut ==
    \A f \in Path : client[f] = Torn =>
        f \in cut \/ \E p \in Proc : run[p].pc = "fill" /\ run[p].path = f

(* A configuration with profile q's own client, and scopes recorded for it.*)
OwnPath(c, q) == PathFor(c, q, q)
WithOwn(c, q, s) == [c EXCEPT !.own[q] = [client |-> OwnPath(c, q), scopes |-> s]]

(* An init that has no client yet, one that has a file in place but not    *)
(* associated, one that has seen its client and token open, and one that   *)
(* may have stored a token.                                                *)
NoClientYet == {"path", "creds", "check", "write", "fill"}
Placed == {"adopt", "import"}
Verified == {"verifying", "identity", "identity_save", "people", "asking"}
MayBeFresh == {"record", "record_save", "verify"} \cup Verified

(* What an init has in memory is still so in the stores ...                *)
InitUpToDate(r) ==
    LET q == r.tgt
    IN  /\ r.op = "init"
        /\ q = IF r.sel # None THEN r.sel ELSE file.active
        /\ r.pc # "path" => r.path = OwnPath(file, q)
        /\ r.pc \in {"check", "write", "fill"} => r.new \in App
        /\ r.pc \in Placed \cup {"check", "write", "fill"} =>
              r.cfg = WithOwn(file, q, file.own[q].scopes)
        /\ r.pc = "record_save" => r.cfg = WithOwn(file, q, version)
        /\ r.pc \in {"write", "fill"} /\ keyring[q] # None =>
              ClientFile(q) \in cut \/ keyring[q].app = r.new
        /\ r.pc \in Placed => client[r.path] \notin {None, Torn}
        /\ r.pc \notin NoClientYet \cup Placed =>
              ClientFile(q) # None /\ client[ClientFile(q)] # None
        /\ r.pc \in {"judge", "verify"} /\ r.sel \notin FlakyKeyring =>
              keyring[q] # None
        /\ r.pc \in Verified \/ r.fresh => Opens(q)
        /\ r.pc \in {"verifying", "asking"} => r.api = q /\ r.tok = keyring[q]
        /\ r.pc \in {"consent", "store"} => keyring[q] = None
        /\ r.pc = "store" =>
              /\ r.tok.app = ClientOf(q) /\ ClientOf(q) # None
              /\ r.tok.scopes = version
        /\ r.pc \in {"record", "record_save"} =>
              r.fresh /\ keyring[q].scopes = version

(* ... and so is what the other commands have.                             *)
OtherUpToDate(r) ==
    /\ r.op \notin {"set-credential", "clear-all"}
    /\ r.pc = "describe" => r.op = "init"
    /\ r.pc \in Others => r.op # "init"
    /\ r.pc \notin {"clear_config", "clear_cache"}
    /\ r.fresh => r.pc \in MayBeFresh
    /\ r.pc = "use_save" => r.cfg = [file EXCEPT !.active = r.tgt]
    /\ r.pc \in {"running", "row"} => r.tok = keyring[r.api]

UpToDate ==
    \A p \in Proc :
        /\ run[p].pc \in Initing => InitUpToDate(run[p])
        /\ OtherUpToDate(run[p])

(* The inductive invariant when one invocation follows another, nobody     *)
(* brings a token from elsewhere and no machine starts with the older      *)
(* top-level fields.                                                       *)
AloneInv == ApartInv /\ StoresAgree /\ TornIsCut /\ ScopesHonest /\ UpToDate
=============================================================================
