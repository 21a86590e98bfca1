------------------------------ MODULE Migration ------------------------------
(***************************************************************************)
(* The one-time legacy migration that keychain.Open runs before an API     *)
(* command: internal/keychain/migrate.go, with the callers that write the  *)
(* same keyring entry or the same files (set-credential, config clear and  *)
(* the refresh persister).                                                 *)
(*                                                                         *)
(* Every process is one invocation of the CLI.  Each step that reads or    *)
(* writes a file or a keyring item is an action of its own, so that a      *)
(* crash (ctrl-C, power loss) or another process can fall between any two. *)
(* The model follows the profile that config.yml selects: a --profile flag *)
(* or environment override switches the migration off (see Accounts).      *)
(***************************************************************************)
EXTENDS Naturals

CONSTANTS
    Proc,         \* concurrent or successive invocations of the CLI
    NumSources,   \* legacy token sources, numbered in the order of discover()
    FileSource,   \* the sources that are token.json files; others are OS items
    Token,        \* serialized oauth2.Token values
    NewToken,     \* the tokens that a refresh or set-credential can bring
    None,         \* an absent or empty value
    Zeroed,       \* a token.json overwritten with zeros and not yet removed
    UserOp,       \* the operations users run
    FlakyReads,   \* TRUE: a legacy item or keyring read may fail
    MaxFaults,    \* bound on crashes and I/O errors
    InitLegacy,   \* legacy sources a machine may start with
    InitKeyring,  \* keyring entries a machine may start with
    InitClient,   \* <<credentials.json, oauth_client.json>> at the start
    InitConfig    \* <<config.yml, config.json>> at the start

Source == 1..NumSources

(* The contents of a token source or of the keyring entry.                 *)
Value == Token \cup {None, Zeroed}

(* An OAuth client JSON: absent, parsable, or present and unparsable.      *)
ClientState == {"absent", "valid", "invalid"}

(* A config file: absent, or the client path it records for the profile.   *)
ConfigState == {"absent", "unset", "legacyPath", "target"}

Op == {"command", "set-credential", "clear", "clear-all"}

ASSUME MigrationAssumption ==
    /\ NumSources \in Nat
    /\ FileSource \subseteq Source
    /\ NewToken \subseteq Token
    /\ None \notin Token
    /\ Zeroed \notin Token
    /\ None # Zeroed
    /\ UserOp \subseteq Op
    /\ FlakyReads \in BOOLEAN
    /\ MaxFaults \in Nat
    /\ InitLegacy \subseteq [Source -> Token \cup {None}]
    /\ InitKeyring \subseteq Token \cup {None}
    /\ InitClient \subseteq ClientState \X ClientState
    /\ InitConfig \subseteq ConfigState \X ConfigState

VARIABLES
    legacy,      \* legacy[s]: contents of legacy source s
    keyring,     \* the oauth_token entry of the selected profile
    clientOld,   \* credentials.json
    clientNew,   \* oauth_client.json, the default target
    yml,         \* config.yml
    json,        \* config.json of the older releases
    pc,          \* pc[p]: what process p does next, or how it ended
    op,          \* op[p]: the operation p runs
    path,        \* path[p]: client path in p's loaded config
    changed,     \* changed[p]: clientPathChanged
    promoted,    \* promoted[p]: promotedConfig
    rmClient,    \* rmClient[p]: removeLegacyClient # nil
    found,       \* found[p][s]: value discover() read from source s
    scan,        \* scan[p]: the next source to read
    todo,        \* todo[p]: candidates whose deleter has not returned
    token,       \* token[p]: token of the command's authenticated client
    faults,      \* crashes and I/O errors so far
    known,       \* history: every token the machine has held
    superseded   \* history: keyring values a user action replaced or cleared

diskVars == <<legacy, keyring>>
clientVars == <<clientOld, clientNew>>
configVars == <<yml, json>>
planVars == <<path, changed, promoted, rmClient>>
tokenVars == <<found, scan, todo>>
historyVars == <<known, superseded>>
vars == <<legacy, keyring, clientOld, clientNew, yml, json, pc, op, path,
          changed, promoted, rmClient, found, scan, todo, token, faults,
          known, superseded>>

(* How an invocation ended; "idle" has not run yet.                        *)
Ended == {"idle", "done", "failed", "conflict", "client_error", "crashed"}

Running == {"client", "install", "installing", "promote", "unjson", "scan",
            "plan", "write", "cleanup", "erase", "save", "rmclient",
            "opened", "clear", "rmyml", "rmjson"}

TypeOK ==
    /\ legacy \in [Source -> Value]
    /\ keyring \in Value
    /\ clientOld \in ClientState /\ clientNew \in ClientState
    /\ yml \in ConfigState /\ json \in ConfigState
    /\ pc \in [Proc -> Ended \cup Running]
    /\ op \in [Proc -> Op]
    /\ path \in [Proc -> ConfigState \ {"absent"}]
    /\ changed \in [Proc -> BOOLEAN]
    /\ promoted \in [Proc -> BOOLEAN]
    /\ rmClient \in [Proc -> BOOLEAN]
    /\ found \in [Proc -> [Source -> Value]]
    /\ scan \in [Proc -> 1..(NumSources + 1)]
    /\ todo \in [Proc -> SUBSET Source]
    /\ token \in [Proc -> Value]
    /\ faults \in 0..MaxFaults
    /\ known \subseteq Token
    /\ superseded \subseteq Value

Init ==
    /\ legacy \in InitLegacy
    /\ keyring \in InitKeyring
    /\ \E c \in InitClient : clientOld = c[1] /\ clientNew = c[2]
    /\ \E c \in InitConfig : yml = c[1] /\ json = c[2]
    /\ pc = [p \in Proc |-> "idle"]
    /\ op = [p \in Proc |-> "command"]
    /\ path = [p \in Proc |-> "unset"]
    /\ changed = [p \in Proc |-> FALSE]
    /\ promoted = [p \in Proc |-> FALSE]
    /\ rmClient = [p \in Proc |-> FALSE]
    /\ found = [p \in Proc |-> [s \in Source |-> None]]
    /\ scan = [p \in Proc |-> 1]
    /\ todo = [p \in Proc |-> {}]
    /\ token = [p \in Proc |-> None]
    /\ faults = 0
    /\ known = ({keyring} \cup {legacy[s] : s \in Source}) \cap Token
    /\ superseded = {}

Goto(p, label) == pc' = [pc EXCEPT ![p] = label]

-----------------------------------------------------------------------------
(* Load the configuration and choose what to run.                          *)

(* Mutant: config.yml is taken without checking that it is there.          *)
LoadedPathUnchecked == IF json # "absent" THEN json ELSE yml

(* LoadConfig: config.yml, else config.json, else the defaults.            *)
LoadedPath ==
    IF yml # "absent" THEN yml
    ELSE IF json # "absent" THEN json ELSE "unset"

(* The operations that open the store with the migration run it first;     *)
(* config clear opens without it.                                          *)
FirstStep(o) == IF o \in {"clear", "clear-all"} THEN "clear" ELSE "client"

Start(p, o) ==
    /\ pc[p] \in Ended
    /\ op' = [op EXCEPT ![p] = o]
    /\ path' = [path EXCEPT ![p] = LoadedPath]
    /\ changed' = [changed EXCEPT ![p] = FALSE]
    /\ promoted' = [promoted EXCEPT ![p] = FALSE]
    /\ rmClient' = [rmClient EXCEPT ![p] = FALSE]
    /\ found' = [found EXCEPT ![p] = [s \in Source |-> None]]
    /\ scan' = [scan EXCEPT ![p] = 1]
    /\ todo' = [todo EXCEPT ![p] = {}]
    /\ token' = [token EXCEPT ![p] = None]
    /\ Goto(p, FirstStep(o))
    /\ UNCHANGED <<diskVars, clientVars, configVars, faults, historyVars>>

-----------------------------------------------------------------------------
(* migrateOAuthClientJSONDeferred: the OAuth client JSON.                   *)

(* There is no credentials.json: nothing to relocate.                      *)
ClientAbsent(p) ==
    /\ pc[p] = "client"
    /\ clientOld = "absent"
    /\ Goto(p, "promote")
    /\ UNCHANGED <<diskVars, clientVars, configVars, op, planVars, tokenVars,
                   token, faults, historyVars>>

(* The config names credentials.json itself: it stays in place.            *)
ClientInPlace(p) ==
    /\ pc[p] = "client"
    /\ clientOld = "valid"
    /\ path[p] = "legacyPath"
    /\ Goto(p, "promote")
    /\ UNCHANGED <<diskVars, clientVars, configVars, op, planVars, tokenVars,
                   token, faults, historyVars>>

(* A usable target exists: credentials.json is redundant, to be removed    *)
(* once the configuration is saved.                                        *)
ClientSuperseded(p) ==
    /\ pc[p] = "client"
    /\ clientOld # "absent"
    /\ path[p] # "legacyPath"
    /\ clientNew = "valid"
    /\ changed' = [changed EXCEPT ![p] = path[p] = "unset"]
    /\ path' = [path EXCEPT ![p] = "target"]
    /\ rmClient' = [rmClient EXCEPT ![p] = TRUE]
    /\ Goto(p, "promote")
    /\ UNCHANGED <<diskVars, clientVars, configVars, op, promoted, tokenVars,
                   token, faults, historyVars>>

(* Neither file is usable: an error, and nothing is deleted.               *)
ClientUnusable(p) ==
    /\ pc[p] = "client"
    /\ clientOld = "invalid"
    /\ path[p] = "legacyPath" \/ clientNew # "valid"
    /\ Goto(p, "client_error")
    /\ UNCHANGED <<diskVars, clientVars, configVars, op, planVars, tokenVars,
                   token, faults, historyVars>>

(* credentials.json is to be copied over an absent or unusable target.     *)
ClientInstall(p) ==
    /\ pc[p] = "client"
    /\ clientOld = "valid"
    /\ path[p] # "legacyPath"
    /\ clientNew # "valid"
    /\ changed' = [changed EXCEPT ![p] = path[p] = "unset"]
    /\ path' = [path EXCEPT ![p] = "target"]
    /\ Goto(p, "install")
    /\ UNCHANGED <<diskVars, clientVars, configVars, op, promoted, rmClient,
                   tokenVars, token, faults, historyVars>>

(* Mutant: the relocation moves credentials.json before the copy is whole. *)
InstallBeginMoves(p) ==
    /\ pc[p] = "install"
    /\ clientNew' = "invalid"
    /\ clientOld' = "absent"
    /\ Goto(p, "installing")
    /\ UNCHANGED <<diskVars, configVars, op, planVars, tokenVars, token,
                   faults, historyVars>>

(* os.WriteFile truncates the target first ...                             *)
InstallBegin(p) ==
    /\ pc[p] = "install"
    /\ clientNew' = "invalid"
    /\ Goto(p, "installing")
    /\ UNCHANGED <<diskVars, clientOld, configVars, op, planVars, tokenVars,
                   token, faults, historyVars>>

(* ... and then writes the bytes read from credentials.json.               *)
InstallEnd(p) ==
    /\ pc[p] = "installing"
    /\ clientNew' = "valid"
    /\ rmClient' = [rmClient EXCEPT ![p] = TRUE]
    /\ Goto(p, "promote")
    /\ UNCHANGED <<diskVars, clientOld, configVars, op, path, changed,
                   promoted, tokenVars, token, faults, historyVars>>

-----------------------------------------------------------------------------
(* promoteLegacyConfigJSON: config.json becomes config.yml.                 *)

PromoteNothing(p) ==
    /\ pc[p] = "promote"
    /\ yml # "absent" \/ json = "absent"
    /\ Goto(p, "scan")
    /\ UNCHANGED <<diskVars, clientVars, configVars, op, planVars, tokenVars,
                   token, faults, historyVars>>

(* Mutant: config.json is removed before config.yml is written.            *)
PromoteSaveSwapped(p) ==
    /\ pc[p] = "promote"
    /\ yml = "absent"
    /\ json # "absent"
    /\ json' = "absent"
    /\ Goto(p, "save")
    /\ UNCHANGED <<diskVars, clientVars, yml, op, planVars, tokenVars,
                   token, faults, historyVars>>

PromoteSave(p) ==
    /\ pc[p] = "promote"
    /\ yml = "absent"
    /\ json # "absent"
    /\ yml' = path[p]
    /\ Goto(p, "unjson")
    /\ UNCHANGED <<diskVars, clientVars, json, op, planVars, tokenVars,
                   token, faults, historyVars>>

PromoteRemove(p) ==
    /\ pc[p] = "unjson"
    /\ json' = "absent"
    /\ promoted' = [promoted EXCEPT ![p] = TRUE]
    /\ Goto(p, "scan")
    /\ UNCHANGED <<diskVars, clientVars, yml, op, path, changed, rmClient,
                   tokenVars, token, faults, historyVars>>

-----------------------------------------------------------------------------
(* discover and planMigration.                                             *)

(* A read that fails is no candidate: keychainRead, secretToolRead and     *)
(* readLegacyTokenFile all return "absent" on any error.                   *)
ReadsOf(v) == IF FlakyReads THEN {v, None} ELSE {v}

Scan(p) ==
    /\ pc[p] = "scan"
    /\ scan[p] \in Source
    /\ \E v \in ReadsOf(legacy[scan[p]]) :
          found' = [found EXCEPT ![p][scan[p]] = v]
    /\ scan' = [scan EXCEPT ![p] = scan[p] + 1]
    /\ UNCHANGED <<diskVars, clientVars, configVars, pc, op, planVars, todo,
                   token, faults, historyVars>>

Candidates(p) == {s \in Source : found[p][s] # None}

(* Mutant: with no legacy token the new association is not saved.          *)
ScanNothingUnsaved(p) ==
    /\ pc[p] = "scan"
    /\ scan[p] \notin Source
    /\ Candidates(p) = {}
    /\ Goto(p, "rmclient")
    /\ UNCHANGED <<diskVars, clientVars, configVars, op, planVars, tokenVars,
                   token, faults, historyVars>>

(* No legacy token: save only a new client association the promotion has   *)
(* not saved already.                                                      *)
ScanNothing(p) ==
    /\ pc[p] = "scan"
    /\ scan[p] \notin Source
    /\ Candidates(p) = {}
    /\ Goto(p, IF changed[p] /\ ~promoted[p] THEN "save" ELSE "rmclient")
    /\ UNCHANGED <<diskVars, clientVars, configVars, op, planVars, tokenVars,
                   token, faults, historyVars>>

ScanDone(p) ==
    /\ pc[p] = "scan"
    /\ scan[p] \notin Source
    /\ Candidates(p) # {}
    /\ Goto(p, "plan")
    /\ UNCHANGED <<diskVars, clientVars, configVars, op, planVars, tokenVars,
                   token, faults, historyVars>>

(* The candidates all hold v.                                              *)
Agreed(p, v) == \A s \in Candidates(p) : found[p][s] = v

(* Mutant: any keyring value beside a legacy one is a conflict.            *)
DisagreesAlways(p, cur) ==
    \/ \E s \in Candidates(p) : ~Agreed(p, found[p][s])
    \/ cur # None

(* Mutant: the keyring value is not compared with the legacy one.          *)
DisagreesNever(p, cur) == \E s \in Candidates(p) : ~Agreed(p, found[p][s])

(* planMigration's conflict: the legacy sources disagree, or they disagree *)
(* with the value cur that the keyring was read to hold.                   *)
Disagrees(p, cur) ==
    \/ \E s \in Candidates(p) : ~Agreed(p, found[p][s])
    \/ cur # None /\ ~Agreed(p, cur)

PlanConflict(p) ==
    /\ pc[p] = "plan"
    /\ \E cur \in ReadsOf(keyring) : Disagrees(p, cur)
    /\ Goto(p, "conflict")
    /\ UNCHANGED <<diskVars, clientVars, configVars, op, planVars, tokenVars,
                   token, faults, historyVars>>

(* Mutant: a migrated value leaves the originals of the earlier run alone. *)
PlanCleanupSkipped(p) ==
    /\ pc[p] = "plan"
    /\ \E cur \in ReadsOf(keyring) : cur # None /\ ~Disagrees(p, cur)
    /\ Goto(p, "save")
    /\ UNCHANGED <<diskVars, clientVars, configVars, op, planVars, tokenVars,
                   token, faults, historyVars>>

(* The keyring already holds the value: only the originals are left over.  *)
PlanCleanup(p) ==
    /\ pc[p] = "plan"
    /\ \E cur \in ReadsOf(keyring) : cur # None /\ ~Disagrees(p, cur)
    /\ todo' = [todo EXCEPT ![p] = Candidates(p)]
    /\ Goto(p, "cleanup")
    /\ UNCHANGED <<diskVars, clientVars, configVars, op, planVars, found, scan,
                   token, faults, historyVars>>

PlanWrite(p) ==
    /\ pc[p] = "plan"
    /\ \E cur \in ReadsOf(keyring) : cur = None /\ ~Disagrees(p, cur)
    /\ todo' = [todo EXCEPT ![p] = Candidates(p)]
    /\ Goto(p, "write")
    /\ UNCHANGED <<diskVars, clientVars, configVars, op, planVars, found, scan,
                   token, faults, historyVars>>

-----------------------------------------------------------------------------
(* The rest of migrateLegacyOverwrite: write, clean up, save, unlink.       *)

(* Mutant: the migration writes WithOverwrite.                             *)
MayWriteOver == TRUE

(* Without WithOverwrite, SetBundle refuses a key that is present.         *)
MayWrite == keyring = None

WriteKeyring(p) ==
    /\ pc[p] = "write"
    /\ MayWrite
    /\ \E s \in Candidates(p) : keyring' = found[p][s]
    /\ Goto(p, "cleanup")
    /\ UNCHANGED <<legacy, clientVars, configVars, op, planVars, tokenVars,
                   token, faults, historyVars>>

WriteRefused(p) ==
    /\ pc[p] = "write"
    /\ ~MayWrite
    /\ Goto(p, "failed")
    /\ UNCHANGED <<diskVars, clientVars, configVars, op, planVars, tokenVars,
                   token, faults, historyVars>>

(* The deleters run in discovery order.                                    *)
NextCleanup(p, s) == s \in todo[p] /\ \A r \in todo[p] : s <= r

(* An OS item goes in one step.                                            *)
CleanupItem(p, s) ==
    /\ pc[p] = "cleanup"
    /\ NextCleanup(p, s)
    /\ s \notin FileSource
    /\ legacy' = [legacy EXCEPT ![s] = None]
    /\ todo' = [todo EXCEPT ![p] = @ \ {s}]
    /\ UNCHANGED <<keyring, clientVars, configVars, pc, op, planVars, found,
                   scan, token, faults, historyVars>>

(* secureDelete, first half: a file that is there is overwritten with      *)
(* zeros.                                                                  *)
CleanupZero(p, s) ==
    /\ pc[p] = "cleanup"
    /\ NextCleanup(p, s)
    /\ s \in FileSource
    /\ legacy' = [legacy EXCEPT ![s] = IF @ = None THEN None ELSE Zeroed]
    /\ Goto(p, "erase")
    /\ UNCHANGED <<keyring, clientVars, configVars, op, planVars, tokenVars,
                   token, faults, historyVars>>

(* secureDelete, second half: unlink; an absent file is success.           *)
CleanupUnlink(p, s) ==
    /\ pc[p] = "erase"
    /\ NextCleanup(p, s)
    /\ legacy' = [legacy EXCEPT ![s] = None]
    /\ todo' = [todo EXCEPT ![p] = @ \ {s}]
    /\ Goto(p, "cleanup")
    /\ UNCHANGED <<keyring, clientVars, configVars, op, planVars, found, scan,
                   token, faults, historyVars>>

CleanupDone(p) ==
    /\ pc[p] = "cleanup"
    /\ todo[p] = {}
    /\ Goto(p, "save")
    /\ UNCHANGED <<diskVars, clientVars, configVars, op, planVars, tokenVars,
                   token, faults, historyVars>>

(* SaveConfig writes the config loaded at the start: temp file and rename. *)
Save(p) ==
    /\ pc[p] = "save"
    /\ yml' = path[p]
    /\ Goto(p, "rmclient")
    /\ UNCHANGED <<diskVars, clientVars, json, op, planVars, tokenVars, token,
                   faults, historyVars>>

(* removeLegacyClient, deferred until the association is durable.          *)
RemoveClient(p) ==
    /\ pc[p] = "rmclient"
    /\ clientOld' = IF rmClient[p] THEN "absent" ELSE clientOld
    /\ Goto(p, "opened")
    /\ UNCHANGED <<diskVars, clientNew, configVars, op, planVars, tokenVars,
                   token, faults, historyVars>>

-----------------------------------------------------------------------------
(* After Open: the command's client and its refresh, or set-credential.    *)

(* SetToken overwrites whatever the entry holds.                           *)
SetToken(t) ==
    /\ keyring' = t
    /\ known' = known \cup {t}
    /\ superseded' = superseded \cup ({keyring} \ {None})

(* clientFromStore reads the token once; without one, or with one that does *)
(* not parse (migrated from the zeroed remains of a token.json), the        *)
(* command fails.                                                          *)
UseToken(p) ==
    /\ pc[p] = "opened"
    /\ op[p] = "command"
    /\ token[p] = None
    /\ keyring \in Token
    /\ token' = [token EXCEPT ![p] = keyring]
    /\ UNCHANGED <<diskVars, clientVars, configVars, pc, op, planVars,
                   tokenVars, faults, historyVars>>

NoToken(p) ==
    /\ pc[p] = "opened"
    /\ op[p] = "command"
    /\ token[p] = None
    /\ keyring \notin Token
    /\ Goto(p, "failed")
    /\ UNCHANGED <<diskVars, clientVars, configVars, op, planVars, tokenVars,
                   token, faults, historyVars>>

(* The refresh persister reopens the same ref and stores the new token.    *)
Refresh(p, t) ==
    /\ pc[p] = "opened"
    /\ op[p] = "command"
    /\ token[p] \in Token \ {t}
    /\ SetToken(t)
    /\ token' = [token EXCEPT ![p] = t]
    /\ UNCHANGED <<legacy, clientVars, configVars, pc, op, planVars,
                   tokenVars, faults>>

Finish(p) ==
    /\ pc[p] = "opened"
    /\ op[p] = "command"
    /\ token[p] # None
    /\ Goto(p, "done")
    /\ UNCHANGED <<diskVars, clientVars, configVars, op, planVars, tokenVars,
                   token, faults, historyVars>>

SetCredential(p, t) ==
    /\ pc[p] = "opened"
    /\ op[p] = "set-credential"
    /\ SetToken(t)
    /\ Goto(p, "done")
    /\ UNCHANGED <<legacy, clientVars, configVars, op, planVars, tokenVars,
                   token, faults>>

-----------------------------------------------------------------------------
(* config clear.                                                           *)

ClearToken(p) ==
    /\ pc[p] = "clear"
    /\ keyring' = None
    /\ superseded' = superseded \cup ({keyring} \ {None})
    /\ Goto(p, IF op[p] = "clear-all" THEN "rmyml" ELSE "done")
    /\ UNCHANGED <<legacy, clientVars, configVars, op, planVars, tokenVars,
                   token, faults, known>>

(* With --all an unusable keyring only costs a warning.                    *)
ClearSkipsToken(p) ==
    /\ pc[p] = "clear"
    /\ op[p] = "clear-all"
    /\ faults < MaxFaults
    /\ faults' = faults + 1
    /\ Goto(p, "rmyml")
    /\ UNCHANGED <<diskVars, clientVars, configVars, op, planVars, tokenVars,
                   token, historyVars>>

ClearYml(p) ==
    /\ pc[p] = "rmyml"
    /\ yml' = "absent"
    /\ Goto(p, "rmjson")
    /\ UNCHANGED <<diskVars, clientVars, json, op, planVars, tokenVars, token,
                   faults, historyVars>>

ClearJson(p) ==
    /\ pc[p] = "rmjson"
    /\ json' = "absent"
    /\ Goto(p, "done")
    /\ UNCHANGED <<diskVars, clientVars, yml, op, planVars, tokenVars, token,
                   faults, historyVars>>

-----------------------------------------------------------------------------
(* Faults: an I/O error ends the operation where it happens and leaves     *)
(* what it did so far; a crash ends it anywhere.                           *)

FailPoint == {"install", "installing", "promote", "unjson", "write",
              "cleanup", "erase", "save", "rmclient", "opened", "clear",
              "rmyml", "rmjson"}

Fault ==
    /\ faults < MaxFaults
    /\ faults' = faults + 1

Fail(p) ==
    /\ pc[p] \in FailPoint
    /\ Fault
    /\ Goto(p, "failed")
    /\ UNCHANGED <<diskVars, clientVars, configVars, op, planVars, tokenVars,
                   token, historyVars>>

Crash(p) ==
    /\ pc[p] \in Running
    /\ Fault
    /\ Goto(p, "crashed")
    /\ UNCHANGED <<diskVars, clientVars, configVars, op, planVars, tokenVars,
                   token, historyVars>>

-----------------------------------------------------------------------------
OpenStep(p) ==
    \/ ClientAbsent(p) \/ ClientInPlace(p) \/ ClientSuperseded(p)
    \/ ClientUnusable(p) \/ ClientInstall(p) \/ InstallBegin(p)
    \/ InstallEnd(p) \/ PromoteNothing(p) \/ PromoteSave(p)
    \/ PromoteRemove(p) \/ Scan(p) \/ ScanNothing(p) \/ ScanDone(p)
    \/ PlanConflict(p) \/ PlanCleanup(p) \/ PlanWrite(p)
    \/ WriteKeyring(p) \/ WriteRefused(p)
    \/ \E s \in Source :
          CleanupItem(p, s) \/ CleanupZero(p, s) \/ CleanupUnlink(p, s)
    \/ CleanupDone(p) \/ Save(p) \/ RemoveClient(p)

AfterOpen(p) ==
    \/ UseToken(p) \/ NoToken(p) \/ Finish(p)
    \/ \E t \in NewToken : SetCredential(p, t)

ClearStep(p) == ClearToken(p) \/ ClearYml(p) \/ ClearJson(p)

Step(p) == OpenStep(p) \/ AfterOpen(p) \/ ClearStep(p)

Next ==
    \E p \in Proc :
        \/ \E o \in UserOp : Start(p, o)
        \/ Step(p)
        \/ \E t \in NewToken : Refresh(p, t)
        \/ ClearSkipsToken(p)
        \/ Fail(p)
        \/ Crash(p)

Spec == Init /\ [][Next]_vars

(* The operating system runs every invocation, and the user keeps running  *)
(* commands after one has ended.                                           *)
Fairness ==
    \A p \in Proc :
        /\ WF_vars(Step(p))
        /\ WF_vars(Start(p, "command"))

FairSpec == Spec /\ Fairness

-----------------------------------------------------------------------------
(* Properties.                                                             *)

Held == {keyring} \cup {legacy[s] : s \in Source}

(* No step of a migration, and no crash in one, loses a token: every token *)
(* the machine ever held is still in the keyring or in a legacy source,    *)
(* unless a user action (set-credential, refresh, clear) replaced it.      *)
TokenNeverLost == known \subseteq Held \cup superseded

(* What a source gives only decays: an original is the value discover read,*)
(* or its zeroed remains, or gone.  No invocation writes a legacy source,  *)
(* so a plan made from an old read is never wrong about what it deletes.   *)
OnlyDecays ==
    \A p \in Proc, s \in Source :
        found[p][s] # None => legacy[s] \in {found[p][s], Zeroed, None}

(* What a cleanup is about to delete is in the keyring or was replaced     *)
(* there by the user: the deleters run only after the write.               *)
CleanupIsSafe ==
    \A p \in Proc :
        pc[p] \in {"cleanup", "erase"} =>
            \A s \in todo[p] : found[p][s] \in {keyring} \cup superseded

(* Open returns successfully only when no legacy original is left on the   *)
(* machine (reads that do not fail): a user who got an answer from an API  *)
(* command has no token outside the keyring.                               *)
OpenedMeansMigrated ==
    ~FlakyReads =>
        \A p \in Proc : pc[p] = "opened" => \A s \in Source : legacy[s] = None

(* What the proofs need beside the three above.  A plan is made after every *)
(* source was read.                                                        *)
PlannedAfterScan ==
    \A p \in Proc :
        pc[p] \in {"plan", "write", "cleanup", "erase"} => scan[p] \notin Source

(* A write is planned for exactly the candidates, which agree.             *)
WriteIsAgreed ==
    \A p \in Proc :
        pc[p] = "write" =>
            /\ todo[p] = Candidates(p)
            /\ \A r, s \in todo[p] : found[p][r] = found[p][s]

OnlyCandidatesGo ==
    \A p \in Proc :
        /\ todo[p] \subseteq Candidates(p)
        /\ pc[p] \in {"client", "install", "installing", "promote", "unjson",
                     "scan"} => todo[p] = {}

(* When reads do not fail, a source read as empty is empty for good ...    *)
EmptyStaysEmpty ==
    ~FlakyReads =>
        \A p \in Proc, s \in Source :
            s < scan[p] /\ found[p][s] = None => legacy[s] = None

(* ... and so is one whose deleter has returned.                           *)
DeletedIsGone ==
    ~FlakyReads =>
        \A p \in Proc :
            /\ pc[p] \in {"cleanup", "erase"} =>
                  \A s \in Source \ todo[p] : legacy[s] = None
            /\ pc[p] \in {"save", "rmclient", "opened"} =>
                  \A s \in Source : legacy[s] = None

PlanIsSound ==
    /\ PlannedAfterScan
    /\ WriteIsAgreed
    /\ OnlyCandidatesGo
    /\ EmptyStaysEmpty
    /\ DeletedIsGone

(* The inductive invariant.                                                *)
IInv ==
    /\ TypeOK
    /\ OnlyDecays
    /\ PlanIsSound
    /\ CleanupIsSafe
    /\ TokenNeverLost

ClientUsable == "valid" \in {clientOld, clientNew}

(* A machine with a usable OAuth client JSON keeps one: a crash in the     *)
(* truncating copy leaves credentials.json to retry from.                  *)
ClientNeverLost == [][ClientUsable => ClientUsable']_vars

(* credentials.json goes only once config.yml, as it is on disk, names the *)
(* file that replaces it (the reason its removal is deferred).             *)
ClientStaysReferenced ==
    [][clientOld # "absent" /\ clientOld' = "absent" => yml = "target"]_vars

(* The settings of config.json survive the promotion to config.yml: a      *)
(* recorded client path is never forgotten by the loader.                  *)
AssociationKept ==
    [][LoadedPath # "unset" => LoadedPath' # "unset"]_vars

(* If the user keeps running commands and faults stop, the legacy sources  *)
(* end up empty for good.                                                  *)
EventuallyMigrated == <>[](\A s \in Source : legacy[s] = None)

(* Two invocations overlap: what one read another may have removed.        *)
Overlap == \E p, q \in Proc : p # q

K == INSTANCE Keychain WITH
        Value <- Token, New <- NewToken, Junk <- Zeroed, Late <- Overlap,
        entry <- keyring, spare <- {legacy[s] : s \in Source} \ {None},
        past <- superseded

(* The migration, with its crashes and retries, is invisible to a user who *)
(* thinks of one token: a set-credential is never undone, an original goes *)
(* only when the entry stands for it, and what comes back after a config   *)
(* clear is, when invocations follow one another, an original that is still *)
(* on the machine and no other value (when they overlap, at worst something *)
(* the machine held before).                                               *)
ImplementsKeychain == K!Spec

(* An OAuth client JSON, not being a secret, never stops the token's       *)
(* migration.                                                              *)
ClientNeverBlocksToken == \A p \in Proc : pc[p] # "client_error"
=============================================================================
