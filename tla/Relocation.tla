----------------------------- MODULE Relocation -----------------------------
(***************************************************************************)
(* The move of the configuration from the directory of older releases      *)
(* (~/.config/<name>) to the native one, on systems where the two differ:  *)
(* internal/config/relocate.go, the load and save of internal/config that  *)
(* go with it, and the operations that read or change either directory.    *)
(*                                                                         *)
(* Init detects and copies file by file; any command may load or save in   *)
(* between.  The migration that Open runs is one step here (its own steps  *)
(* are those of Migration).                                                *)
(***************************************************************************)
EXTENDS Naturals, Sequences

CONSTANTS
    Proc,            \* invocations that may run at the same time
    Profiles,        \* the bare profile names, in directory order
    DefaultProfile,  \* the profile of DefaultCredentialRef
    Scopes,          \* scope sets
    Backends,        \* explicit keyring settings
    App,             \* OAuth client IDs
    None,            \* an absent file, field or entry
    Bad,             \* a config file that does not parse
    Elsewhere,       \* a client path outside both directories
    Ops,             \* the operations users run
    MaxStarts,       \* bound on invocations
    MaxFaults,       \* bound on crashes and I/O errors
    InitYml,         \* config.yml of <<old, new>> a machine may start with
    InitJson,        \* config.json of <<old, new>> at the start
    InitClient       \* client files of the old directory at the start

Profile == {Profiles[i] : i \in 1..Len(Profiles)}
Dir == {"old", "new"}

(* credentials.json, oauth_client.json and oauth_clients/<profile>.json.   *)
ClientFile == {"credentials", "client"} \cup Profile
ClientPath == (Dir \X ClientFile) \cup {Elsewhere}

Owned == [client: ClientPath \cup {None}, scopes: Scopes \cup {None}]
NoneOwned == [client |-> None, scopes |-> None]

(* What a config file says: credential_ref, the keyring settings, the older *)
(* top-level client and scopes, and one entry per profile.                 *)
Config == [ref: Profile \cup {None}, keyring: Backends \cup {None}, top: Owned,
           own: [Profile -> Owned \cup {None}]]

DefaultConfig == [ref |-> None, keyring |-> None, top |-> NoneOwned,
                  own |-> [q \in Profile |-> None]]

FileState == Config \cup {None, Bad}

Op == {"init", "use", "command", "clear-all"}
Ended == {"idle", "done", "failed", "conflict"}
Running == {"gate", "list", "copy", "rename", "migrate", "record", "use", "clear"}

(* The entries of the old directory in the order of os.ReadDir; token.json *)
(* is left to the migration.  The managed client files come last, from a   *)
(* directory of their own.                                                 *)
CopyOrder == <<"json", "yml", "credentials", "client">> \o Profiles
FirstManaged == 5

(* configFilesForClear.                                                    *)
ClearOrder == <<<<"new", "yml">>, <<"new", "json">>,
                <<"old", "yml">>, <<"old", "json">>>>

VARIABLES
    yml,      \* yml[d]: config.yml of directory d
    json,     \* json[d]: config.json of directory d
    client,   \* client[d][n]: the OAuth client in file n of directory d
    pc,       \* pc[p]: what invocation p does next, or how it ended
    op,       \* op[p]: its operation
    arg,      \* arg[p]: the argument of profiles use
    next,     \* next[p]: the index of the next file to copy or remove
    listed,   \* listed[p]: the entries that os.ReadDir gave p
    buf,      \* buf[p]: the contents of the file that is being copied
    starts,   \* invocations so far
    faults    \* crashes and I/O errors so far

files == <<yml, json, client>>
vars == <<yml, json, client, pc, op, arg, next, listed, buf, starts, faults>>

ASSUME RelocationAssumption ==
    /\ Profiles \in Seq(Profile)
    /\ DefaultProfile \in Profile
    /\ Profile \cap {"yml", "json", "credentials", "client"} = {}
    /\ None \notin Profile \cup ClientPath \cup Owned
    /\ None \notin Config /\ Bad \notin Config
    /\ None \notin App
    /\ InitYml \subseteq FileState \X FileState
    /\ InitJson \subseteq FileState \X FileState
    /\ InitClient \subseteq [ClientFile -> App \cup {None}]
    /\ Ops \subseteq Op
    /\ MaxStarts \in Nat
    /\ MaxFaults \in Nat

(* The file ApplyConfigRelocation is at, and what such a file can hold.     *)
Copying(p) == CopyOrder[next[p]]
Copyable(p) ==
    IF next[p] > Len(CopyOrder) THEN {}
    ELSE IF Copying(p) \in ClientFile THEN App ELSE FileState \ {None}

TypeOK ==
    /\ yml \in [Dir -> FileState]
    /\ json \in [Dir -> FileState]
    /\ client \in [Dir -> [ClientFile -> App \cup {None}]]
    /\ pc \in [Proc -> Ended \cup Running]
    /\ op \in [Proc -> Op]
    /\ arg \in [Proc -> Profile]
    /\ next \in [Proc -> 1..(Len(CopyOrder) + 1)]
    /\ listed \in [Proc -> SUBSET ({"yml", "json"} \cup ClientFile)]
    /\ buf \in [Proc -> FileState \cup App]
    /\ \A p \in Proc : pc[p] = "rename" => buf[p] \in Copyable(p)
    /\ starts \in 0..MaxStarts
    /\ faults \in 0..MaxFaults

Init ==
    /\ \E c \in InitYml : yml = [d \in Dir |-> IF d = "old" THEN c[1] ELSE c[2]]
    /\ \E c \in InitJson : json = [d \in Dir |-> IF d = "old" THEN c[1] ELSE c[2]]
    /\ \E c \in InitClient :
          client = [d \in Dir |-> IF d = "old" THEN c
                                  ELSE [n \in ClientFile |-> None]]
    /\ pc = [p \in Proc |-> "idle"]
    /\ op = [p \in Proc |-> "command"]
    /\ arg = [p \in Proc |-> DefaultProfile]
    /\ next = [p \in Proc |-> 1]
    /\ listed = [p \in Proc |-> {}]
    /\ buf = [p \in Proc |-> None]
    /\ starts = 0
    /\ faults = 0

-----------------------------------------------------------------------------
(* One configuration: its active profile and what each profile owns.       *)

ActiveOf(c) == IF c.ref = None THEN DefaultProfile ELSE c.ref

Entry(c, q) == IF c.own[q] = None THEN NoneOwned ELSE c.own[q]

Diverge(a, b) == a # None /\ b # None /\ a # b

(* The older top-level fields against the entry of profile q.              *)
Conflicting(c, q) ==
    \/ Diverge(c.top.client, Entry(c, q).client)
    \/ Diverge(c.top.scopes, Entry(c, q).scopes)

(* The entries with the top-level fields attached to profile q.            *)
Attach(c, q) ==
    IF c.top = NoneOwned THEN c.own
    ELSE LET e == Entry(c, q)
         IN  [c.own EXCEPT ![q] =
                [client |-> IF e.client = None THEN c.top.client ELSE e.client,
                 scopes |-> IF e.scopes = None THEN c.top.scopes ELSE e.scopes]]

(* applyDefaults, for a file without a conflict.                           *)
Defaulted(c) == [c EXCEPT !.ref = ActiveOf(c), !.own = Attach(c, ActiveOf(c))]

(* What SaveConfig writes for a configuration in memory.                   *)
Saved(c) == [ref |-> ActiveOf(c), keyring |-> c.keyring, top |-> NoneOwned,
             own |-> Attach(c, ActiveOf(c))]

-----------------------------------------------------------------------------
(* detectRelocation.                                                       *)

(* Mutant: two client paths are the same only literally.                   *)
SamePathLiteral(q, a, b) == a = b

(* A client path of the old configuration and one of the new: the default  *)
(* or managed file of each directory count as the same.                    *)
SamePath(q, a, b) ==
    \/ a = b
    \/ a \in {None, <<"old", "client">>} /\ b \in {None, <<"new", "client">>}
    \/ a = <<"old", q>> /\ b = <<"new", q>>

LegacyConflict(c) == c.ref # None /\ Conflicting(c, c.ref)

Canonical(c) == IF c.ref = None THEN c.own ELSE Attach(c, c.ref)

(* configsMaterialEqual.                                                   *)
MaterialEqual(a, b) ==
    /\ a.ref = b.ref
    /\ a.keyring = b.keyring
    /\ ~LegacyConflict(a) /\ ~LegacyConflict(b)
    /\ \A q \in Profile :
          LET l == Canonical(a)[q]
              r == Canonical(b)[q]
          IN  \/ l = None /\ r = None
              \/ /\ l # None /\ r # None
                 /\ l.scopes = r.scopes
                 /\ SamePath(q, l.client, r.client)

(* Mutant: config.json comes first.                                        *)
FirstConfigJson(d) == IF json[d] # None THEN json[d] ELSE yml[d]

(* firstExistingConfig: config.yml, else config.json.                      *)
FirstConfig(d) == IF yml[d] # None THEN yml[d] ELSE json[d]

Kind ==
    LET o == FirstConfig("old")
        n == FirstConfig("new")
    IN  CASE o = None -> "none"
          [] o # None /\ n = None -> IF o = Bad THEN "divergent" ELSE "oldOnly"
          [] o # None /\ n # None ->
                IF o # Bad /\ n # Bad /\ MaterialEqual(o, n) THEN "equal"
                ELSE "divergent"

-----------------------------------------------------------------------------
(* LoadConfigForRuntime.                                                   *)

(* Mutant: a conflict falls through to config.json or the defaults.        *)
ReadConfigFallsThrough ==
    IF yml["new"] \notin {None, Bad} THEN yml["new"]
    ELSE IF yml["new"] = None /\ Kind = "oldOnly" THEN FirstConfig("old")
    ELSE IF json["new"] = None THEN DefaultConfig ELSE json["new"]

(* The file that is read: a conflict is tolerated only with config.yml of  *)
(* the new directory.                                                      *)
ReadConfig ==
    IF yml["new"] # None THEN yml["new"]
    ELSE IF Kind = "oldOnly" THEN FirstConfig("old")
    ELSE IF Kind = "divergent" THEN Bad
    ELSE IF json["new"] = None THEN DefaultConfig ELSE json["new"]

LoadFails == ReadConfig = Bad \/ Conflicting(ReadConfig, ActiveOf(ReadConfig))

(* The settings a command works with, or Bad.                              *)
Load == IF LoadFails THEN Bad ELSE Defaulted(ReadConfig)

-----------------------------------------------------------------------------
Goto(p, label) == pc' = [pc EXCEPT ![p] = label]

Start(p, o, q) ==
    /\ pc[p] \in Ended
    /\ starts < MaxStarts
    /\ starts' = starts + 1
    /\ op' = [op EXCEPT ![p] = o]
    /\ arg' = [arg EXCEPT ![p] = q]
    /\ next' = [next EXCEPT ![p] = 1]
    /\ listed' = [listed EXCEPT ![p] = {}]
    /\ Goto(p, CASE o = "init" -> "gate"
                 [] o = "use" -> "use"
                 [] o = "command" -> "migrate"
                 [] o = "clear-all" -> "clear")
    /\ UNCHANGED <<files, buf, faults>>

(* The gate of init: a conflict ends it before anything is written.        *)
GateConflict(p) ==
    /\ pc[p] = "gate"
    /\ Kind = "divergent"
    /\ Goto(p, "conflict")
    /\ UNCHANGED <<files, op, arg, next, listed, buf, starts, faults>>

GatePasses(p) ==
    /\ pc[p] = "gate"
    /\ Kind # "divergent"
    /\ Goto(p, IF Kind = "oldOnly" THEN "list" ELSE "migrate")
    /\ UNCHANGED <<files, op, arg, next, listed, buf, starts, faults>>

Contents(d, n) ==
    CASE n = "yml" -> yml[d]
      [] n = "json" -> json[d]
      [] n \in ClientFile -> client[d][n]

Present(n) == Contents("old", n) # None

(* os.ReadDir of the old directory and, where that has one, of its         *)
(* directory of managed clients.                                           *)
CopyList(p) ==
    /\ pc[p] = "list"
    /\ listed' = [listed EXCEPT ![p] =
          IF next[p] < FirstManaged
          THEN {n \in {"yml", "json"} \cup ClientFile : Present(n)}
          ELSE IF listed[p] \cap Profile = {} THEN {}
          ELSE {q \in Profile : Present(q)}]
    /\ Goto(p, "copy")
    /\ UNCHANGED <<files, op, arg, next, buf, starts, faults>>

(* Mutant: a file that is there is copied over.                            *)
MaySkipUnlistedOnly(p) == Copying(p) \notin listed[p]

(* The directory did not have the file, or the new one has it.             *)
MaySkip(p) == Copying(p) \notin listed[p] \/ Contents("new", Copying(p)) # None

(* The managed directory is listed when it is reached.                     *)
CopyNext(p) ==
    /\ next' = [next EXCEPT ![p] = @ + 1]
    /\ Goto(p, IF next[p] + 1 = FirstManaged THEN "list" ELSE "copy")

CopySkip(p) ==
    /\ pc[p] = "copy"
    /\ next[p] <= Len(CopyOrder)
    /\ MaySkip(p)
    /\ CopyNext(p)
    /\ UNCHANGED <<files, op, arg, listed, buf, starts, faults>>

(* Mutant: the place in the listing advances before the rename.            *)
CopyReadAdvances(p) ==
    /\ pc[p] = "copy"
    /\ next[p] < Len(CopyOrder)
    /\ ~MaySkip(p)
    /\ buf' = [buf EXCEPT ![p] = Contents("old", Copying(p))]
    /\ next' = [next EXCEPT ![p] = @ + 1]
    /\ Goto(p, "rename")
    /\ UNCHANGED <<files, op, arg, listed, starts, faults>>

(* copyFileAtomic: copied to a temporary file, unless it has gone since it *)
(* was listed ...                                                          *)
CopyRead(p) ==
    /\ pc[p] = "copy"
    /\ next[p] <= Len(CopyOrder)
    /\ ~MaySkip(p)
    /\ buf' = [buf EXCEPT ![p] = Contents("old", Copying(p))]
    /\ Goto(p, IF Present(Copying(p)) THEN "rename" ELSE "failed")
    /\ UNCHANGED <<files, op, arg, next, listed, starts, faults>>

(* ... which is renamed into place.                                        *)
CopyRename(p) ==
    /\ pc[p] = "rename"
    /\ LET n == Copying(p)
       IN  /\ yml' = IF n = "yml" THEN [yml EXCEPT !["new"] = buf[p]] ELSE yml
           /\ json' = IF n = "json" THEN [json EXCEPT !["new"] = buf[p]] ELSE json
           /\ client' = IF n \in ClientFile
                        THEN [client EXCEPT !["new"][n] = buf[p]] ELSE client
    /\ buf' = [buf EXCEPT ![p] = None]
    /\ CopyNext(p)
    /\ UNCHANGED <<op, arg, listed, starts, faults>>

CopyDone(p) ==
    /\ pc[p] = "copy"
    /\ next[p] > Len(CopyOrder)
    /\ Goto(p, "migrate")
    /\ UNCHANGED <<files, op, arg, next, listed, buf, starts, faults>>

-----------------------------------------------------------------------------
(* What commands do with the configuration they loaded.                    *)

LoadError(p) ==
    /\ pc[p] \in {"migrate", "record", "use"}
    /\ Load = Bad
    /\ Goto(p, "failed")
    /\ UNCHANGED <<files, op, arg, next, listed, buf, starts, faults>>

(* The next step after Open has migrated.                                  *)
AfterMigrate(p) == IF op[p] = "init" THEN "record" ELSE "done"

ActiveEntry(c) == Entry(c, c.ref)

(* migrateLegacyOverwrite: credentials.json of the new directory goes to   *)
(* the client path of the active profile, which is recorded, and           *)
(* config.json is promoted to config.yml.  Where a legacy token is found   *)
(* (a choice here; its own steps are in Migration), the loaded             *)
(* configuration is saved in any case.                                     *)
Migrate(p, token) ==
    /\ pc[p] = "migrate"
    /\ Load # Bad
    /\ LET c == Load
           old == <<"new", "credentials">>
           moves == client["new"]["credentials"] # None
           target == IF ActiveEntry(c).client # None THEN ActiveEntry(c).client
                     ELSE <<"new", "client">>
           out == IF moves THEN [c EXCEPT !.own[c.ref] =
                                    [ActiveEntry(c) EXCEPT !.client = target]]
                  ELSE c
           promotes == yml["new"] = None /\ json["new"] # None
           changed == moves /\ target # ActiveEntry(c).client
       IN  /\ yml' = IF promotes \/ changed \/ token
                     THEN [yml EXCEPT !["new"] = Saved(out)] ELSE yml
           /\ json' = IF promotes THEN [json EXCEPT !["new"] = None] ELSE json
           /\ client' = [d \in Dir |-> [n \in ClientFile |->
                 IF ~moves \/ target = old THEN client[d][n]
                 ELSE IF <<d, n>> = old THEN None
                 ELSE IF <<d, n>> = target /\ client[d][n] = None
                      THEN client["new"]["credentials"]
                 ELSE client[d][n]]]
    /\ Goto(p, AfterMigrate(p))
    /\ UNCHANGED <<op, arg, next, listed, buf, starts, faults>>

(* The rest of init: with a usable token nothing is recorded ...           *)
InitKeeps(p) ==
    /\ pc[p] = "record"
    /\ Load # Bad
    /\ Goto(p, "done")
    /\ UNCHANGED <<files, op, arg, next, listed, buf, starts, faults>>

(* ... and after a new consent the client and its scopes are.              *)
InitRecords(p, s, a) ==
    /\ pc[p] = "record"
    /\ Load # Bad
    /\ LET c == Load
           q == c.ref
           f == IF ActiveEntry(c).client # None THEN ActiveEntry(c).client
                ELSE <<"new", q>>
       IN  /\ yml' = [yml EXCEPT !["new"] =
                        Saved([c EXCEPT !.own[q] = [client |-> f, scopes |-> s],
                                        !.top = NoneOwned])]
           /\ client' = [d \in Dir |-> [n \in ClientFile |->
                 IF <<d, n>> = f /\ client[d][n] = None THEN a ELSE client[d][n]]]
    /\ Goto(p, "done")
    /\ UNCHANGED <<json, op, arg, next, listed, buf, starts, faults>>

(* profiles use, where the save is not refused.                            *)
UseProfile(p) ==
    /\ pc[p] = "use"
    /\ Load # Bad
    /\ LET c == [Load EXCEPT !.ref = arg[p]]
       IN  yml' = IF Load.ref # arg[p] /\ ~Conflicting(c, c.ref)
                  THEN [yml EXCEPT !["new"] = Saved(c)] ELSE yml
    /\ Goto(p, "done")
    /\ UNCHANGED <<json, client, op, arg, next, listed, buf, starts, faults>>

(* Mutant: only the files of the new directory go.                         *)
ClearCountNew == 2

ClearCount == Len(ClearOrder)

(* config clear --all removes one file after the other.                    *)
ClearFile(p) ==
    /\ pc[p] = "clear"
    /\ next[p] <= ClearCount
    /\ LET f == ClearOrder[next[p]]
       IN  IF f[2] = "yml" THEN yml' = [yml EXCEPT ![f[1]] = None] /\ json' = json
           ELSE json' = [json EXCEPT ![f[1]] = None] /\ yml' = yml
    /\ next' = [next EXCEPT ![p] = @ + 1]
    /\ UNCHANGED <<client, pc, op, arg, listed, buf, starts, faults>>

ClearDone(p) ==
    /\ pc[p] = "clear"
    /\ next[p] > ClearCount
    /\ Goto(p, "done")
    /\ UNCHANGED <<files, op, arg, next, listed, buf, starts, faults>>

(* A crash, an I/O error or ctrl-C; a temporary file that is left is never *)
(* read.                                                                   *)
Stop(p) ==
    /\ pc[p] \in Running
    /\ faults < MaxFaults
    /\ faults' = faults + 1
    /\ buf' = [buf EXCEPT ![p] = None]
    /\ Goto(p, "failed")
    /\ UNCHANGED <<files, op, arg, next, listed, starts>>

CopyStep(p) ==
    CopyList(p) \/ CopySkip(p) \/ CopyRead(p) \/ CopyRename(p) \/ CopyDone(p)

Next ==
    \E p \in Proc :
        \/ \E o \in Ops :
              \E q \in IF o = "use" THEN Profile ELSE {DefaultProfile} :
                  Start(p, o, q)
        \/ GateConflict(p) \/ GatePasses(p) \/ CopyStep(p)
        \/ LoadError(p) \/ InitKeeps(p)
        \/ \E token \in BOOLEAN : Migrate(p, token)
        \/ \E s \in Scopes, a \in App : InitRecords(p, s, a)
        \/ UseProfile(p) \/ ClearFile(p) \/ ClearDone(p) \/ Stop(p)

Spec == Init /\ [][Next]_vars

-----------------------------------------------------------------------------
(* Properties.                                                             *)

(* A command never works with the defaults, or with the older directory's  *)
(* settings, while the new directory has a configuration: what it loads is *)
(* what the user would be shown, or it fails.                              *)
LoadIsHonest ==
    Load # Bad =>
        LET source == IF FirstConfig("new") # None THEN FirstConfig("new")
                      ELSE FirstConfig("old")
        IN  IF source = None THEN Load = Defaulted(DefaultConfig)
            ELSE source # Bad /\ Load = Defaulted(source)

(* A command that found client path a finds the same file at b, or its     *)
(* namesake in the new directory; without a path it cannot authenticate at *)
(* all and says so.                                                        *)
SameClient(a, b) ==
    \/ a = b
    \/ None \in {a, b}
    \/ \E n \in ClientFile : a = <<"old", n>> /\ b = <<"new", n>>

(* Loaded settings o and n work with the same account, keyring and scopes, *)
(* and with the same client where they name one.                           *)
SameSettings(o, n) ==
    /\ o.ref = n.ref
    /\ o.keyring = n.keyring
    /\ \A q \in Profile :
          /\ Entry(o, q).scopes = Entry(n, q).scopes
          /\ SameClient(Entry(o, q).client, Entry(n, q).client)

(* No step of a relocation, and no crash in one, silently changes the      *)
(* settings that commands work with: in between a command sees the same    *)
(* settings or fails.  (Where the old directory has both files, the one    *)
(* that is read first before the step may be read second after it.)        *)
SettingsSurvive ==
    [][\A p \in Proc :
          /\ pc[p] \in {"gate", "list", "copy", "rename"}
          /\ <<pc'[p], next'[p]>> # <<pc[p], next[p]>>
          /\ Load # Bad
          => Load' = Bad \/ SameSettings(Load, Load') \/ SameSettings(Load', Load)]_vars

(* An init that was not interrupted leaves the settings and every client   *)
(* file of the old directory in the new one, and what was there it leaves  *)
(* alone.                                                                  *)
RelocationCompletes ==
    [][\A p \in Proc :
          /\ pc[p] = "copy" /\ pc'[p] = "migrate" =>
                /\ FirstConfig("new") = FirstConfig("old")
                /\ \A n \in ClientFile :
                      client["old"][n] # None => client["new"][n] # None
          /\ pc[p] \in {"copy", "rename"} =>
                \A n \in ClientFile :
                    client["new"][n] # None =>
                        client'["new"][n] = client["new"][n]]_vars

(* The promotion and the client move of Open turn no relocated machine     *)
(* into one with a conflict, if the old file names its active profile and  *)
(* has an entry for it.                                                    *)
PeaceKept ==
    [][\A p \in Proc :
          /\ \E token \in BOOLEAN : Migrate(p, token)
          /\ Kind = "equal"
          /\ LET o == FirstConfig("old")
             IN  o.ref # None /\ Canonical(o)[o.ref] # None
          => Kind' = "equal"]_vars

(* When config clear --all reports success, no settings are left for a     *)
(* later relocation to bring back.                                         *)
ClearIsFinal ==
    [][\A p \in Proc :
          pc[p] = "clear" /\ pc'[p] = "done" =>
              Kind = "none" /\ Load = Defaulted(DefaultConfig)]_vars
=============================================================================
