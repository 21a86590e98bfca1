------------------------------- MODULE Sessions -------------------------------
(***************************************************************************)
(* What API commands leave behind for the next ones: the access token that *)
(* a long command refreshes, and the shared drives of a profile in its     *)
(* cache.                                                                  *)
(*                                                                         *)
(* A command resolves its profile when it opens the client and again when  *)
(* it opens the cache; what it read is in its memory while other commands, *)
(* the user and Google go on.  A token stands for the account it opens;    *)
(* that a client JSON fits it, and the e-mail address under which profiles *)
(* list shows it, are the subject of Accounts.                             *)
(***************************************************************************)
EXTENDS Naturals

CONSTANTS
    Proc,            \* invocations that may run at the same time
    Profile,         \* bare profile names
    DefaultProfile,  \* the profile of DefaultCredentialRef
    Account,         \* Google accounts
    Of,              \* Of[a]: the profile that its user has account a for
    None,            \* an absent value
    Select,          \* --profile / environment overrides in use; None: without
    MaxEvents        \* bound on changes by users, access tokens that expire,
                     \* errors and interrupts

Running == {"client", "cache", "read", "list", "save", "clear",
            "clear_config", "clear_cache"}

(* drives.json: whose shared drives it lists, and whether its age is below *)
(* drivesTTL.                                                              *)
Listing == [acct: Account, fresh: BOOLEAN]

ASSUME SessionsAssumption ==
    /\ DefaultProfile \in Profile
    /\ Of \in [Account -> Profile]
    /\ None \notin Profile \cup Account \cup Listing
    /\ Select \subseteq Profile \cup {None}
    /\ MaxEvents \in Nat

VARIABLES
    active,    \* credential_ref of config.yml
    keyring,   \* keyring[q]: the account of profile q's token
    drives,    \* drives[q]: <cache dir>/q/drives.json, if it can be read
    run,       \* run[p]: the state of invocation p
    events,    \* such events so far
    crossed    \* history: caches that hold what a command without override
               \* fetched for a profile that was then switched away

stores == <<active, keyring, drives>>
vars == <<active, keyring, drives, run, events, crossed>>

(* sel: override; ref and tok: profile and token of the client; dir: the   *)
(* profile of the cache; got: whose drives were fetched.                   *)
Run == [pc: Running \cup {"idle"}, sel: Profile \cup {None},
        ref: Profile \cup {None}, tok: Account \cup {None},
        dir: Profile \cup {None}]

IdleRun == [pc |-> "idle", sel |-> None, ref |-> None, tok |-> None,
            dir |-> None]

TypeOK ==
    /\ active \in Profile
    /\ keyring \in [Profile -> Account \cup {None}]
    /\ drives \in [Profile -> Listing \cup {None}]
    /\ run \in [Proc -> Run]
    /\ events \in 0..MaxEvents
    /\ crossed \in SUBSET Profile

(* A machine whose profiles have tokens, or none, and no caches.           *)
Init ==
    /\ active = DefaultProfile
    /\ keyring \in [Profile -> Account \cup {None}]
    /\ \A q \in Profile : keyring[q] # None => Of[keyring[q]] = q
    /\ drives = [q \in Profile |-> None]
    /\ run = [p \in Proc |-> IdleRun]
    /\ events = 0
    /\ crossed = {}

(* The profile that an override selects, else the active one of now.       *)
Selected(s) == IF s # None THEN s ELSE active
Effective(p) == Selected(run[p].sel)

Goto(p, label) == run' = [run EXCEPT ![p].pc = label]
End(p) == run' = [run EXCEPT ![p] = IdleRun]

Event == events < MaxEvents /\ events' = events + 1

Begin(p, label, s) ==
    /\ run[p].pc = "idle"
    /\ run' = [run EXCEPT ![p].pc = label, ![p].sel = s]
    /\ UNCHANGED <<stores, crossed>>

(* drive drives, and the list, search and tree commands that look up the   *)
(* name of a drive, open the client first ...                              *)
StartDrives(p, s) == Begin(p, "client", s) /\ UNCHANGED events

(* ... gro refresh the cache.                                              *)
StartRefresh(p, s) == Begin(p, "cache", s) /\ UNCHANGED events

(* config clear --all.                                                     *)
StartReset(p, s) == Begin(p, "clear", s) /\ Event

-----------------------------------------------------------------------------
(* The client of a command, and the token that it refreshes.               *)

(* Mutant: a client is made without a token.                               *)
OpenClientBlind(p) ==
    /\ run[p].pc = "client"
    /\ run' = [run EXCEPT ![p].ref = Effective(p),
                          ![p].tok = keyring[Effective(p)],
                          ![p].pc = IF run[p].dir = None THEN "cache" ELSE "list"]
    /\ UNCHANGED <<stores, events, crossed>>

(* clientFromStore captures the profile and its token.                     *)
OpenClient(p) ==
    /\ run[p].pc = "client"
    /\ keyring[Effective(p)] # None
    /\ run' = [run EXCEPT ![p].ref = Effective(p),
                          ![p].tok = keyring[Effective(p)],
                          ![p].pc = IF run[p].dir = None THEN "cache" ELSE "list"]
    /\ UNCHANGED <<stores, events, crossed>>

NoToken(p) ==
    /\ run[p].pc = "client"
    /\ keyring[Effective(p)] = None
    /\ End(p)
    /\ UNCHANGED <<stores, events, crossed>>

(* Mutant: the new access token goes to the profile that is active now.    *)
RefreshTokenActive(p) ==
    /\ run[p].pc = "list"
    /\ Event
    /\ keyring' = [keyring EXCEPT ![active] = run[p].tok]
    /\ UNCHANGED <<active, drives, run, crossed>>

(* The access token has expired: a request gets another one, and the       *)
(* persister writes it under the captured profile, whatever is there now.  *)
(* If it cannot, a warning is all that happens.                            *)
RefreshToken(p) ==
    /\ run[p].pc = "list"
    /\ Event
    /\ keyring' = [keyring EXCEPT ![run[p].ref] = run[p].tok]
    /\ UNCHANGED <<active, drives, run, crossed>>

-----------------------------------------------------------------------------
(* The cache of shared drives.                                             *)

(* Mutant: the cache is that of the active profile.                        *)
NewCacheActive(p) ==
    /\ run[p].pc = "cache"
    /\ run' = [run EXCEPT ![p].dir = active,
                          ![p].pc = IF run[p].ref = None THEN "client"
                                                         ELSE "read"]
    /\ UNCHANGED <<stores, events, crossed>>

(* cache.New resolves the profile on its own.                              *)
NewCache(p) ==
    /\ run[p].pc = "cache"
    /\ run' = [run EXCEPT ![p].dir = Effective(p),
                          ![p].pc = IF run[p].ref = None THEN "client"
                                                         ELSE "read"]
    /\ UNCHANGED <<stores, events, crossed>>

(* Mutant: a list is used however old it is.                               *)
UsableOfAnyAge(c) == c # None

(* GetDrives: missing, corrupt and stale all count as a miss.              *)
Usable(c) == c # None /\ c.fresh

Hit(p) ==
    /\ run[p].pc = "read"
    /\ Usable(drives[run[p].dir])
    /\ End(p)
    /\ UNCHANGED <<stores, events, crossed>>

Miss(p) ==
    /\ run[p].pc = "read"
    /\ ~Usable(drives[run[p].dir])
    /\ Goto(p, "list")
    /\ UNCHANGED <<stores, events, crossed>>

(* drive drives --refresh does not look, and a name is looked up on Drive  *)
(* when the cache cannot be read; otherwise the command stops (Stop).      *)
SkipCache(p) ==
    /\ run[p].pc = "read"
    /\ Goto(p, "list")
    /\ UNCHANGED <<stores, events, crossed>>

(* ListSharedDrives; the answer is in memory while others go on.           *)
List(p) ==
    /\ run[p].pc = "list"
    /\ Goto(p, "save")
    /\ UNCHANGED <<stores, events, crossed>>

(* SetDrives; the age counts from here.                                    *)
Save(p) ==
    /\ run[p].pc = "save"
    /\ drives' = [drives EXCEPT ![run[p].dir] = [acct |-> run[p].tok,
                                                 fresh |-> TRUE]]
    /\ crossed' = IF run[p].dir # run[p].ref /\ run[p].sel = None
                  THEN crossed \cup {run[p].dir} ELSE crossed \ {run[p].dir}
    /\ End(p)
    /\ UNCHANGED <<active, keyring, events>>

(* 24 hours have passed, or the file was damaged.                          *)
Expire(q) ==
    /\ Usable(drives[q])
    /\ drives' = [drives EXCEPT ![q].fresh = FALSE]
    /\ UNCHANGED <<active, keyring, run, events, crossed>>

-----------------------------------------------------------------------------
(* config clear --all, and what ends any command.                          *)

ClearToken(p) ==
    /\ run[p].pc = "clear"
    /\ keyring' = [keyring EXCEPT ![Effective(p)] = None]
    /\ Goto(p, "clear_config")
    /\ UNCHANGED <<active, drives, events, crossed>>

ClearConfig(p) ==
    /\ run[p].pc = "clear_config"
    /\ active' = DefaultProfile
    /\ Goto(p, "clear_cache")
    /\ UNCHANGED <<keyring, drives, events, crossed>>

(* The caches of every profile go.                                         *)
ClearCache(p) ==
    /\ run[p].pc = "clear_cache"
    /\ drives' = [q \in Profile |-> None]
    /\ crossed' = {}
    /\ End(p)
    /\ UNCHANGED <<active, keyring, events>>

(* An error or an interrupt: of the client, the request, the cache, a file *)
(* that cannot be removed.                                                 *)
Stop(p) ==
    /\ run[p].pc # "idle"
    /\ Event
    /\ End(p)
    /\ UNCHANGED <<stores, crossed>>

-----------------------------------------------------------------------------
(* What users change beside these commands.                                *)

(* set-credential, or an init, signs in to an account of the profile.      *)
SetCredential(s, a) ==
    /\ Of[a] = Selected(s)
    /\ Event
    /\ keyring' = [keyring EXCEPT ![Selected(s)] = a]
    /\ UNCHANGED <<active, drives, run, crossed>>

(* config clear without --all.                                             *)
Clear(s) ==
    /\ Event
    /\ keyring' = [keyring EXCEPT ![Selected(s)] = None]
    /\ UNCHANGED <<active, drives, run, crossed>>

(* profiles use.                                                           *)
Use(q) ==
    /\ Event
    /\ active' = q
    /\ UNCHANGED <<keyring, drives, run, crossed>>

-----------------------------------------------------------------------------
CommandStep(p) ==
    \/ OpenClient(p) \/ NoToken(p) \/ NewCache(p) \/ Hit(p) \/ Miss(p)
    \/ SkipCache(p) \/ List(p) \/ Save(p)
    \/ ClearToken(p) \/ ClearConfig(p) \/ ClearCache(p)

UserStep ==
    \/ \E s \in Select : Clear(s) \/ \E a \in Account : SetCredential(s, a)
    \/ \E q \in Profile : Use(q)

Next ==
    \/ UserStep
    \/ \E q \in Profile : Expire(q)
    \/ \E p \in Proc :
          \/ \E s \in Select :
                StartDrives(p, s) \/ StartRefresh(p, s) \/ StartReset(p, s)
          \/ CommandStep(p) \/ RefreshToken(p) \/ Stop(p)

Spec == Init /\ [][Next]_vars

(* The operating system runs every invocation, time passes, and users go   *)
(* on looking at their drives under each override.                         *)
Fairness ==
    /\ \A p \in Proc : WF_vars(CommandStep(p))
    /\ \A q \in Profile : WF_vars(Expire(q))
    /\ \A s \in Select : SF_vars(\E p \in Proc : StartDrives(p, s))

FairSpec == Spec /\ Fairness

-----------------------------------------------------------------------------
(* Properties.                                                             *)

(* "Each --profile selects one complete account context": whatever runs at *)
(* the same time, no refresh stores, and no cache shows, the account of    *)
(* another profile - except where profiles use came between the two times  *)
(* that a command without override resolved its profile.                   *)
AccountsApart ==
    \A q \in Profile :
        /\ keyring[q] # None => Of[keyring[q]] = q
        /\ drives[q] # None /\ q \notin crossed => Of[drives[q].acct] = q

(* Once nobody changes anything any more, the cache of a profile with a    *)
(* token that is in use comes to show the drives of its account and keeps  *)
(* doing so: neither a list of a former account, nor one that strayed from *)
(* another profile, nor one that a slow command saves over a newer, stays. *)
DrivesHeal ==
    <>[](\A q \in Profile \cap Select :
            keyring[q] # None =>
                drives[q] # None /\ drives[q].acct = keyring[q])
=============================================================================
