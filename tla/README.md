# TLA+ models of google-cli (`gro` and `grw`)

This directory holds the TLA+ specifications kept beside the Go sources: what
the two command-line tools do to the state they share - the keyring, the
configuration files, the caches and the user's Google account - when
invocations overlap, fail half-way, are interrupted, or follow each other in an
order nobody wrote a test for. Every module was written from the sources under
`src/`; `PROJECT.json` maps each definition to the lines it stands for.

## 1. The system

`gro` (read and organise) and `grw` (read and write) are two binaries from one
module. Each invocation is a short-lived process. Processes share no memory;
they share the machine (config directory, keyring, caches) and the account at
Google. Nothing takes a file lock: the only mutexes are inside one process
(`PersistentTokenSource`, the label cache of the Gmail client).

| Component | State | Operations | Talks to |
|---|---|---|---|
| keychain migration (`internal/keychain/migrate.go`) | legacy token sources, keyring entry, OAuth client JSON, `config.yml` / `config.json` | `Open` runs client relocation, config promotion, discovery, plan, write, cleanup, save | config, keyring; every API command, `set-credential` |
| profiles and accounts (`internal/cmd/init`, `profiles`, `config`, `setcred`, `internal/config/config.go`, `internal/auth`) | `config.yml` (active profile, clients and scopes per profile), OAuth client files, keyring entry per profile, identity cache | `init`, `profiles use`, `set-credential`, `config clear [--all]`, `clientFromStore` | keyring, OAuth server, Gmail and People verification calls |
| token refresh (`internal/keychain/token_source.go`, `internal/auth`) | the token and profile captured when the client was made | `Token`, persist | keyring of the captured profile |
| configuration relocation (`internal/config/relocate.go`, `identity.go`) | canonical and older config directories | detect, classify, copy file by file, load at run time | `init`, every load |
| Drive metadata cache and `refresh` (`internal/cache`, `internal/cmd/refresh`, `internal/identitycache`) | `drives.json` per profile, the identity file | get, set, status, clear, refresh | Drive API, profile resolution |
| label cache and label mutation (`internal/api/gmail/client.go`, `internal/rw/gmail`) | label maps, loaded flag, RWMutex | fetch, look up, create, rename, delete, invalidate | Gmail API |
| bulk mutations (`internal/bulk`, `internal/api/gmail`, `internal/rwcmd`) | the ids of a run, the remote items | resolve, dry run, confirm, chunks of 1000 or one by one | Gmail, Drive, Contacts, Calendar |
| drafts (`internal/cmd/mail/draft.go`, `internal/api/gmail/drafts.go`, `internal/rwcmd/mail/send.go`, `internal/rw/gmail/drafts.go`) | the Drafts folder, the mailbox | compose, reply, preview, send | Gmail, the web client beside it |
| reply and quoting rules (`internal/cmd/mail/draft.go`, `quoted_reply.go`) | none: pure | recipients, subject, thread, quoting, hiding quoted history | drafts, the read commands |
| edits of remote objects (`internal/rwcmd/mail/vacation.go`, RSVP, color, contacts) | the remote object and its version | get, modify, put | Gmail, Calendar, People, other clients |
| mail filters (`internal/rwcmd/mail/filter.go`) | none | list, create, delete with one request each | Gmail |
| archives and downloads (`internal/zip`, `attachments_download.go`) | the destination directory, running totals | extract with limits, name files | file system |

The last two rows are not modelled, nor are the requests and the rendering of
the read commands, Cobra wiring and the import boundary that the repository's
architecture tests decide, output and text filtering, the external libraries
`credstore` and `statedir` (modelled by the contract their callers rely on),
packaging and CI. Section 8 gives the reasons.

## 2. What is hard here

`PROJECT.json` lists each hazard at its line with the properties that watch
it. The pattern behind most of them is one of four:

* **resolved twice** - a command resolves "its" profile, client path or cache
  more than once and the answer changes in between;
* **whole-file load, change, save** - `config.yml`, the identity file and
  remote settings are written back whole, without a version;
* **two stores, one update** - keyring and config, client file and its
  association, copy and removal, keyring and legacy originals: a crash or
  error falls between the two writes;
* **answer taken for more than it says** - "may be present", zeros in a file
  being erased, a cache that was filled before the change.

## 3. Modules and how they correspond to the code

Every process `p` of a model is one invocation of `gro` or `grw`; `pc[p]` is
the place it has reached. A step that reads or writes something another
invocation can see - a file, a keyring entry, the account - is an action of
its own; what happens in memory between two such steps belongs to the step
before it. An interrupt or an I/O error can fall between any two actions.

| Module | Models | State → code |
|---|---|---|
| `Migration` | `keychain.Open` with the one-time migration: relocation of the OAuth client JSON, promotion of `config.json`, discovery, plan, write, deleters, save; then the command's use and refresh of the token; `set-credential` and `config clear` beside it | `legacy` the sources of `discover()`, in its order; `keyring` the `oauth_token` key; `clientOld`/`clientNew` `credentials.json`/`oauth_client.json`; `yml`/`json` the two config files, reduced to the client path they record; `found`, `scan`, `todo` the candidates of one plan |
| `Keychain` | what `keychain.go` promises one profile, without migration: one token, which only its user replaces or clears | abstract: `entry` the keyring entry, `spare` originals elsewhere, `past` what users have replaced or cleared; `Late` whether invocations overlap. `Migration` implements it (`ImplementsKeychain`): `Fill` is the migration's write, `Erase` a deleter, `Put` `set-credential`, a refresh or a clear, and every other step is a stutter |
| `Accounts` | `init`, `profiles use`, `set-credential`, `config clear` (token, configuration and cache one after another), an API command and `profiles list --check` | `file` `config.yml`; `client` the OAuth client files, `Torn` one that a write has emptied and not filled; `keyring` and `identity` (the identity cache) per profile; `run[p]` the locals of one invocation (`tgt` the target ref, `cfg` the loaded configuration, `api` the profile an API client was opened for, `tok` its token, `map` the identity cache in memory, `fresh` whether this init has stored a new token). Whoever holds an API client may store a refresh, an init that verifies included. Scope sets are numbered by the release that asked for them; `ProfileScope` tells `gro`, which asks for the user's profile, from `grw`. History: `Token.for`, the profile its user was told, and `cut`, the client files whose write was interrupted |
| `Sessions` | what API commands leave behind: the client with the token it refreshes, the per-profile cache of shared drives (`drive drives`, the lookup of a drive by name, `gro refresh`), `config clear [--all]`, and the changes of profile and account beside them | `keyring[q]` and `drives[q]` per profile, a token standing for the account it opens; `run[p]` the profile of the client (`ref`), the token (`tok`) and the profile of the cache (`dir`), each resolved at its own time; `crossed` is history |
| `Relocation` | `detectRelocation`, `ApplyConfigRelocation`, `LoadConfigForRuntime`, the migration's effect on the relocated copy (with the save that follows a migrated token), `profiles use`, `config clear --all` | `yml`, `json`, `client` per directory (`"old"`, `"new"`); a configuration keeps `ref`, `keyring` (the backend it chooses), the top-level fields and the profile entries; `listed[p]` the entries of the old directory when the copy began |
| `BulkOps` | the commands over many messages, files, contacts or events, and the label and group commands whose effects they meet | `alive` the items that exist, `names` the labels or groups; `ids`, `at` the list and the place in the loop; `touched`, `agreed` are history |
| `Replies` | the rules of `draft.go` and `quoted_reply.go`, without state | a plain body is a sequence of lines, each with its quote marks and its kind; an HTML body the levels of its right edge, the only part the rules look at |
| `Drafts` (uses `Replies`) | `mail draft`, `grw mail send` and the web client on one mailbox | `mail` the messages, which grow as drafts are sent and can be replied to again; `drafts` by ID; `run[p]` the locals of one invocation; `sent` is history |
| `RemoteEdits` (extends `Drafts`) | `mail vacation update`, `enable`, `disable`, `calendar rsvp`, `calendar color`, `contacts update` and other clients that write the same objects | `vacation`, `event`, `contact` the objects at Google; `got` the copy an invocation has read; `since` (history) the fields that changed after it did |

`Migration`, `Accounts` and `Sessions` share the keyring and the
configuration, but no run composes them: `Accounts` and `Sessions` start from
machines without legacy tokens, on which the migration changes nothing, and
`Migration` follows one profile; what it owes the other two is stated by
`Keychain`. `Sessions` composes token refresh and drive cache, which meet in
the resolution of the profile, and takes an init or `set-credential`, whose
steps are those of `Accounts`, as the one step that other commands see.
`Relocation` takes the migration of the configuration as one action
(`Migrate`), because `Migration` already has its steps and crashes.

Deliberate simplifications:

* `credstore.SetBundle` without overwrite refuses a key that exists, and does
  so atomically; so does the keyring's own set and delete. This is what
  `migrate.go` relies on.
* An init looks for a token and reads the client file beside it in one step.
  `config clear` with a keyring that does not open is left out: it stops before
  it removes anything, and with `--all` leaves the token and removes the files.
* The wizard's three attempts at pasting a client JSON are one: three refused
  attempts end like one.
* An access token expires while a command holds it a bounded number of times
  (`MaxEvents` in `Sessions`). No command makes requests from several
  goroutines, so the mutex of `PersistentTokenSource` has nothing to guard and
  is left out.
* `BulkOps` has one command per control flow: `mail archive`, `star`,
  `mark-read`, `categorize`, `delete` (to Trash) and `restore` differ in the
  labels they set only, and no property looks at the labels of a message.
  System labels are never deleted.
* Bcc is handled like Cc and left out. A contact has the two groups that are
  merged with what was read (the name with how it sounds, which a merge clears;
  the organizations, of which a merge keeps the first) and one that is replaced
  (e-mail). The display name is Google's to derive, and left out.
* How a text is recognised as one of the kinds of lines and nodes of `Replies`
  (regular expressions, class names) is not modelled; what follows from the
  kinds is.
* A Gmail label cache lives as long as its process, and a process looks one
  label up, so that the cache is the list it fetched.

Constants and their assumptions are named (`MigrationAssumption`,
`AccountsAssumption`, `SessionsAssumption`, `RelocationAssumption`,
`BulkAssumption`, `DraftsAssumption`, `EditsAssumption`, which give flags,
messages and objects their types and nothing else); the `MC*` modules give them
values, and every machine a run starts from is listed there.

## 4. What the runs check

| Run | Question | Bounds | Distinct states |
|---|---|---|---|
| `migration_crash` | Is anything lost when one invocation follows another, over every start state, two faults and reads that may fail, and is the keyring the strict keychain then? | 1 process, 2 sources (one OS item, one file), 2 old tokens and a new one, 2 faults | 1.4 M |
| `migration_race` | Do two invocations that plan from stale reads still look like one token to the user, and does the client JSON keep its reference? | 2 processes, 1 fault | 2.5 M |
| `migration_live` | Does every machine end up migrated? | 2 processes, 2 faults, OS items only | 0.3 M |
| `migration_client` | (finding) "never blocks the token path" | 1 process, no fault | - |
| `accounts_sequential` | Any four invocations in turn, from files of new and older releases, with a release that widens the scopes, a keyring that may not open and one fault | 1 process, 2 profiles, 2 clients | 3.6 M |
| `accounts_flags` | Invocations with `--profile` that overlap | 2 processes, 3 invocations, processes alike | 2.0 M |
| `accounts_switch` | (finding) an unflagged init and a switch | 2 processes | - |
| `accounts_inherit` | (finding) a switch on an older file | 1 process | - |
| `sessions` | What do commands leave to the next ones while users switch, clear and sign in? | 2 processes, 2 profiles, 3 accounts (2 of one profile), with and without override, 2 changes, expiries or interrupts | 0.6 M |
| `relocation` | Every mix of files in two directories, four invocations, one crash | 1 process | 0.2 M |
| `bulk` | Two invocations on one account, one fault | 3 items, batches and pages of 2, 2 invocations that may each be repeated | 1.1 M |
| `remote_edits` | Up to three invocations on drafts, or on the responder, an event or a contact | 2 processes, 1 lost answer or interrupt, 1 change by another client, 14 source messages, 8 sets of flags | 0.7 M |

Why the bounds are enough. The hazards need at most two invocations that
overlap, and two old tokens are needed to disagree and a third to be newer. Two
sources show the cleanup between two deleters, and one of each kind shows both
deleters. Four invocations are enough for init, switch, clear and init again.
Two events show a token refreshed after the account was replaced (the
replacement is one, the expiry the other), and a cache filled between two
changes of the active profile; two accounts of one profile show what is left of
the former one. Two batches need three IDs, and a list with an ID given twice
shows the second request for an item that is gone. Three invocations show a
reply to a reply, and two that send the same draft. The mailbox, the responder,
the event and the contact share no state and no command is about two of them, so
`remote_edits` explores behaviours about one (`OneObject`), and takes the two
processes as alike (`Symmetry`). Deadlock is not checked where users may stop
(`CHECK_DEADLOCK FALSE`): the number of invocations is bounded in `Accounts`,
`Relocation`, `BulkOps` and `RemoteEdits`, and in `Sessions` nobody has to start
another. `Migration`'s users never stop, and its passing runs check deadlock.

### What they show

* **Migration.** A token is at every moment in the keyring or in a legacy
  source (`TokenNeverLost`), and what a cleanup is about to delete is in the
  keyring or was replaced there by a user (`CleanupIsSafe`), although plans are
  made from reads that another invocation has made stale. To its user the whole
  machinery, with a fault between any two steps, is a keychain of one token
  (`ImplementsKeychain`): nothing but the user replaces it, and what fills an
  entry that the user cleared is an original that the clear left on the machine.
  That is what `migration_crash` checks, where one invocation follows another.
  In `migration_race` the abstract keychain is the weaker one (`Late`): an
  invocation that planned before the clear writes after it what it had read, so
  that a token the user had cleared may come back. `Open` succeeds only
  when no original is left (`OpenedMeansMigrated`). The client JSON is unlinked
  after the saved configuration names its successor. `ClientNeverLost` is
  checked for one invocation at a time: two first runs share the truncating
  write of the target.
* **Accounts.** With an override on every invocation no interleaving puts a
  token or a client under another profile (`TokenOnTarget`), nor an email
  address (`IdentityOnTarget`): a save of the identity cache may bring back an
  older entry of a profile, never another profile's. No profile gets the
  client of another, although each invocation saves the whole `config.yml` that
  it loaded (`OwnClient`); that the later save may drop an association which the
  other recorded meanwhile is so in the code, and no property denies it. For
  invocations that do not overlap, recorded scopes, clients and tokens agree
  (`ScopesHonest`, `ClientMatches`) and no init stores its token over one that
  its user was not asked about, a keyring that does not open included
  (`NeverClobbers`). An init that verified a token, or stored a new one, leaves
  a profile that opens. One that was told not to verify the token it found says
  "done" of less (`InitLeavesUsable`, the end `accepted`): that a keyring which
  opened had a token, and that there is a client file. A write of the client
  file that was interrupted leaves one that no command can read: an init with
  `--no-verify` accepts it (`init.go:928-930`), and one that imports a client
  does not compare it with the old one (`init.go:1001-1011`). `cut` is the
  history of such files, and `ClientMatches` excepts them until the next
  consent.
* **Relocation.** A load never falls back to the defaults or to the older
  directory while the new one has settings (`LoadIsHonest`), a copy interrupted
  anywhere changes no setting silently, the keyring backend included
  (`SettingsSurvive`), what Open saves is no difference to the detection
  (`PeaceKept`), and a reset is final. "Equal" does not mean the same client, and
  no property says so: `oauthClientPathEquiv` takes a profile without a client
  path for one with the default path, although `auth.go:79-82` fails for the
  former, and the comment at `relocate.go:283-287` counts the two as divergent.
  A profile without a path fails loudly, which is how `SettingsSurvive` takes it.
* **Sessions.** Whatever overlaps, no refresh stores the account of another
  profile, and no cache lists one, except where a `profiles use` fell between the
  two resolutions of one command without override (`AccountsApart`); a refresh
  that brings back a token the user cleared or replaced brings back one of the
  same profile. What a late refresh or a slow listing left in the cache does
  not stay: once nobody changes anything, the drives shown become those of the
  account in the keyring, and remain so (`DrivesHeal`).
* **BulkOps.** A printed count is true (`ReportHonest`), a failure leaves a
  prefix of the list and nothing after it (`FailureIsPrefix`), and nothing is
  erased without the agreement of that invocation's user
  (`ErasedWithConsent`). What only sets a mark, and `mail delete --permanent`,
  can be repeated after a failure until it is done (`RetryCompletes`);
  `drive delete --permanent`, `contacts delete` and `calendar delete` cannot,
  since they stop at the first ID that is gone. They are left out of the
  property, and listed as a hazard.
* **Drafts and edits.** A draft is sent once even if the answer was lost and the
  command repeated (`SentOnce`), because a send names the draft and consumes it;
  and what is sent is what the preview showed unless the draft was edited in
  between (`SentAsShown`), as the help text of `grw mail send` says. A reply to
  all reaches everybody once (`ReplyReachesAll`), references grow by one through
  replies to replies (`ThreadChain`), and the rules that hide history undo
  exactly what `draft.go` quotes and, whatever the message, put one mark in the
  place of a quote that nothing is written below, or of a message below its
  headers and a marker (`HidesQuotesOnly`, whose letters are the cases of
  `quoted_reply_test.go`). An edit changes what it was asked to, puts the rest
  back as it was read and drops no guest (`EditsAsAsked`); the responder and the attendees have no
  version, so what another client changes meanwhile is put back too, which the
  property leaves out and the hazards list. A contact has an etag, and there
  nothing is undone and nothing is lost but how a replaced name sounds and
  organizations after the first (`ContactNeverReverts`).

### Findings

The three `violation` runs each show that the code does otherwise than a comment
of the repository says; `PROJECT.json` quotes the comment. In short: an
unusable client JSON stops the migration of the token; a `profiles use` while
an unflagged `init` waits makes it store the token under a profile it never
named; and a switch on a configuration with the older top-level fields hands
them to the new profile.

Seen while modelling, and kept without a run of their own:

* `token_source.go:12-16` says that the refresh updates an existing key, "never
  a new key". `auth.go:139` writes without asking, so that a command that was
  running during a `config clear` creates the entry again (`RefreshToken` in
  `Sessions`). The token is one of the same profile, which is what
  `AccountsApart` keeps.
* `keychain.go:133-136` says that account-derived state cannot follow the active
  config while a command targets a different profile. That is so with an
  override (`OverridesNeverCross`). Without one, a switch between the client and
  `cache.New` stores one profile's drives for another until they expire; this is
  what `crossed` records.
* When the keyring cannot be opened, `describeTarget` (`init.go:259-267`)
  announces the active profile, although with an override another one is
  written. `accounts_flags` therefore has a keyring that opens, and in
  `accounts_sequential` it may fail for invocations without an override.
* When it cannot be opened at `storeHasToken` (`init.go:313-322`), "a token may be
  present" is taken for a token, and `init --no-verify` reports success on an
  empty keyring.
* `init.go:999-1000` says that a new client is not installed beside a token that
  was granted through another. After an interrupted write of the client file the
  old client is unknown, and any other one is let in.

## 5. Fairness

* `migration_live` (`FairSpec`): weak fairness of every invocation's steps (the
  operating system schedules a process; nothing in the code waits for another
  process) and of starting a command (the user goes on using the tool). Crashes
  and errors are bounded and have no fairness. Without the second assumption a
  machine may stay unmigrated for the reason that nobody uses it. Legacy files
  are left out of this run: a crash between zeroing and unlinking `token.json`
  leaves zeros that no later run can parse, and the conflict it reports needs
  the user.
* `sessions` (`FairSpec`): weak fairness of the steps of every invocation (the
  operating system) and of `Expire` (24 hours pass), and strong fairness of
  starting a drive command under each override: the user goes on looking. It is
  strong because a process may be busy each time the user would start the
  command; that at some time it is free is what the first gives. Changes,
  expiries of access tokens and interrupts are bounded and have no fairness: the
  property speaks of the time after the last one.
* `bulk` (`FairSpec`): weak fairness of every invocation's steps, and of
  repeating a failed command. The second is an assumption about the user, and
  the property says what repeating achieves.

## 6. Proofs

`MigrationProofs`, `AccountsProofs`, `AccountsAloneProofs`, `SessionsProofs`,
`RelocationProofs`, `BulkOpsProofs`, `RepliesProofs` and `RemoteEditsProofs` hold for every number of
processes, sources, tokens, profiles, accounts, clients, items, labels, messages
and drafts, for texts and headers of every length, and for every bound.

* `Migration!TypeCorrect`, `InductiveInvariant`, `TokenNeverLostHolds`,
  `CleanupIsSafeHolds`, `OpenedMeansMigratedHolds`, `KeychainImplemented`.
  `TokenNeverLost` is not inductive: a deleter that runs on a plan nobody
  vouches for could remove the last copy. `IInv` adds that what was read from a
  source can only decay (`OnlyDecays`: no invocation writes a legacy source),
  that a write is planned for candidates which agree (`WriteIsAgreed`), that
  only candidates are deleted, and that what a deleter is about to remove is
  safe (`CleanupIsSafe`). For `OpenedMeansMigrated` it also carries that a
  source read as empty, or deleted, stays empty, which needs reads that do not
  fail. `KeychainImplemented` is the refinement: the initial states map to
  initial states of `Keychain`, and under `IInv` each step is one of the
  abstract steps or changes nothing of the three variables. `PlanIsKnown` is
  what the write needs beyond `IInv`: what lies in a source or is planned was a
  token that the machine has known, and where invocations do not overlap what
  was found is still there.
  `ClientStaysReferencedHolds` and `AssociationKeptHolds` are about the client
  JSON and the configuration, of which every invocation saves the copy it loaded
  at its start. `Recorded` says what keeps that copy right while others save
  theirs: a client path in place stays in place for all of them, one without a
  path has seen that `credentials.json` is gone, and one that will remove the
  file without a save knows that the path is on disk. `KeepsQuiet` is the other
  half: an invocation that still has no path when the files name one started
  before `credentials.json` was removed, hence after the legacy tokens were, and
  finds nothing that would make it save. That needs reads that do not fail, and
  both need that nobody removes the configuration (`config clear --all`).
  `ClientNeverLostHolds` is for invocations that do not overlap, along
  `ClientSafe`; with two the truncating copy can lose the file (section 4).
* `Accounts!TypeCorrect`; `TokenOnTargetHolds` and `IdentityOnTargetHolds`, for
  invocations that all have an override and a keyring that opens, along
  `OverrideInv` (the target announced is the override, the token in memory is
  the target's, and every copy of the identity cache keeps the profiles apart);
  `OwnClientHolds`, for machines without the older top-level fields, along
  `ApartInv` (the file and every loaded copy keep profiles apart, so that a load
  fills nothing in and a save moves nothing). The two hypotheses are exactly
  what the findings `accounts_switch` and `accounts_inherit` lack.
* `AccountsAloneProofs`: `ScopesHonestHolds`, `ClientMatchesHolds`,
  `NeverClobbersHolds`, `InitLeavesUsableHolds` and `AssociationDurableHolds`, for
  any number of invocations that follow one another (`OneAtATime`; they may stop
  anywhere, in the middle of a client file too, and releases that widen the
  scopes come in between), on machines set up by a release with profiles
  (`StartsApart`). `AloneInv` adds to `ApartInv` that each token has a client
  file, with the client it was granted through unless a write to the file was
  interrupted (`StoresAgree`) - without it an association that is saved later
  could bring a stranger's client to an old token -, that a file is only torn
  while it is written or once a write was interrupted (`TornIsCut`), that no
  record is ahead of the release, and that what an invocation has in memory is
  still so in the stores (`UpToDate`: the path and the loaded configuration of an
  init, the client it has compared with the token, that the entry it is about to
  fill is empty, that what it verified or stored still opens, the token of a
  running command). Each hypothesis is needed: invocations that overlap save a
  stale configuration over the other's; `set-credential` brings a token that was
  granted anywhere; after `config clear --all` the tokens of other profiles are
  left without their clients; and with an override a keyring that fails once has
  init look at the client of the active profile and store the token of another.
  Files with the older top-level fields are model-checked only.
  `AssociationDurableHolds` is checked by no run of its own.
* `Sessions!TypeCorrect` and `AccountsApartHolds`, along `ApartInv`:
  `HoldsOwnAccount` adds what an invocation has in memory, namely that its token
  opens an account of the profile its client was made for, and that with an
  override client and cache are of the profile it names. `OverridesNeverCross`:
  where every command has an override, no cache ever holds another profile's
  drives, without the exception.
* `Relocation!TypeCorrect` and `LoadIsHonestHolds`, for any number of
  overlapping invocations, along `IInv` (what has been read to be renamed is of
  the kind of the file it replaces). `RelocationCompletesHolds` and
  `ClearIsFinalHolds`, for invocations that do not overlap, along `OneInv`: the
  part of the directory before the file at hand has been copied (or cleared),
  the new configuration files are copies of the old ones, and the file about to
  be renamed is still absent. The hypothesis is needed: the existence check and
  the rename are two steps, so that with two invocations a saved `config.yml`
  is overwritten.
  `PeaceKeptHolds` needs no hypothesis: what Open saves is what it loaded, with
  one client path in the place where the detection takes none for the default
  (`SavedAsLoaded`). `SettingsSurviveHolds` is for machines whose files name a
  `credential_ref` (`FilesNamed`), and for invocations that do not overlap. It
  combines `OneInv` with `NamedInv`, that every save writes the ref and a copy
  carries it over: where the old directory has both files, a load reads
  `config.json` first in one state and `config.yml` in the next, and only the
  comparison of the two says that nothing has changed. Of files without a ref it
  compares no top-level fields, which the load then attaches to the default
  profile.
* `BulkOps!TypeCorrect`, `ReportHonestHolds`, `FailureIsPrefixHolds`,
  `ErasedWithConsentHolds`, for every interleaving of any number of invocations.
  The properties speak of what was changed; the invariant `IInv` adds where an
  invocation is: nothing is requested before the list is complete and, where the
  command asks, agreed to (`NothingYet`, `MayRequest`), a label or group command
  has no list (`ListsItems`), and the position is an index of the list, so that
  the request at hand extends the prefix (`Prefix`). Two facts about batches
  carry the step: the request ends inside the list (`ChunkEndType`), and the
  next one no earlier (`ChunkEndGrows`).

* `RemoteEdits!TypeCorrect` and a theorem for each property that `remote_edits`
  checks. `DraftInv` is their inductive invariant for drafts. `SentOnce` needs
  that what was sent is gone from the Drafts folder (`SentGone`); `SentAsShown`
  that a preview is true of its draft as long as nobody edits it
  (`PreviewTrue`). The three properties of replies speak of the source as it is
  in the mailbox, so that they need that the copy an invocation has read is that
  message and its own addresses are complete (`CopyTrue`), that a draft refers
  to a message there is (`DraftsRefer`), and that the mailbox has no message
  whose References name a later one (`MailChained`: each message once, itself
  last if at all), which a reply to it hands on. `EditsAsAsked` and
  `ContactNeverReverts` follow from `CopiesTrue`: each copy differs from the
  object only in what has changed since it was read, and a copy of a contact
  whose etag fits does not differ at all.
* `RepliesProofs` has no state: it is about the rules. `FilterSelf` is a
  recursive function; what it leaves of a header (nobody of the user's own,
  everybody else once) is proved by a least counterexample (`LeastNatural`, from
  the well-foundedness of the natural numbers). `ReadsBackPlain` and
  `ReadsBackHTML` say that the rules that hide history undo what `quotePlain`
  and `quoteHTML` compose, whatever the text and the source, unless the text
  itself looks like a message that is included or forwarded (`LooksQuoted`: the
  forwarded marker, or a marker with the names of all headers below it; in HTML
  a divider or an attribution of a mail program). `BlockKept` is the step that
  decides it: the headers of a block below a text are lines of the text.
  `HidesHistoryOnly` says of any body at all what hiding does to it
  (`HidesHistory`): nothing, or one mark in the place of a quote at its end, of
  a message below its headers and a marker, or in HTML of the last node with
  content or of all from a divider on, every other line and node being kept.

The provers do not reach liveness under fairness (`EventuallyMigrated`,
`DrivesHeal`, `RetryCompletes`), nor `ENABLED`: the three are model-checked only.
Every other property of a passing run is a theorem. A hypothesis that a theorem
has beyond the module's is named above (one invocation at a time, the operations
users run, reads that do not fail, the files a machine starts with); the run
meets it by its constants, except that `accounts_sequential` also starts from
files with the older top-level fields.

## 7. Plan

In this order; each step frees or shares a run where it needs one.

1. Done: `Migration` with the abstract `Keychain` it implements, `Accounts`,
   `Sessions`, `Relocation`, `BulkOps`, `Replies`, `Drafts` and `RemoteEdits`,
   with the proofs above.
2. The theorems of `AccountsAloneProofs` for machines with the older top-level
   fields.

## 8. Not modelled

* Requests of the read commands and the rendering of their answers: no state of
  the program's own. Likewise `config show`, `profiles list`
  without `--check` and `gro refresh --status`. `config test` opens its client as
  any command of `Migration` and `Sessions` does, and writes nothing more.
* Mail filters: each command is one request, and the flags are translated
  without state; there is no order of steps to get wrong.
* Downloads and the extraction of archives: one sequential loop over a directory
  that nobody else is assumed to use. What it has to get right are the names and
  the sizes of single entries, which unit tests enumerate, and no step of
  another invocation or of the user comes between. Two limits of it are worth
  knowing: `x.zip` and `x.ZIP` of one message are extracted to the same
  directory, and the names of attachments are compared before they are cleaned,
  so that `a` and `./a` are one file.
* The classification of errors: a table of status codes and messages. `Accounts`
  and `Sessions` let each request succeed or fail, with the outcomes that the
  classification can give.
* The choice of keyring backend and passphrase (`wire.go`, `passphrase.go`), the
  wording of prompts, MIME encoding and HTML rendering.
* Cobra wiring and the import boundary between the two binaries: the
  architecture tests decide them statically.
* The lock of the label cache and of the token source: no command uses either
  from two goroutines.

`PROJECT.json` lists each component with its status and the reason.

## 9. Running

    tlc -config MCMigrationCrash.cfg MCMigration
    tlapm MigrationProofs.tla

and likewise for the other configurations, whose names begin with the module
they belong to. No run needs more than two minutes on two cores, and a proof
module needs a few minutes.
