# Formal models of snip-it

TLA+ modules, TLC configurations and TLAPS proofs kept beside the code of
`snp` (the client) and `snip-sync` (the server). Every definition is translated
from the source; `PROJECT.json` names, for each of them, the lines it stands for.
Source paths below are relative to the repository.

Contents: [inventory](#1-inventory), [modules](#2-modules-and-how-they-correspond-to-the-code),
[runs](#3-runs-bounds-and-what-they-show), [fairness](#4-fairness), [proofs](#5-what-is-proved),
[disagreements](#6-where-the-code-and-its-texts-disagree),
[abstractions](#7-abstractions-and-what-is-not-modelled), [plan](#8-plan).

## 1. Inventory

`snp` is a command line snippet manager. Every invocation is a short-lived
process that reads and writes TOML libraries under a local-data lock. An edit
may trigger *auto-sync*: a marker file is written and a detached worker process is
spawned, which later synchronises the libraries with a gRPC server. Nothing runs
permanently on the client; all coordination goes through files and file locks.
`snip-sync` is one process with a SQLite database; its start, stop, restart and
update are commands of the same binary.

| Component | State it keeps | Operations | What is hard | What makes it correct |
|---|---|---|---|---|
| Pending marker, worker, scheduling, status (`auto_sync/*`) | marker (generation, creation time), status file, execution lock | record, schedule, debounce, sync, acknowledge, recheck, record failure | edits and deaths at every step, generations that restart at 1, a status file without a lock | no recorded edit is left without a marker until it is uploaded |
| Foreground sync commands (`commands/sync_cmd.rs`, `mod.rs`) | none of their own | `snp sync`, retry, `--sync`, discard-pending, clear-failure | observation before or after a wait | they acknowledge only what they uploaded |
| Sync merge and cursors (`sync_commands.rs`) | a cursor per library | push, pull, both; merge; cursor update | local edits during an exchange, skipped records, death between merge and cursor | the cursor passes over nothing the device lacks; devices converge |
| Library links (`sync_commands.rs`, `library/manager.rs`) | `libraries.toml`, recovery markers | link, relink, re-create, rename, delete | a crash between server and index; stale saves of the index | cursors are used for the library they came from |
| Sync client (`sync.rs`) | one call: batches, page, retries | exchange, registration, download | lost answers, deadlines, partial refusals | every record is accounted for |
| Encryption (`encryption.rs`) | cache of derived keys | encrypt, decrypt, clear | two payload layouts, eviction | a payload opens with the key it was sealed with and no other |
| Transaction journal, restore, repair (`transaction.rs`, `restore_cmd.rs`, `repair_cmd.rs`) | journal, staged and backup files | prepare, commit, finalise, roll back, clean up | a crash or failed write at every step, also of the recovery | an operation takes effect at once, at most once, and is not undone |
| Record locks (`record_lock.rs`, `local_data.rs`) | lock file and its owner's record | acquire, quarantine, release | two processes that steal one dead owner's lock | exclusion; nobody waits for ever |
| Local store (`library/*`, local commands) | legacy file, library, index | new, edit, delete, import, migrate | what was read before the lock, and the user's editor | what the user was told is stored is shown |
| Backups (`backup_cmd.rs`, `backup_archive.rs`, `restore_cmd.rs`) | archive, manifest, usage index | back up, validate, merge or replace, prune | files changed between check and use, foreign archives | a restore leaves nothing that neither side had |
| Settings and file cache (`config/*`, `register_cmd.rs`) | `sync.toml`, keychain, cache | register, migrate, load, save, cached read | no lock from load to save | one account's key and device together |
| Selector, variables, themes (`ui/*`, `utils/variables.rs`) | list, filter, prompt, active theme | keys, rebuild after a debounce, delete, prompt | a key that arrives before the rebuild; four scanners of one syntax | a key acts on what the list shows |
| MCP server (`mcp/*`) | handshake state, bounded buffer | read a line, dispatch, answer | lines in arbitrary pieces, oversized lines | one answer per request, in turn |
| Shell functions (`shell_cmd.rs`) | the line being edited | select, capture | cancelled or killed selections, what counts as the previous event | the line is kept or replaced by the selection |
| Self-update (`update.rs`, both) | the executable | download, verify, replace, roll back | power loss, several updaters | the executable can always be started |
| Server database and requests (`db.rs`, `lib.rs`) | rows, sequences, libraries, users | upsert, page, watermarks, library management | requests between another's check and its write | what is answered is true of the tables |
| Server start and migrations (`db.rs`, `main.rs`, `bootstrap.rs`) | columns, indices, counters | migrate, serve | power loss between two statements | what is served has all that queries need |
| Server processes (`server_lock.rs`, `startup.rs`, `main.rs`) | flock, owner record, units, crontab | serve, stop, restart, croncheck; install, uninstall | an owner published after the lock; read-modify-write of a crontab | the recorded owner is the server; a restart ends with one |
| Rate limiter (`rate_limiter.rs`) | windows, their order | admit, evict | eviction at the limit; clocks read before the mutex | no budget is exceeded; index and windows agree |

The hazards of this code, each at its line and with the properties aimed at it,
are the `hazards` of `PROJECT.json`; section 6 names weaker ones.

## 2. Modules and how they correspond to the code

```
PendingMarker  SyncStatus            Transaction --refines--> AtomicFiles
        \      /                          |
        AutoSync --refines--> SyncIntent  +-- MCTransaction
       /        \                         +-- TransactionProofs
MCAutoSync   AutoSyncProofs
                                       LibrarySync <- MCLibrarySync, LibrarySyncProofs

RecordLock, LibraryLinks       <- MCProgress, RecordLockProofs, LibraryLinksProofs
ServerLifecycle                <- MCProgress, ServerProofs
ServerStartup, ServerRequests  <- MCParts, ServerProofs
SelfUpdate, PayloadKeys, FileCache,
ClientSettings, SyncClient,
Backups                        <- MCParts, ClientProofs
RateLimiter                    <- MCParts, RateLimiterProofs
Selector, ThemePicker, LocalStore, Variables,
Registrations, McpServer, ShellWidgets              <- MCParts
```

**PendingMarker** is the marker file: a record of generation and creation
time (generation 0, which the code never writes, is the absent file) and the
operations of `pending.rs`, each done by the code under the pending lock with an
atomic rename and hence one step of its caller.

**SyncStatus** is the status file, the failure classes and the retry
dispositions. The failure count is kept up to 3, the only value it is compared
with besides 0; the time of the next attempt becomes "in the future or not".

**AutoSync** composes them. Each process is a slot (a worker or a command) with a
program counter `pc` and the locals of its functions in `job`. The steps are cut
where another process can observe something: an operation under the pending
lock, one atomic write of the status file, the load of one library, the exchange of
one library. The environment kills processes (`Crash`), lets back-off elapse,
changes the configuration, fails I/O. Library contents are version numbers:
`local[l]` counts committed edits, `server[l]` is the newest version received, and
the history variable `recorded[l]` is the newest version whose intent was recorded.
The order of acknowledgement and status write differs between workers (first
the marker, then the status) and commands (the other way round), and the model
keeps it. `run_explicit_sync` observes the marker *before* it waits for the
lock, `snp sync` after: two different steps (`ObserveUnlocked`,
`ObserveLocked`). clear-failure reads and writes the status in two steps, as it
takes no lock. **SyncIntent** is its abstract promise: libraries owed to the
server, and whether something durable remembers.

**LibrarySync** is one library, several devices and the server. A version of a
snippet is its modification time, the device that made it (standing for the
content) and the deletion flag. The server part is the upsert, the write sequence
and the visible_at stamp, the inclusive delta filter, pages by offset, and the
watermarks, which the handler reads in transactions of their own after the page.
The client part is the choice of the request's cursors, the upload batches, the merge
with its tombstone rules, and the cursor update. A sync is the phases
`upload -> page -> answer -> merge -> cursor` of a device's session; local edits
and other devices' steps interleave with all of them.

**Transaction** is a restore under its journal, an edit under the local-data lock,
a backup that reads file by file, and a repair, by several processes any of which may die
or fail to read or write between two steps. The journal's states, positions, recorded backup
paths, pending flag and cleanup steps are those of `transaction.rs`; each `Persist` is one
durable replacement of the journal. What the next command's gate finds decides what it recovers;
recovery takes the lock, loads and classifies again. **AtomicFiles** is the abstract
promise: files change at once, at most once, and are not changed back.

**RecordLock** has one action per call of the file system, so that two processes may
both have read a dead owner's record before either moves it. **ServerLifecycle** has the
processes of the server's binary with flock, owner record and signals. **LibraryLinks**
has the library index of a device, the sync run that links and re-creates
libraries, and the commands and other devices that change either side meanwhile.

The remaining modules each take one component at the grain its hazards need:
**RateLimiter** (a call reads the clock, then waits for the mutex), **SelfUpdate**
(rename, sync and power loss of the executable), **Selector** and **ThemePicker** (the event loop;
the list is rebuilt later than the key that changed its filter), **LocalStore** (what a command
reads before it locks, the editor, the migration), **Variables** (a prompt's answers, and `get`
with scanners of its own), **SyncClient** (retry, backoff, deadline, batches of one call),
**Backups** (archive, manifest, damage between check and use), **ServerStartup** (migrations
statement by statement), **ServerRequests** (authenticate, resolve, act, with others in between),
**Registrations** (unit, crontab, record, one after the other), **ClientSettings** (load, keychain,
save), **FileCache** (metadata, pieces, second look), **McpServer** (a pipe in pieces),
**ShellWidgets** (three shells' functions), **PayloadKeys** (the cache of derived keys).

**MCProgress** (which extends its machines) and **MCParts** (which extends those about which
theorems are proved and instantiates the others) join modules that share no state. A behaviour picks one (`machine`, `part`) in its initial state and runs it alone from every one of that
module's initial states; the variables of the others rest. One run thus checks several small,
independent machines; a property that the machines at rest do not have is guarded by the choice. Nothing is lost: the
machines do not interact in the code either.

Operators marked "Mutant" are plausible bugs of the operator that follows them;
they are used by no specification and serve to check that the
properties would notice.

## 3. Runs, bounds and what they show

| Run | Expected | Properties | Instance |
|---|---|---|---|
| `auto_sync_intent` | pass | `IntentKept`, `OneSyncAtATime`, `ObservationCurrent`, `KeepsIntent` | 2 workers, 2 commands, 2 libraries, 2 edits, crashes, uploads that fail before or after delivery |
| `auto_sync_attention` | pass | `WorkerAttentionHolds` | 2 workers, 1 command, 2 configurations, configuration and internal failures, I/O and spawn faults, retries, --sync, discards and clear-failure |
| `auto_sync_liveness` | pass | `TypeOK`, `DebounceCatches`, `PendingServed` | 2 workers, 1 command that edits, restores or only browses, 2 edits, transient failures |
| `library_cursors` | pass | `PassedRowsCovered` | 2 devices, one also pushing only, one on the timestamp cursor; 2 snippets, 2 edits, pages of one row, both rows in a batch; skipped records, lost answers and aborts at any step |
| `library_convergence` | pass | `Convergence` | 2 devices, one also pulling only, 1 snippet, 3 edits, times 1 to 3 |
| `library_resurrection` | violation | `NoResurrection` | 2 devices, 1 snippet, times 1 to 3 |
| `transaction_recovery` | pass | `OverwrittenIsBackedUp`, `SnapshotsWhole`, `IntentBeforeCleanup`, `ImplementsAtomicFiles`, `ResolvedOnce` | 2 processes, 2 files of which one exists, 3 commands, 2 faults, journals of older versions |
| `transaction_prepared` | violation | `EveryInterruptionResolvable` | 2 processes, 2 files, 2 commands, 1 fault |
| `transaction_finalize` | violation | `GateCreatesNoIntent` | 2 processes, 2 files, 2 commands, 1 fault |
| `machines_progress` | pass | `Types`, `ExclusionUnlessRobbed`, `OwnerNamesServer`, `IndexSound`, `LiveRecordsKept`, `EveryAcquisitionEnds`, `ServerReturns`, `MarkersOutlastRecovery`, `EveryLibrarySettles` | RecordLock: 2 processes and a dead one's file; ServerLifecycle: 2 commands, 1 failure; LibraryLinks: 2 libraries, 2 accounts, 1 upset |
| `links_conflict` | violation | `ConflictMeansLive` | LibraryLinks with 1 account |
| `parts_safety` | pass | `Types`, `IndexAgrees`, `RateBounded`, `RefusedByOwnBudget`, `SurvivesPowerLoss`, `InterfacesFaithful`, `UserDataKept`, `RestoreFaithful`, `NothingUnaccounted`, `KeepsItsDeadline`, `ServedWhole`, `AnswersTrue`, `CredentialsTogether`, `ReadsWereCurrent`, `OpensOwn` | the 16 modules of MCParts, in instances given by `Parts_safety.cfg` and the `INSTANCE`s of MCParts |

Why the bounds are enough. *AutoSync*: losing an intent takes one sync that
acknowledges and one edit it has not read: a second worker or command, and a
second edit, let every pair of critical steps interleave; a third process of the
same kind would only repeat the role of one. Two libraries are the least for a
partial failure, two configurations for a stale one. The count of failures saturates at
`FailureMax`, the code's `u32::MAX`: 3 or 4 in the runs, so that both the threshold of attention and the
saturation are reached. *LibrarySync*: a page of one row
and two rows make an exchange of two pages, and a batch of two rows is the least
with which a watermark can pass a row. A tie needs a creation and one edit on each
device: three edits. The bound on the write sequence ends behaviours of
identical re-uploads; `Convergence` leaves out the behaviours that reach it.
*Transaction*: a restore that dies, a recovery that dies in turn, and a third command that
recovers again need three commands and two faults; two files are the least for one that is
replaced and one that is created, and for a rollback that resumes in the middle. *MCProgress*: the
race for a dead owner's record takes two processes; a relink after a lost account takes two
accounts. *MCParts*: two of whatever interferes (updaters, terminals, requests, readers, shells'
commands); the limit of each table is one or two, so that it is reached.

`CHECK_DEADLOCK FALSE` stands in the configurations whose bounds on edits, times, commands
or faults may stop everything, or whose machines end (a selector that returns, a session that is
over). AutoSync's runs check deadlock.

`PassedRowsCovered` is the cursor protocol with its known gaps named: a row passed
over is covered, unless another device wrote it between the first page and the
watermarks of one exchange, or a push-only sync on the timestamp path discarded it
(a limitation `architecture/sync.md` documents). `OverwrittenIsBackedUp` and
`ImplementsAtomicFiles` except what a concurrent repair took for orphans (`plundered`) and the files
written past a gate that had become stale (`exposed`); both are hazards of their own.

## 4. Fairness

*AutoSync.* Weak fairness of each running process (`WorkerStep`, `CommandStep`):
the operating system schedules it, and no step of the code waits for anything but
the lock, for which a wait has a timeout. Weak fairness of `BackoffElapses`: time passes. No
fairness for starting a command, for crashes or configuration changes:
`PendingServed` therefore *assumes* a user who keeps running commands (the
design of startup recovery needs one: a worker that finds the lock busy gives up) and
worker cycles that eventually stop failing. `DebounceCatches` assumes neither.

*LibrarySync.* Strong fairness of beginning a bidirectional sync and weak fairness of every
step of a running one, i.e. a device that goes on to sync, as
`auto_sync` and cron do, whatever its user pulls by hand in between (a device that only pulled would never
send its edits). Strong fairness of an equal-time upload winning: which of two
versions of equal time the server keeps depends on random ciphertexts, and every
retry is a fresh draw. `Convergence` further assumes that syncs eventually do not
overlap and (through the bound on edits) that editing ends.

*MCProgress* (`MachinesFair`). RecordLock: weak fairness of each process's steps and of the
deadline of its wait, none of death. ServerLifecycle: weak fairness of each process's steps, none of
commands, crashes or failed starts; what makes a server unnecessary or impossible is recorded in
`excused`. LibraryLinks: weak fairness of the steps of a sync run and of starting another.

## 5. What is proved

Checked by TLAPS for every value of the constants that satisfies the modules'
assumptions (any number of workers, commands, libraries, configurations, edits,
processes, requests):

* `AutoSyncProofs!Typing`: `Spec => []TypeOK`.
* `AutoSyncProofs!Exclusion`: `Spec => []OneSyncAtATime`, for all commands and
  all faults. The invariant is inductive once the types are known.
* `AutoSyncProofs!AttentionStops`: `Spec => WorkerAttentionHolds`, for all commands. It
  needs that a status which asks for attention after counted failures is of a class
  that blocks the scheduler (`Telling`), whoever wrote it last, `snp clear-failure` with a status it
  read earlier included; only the two decisions of a command spawn (`OnlyDecisionsSpawn`).
* `AutoSyncProofs!IntentNeverLost`: `OrdinaryUse => (Spec => []IntentKept)`.
* `AutoSyncProofs!ObservationsCurrent`: the same for `ObservationCurrent`.
* `AutoSyncProofs!ImplementsSyncIntent`: `OrdinaryUse => (Spec => KeepsIntent)`, by
  mapping every step of AutoSync to a step of SyncIntent or a stutter.

`OrdinaryUse` says that the commands run are edits, browsing, `snp sync`, retry and
clear-failure, and that foreground syncs cover all libraries and push. It is
necessary: `--sync`, a restore, and restricted or pull-only syncs each break the promise
(section 6); a confirmed discard gives it up on purpose.
Failures of every class, I/O faults, crashes and configuration
changes are all included.

The inductive invariant is `Inv == TypeOK /\ OneSyncAtATime /\ IntentInv`.
`IntentKept` alone is not inductive: an acknowledgement removes the marker, and that
is sound only because of what its process knows. `IntentInv` adds, for a process
between its observation and its acknowledgement: `MarkerHolds` (the marker is not
behind the observed generation, and while it is equal nothing was recorded since -
which needs `OneSyncAtATime`, since only another lock holder could remove the
marker and so let generations restart), and `UploadCovers` (what was recorded at
the observation has been uploaded, is still to be uploaded, or the run has
failed). `WholeSyncs` carries `OrdinaryUse` into the state and `EditCommitted`,
`RecordedCommitted` order the version numbers. Each step lemma (`SyncIntentStep`,
`WorkerIntentStep`, `CommandIntentStep`, `StartIntentStep`) has one case per action.

**Locks.** `RecordLockProofs!Typing`, `!Exclusion` (`ExclusionUnlessRobbed`) and `!ReadRecordsKept`
(`LiveRecordsKept`). Exclusion needs that whoever is inside finds its own file at the path
(`OwnFileAtThePath`), or else a release would remove another's. The record that is moved away was
judged before (`Judged`), and the judgement stays true, as the dead stay dead.

`ServerProofs!RecordNamesServer` (`OwnerNamesServer`). A server's record says its own pid only
because nobody else writes it while it holds the kernel lock: `LockInv` adds `HolderLocks`, that a process
between the answer of the kernel and the drop of its guard is the owner of the lock. The proof covers
probes, which take the lock for a moment, and stops, restarts and updates at every place.

**Transactions.** `TransactionProofs` proves `OverwrittenIsBackedUp` (`BackupsSuffice`),
`IntentBeforeCleanup` (`IntentFirst`), `SnapshotsWhole` (`BackupsAreWhole`), `ResolvedOnce`
(`ResolvedForGood`) and the types, for any number of processes, files, commands and faults. Its
invariant is `IInv == Control /\ Fresh /\ ... Staged(p) /\ Read(p) /\ ... Data(t)`: the locks exclude and
a process stands where its own or the recovered journal says (`Staged`); ids and contents are those of
commands that have begun (`Fresh`), so that a written file is told from every earlier one; a backup is what
the journal recorded as the original, unless a concurrent repair took it for an orphan (`Data`, with
`plundered`). None of the listed properties is inductive without all of these.

`TransactionProofs!Atomicity`: `Spec => ImplementsAtomicFiles`. A reader's view of a file under an
interrupted restore is what the journal puts back. That every step maps to a step or a stutter of
AtomicFiles needs a second invariant, `RInv`: at most one transaction is still to be rolled back (`Alone`),
every file of it is as before or backed up and not yet passed by the rollback (`Intact`), and
a restore has installed just the files before its position (`Shown`).

**Rows and cursors.** `LibrarySyncProofs!CursorsPassHeldRows` (`PassedRowsCovered`) and the types,
for any devices, snippets, page and batch sizes. `PassedRowsCovered` speaks of the cursor that is stored;
`IInv` follows what it will be made of through the phases of an exchange: the watermarks are no later than
the server (`Timely`), what was received is in the delta asked for (`Fetched`), no row before the page's
offset is missing (`Listed`, by the rank of a row in the listing), everything the next cursor
passes over was received and then merged (`Answered`), and what the present one passes over is held (`Held`).

**Library links.** `LibraryLinksProofs!IndexStaysSound` (`IndexSound`), `!MarkersOutlast`
(`MarkersOutlastRecovery`) and the types. Indexes are loaded, held and saved much later; so every copy
has to be whole, not only the one on disk (`Whole`, `CommandFits`). A marker is removed only when its server
library took every row because the run that removes it follows this very marker (`Marking`), and a link is
made only where there is none (`Linking`). The type invariant needs that the server makes one library per name and
account (`Served`, from the unique index), or ids would run out.

**Rate limiter.** `RateLimiterProofs!IndexAndBound`, `!GrantsBounded` (`RateBounded`), `!RefusalsEarned`
(`RefusedByOwnBudget`) and the types. `GInv` relates the history of grants to the windows: each lies in
its window or as long after it as a call may wait (`Dated`); windows of one key follow each other by a
window's length (`Chained`); the kept window is the last (`Kept`); its count is the number of grants in it
(`Counted`, `Backed`). Then at most two windows meet a span of a window's length and a tick, less the
longest wait, at most three a window's length more; each further one would take induction.

**Server.** `ServerProofs!EveryServerWhole` (`ServedWhole`). A start that dies leaves the database between two
statements, and the next one begins with what it finds. `StartInv` says what is true there: before the unique index exists nothing was pushed, and the rows either have no
sequence or are all numbered in the order of their times; from the index on the sequences are distinct, and none is above the counter
that is about to be used (`Numbered`); and a user's key is as given or as the migration leaves it, the latter for all users the
cursor of the migration has passed (`KeysKept`). The order of the times ends with the first push, the distinctness does not.

`ServerProofs!EveryAnswerTrue` (`AnswersTrue`). A request that was authenticated and resolved acts
later; `RequestsInv` keeps what it found out: the account exists, the library is the caller's and is the default
one if none was named (`Sound`), as owners, names and accounts never change and a default library is never deleted. A push
holds what it accepted at least in its version (`Uploaded`), through the pushes of others; what it wrote, a
deletion included, is undone only by a strictly later version or the deletion of the library. That no two
pushes can displace each other in turn is a lemma about the versions, which are linearly ordered by time and
tie (`VersionsOrdered`). While nothing is written, the rows
a download has are the first of the listing, as many as its offset says (`Downloads`); that a page which
begins at this offset continues them, is not empty as long as rows are left, and that no row is counted
twice are lemmas about the listing, a strict order of the rows of the library (`PageLeads`).

**Self-update.** `ClientProofs!ExecutablesSurvive` (`SurvivesPowerLoss`). Each updater that has
come as far as validation holds a whole candidate (`StagedWhole`), and so does the helper that moves it
into place later; what is on disk is whole because the candidate is synced before it is renamed.

**Keys of payloads.** `ClientProofs!EveryPayloadOpens` (`OpensOwn`). Every slot of the cache holds the key of its own
API key, salt and version, whatever was evicted or cleared in between.

**Cached files.** `ClientProofs!EveryReadCurrent` (`ReadsWereCurrent`). A read keeps what it read if the metadata
before and after are equal; times of a file only grow (`FilesKept`), so each piece lies between the
two stamps (`Between`), and an entry of the cache is one whole content with its stamp (`EntriesWhole`).

**Settings.** `ClientProofs!EverySyncWhole` (`CredentialsTogether`). Credentials are spread over the
file, the keychain and what commands have loaded, and are stored one after the other. While nothing is torn, there
is an account and a revision with which all of these agree (`Together`): every copy has this account's device and this revision unless it has no key,
and its key or the marker of a key in the keychain (`Agree`); a registration, which is then
alone, brings an account of its own at a revision beyond all used ones (`Registering`), and between its two writes
the keychain is ahead of the file (`Swapping`).

**Restores.** `ClientProofs!EveryRestoreFaithful` (`RestoreFaithful`, an action property). Between its check and its
installation a restore keeps only the manifest: the contract it passed (`Contract`) keeps the places of two entries apart, and the hash
looked at again says that the bytes of an entry are what the manifest describes (`InstalledAt`), whatever happened to the
backup. `BackupsInv` adds that the files are of their kinds, libraries whole
enough to compare versions (`FilesSound`), and that manifests are parsed (`Parsed`).

**Calls of the sync client.** `ClientProofs!EveryDeadlineKept` (`KeepsItsDeadline`), `!RegistersOnce` (`OneAccount`) and
`!TooLargeSendsNothing` (`NothingSentTooLarge`). The deadline needs that a sleep which has begun ends by then (`Within`); one account needs that a registration is never repeated: no state of its call comes
after a first answer but an end (`Once`). `OneAccount` and `NothingSentTooLarge` are parts of
the checked `NothingUnaccounted`; its third, `RecordsAccounted`, is only model-checked.

**What the proofs changed.** `RateBounded` as first stated, twice the limit in any window's
length, is false once calls wait two ticks or more for the mutex: windows start when a call arrived, and a full
window's length may then meet three. The proof stopped there, TLC confirmed it at larger bounds, and the property
now says what holds. `PassedRowsCovered` excused a row that was written between two pages; it is
excused only until it is read again. `SnapshotsWhole` was stated more strongly: every file of the snapshot is what
the directory holds when the capture ends.

**Assumptions.** The `ASSUME`s of the modules (`ConstantsAssumption`, `WidthAssumption`, `BoundsAssumption`,
`OwnerAssumption`, `LockAssumption`, `LimiterAssumption`, `LinksAssumption`, `UpdateAssumption`, `StartupAssumption`,
`RequestsAssumption`, `KeysAssumption`, `CacheAssumption`, `SettingsAssumption`, `CallAssumption`, `BackupsAssumption`), all evaluated by
TLC: constants are of their kind, bounds are numbers, names of processes differ from the names of nobody.
`WidthAssumption` says that a count of failures can reach the threshold of attention before it saturates. `MaxWait < Window` says
that a call waits less than a window's length (60 s) for a mutex held for a few map operations; `LinksAssumption` that
there is a default library and an account; `KeysAssumption` that a payload from elsewhere that nobody has changed was sealed
for the salt and version it names, as every version of the client does; `RequestsAssumption` that the rows are finitely
many, a page has a row, and the latest time the server accepts is within the bound on the times; `BackupsAssumption` that a backup from elsewhere which parses
as a manifest lists finitely many entries of the known kinds, libraries with versions of snippets.
Bounds such as `MaxOps` or `MaxEdits` are constants like any other: the theorems hold for each value.

**Only model-checked.** Liveness (`DebounceCatches`, `PendingServed`, `Convergence`, `EveryAcquisitionEnds`,
`ServerReturns`, `EveryLibrarySettles`): TLAPS has no rules here for fairness and `ENABLED`. What is computed by
folds, `SelectSeq` or other recursion over sequences, for which the provers would need induction over
data: `RecordsAccounted` (what the batches and pages of a call add up to), `UserDataKept`
(the writes of LocalStore, the crontab's text blocks of Registrations) and `InterfacesFaithful`
(filters and sorting of the lists, the scanners of variables, the lines of the MCP pipe, the shells'
texts). Of `Types` in MCProgress the bound on the server's pids, which counts the processes of all
commands; of `Types` in MCParts all but the part of RateLimiter as such: the invariants above contain
the types their proofs need. What recursive definitions compute is nowhere proved.

## 6. Where the code and its texts disagree

Shown by a run that expects a violation (the `findings` quote the texts):

* **A deleted snippet can come back** (`library_resurrection`): the server compares times only, so a
  later concurrent edit overwrites a tombstone which the deleting device has retired.
* **A restore that stopped right after it wrote its journal cannot be resolved**
  (`transaction_prepared`): the journal names no backups yet, so its rollback stops at the
  first file, and the gate refuses every command until the journal is removed by hand.
* **The gate gives a committed restore an intent** (`transaction_finalize`): a comment and the guide of
  `restore` say that it cleans a CommittedLocal journal up without creating a pending generation. It
  runs the recovery, which ensures the intent first, as a test of the code expects;
  `IntentBeforeCleanup` holds because of it.
* **A library deleted on the server can never be created again under its name**
  (`links_conflict`): the unique index covers deleted rows, and the list of libraries leaves them out.

Stated in the modules and refuted by TLC, but not among the runs (one definition each; add it
as an INVARIANT of the run of its module to see the behaviour):

| Definition | Module | What happens |
|---|---|---|
| `IntentKept` with `flag`, `restore` or partial scopes | AutoSync | `--sync` takes a recreated marker for the observed one; a restore joins a marker about to be acknowledged; a restricted or pull-only sync acknowledges everything |
| `AttentionHolds` | AutoSync | a foreground failure with attention has count 0 and does not stop the scheduler |
| `NoRowSkipped` | LibrarySync | of two rows committed between page and watermark, the inclusive filter delivers only the last |
| `EverySnapshotWhole` | Transaction | a backup needs no gate and reads a half-restored directory |
| `ReclaimSparesTheLiving` | RecordLock | the slower of two thieves moves away the new owner's file |
| `RegistrationsKept` | LibraryLinks | a registration is overwritten by a save of an index loaded earlier |
| `WindowsReplacementCompletes` | SelfUpdate | the helper moves the executable while its updater still runs |
| `VisualRangeIsDrawn` | Selector | the visual range compares indices of snippets with positions in the list |
| `CancelRestores` | ThemePicker | the theme to put back is the one of the first opening |
| `MigrationLosesNothing` | LocalStore | a migration that dies, or a second one, leaves the legacy file orphaned |
| `TypedIsInserted`, `GetMatchesRun` | Variables | typing a value that begins with the default loses it; `get` strips escapes of values |
| `EveryBackupRestores`, `RestoredIsListed`, `PruneSpares` | Backups | an unlisted file makes a backup that replace refuses; a merge adds files the index does not list; pruning forgets the usage of a library that does not parse |
| `OldDatabaseServed`, `InterruptedMigrationCompletes` | ServerStartup | an index on a column that is added later; a half-filled sequence violates the unique index for ever |
| `DeletedStaysEmpty` | ServerRequests | a push that was checked before a deletion writes after it |
| `ForeignUnitKept`, `LinesOutsideKept`, `OneManager` | Registrations | a foreign unit is overwritten; a removed end marker costs lines of the user; changing the method leaves both managers |
| `RevisionTells`, `MigrationWritesOnlyTheKey`, `AccountWhole` | ClientSettings | a failed load restarts the revision; a sync writes back stale settings; key and file of two accounts |
| `RestoredExactly` | ShellWidgets | fish joins the lines of the buffer and moves the cursor |

Weaker exposures noted while reading, covered by no property: `snp new` bound to a key as documented
passes no description and is always refused (`new_cmd.rs:552`); two updaters without a lock may install
the older version last (`src/update.rs:768`); a repair that lists journals before artifact
directories takes those of a restore that begins in between for orphans (`repair_cmd.rs:593`);
crontabs are read, changed and written whole (`startup.rs:589`); a deletion by a hand-copied id
takes the first record of that id (`commands/mod.rs:744`); the usage index is written without a lock;
`TRUSTED_PROXIES` drops invalid entries silently.

## 7. Abstractions and what is not modelled

AutoSync: lengths of time (deadlines may pass at any step where the code looks at the
clock); corrupt status files, marker integrity beyond the failure class of an unreadable
marker; the worker's sync direction, taken as bidirectional; reads of one scheduling
decision and the spawn as one step (the new process waits at "spawned" as long as
it likes); the maximal lifetime only at the head of a later iteration, as in the code.
A discard at the prompt that is confirmed counts as given up by the user. A crash
between an edit's commit and the recording of its intent loses the intent; the code
accepts this and `IntentKept` speaks of recorded intents only. A marker recreated in the
same clock tick is taken for a rollback by the debounce, as in the code.

LibrarySync: one library of one user; only the order of sequences is compared, so a written
row takes the successor of the greatest one; the byte ceilings that cut batches and pages become
constants; retries after a lost answer are unbounded; a row delivered by two pages of one
exchange leaves two records of one id in the file, the second of which gets a fresh id at the
next load - LocalStore models that, LibrarySync keeps the one the file lists first.
The device_id of a snippet never changes after its creation, so the device_id
comparisons of server and client always tie and are left out.

Transaction: a live write is atomic (utils/atomic.rs renames a synced copy); the lock files
are what RecordLock shows of them, one live owner and the takeover of a dead one's record. The
model's `Clean` joins each removal with the persisting of the next step, as a crash between them
only has the removal done again. Contents are numbers of the operations that wrote them.

LibraryLinks: one device and one account's other devices as one environment; rows are left to
LibrarySync. ServerLifecycle: Unix; pids are not reused. SelfUpdate: release server and
the Windows helper external. PayloadKeys: ideal cryptography; a legacy payload whose salt begins with the
new layout's magic is left out. ShellWidgets: what the shells do with `fc`, `history`,
`commandline` and `READLINE_LINE` is external. McpServer: the contents of replies are their kinds.
ServerRequests: a pushed version is its time, its place among versions of that time (the server compares device,
command and description in turn) and its deleted flag, so tombstones are uploaded like any row; an equal version
leaves the row as it is and is still counted as accepted. A batch has an id at most once; tags and
encrypted text are left out. ClientSettings: the keychain is one entry that may be locked.

Not modelled: the components with that status in `PROJECT.json`, with their reasons.

## 8. Plan

What is left, in this order:

1. Lemmas about the sequences that LocalStore, Registrations and the interfaces compute with, should the provers learn
   to instantiate the induction theorems; `SnippetsKept` would be the first property to gain from them.
2. The bound on pids in ServerLifecycle: a count of the processes per command and per restart.
3. Transaction takes each of its lock files as one variable, which RecordLock's exclusion justifies outside its robbed
   states: to be stated as a refinement of a small lock specification.
4. Two devices with several libraries at once, joining LibraryLinks and LibrarySync on one server.
5. Diagnostics, certificates, premade content and the wire format stay out, being without state of their own.
