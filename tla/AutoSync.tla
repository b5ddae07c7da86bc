------------------------------ MODULE AutoSync ------------------------------
(***************************************************************************)
(* Auto-sync of the snp command line: short-lived commands that edit       *)
(* libraries, record a pending marker and spawn a detached worker; workers *)
(* and foreground syncs that take the execution lock, upload the libraries *)
(* and acknowledge the marker; the durable status that drives scheduling.  *)
(*                                                                         *)
(* Every process is a slot with a program counter.  A step is what no      *)
(* other process can observe in the middle: an operation under the pending *)
(* lock, an atomic write of the status file, the load of one library.      *)
(* Library contents are version numbers per library: local[l] counts the   *)
(* committed edits, server[l] is the newest version the server received.   *)
(***************************************************************************)
EXTENDS PendingMarker, SyncStatus, FiniteSets, Functions

CONSTANTS
    Workers,        \* slots of detached workers
    Commands,       \* slots of CLI commands
    Libs,           \* the libraries of this device
    Kinds,          \* the kinds of commands that are run
    Scopes,         \* library sets a foreground sync may be restricted to
    Pushes,         \* may `snp sync` push?  FALSE is --pull-only
    Configs,        \* configurations of sync.toml, as fingerprints
    AutoConfigs,    \* those in which auto-sync is enabled
    SyncFailures,   \* failure classes that a sync run may end with
    Faults,         \* "crash", "io", "spawn": faults of the environment
    MaxEdits,       \* bound on the number of edits
    NoProc, NoLib   \* model values

AllKinds == {"mutate", "restore", "browse", "flag", "sync", "retry",
             "discard", "clear_failure"}

ASSUME ConstantsAssumption ==
    /\ Workers \cap Commands = {}
    /\ NoProc \notin Workers \cup Commands
    /\ NoLib \notin Libs
    /\ Kinds \subseteq AllKinds
    /\ Scopes \subseteq SUBSET Libs
    /\ Pushes \subseteq BOOLEAN
    /\ Configs \subseteq Nat \ {0}
    /\ Configs # {}
    /\ AutoConfigs \subseteq Configs
    /\ SyncFailures \subseteq Classes
    /\ MaxEdits \in Nat

Proc == Workers \cup Commands

VARIABLES
    marker,     \* the pending marker file
    clock,      \* the newest creation time written, in ticks of the wall clock
    status,     \* the auto-sync status file
    config,     \* the current configuration
    lock,       \* owner of the execution lock, or NoProc
    pc,         \* program counter of every process
    job,        \* what a running process holds in memory
    local,      \* committed version of every library
    server,     \* version of every library the server has
    recorded    \* history: newest version covered by a recorded intent

files == <<marker, clock, status, config>>
data == <<local, server, recorded>>
vars == <<files, lock, pc, job, data>>

Versions == [Libs -> Nat]

Job == [kind: AllKinds \cup {"worker", "none"},
        obs: Marker,               \* the marker observed before the sync
        seen: Versions,            \* history: recorded when it was observed
        todo: SUBSET Libs,         \* libraries still to sync
        push: BOOLEAN,
        lib: Libs \cup {NoLib},    \* the library being edited or uploaded
        ver: Nat,                  \* and the version in memory
        failed: BOOLEAN,           \* some library has failed
        class: Classes \cup {"none"},
        strikes: 0..FailureMax,    \* failure count read by the worker
        print: Configs \cup {0},   \* configuration loaded by the command
        read: Status]              \* status read by clear-failure

NoJob == [kind |-> "none", obs |-> NoMarker, seen |-> [l \in Libs |-> 0],
          todo |-> {}, push |-> TRUE, lib |-> NoLib, ver |-> 0,
          failed |-> FALSE, class |-> "none", strikes |-> 0,
          print |-> 0, read |-> MissingStatus]

(* The program counters at which a process owns the execution lock. *)
Locked == {"loop", "debounce", "preflight", "observe", "connect", "sync",
           "upload", "clear", "success", "recheck", "fail", "fail_write",
           "exit", "recover_probe", "schedule_probe"}

Unlocked == {"idle", "spawned", "recover", "recover_try", "edit", "record",
             "ensure", "schedule", "schedule_try", "peek", "wait", "discard",
             "clear_read", "clear_write"}

Labels == Locked \cup Unlocked

TypeOK ==
    /\ marker \in Marker
    /\ clock \in Nat
    /\ status \in Status
    /\ config \in Configs
    /\ lock \in Proc \cup {NoProc}
    /\ pc \in [Proc -> Labels]
    /\ job \in [Proc -> Job]
    /\ local \in Versions
    /\ server \in Versions
    /\ recorded \in Versions

Init ==
    /\ marker = NoMarker
    /\ clock = 0
    /\ status = MissingStatus
    /\ config \in Configs
    /\ lock = NoProc
    /\ pc = [p \in Proc |-> "idle"]
    /\ job = [p \in Proc |-> NoJob]
    /\ local = [l \in Libs |-> 0]
    /\ server = [l \in Libs |-> 0]
    /\ recorded = [l \in Libs |-> 0]

-----------------------------------------------------------------------------
(* Moves of one process.  Only Finish forgets what it had in memory. *)

Goto(p, next) == pc' = [pc EXCEPT ![p] = next]

Finish(p) == Goto(p, "idle") /\ job' = [job EXCEPT ![p] = NoJob]

Continue(p, next) ==
    IF next = "idle" THEN Finish(p) ELSE Goto(p, next) /\ UNCHANGED job

Fault(f) == f \in Faults

(* A failure class given to a pending marker that cannot be read. *)
PendingErrors == IF Fault("io") THEN {"transient", "local_failure"} ELSE {}

Larger(a, b) == IF a < b THEN b ELSE a

-----------------------------------------------------------------------------
(* Scheduling: schedule_sync and schedule_and_spawn.  The reads of one      *)
(* decision and its spawn are one step: a worker waits at "spawned" for as  *)
(* long as it likes before it looks at anything.                            *)

(* Where a command goes on after startup recovery or final scheduling. *)
AfterSchedule(c) ==
    IF pc[c] \in {"schedule", "schedule_try", "schedule_probe"}
       \/ job[c].kind = "browse"
    THEN "idle" ELSE "edit"

MayAttempt == config \in AutoConfigs /\ Present(marker) /\ ~status.deferred

(* spawn_worker: a new process, or a failure that keeps the marker. *)
Spawn(c) ==
    \/ \E w \in Workers :
          /\ pc[w] = "idle"
          /\ pc' = [pc EXCEPT ![w] = "spawned", ![c] = AfterSchedule(c)]
          /\ job' = [job EXCEPT ![w] = [NoJob EXCEPT !.kind = "worker"],
                                ![c] = IF AfterSchedule(c) = "idle" THEN NoJob ELSE @]
    \/ Fault("spawn") /\ Continue(c, AfterSchedule(c))

(* schedule_sync.  A configuration failure is compared with the present     *)
(* configuration, which needs the execution lock.                           *)
Schedule(c) ==
    /\ pc[c] \in {"recover", "schedule"}
    /\ \/ MayAttempt /\ ~Blocked(status) /\ Spawn(c)
       \/ /\ MayAttempt /\ Blocked(status) /\ status.class = "configuration"
          /\ Goto(c, IF pc[c] = "recover" THEN "recover_try" ELSE "schedule_try")
          /\ job' = [job EXCEPT ![c].print = config]
       \/ /\ ~MayAttempt \/ (Blocked(status) /\ status.class # "configuration")
          /\ Continue(c, AfterSchedule(c))
    /\ UNCHANGED <<files, lock, data>>

ProbeLock(c) ==
    /\ pc[c] \in {"recover_try", "schedule_try"}
    /\ \/ /\ lock = NoProc
          /\ lock' = c
          /\ Goto(c, IF pc[c] = "recover_try" THEN "recover_probe" ELSE "schedule_probe")
          /\ UNCHANGED job
       \/ /\ lock # NoProc
          /\ Continue(c, AfterSchedule(c))
          /\ UNCHANGED lock
    /\ UNCHANGED <<files, data>>

(* release_deferral_on_config_change, with the execution lock held; it     *)
(* reads the status again.                                                 *)
ProbeDone(c) ==
    /\ pc[c] \in {"recover_probe", "schedule_probe"}
    /\ lock' = NoProc
    /\ \/ /\ Releases(status, job[c].print)
          /\ \/ status' = Released(status, job[c].print)
             \/ Fault("io") /\ UNCHANGED status
          /\ Spawn(c)
       \/ /\ ~Releases(status, job[c].print)
          /\ Continue(c, AfterSchedule(c))
          /\ UNCHANGED status
    /\ UNCHANGED <<marker, clock, config, data>>

-----------------------------------------------------------------------------
(* Commands. *)

FirstStep(k) ==
    IF k \in {"sync", "retry"} THEN "wait"
    ELSE IF k = "discard" THEN "peek"
    ELSE IF k = "clear_failure" THEN "clear_read" ELSE "recover"

(* A user runs a command, which loads its configuration.  Only `snp sync`  *)
(* and its retry can be restricted to a library, only the former to pull.  *)
Start(c, k) ==
    /\ pc[c] = "idle"
    /\ Goto(c, FirstStep(k))
    /\ \E scope \in IF k \in {"sync", "retry"} THEN Scopes ELSE {Libs},
          push \in IF k = "sync" THEN Pushes ELSE {TRUE} :
          job' = [job EXCEPT ![c] = [NoJob EXCEPT !.kind = k, !.todo = scope,
                                                  !.push = push, !.print = config]]
    /\ UNCHANGED <<files, lock, data>>

(* The command commits its edit of one library under the local-data lock. *)
(* A delete from the selector with --sync goes on to the explicit sync     *)
(* without recording anything.                                             *)
Edit(c) ==
    /\ pc[c] = "edit"
    /\ \E l \in Libs :
          /\ SumFunction(local) < MaxEdits
          /\ local' = [local EXCEPT ![l] = @ + 1]
          /\ job' = [job EXCEPT ![c].lib = l, ![c].ver = local[l] + 1]
    /\ Goto(c, IF job[c].kind = "flag" THEN "peek"
               ELSE IF job[c].kind = "restore" THEN "ensure" ELSE "record")
    /\ UNCHANGED <<files, lock, server, recorded>>

(* The command ends without an edit; --sync still runs its sync. *)
NoEdit(c) ==
    /\ pc[c] = "edit"
    /\ Continue(c, IF job[c].kind = "flag" THEN "peek" ELSE "idle")
    /\ UNCHANGED <<files, lock, data>>

(* The history variable: the edit of c is covered by a recorded intent. *)
Covered(c) ==
    [recorded EXCEPT ![job[c].lib] = Larger(@, job[c].ver)]

(* notify_local_mutation: the intent is recorded, then scheduled; a marker *)
(* that cannot be written leaves the edit without intent.                  *)
RecordPending(c) ==
    /\ pc[c] = "record"
    /\ \/ /\ clock' \in {clock, clock + 1}
          /\ marker' = RecordMutation(marker, clock')
          /\ recorded' = Covered(c)
          /\ Continue(c, "schedule")
       \/ /\ Fault("io")
          /\ Finish(c)
          /\ UNCHANGED <<marker, clock, recorded>>
    /\ UNCHANGED <<status, config, lock, local, server>>

(* The end of a restore: ensure_pending_for_transaction, then scheduling. *)
EnsurePending(c) ==
    /\ pc[c] = "ensure"
    /\ \/ /\ clock' \in IF Present(marker) THEN {clock} ELSE {clock, clock + 1}
          /\ marker' = EnsureForTransaction(marker, clock')
          /\ recorded' = Covered(c)
          /\ Continue(c, "schedule")
       \/ /\ Fault("io")
          /\ Finish(c)
          /\ UNCHANGED <<marker, clock, recorded>>
    /\ UNCHANGED <<status, config, lock, local, server>>

(* wait_acquire: the lock, or a timeout while another process holds it. *)
AcquireForeground(c) ==
    /\ pc[c] = "wait"
    /\ lock = NoProc
    /\ lock' = c
    /\ Goto(c, IF job[c].kind = "flag" THEN "connect" ELSE "observe")
    /\ UNCHANGED <<files, job, data>>

WaitTimeout(c) ==
    /\ pc[c] = "wait"
    /\ lock # NoProc
    /\ Finish(c)
    /\ UNCHANGED <<files, lock, data>>

Observed(p) ==
    job' = [job EXCEPT ![p].obs = marker, ![p].seen = recorded]

(* Observation of the generation without the lock: run_explicit_sync before *)
(* it waits, discard-pending before it asks.                                *)
ObserveUnlocked(c) ==
    /\ pc[c] = "peek"
    /\ \/ /\ job[c].kind = "flag"
          /\ Observed(c) /\ Goto(c, "wait")
       \/ /\ job[c].kind = "discard" /\ Present(marker)
          /\ Observed(c) /\ Goto(c, "discard")
       \/ /\ job[c].kind = "discard"
          /\ ~Present(marker) \/ Fault("io")
          /\ Finish(c)
    /\ UNCHANGED <<files, lock, data>>

(* `snp sync` observes just before it syncs, and may end before that (a dry *)
(* run, no connection); a retry without pending work ends here.             *)
ObserveLocked(c) ==
    /\ pc[c] = "observe"
    /\ \/ /\ job[c].kind = "sync" \/ Present(marker)
          /\ Observed(c)
          /\ Goto(c, "connect")
       \/ /\ job[c].kind = "retry" => ~Present(marker) \/ Fault("io")
          /\ Goto(c, "exit") /\ UNCHANGED job
    /\ UNCHANGED <<files, lock, data>>

(* discard-pending: confirmed, or given up at the prompt.  What the user   *)
(* saw when it was observed is no longer owed.                             *)
Waived(c) ==
    [l \in Libs |-> IF recorded[l] <= job[c].seen[l] THEN 0 ELSE recorded[l]]

DiscardPending(c) ==
    /\ pc[c] = "discard"
    /\ \/ /\ marker' = ClearIfGenerationMatches(marker, job[c].obs.gen)
          /\ recorded' = IF marker' = marker THEN recorded ELSE Waived(c)
       \/ UNCHANGED <<marker, recorded>>
    /\ Finish(c)
    /\ UNCHANGED <<clock, status, config, lock, local, server>>

(* clear-failure: a read and a write of the status without any lock. *)
ClearFailureRead(c) ==
    /\ pc[c] = "clear_read"
    /\ IF status.valid
       THEN Goto(c, "clear_write") /\ job' = [job EXCEPT ![c].read = status]
       ELSE Finish(c)
    /\ UNCHANGED <<files, lock, data>>

ClearFailureWrite(c) ==
    /\ pc[c] = "clear_write"
    /\ \/ status' = ClearedByOperator(job[c].read)
       \/ Fault("io") /\ UNCHANGED status
    /\ Finish(c)
    /\ UNCHANGED <<marker, clock, config, lock, data>>

-----------------------------------------------------------------------------
(* The detached worker up to its sync. *)

(* Mutant: the worker does not look at the lock. *)
TakeHeldLock(w) ==
    /\ pc[w] = "spawned"
    /\ lock' = w
    /\ Goto(w, "loop")
    /\ UNCHANGED <<files, job, data>>

(* run: one attempt on the lock, and nothing to do if it is taken. *)
TryAcquire(w) ==
    /\ pc[w] = "spawned"
    /\ \/ /\ lock = NoProc
          /\ lock' = w
          /\ Goto(w, IF config \in AutoConfigs THEN "loop" ELSE "exit")
          /\ UNCHANGED job
       \/ /\ lock # NoProc \/ Fault("io")
          /\ Finish(w)
          /\ UNCHANGED lock
    /\ UNCHANGED <<files, data>>

FailWith(p, class) ==
    /\ Goto(p, "fail")
    /\ job' = [job EXCEPT ![p].class = class]

(* The head of run_locked's loop. *)
ReadPending(w) ==
    /\ pc[w] = "loop"
    /\ \/ /\ Present(marker)
          /\ Goto(w, "debounce")
          /\ job' = [job EXCEPT ![w].obs = marker]
       \/ ~Present(marker) /\ Goto(w, "exit") /\ UNCHANGED job
       \/ \E class \in PendingErrors : FailWith(w, class)
    /\ UNCHANGED <<files, lock, data>>

(* max_lifetime is over at the head of a later iteration. *)
LifetimeOver(w) ==
    /\ pc[w] = "loop"
    /\ Present(job[w].obs)
    /\ Goto(w, "exit")
    /\ UNCHANGED <<files, lock, job, data>>

(* One poll of debounce: newer work or a reset is adopted, a rollback is a *)
(* failure, and once the deadline has passed an unchanged generation is    *)
(* ready.  How long the deadline is does not matter here.                  *)
Debounce(w) ==
    /\ pc[w] = "debounce"
    /\ LET m == marker
           cur == job[w].obs
       IN  \/ /\ Present(m)
              /\ m.gen > cur.gen \/ (m.gen < cur.gen /\ IsReset(cur, m))
              /\ job' = [job EXCEPT ![w].obs = m] /\ UNCHANGED pc
           \/ /\ Present(m) /\ m.gen < cur.gen /\ ~IsReset(cur, m)
              /\ FailWith(w, "internal")
           \/ m.gen = cur.gen /\ Goto(w, "preflight") /\ UNCHANGED job
           \/ ~Present(m) /\ Goto(w, "exit") /\ UNCHANGED job
           \/ Fault("io") /\ FailWith(w, "internal")
    /\ UNCHANGED <<files, lock, data>>

(* preflight_check reads the marker once more; what it reads is the        *)
(* generation the sync acknowledges.                                       *)
Preflight(w) ==
    /\ pc[w] = "preflight"
    /\ LET m == marker
           rollback == m.gen < job[w].obs.gen /\ ~IsReset(job[w].obs, m)
       IN  \/ /\ Present(m) /\ ~rollback
              /\ Goto(w, "connect")
              /\ job' = [job EXCEPT ![w].obs = m, ![w].seen = recorded,
                                    ![w].todo = Libs, ![w].failed = FALSE]
           \/ Present(m) /\ rollback /\ FailWith(w, "internal")
           \/ ~Present(m) /\ Goto(w, "exit") /\ UNCHANGED job
           \/ \E class \in PendingErrors : FailWith(w, class)
    /\ UNCHANGED <<files, lock, data>>

-----------------------------------------------------------------------------
(* One sync run: run_sync_with_limits, for a worker and for the commands. *)

AfterSync(k) == IF k \in {"sync", "retry"} THEN "success" ELSE "clear"

(* A failed run: the worker first reads its failure count, `snp sync` and  *)
(* its retry record a count of 0, the --sync path records nothing.         *)
RunFails(p, class) ==
    LET k == job[p].kind
    IN  IF k = "flag" THEN Goto(p, "exit") /\ UNCHANGED job
        ELSE /\ Goto(p, IF k = "worker" THEN "fail" ELSE "fail_write")
             /\ job' = [job EXCEPT ![p].class = class]

(* Everything before the loop over the libraries: the configuration, the   *)
(* connection, the health check, creation of missing server libraries.     *)
Connect(p) ==
    /\ pc[p] = "connect"
    /\ \/ Goto(p, "sync") /\ UNCHANGED job
       \/ \E class \in SyncFailures : RunFails(p, class)
    /\ UNCHANGED <<files, lock, data>>

(* load_library: the version that this run will upload. *)
ReadLibrary(p) ==
    /\ pc[p] = "sync"
    /\ \E l \in job[p].todo :
          job' = [job EXCEPT ![p].lib = l, ![p].ver = local[l]]
    /\ Goto(p, "upload")
    /\ UNCHANGED <<files, lock, data>>

Received(p) ==
    IF job[p].push
    THEN [server EXCEPT ![job[p].lib] = Larger(@, job[p].ver)] ELSE server

(* The exchange with the server and the merge.  A failure does not tell    *)
(* whether the server received the upload; the run goes on with the rest.  *)
Upload(p) ==
    /\ pc[p] = "upload"
    /\ \E ok \in IF "transient" \in SyncFailures THEN BOOLEAN ELSE {TRUE} :
          /\ server' \in IF ok THEN {Received(p)} ELSE {server, Received(p)}
          /\ job' = [job EXCEPT ![p].failed = @ \/ ~ok,
                                ![p].todo = @ \ {job[p].lib}]
    /\ Goto(p, "sync")
    /\ UNCHANGED <<files, lock, local, recorded>>

(* Mutant: failed libraries do not fail the run. *)
ForgetFailedLibraries(p) ==
    /\ pc[p] = "sync"
    /\ job[p].todo = {}
    /\ Goto(p, AfterSync(job[p].kind))
    /\ UNCHANGED <<files, lock, job, data>>

(* Any failed library makes the whole run a partial failure. *)
SyncDone(p) ==
    /\ pc[p] = "sync"
    /\ job[p].todo = {}
    /\ IF job[p].failed THEN RunFails(p, "transient")
       ELSE Goto(p, AfterSync(job[p].kind)) /\ UNCHANGED job
    /\ UNCHANGED <<files, lock, data>>

(* The acknowledgement: clear_if_generation_matches with the generation    *)
(* that was observed.  A clear that fails is a failed cycle of the worker, *)
(* and only logged by a command.                                           *)
Acknowledge(p) ==
    /\ pc[p] = "clear"
    /\ \/ /\ marker' = ClearIfGenerationMatches(marker, job[p].obs.gen)
          /\ Goto(p, IF job[p].kind = "worker" THEN "success" ELSE "exit")
          /\ UNCHANGED job
       \/ /\ job[p].kind = "worker"
          /\ \E class \in PendingErrors : FailWith(p, class)
          /\ UNCHANGED marker
       \/ /\ job[p].kind # "worker" /\ Fault("io")
          /\ Goto(p, "exit")
          /\ UNCHANGED <<marker, job>>
    /\ UNCHANGED <<clock, status, config, lock, data>>

(* record_success, best effort.  The worker has acknowledged before, the   *)
(* commands acknowledge after it.                                          *)
WriteSuccess(p) ==
    /\ pc[p] = "success"
    /\ \/ status' = RecordSuccess(status)
       \/ Fault("io") /\ UNCHANGED status
    /\ Goto(p, IF job[p].kind = "worker" THEN "recheck" ELSE "clear")
    /\ UNCHANGED <<marker, clock, config, lock, job, data>>

(* The follow-up decision of run_locked: newer work is another cycle. *)
Recheck(w) ==
    /\ pc[w] = "recheck"
    /\ LET m == marker
           cur == job[w].obs
       IN  \/ /\ Present(m)
              /\ m.gen > cur.gen \/ (m.gen < cur.gen /\ IsReset(cur, m))
              /\ Goto(w, "loop") /\ UNCHANGED job
           \/ /\ Present(m) /\ m.gen < cur.gen /\ ~IsReset(cur, m)
              /\ FailWith(w, "internal")
           \/ m.gen \in {0, cur.gen} /\ Goto(w, "exit") /\ UNCHANGED job
           \/ Fault("io") /\ FailWith(w, "internal")
    /\ UNCHANGED <<files, lock, data>>

(* record_sync_failure of the worker: the count is read, then the failure  *)
(* is written over whatever the file holds by then.                        *)
ReadStrikes(w) ==
    /\ pc[w] = "fail"
    /\ job' = [job EXCEPT ![w].strikes = NextFailures(status)]
    /\ Goto(w, "fail_write")
    /\ UNCHANGED <<files, lock, data>>

WriteFailure(p) ==
    /\ pc[p] = "fail_write"
    /\ \/ status' = IF job[p].kind = "worker"
                     THEN RecordFailure(job[p].class, job[p].strikes, TRUE, config)
                     ELSE RecordFailure(job[p].class, 0, FALSE, job[p].print)
       \/ Fault("io") /\ UNCHANGED status
    /\ Goto(p, "exit")
    /\ UNCHANGED <<marker, clock, config, lock, job, data>>

(* Mutant: a process ends without dropping its lock. *)
LeakLock(p) ==
    /\ pc[p] = "exit"
    /\ Finish(p)
    /\ UNCHANGED <<files, lock, data>>

(* The guard of the execution lock is dropped and the process ends. *)
Release(p) ==
    /\ pc[p] = "exit"
    /\ lock' = NoProc
    /\ Finish(p)
    /\ UNCHANGED <<files, data>>

-----------------------------------------------------------------------------
(* The environment. *)

(* A process is killed: the kernel releases its lock, the files stay. *)
Crash(p) ==
    /\ Fault("crash")
    /\ pc[p] # "idle"
    /\ Finish(p)
    /\ lock' = IF lock = p THEN NoProc ELSE lock
    /\ UNCHANGED <<files, data>>

BackoffElapses ==
    /\ status.deferred
    /\ status' = [status EXCEPT !.deferred = FALSE]
    /\ UNCHANGED <<marker, clock, config, lock, pc, job, data>>

ChangeConfig ==
    /\ config' \in Configs \ {config}
    /\ UNCHANGED <<marker, clock, status, lock, pc, job, data>>

-----------------------------------------------------------------------------

SyncStep(p) ==
    \/ Connect(p) \/ ReadLibrary(p) \/ Upload(p) \/ SyncDone(p)
    \/ Acknowledge(p) \/ WriteSuccess(p) \/ WriteFailure(p) \/ Release(p)

WorkerStep(w) ==
    \/ TryAcquire(w) \/ ReadPending(w) \/ LifetimeOver(w) \/ Debounce(w)
    \/ Preflight(w) \/ Recheck(w) \/ ReadStrikes(w) \/ SyncStep(w)

CommandStep(c) ==
    \/ Schedule(c) \/ ProbeLock(c) \/ ProbeDone(c) \/ Edit(c) \/ NoEdit(c)
    \/ RecordPending(c) \/ EnsurePending(c)
    \/ AcquireForeground(c) \/ WaitTimeout(c)
    \/ ObserveUnlocked(c) \/ ObserveLocked(c) \/ DiscardPending(c)
    \/ ClearFailureRead(c) \/ ClearFailureWrite(c) \/ SyncStep(c)

Next ==
    \/ \E w \in Workers : WorkerStep(w)
    \/ \E c \in Commands : CommandStep(c) \/ \E k \in Kinds : Start(c, k)
    \/ \E p \in Proc : Crash(p)
    \/ BackoffElapses
    \/ ChangeConfig

Spec == Init /\ [][Next]_vars
-----------------------------------------------------------------------------
(* Properties. *)

(* The libraries with a recorded edit that the server does not have. *)
Owed == {l \in Libs : recorded[l] > server[l]}

(* The promise of pending.rs and notification.rs: as long as an edit whose  *)
(* intent was recorded has not reached the server (and the user has not     *)
(* discarded it), a pending marker stands, so that some later command can   *)
(* still schedule its sync.                                                 *)
IntentKept == Owed # {} => Present(marker)

(* The same promise as the small specification SyncIntent: every step of    *)
(* the commands, the workers and the environment records, delivers or       *)
(* acknowledges an intent, or does not concern it.                          *)
Intent == INSTANCE SyncIntent WITH owed <- Owed, intent <- Present(marker)

KeepsIntent == Intent!Spec

(* execution_lock.rs: a process between its acquisition and the end of its  *)
(* guard is the owner of the lock, so two sync runs never overlap.          *)
OneSyncAtATime == \A p \in Proc : pc[p] \in Locked <=> lock = p

(* While a worker syncs, the generation it will acknowledge covers exactly  *)
(* the edits that were recorded when it was observed: a marker that still   *)
(* has this generation hides no later edit.                                 *)
ObservationCurrent ==
    \A w \in Workers :
        /\ pc[w] \in {"connect", "sync", "upload", "clear"}
        /\ marker.gen = job[w].obs.gen
        => \A l \in Libs : recorded[l] <= job[w].seen[l]

(* schedule.rs, RequiresAttention and WaitForConfigurationChange: once the  *)
(* cycles of the worker have raised attention under the present             *)
(* configuration, no command spawns a worker before a success, an operator, *)
(* another failure or a new configuration has changed the status.  A        *)
(* configuration that changes while a command is deciding is the exception. *)
Spawns(c) == /\ pc'[c] # pc[c]
             /\ \E w \in Workers : pc[w] = "idle" /\ pc'[w] = "spawned"

Probing(c) == pc[c] \in {"recover_probe", "schedule_probe"}

WorkerAttentionHolds ==
    [][\A c \in Commands :
          Spawns(c) /\ (Probing(c) => job[c].print = config)
          => ~(status.attention /\ status.failures > 0 /\ status.print = config)]_vars

(* The same without the exception for a count of 0, which is what a failed  *)
(* `snp sync` records: schedule.rs:29-30 says of RequiresAttention "no      *)
(* automatic retry".                                                        *)
AttentionHolds ==
    [][\A c \in Commands :
          Spawns(c) /\ (Probing(c) => job[c].print = config)
          => ~(status.attention /\ status.print = config)]_vars

-----------------------------------------------------------------------------
(* Liveness.  Every process that runs is scheduled by the operating system, *)
(* and time passes; nobody has to run a command or change a configuration.  *)

Fairness ==
    /\ \A w \in Workers : WF_vars(WorkerStep(w))
    /\ \A c \in Commands : WF_vars(CommandStep(c))
    /\ WF_vars(BackoffElapses)

FairSpec == Spec /\ Fairness

(* worker.rs: whatever was recorded while a worker is still debouncing (or  *)
(* before) reaches the server, unless the cycle of this worker fails.       *)
DebounceCatches ==
    \A w \in Workers, l \in Libs, v \in 1..MaxEdits :
        pc[w] \in {"debounce", "preflight"} /\ recorded[l] >= v
        ~> server[l] >= v \/ pc[w] = "fail"

(* startup_recover and schedule_and_spawn: a marker does not outlast a user *)
(* who keeps running commands, once the cycles of the workers stop failing. *)
(* (A worker that finds the lock busy gives up, and a worker past its       *)
(* recheck does not see newer work, so without further commands it may.)    *)
PendingServed ==
    []<>(\E c \in Commands : pc[c] = "recover")
    /\ <>[](\A w \in Workers : pc[w] # "fail")
    => (Present(marker) ~> ~Present(marker))
=============================================================================
