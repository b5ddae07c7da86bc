---------------------------- MODULE Transaction ----------------------------
(***************************************************************************)
(* Multi-file local mutations: `snp restore` replaces several files under  *)
(* a journal (src/src/transaction.rs, commands/restore_cmd.rs), an edit    *)
(* replaces one under the local-data lock (library/persistence.rs),        *)
(* `snp backup` reads them all (commands/backup_cmd.rs) and `snp repair`   *)
(* recovers what was interrupted (commands/repair_cmd.rs).  Any of them    *)
(* may die, or fail to read or write, between two steps; the next command  *)
(* passes the mutation gate, which recovers one interrupted transaction.   *)
(* The two lock files are modelled by what RecordLock shows of them: one   *)
(* live owner, and the record of a dead one is there for the taking.       *)
(***************************************************************************)
EXTENDS Integers, Sequences, FiniteSets, SequencesExt

CONSTANTS Process,      \* concurrently running commands
          NumFiles,     \* files in the manifest of a backup
          InitialFiles, \* the files there may be at first: content 1 or Absent
          MaxOps,       \* commands started; bounds the transactions and contents too
          MaxFaults     \* processes that die, and reads and writes that fail

ASSUME BoundsAssumption == /\ NumFiles \in Nat \ {0}
                           /\ InitialFiles \subseteq [1..NumFiles -> {0, 1}]
                           /\ \A files \in InitialFiles : \E f \in 1..NumFiles : files[f] = 1
                           /\ MaxOps \in Nat \ {0} /\ MaxFaults \in Nat

VARIABLES file,      \* [File -> Content]: the live files
          journal,   \* [Txn -> Journal or NoJournal]: txn-<id>.toml
          artifact,  \* [Txn -> Artifact]: artifacts/<id>/{backups,staged}
          localLock, \* owner of local-data.lock
          txnLock,   \* owner of transaction.lock
          proc,      \* [Process -> Command]: the command a process runs and where it is
          started, faults,  \* counters against the bounds
          done,      \* history: contents whose operation took effect
          intent,    \* history: restores whose pending intent was established
          exposed,   \* history: files written past a gate that has become stale
          plundered  \* history: transactions whose artifacts a repair took for orphans

vars == <<file, journal, artifact, localLock, txnLock, proc, started,
          faults, done, intent, exposed, plundered>>
history == <<done, intent, exposed, plundered>>

File == 1..NumFiles
Legacy == 1                    \* the transaction an older version may have left
Txn == 1..(MaxOps + 1)         \* the n-th command is transaction, and writes content, n + 1
Absent == 0
Content == {Absent} \cup Txn   \* content 1 is there from the start

NoOwner == "no owner"
DeadOwner == "dead owner"
Free(lock) == lock \in {NoOwner, DeadOwner}

ASSUME OwnerAssumption == {NoOwner, DeadOwner} \cap Process = {}

---------------------------------------------------------------------------
(* Journals *)

State == {"Prepared", "BackupsDurable", "Committing", "CommittedLocal", "Committed",
          "RollingBack", "RolledBack", "CleaningUp", "Failed"}
Action == {"Replace", "Create", "NoOp"}
Pending == {"NotRecorded", "Recorded"}   \* by a marker of its own or another's
Outcome == {"Commit", "Rollback"}
CleanupStep == {"Validate", "RemoveBackups", "RemoveArtifactRoot", "RemoveJournal"}
StepAfter == [Validate |-> "RemoveBackups", RemoveBackups |-> "RemoveArtifactRoot",
              RemoveArtifactRoot |-> "RemoveJournal"]

Journal == [state : State, position : 0..NumFiles, pending : Pending,
            outcome : Outcome, step : CleanupStep,
            original : [File -> Content], action : [File -> Action],
            backups : SUBSET File]    \* the files whose backup path is recorded
NoJournal == [state |-> "none", position |-> 0, pending |-> "NotRecorded",
              outcome |-> "Commit", step |-> "Validate", original |-> [f \in File |-> Absent],
              action |-> [f \in File |-> "NoOp"], backups |-> {}]

Artifact == [root : BOOLEAN, backup : [File -> Content], staged : SUBSET File]
NoArtifact == [root |-> FALSE, backup |-> [f \in File |-> Absent], staged |-> {}]

\* begin_transaction: the files as they are, and no backup path yet.
Prepared == [NoJournal EXCEPT
                !.state = "Prepared", !.original = file,
                !.action = [f \in File |-> IF file[f] = Absent THEN "Create" ELSE "Replace"]]

Journals == {t \in Txn : journal[t] # NoJournal}
Existed(t) == {f \in File : journal[t].original[f] # Absent}
Restored(t) == {f \in File : journal[t].action[f] # "NoOp"}

\* What recovery makes of a journal: from its state alone, and for the terminal
\* states of older versions from whether artifacts are left.
ClassOfState ==
    [Prepared |-> "Rollback", BackupsDurable |-> "Rollback", Committing |-> "Rollback",
     RollingBack |-> "Rollback", CommittedLocal |-> "FinalizeCommittedLocal",
     CleaningUp |-> "ResumeCleanup", Committed |-> "CleanupLegacyCommitted",
     RolledBack |-> "CleanupLegacyRolledBack", Failed |-> "UnsafeFailed"]
Class(t) == IF journal[t].state \in {"Committed", "RolledBack"} /\ ~artifact[t].root
            THEN "RemoveTerminalJournal"
            ELSE ClassOfState[journal[t].state]

OfClass(c) == {t \in Journals : Class(t) = c}
Recoveries(S) == SetToSeq({<<t, Class(t)>> : t \in S})

---------------------------------------------------------------------------
(* Commands *)

Op == {"restore", "edit", "backup", "repair"}
Idle == [op |-> "none", pc |-> "idle", id |-> 0,
         todo |-> <<>>,      \* recoveries to do: transaction and expected class
         skip |-> {},        \* restore: the files to leave alone
         seen |-> {},        \* repair: journals, then artifact directories without one
         snapshot |-> <<>>, clean |-> TRUE]   \* backup

At(p, pc) == proc[p].pc = pc
Goto(p, pc) == proc' = [proc EXCEPT ![p].pc = pc]
Recovering(p) == proc[p].todo # <<>>
TxnOf(p) == IF Recovering(p) THEN Head(proc[p].todo)[1] ELSE proc[p].id

Unlocked(lock, p) == IF lock = p THEN NoOwner ELSE lock

\* The command returns, and its guards drop the locks.
Finish(p) == /\ proc' = [proc EXCEPT ![p] = Idle]
             /\ localLock' = Unlocked(localLock, p)
             /\ txnLock' = Unlocked(txnLock, p)

\* recover_transaction_by_id returned.  The gate stops at the first error; repair
\* counts it and goes on with the next finding.
Recovered(p, ok) ==
    IF ~ok /\ proc[p].op # "repair"
    THEN Finish(p)
    ELSE LET left == Tail(proc[p].todo)
             next == IF left # <<>> THEN "recover"
                     ELSE IF proc[p].op = "repair" THEN "removeOrphans" ELSE "lockLocal"
         IN  /\ proc' = [proc EXCEPT ![p].todo = left, ![p].pc = next]
             /\ txnLock' = Unlocked(txnLock, p)
             /\ UNCHANGED localLock

Return(p, ok) == IF Recovering(p) THEN Recovered(p, ok) ELSE Finish(p)

Init ==
    /\ file \in InitialFiles
    /\ \E s \in {"none", "Committed", "RolledBack", "Failed"}, r \in BOOLEAN :
          /\ journal = [t \in Txn |-> IF t = Legacy /\ s # "none"
                                      THEN [Prepared EXCEPT !.state = s] ELSE NoJournal]
          /\ r => s # "none"
          /\ artifact = [t \in Txn |-> IF t = Legacy THEN [NoArtifact EXCEPT !.root = r]
                                       ELSE NoArtifact]
          /\ started = IF s = "none" THEN 0 ELSE 1
    /\ localLock = NoOwner /\ txnLock = NoOwner
    /\ proc = [p \in Process |-> Idle]
    /\ faults = 0
    /\ done = {} /\ intent = {} /\ exposed = {} /\ plundered = {}

Start(p, op) ==
    /\ At(p, "idle")
    /\ started < MaxOps
    /\ started' = started + 1
    /\ proc' = [proc EXCEPT ![p] =
          [Idle EXCEPT !.op = op, !.id = started + 2,
                       !.pc = IF op = "backup" THEN "lockLocal"
                              ELSE IF op = "repair" THEN "collect" ELSE "gate"]]
    /\ UNCHANGED <<file, journal, artifact, localLock, txnLock, faults, history>>

\* gate_mutation_on_interrupted_transactions: refuse over a failed journal or over
\* several interrupted ones, recover a single one, else drop the terminal ones.
Gate(p) ==
    LET interrupted == Journals \ OfClass("RemoveTerminalJournal")
        todo == Recoveries(IF interrupted = {} THEN Journals ELSE interrupted)
    IN  /\ At(p, "gate")
        /\ IF OfClass("UnsafeFailed") # {} \/ Cardinality(interrupted) > 1
           THEN Finish(p)
           ELSE /\ proc' = [proc EXCEPT ![p].todo = todo,
                               ![p].pc = IF todo = <<>> THEN "lockLocal" ELSE "recover"]
                /\ UNCHANGED <<localLock, txnLock>>
        /\ UNCHANGED <<file, journal, artifact, started, faults, history>>

\* Mutant of LockLocal: only writers take the lock.
LockLocalForWriters(p) ==
    /\ At(p, "lockLocal")
    /\ \/ /\ Free(localLock) \/ proc[p].op = "backup"
          /\ localLock' = IF proc[p].op = "backup" THEN localLock ELSE p
          /\ Goto(p, CASE proc[p].op = "restore" -> "lockTxn"
                       [] proc[p].op = "edit" -> "write"
                       [] proc[p].op = "backup" -> "capture")
          /\ UNCHANGED txnLock
       \/ ~Free(localLock) /\ Finish(p)
    /\ UNCHANGED <<file, journal, artifact, started, faults, history>>

\* The wait for the local-data lock; a lock that does not change hands for 30
\* seconds fails the command.
LockLocal(p) ==
    /\ At(p, "lockLocal")
    /\ \/ /\ Free(localLock)
          /\ localLock' = p
          /\ Goto(p, CASE proc[p].op = "restore" -> "lockTxn"
                       [] proc[p].op = "edit" -> "write"
                       [] proc[p].op = "backup" -> "capture")
          /\ UNCHANGED txnLock
       \/ ~Free(localLock) /\ Finish(p)
    /\ UNCHANGED <<file, journal, artifact, started, faults, history>>

---------------------------------------------------------------------------
(* An edit: load, mutate and save one file under the lock *)

\* What is promised of a file ends when it is written over a journal to roll back.
Exposes(S) == exposed' = exposed \cup (IF OfClass("Rollback") # {} THEN S ELSE {})

Write(p) ==
    /\ At(p, "write")
    /\ \E f \in File : /\ file[f] # Absent
                       /\ file' = [file EXCEPT ![f] = proc[p].id]
                       /\ Exposes({f})
    /\ done' = done \cup {proc[p].id}
    /\ Finish(p)
    /\ UNCHANGED <<journal, artifact, started, faults, intent, plundered>>

---------------------------------------------------------------------------
(* Recovery of one transaction by its id and the class it was scanned with *)

\* Mutant of FirstStep: a committed transaction is cleaned up whether its pending
\* intent was recorded or not.
FirstStepUnrecorded(t) == [Rollback |-> "rollback", ResumeCleanup |-> "clean",
                           FinalizeCommittedLocal |-> "beginCleanup",
                           CleanupLegacyCommitted |-> "beginCleanup",
                           CleanupLegacyRolledBack |-> "beginCleanup",
                           RemoveTerminalJournal |-> "removeTerminal"]

FirstStep(t) == [Rollback |-> "rollback", ResumeCleanup |-> "clean",
                 FinalizeCommittedLocal |-> IF journal[t].pending = "NotRecorded"
                                            THEN "pending" ELSE "recorded",
                 CleanupLegacyCommitted |-> "beginCleanup",
                 CleanupLegacyRolledBack |-> "beginCleanup",
                 RemoveTerminalJournal |-> "removeTerminal"]

\* Mutant of CanRecover: a rollback does not look again at what it scanned.
CanRecoverAsScanned(p, t, class) ==
    Free(txnLock) /\ (class = "Rollback" \/ (t \in Journals /\ Class(t) = class))

\* The lock first, and it does not wait; under it the journal is loaded and
\* classified again, and anything but the expected class is an error.
CanRecover(p, t, class) == Free(txnLock) /\ t \in Journals /\ Class(t) = class

Recover(p) ==
    LET t == Head(proc[p].todo)[1]
        class == Head(proc[p].todo)[2]
    IN  /\ At(p, "recover")
        /\ IF CanRecover(p, t, class)
           THEN /\ txnLock' = p
                /\ Goto(p, FirstStep(t)[class])
                /\ UNCHANGED localLock
           ELSE Recovered(p, FALSE)
        /\ UNCHANGED <<file, journal, artifact, started, faults, history>>

Persist(t, j) == journal' = [journal EXCEPT ![t] = j]

\* Mutant of RollBegin: any recorded position counts, also that of the commit.
RollBeginAnywhere(p) ==
    LET t == TxnOf(p)
        from == journal[t].position
    IN  /\ At(p, "rollback")
        /\ Persist(t, [journal[t] EXCEPT !.state = "RollingBack"])
        /\ Goto(p, IF from < NumFiles THEN "restoreFile" ELSE "beginCleanup")
        /\ UNCHANGED <<file, artifact, localLock, txnLock, started, faults, history>>

\* rollback_transaction resumes at the recorded position, else starts over.
RollBegin(p) ==
    LET t == TxnOf(p)
        from == IF journal[t].state = "RollingBack" THEN journal[t].position ELSE 0
    IN  /\ At(p, "rollback")
        /\ Persist(t, [journal[t] EXCEPT !.state = "RollingBack", !.position = from])
        /\ Goto(p, IF from < NumFiles THEN "restoreFile" ELSE "beginCleanup")
        /\ UNCHANGED <<file, artifact, localLock, txnLock, started, faults, history>>

\* Backwards through the files: one the transaction created is removed, any other
\* is replaced by its backup, and without a backup the rollback stops there.
RollFile(p) ==
    LET t == TxnOf(p)
        f == NumFiles - journal[t].position
        original == journal[t].original[f]
        backup == IF f \in journal[t].backups THEN artifact[t].backup[f] ELSE Absent
    IN  /\ At(p, "restoreFile")
        /\ IF original = Absent \/ backup = original
           THEN /\ file' = [file EXCEPT ![f] = original]
                /\ Goto(p, "rolled")
                /\ UNCHANGED <<localLock, txnLock>>
           ELSE Return(p, FALSE) /\ UNCHANGED file
        /\ UNCHANGED <<journal, artifact, started, faults, history>>

RollAdvance(p) ==
    LET t == TxnOf(p)
        next == journal[t].position + 1
    IN  /\ At(p, "rolled")
        /\ Persist(t, [journal[t] EXCEPT !.position = next])
        /\ Goto(p, IF next = NumFiles THEN "beginCleanup" ELSE "restoreFile")
        /\ UNCHANGED <<file, artifact, localLock, txnLock, started, faults, history>>

\* A committed transaction's pending intent: ensure_pending_for_transaction leaves a
\* marker of its own, or the one of somebody else that is there already (AutoSync).
EnsurePending(p) ==
    /\ At(p, "pending")
    /\ intent' = intent \cup {TxnOf(p)}
    /\ Goto(p, "recorded")
    /\ UNCHANGED <<file, journal, artifact, localLock, txnLock, started, faults,
                   done, exposed, plundered>>

RecordPending(p) ==
    LET t == TxnOf(p)
    IN  /\ At(p, "recorded")
        /\ Persist(t, [journal[t] EXCEPT !.pending = "Recorded"])
        /\ Goto(p, "beginCleanup")
        /\ UNCHANGED <<file, artifact, localLock, txnLock, started, faults, history>>

---------------------------------------------------------------------------
(* Cleanup: each step is persisted before it runs, the journal goes last *)

BeginCleanup(p) ==
    LET t == TxnOf(p)
        outcome == IF journal[t].state \in {"RollingBack", "RolledBack"} THEN "Rollback" ELSE "Commit"
    IN  /\ At(p, "beginCleanup")
        /\ Persist(t, [journal[t] EXCEPT !.state = "CleaningUp", !.outcome = outcome,
                                         !.step = "Validate"])
        /\ Goto(p, "clean")
        /\ UNCHANGED <<file, artifact, localLock, txnLock, started, faults, history>>

AfterStep(t, step) ==
    CASE step = "Validate" -> [artifact[t] EXCEPT !.staged = {}]
      [] step = "RemoveBackups" -> [artifact[t] EXCEPT !.backup = NoArtifact.backup]
      [] step = "RemoveArtifactRoot" -> NoArtifact

\* The removal and the persisting of the next step; a crash between them only has
\* the removal done again, so they are one action.
Clean(p) ==
    LET t == TxnOf(p)
        step == journal[t].step
    IN  /\ At(p, "clean")
        /\ step # "RemoveJournal"
        /\ artifact' = [artifact EXCEPT ![t] = AfterStep(t, step)]
        /\ Persist(t, [journal[t] EXCEPT !.step = StepAfter[@]])
        /\ UNCHANGED <<file, localLock, txnLock, proc, started, faults, history>>

RemoveJournal(p) ==
    LET t == TxnOf(p)
    IN  /\ \/ At(p, "clean") /\ journal[t].step = "RemoveJournal"
           \/ At(p, "removeTerminal")
        /\ Persist(t, NoJournal)
        /\ Return(p, TRUE)
        /\ UNCHANGED <<file, artifact, started, faults, history>>

---------------------------------------------------------------------------
(* Restore *)

LockTxn(p) ==
    /\ At(p, "lockTxn")
    /\ IF Free(txnLock)
       THEN txnLock' = p /\ Goto(p, "begin") /\ UNCHANGED localLock
       ELSE Finish(p)
    /\ UNCHANGED <<file, journal, artifact, started, faults, history>>

Begin(p) ==
    /\ At(p, "begin")
    /\ Persist(proc[p].id, Prepared)
    /\ Exposes(File)
    /\ Goto(p, "prepare")
    /\ UNCHANGED <<file, artifact, localLock, txnLock, started, faults,
                   done, intent, plundered>>

\* Back up what exists and stage what is to be installed.  In merge mode a library
\* that is the same, the index and the usage file stay as they are: skip.
Prepare(p) ==
    LET t == proc[p].id
    IN  /\ At(p, "prepare")
        /\ \E skip \in SUBSET Existed(t) :
              /\ artifact' = [artifact EXCEPT ![t] =
                     [root |-> TRUE, backup |-> file, staged |-> File \ skip]]
              /\ proc' = [proc EXCEPT ![p].skip = skip, ![p].pc = "durable"]
        /\ UNCHANGED <<file, journal, localLock, txnLock, started, faults, history>>

\* Mutant of Durable: the journal that is persisted is the one without the paths.
DurableWithoutPaths(p) ==
    LET t == proc[p].id
    IN  /\ At(p, "durable")
        /\ Persist(t, [journal[t] EXCEPT !.state = "BackupsDurable"])
        /\ Goto(p, "commit")
        /\ UNCHANGED <<file, artifact, localLock, txnLock, started, faults, history>>

\* The backup paths and the actions reach the journal only here.
Durable(p) ==
    LET t == proc[p].id
    IN  /\ At(p, "durable")
        /\ Persist(t, [journal[t] EXCEPT !.state = "BackupsDurable", !.backups = Existed(t),
                          !.action = [f \in File |-> IF f \in proc[p].skip THEN "NoOp" ELSE @[f]]])
        /\ Goto(p, "commit")
        /\ UNCHANGED <<file, artifact, localLock, txnLock, started, faults, history>>

StartCommit(p) ==
    LET t == proc[p].id
    IN  /\ At(p, "commit")
        /\ Persist(t, [journal[t] EXCEPT !.state = "Committing", !.position = 0])
        /\ Goto(p, "install")
        /\ UNCHANGED <<file, artifact, localLock, txnLock, started, faults, history>>

\* A staged file that is gone fails the restore, which then rolls back by itself.
Install(p) ==
    LET t == proc[p].id
        f == journal[t].position + 1
    IN  /\ At(p, "install")
        /\ IF f \in Restored(t) \ artifact[t].staged
           THEN Goto(p, "rollback") /\ UNCHANGED file
           ELSE /\ file' = [file EXCEPT ![f] = IF f \in Restored(t) THEN t ELSE @]
                /\ Goto(p, "installed")
        /\ UNCHANGED <<journal, artifact, localLock, txnLock, started, faults, history>>

InstallAdvance(p) ==
    LET t == proc[p].id
        next == journal[t].position + 1
    IN  /\ At(p, "installed")
        /\ Persist(t, [journal[t] EXCEPT !.position = next])
        /\ Goto(p, IF next < NumFiles THEN "install"
                   ELSE IF Restored(t) # {} THEN "commitLocal" ELSE "beginCleanup")
        /\ UNCHANGED <<file, artifact, localLock, txnLock, started, faults, history>>

CommitLocal(p) ==
    LET t == proc[p].id
    IN  /\ At(p, "commitLocal")
        /\ Persist(t, [journal[t] EXCEPT !.state = "CommittedLocal", !.pending = "NotRecorded"])
        /\ done' = done \cup {t}
        /\ Goto(p, "pending")
        /\ UNCHANGED <<file, artifact, localLock, txnLock, started, faults,
                       intent, exposed, plundered>>

---------------------------------------------------------------------------
(* Backup and repair *)

\* File by file under the local-data lock; the gate is not for readers.  The record
\* keeps whether the command read past a journal to roll back.
Capture(p) ==
    LET f == Len(proc[p].snapshot) + 1
    IN  /\ At(p, "capture")
        /\ f <= NumFiles
        /\ proc' = [proc EXCEPT ![p].snapshot = Append(@, file[f]),
                       ![p].clean = @ /\ OfClass("Rollback") = {}]
        /\ UNCHANGED <<file, journal, artifact, localLock, txnLock, started, faults, history>>

BackupDone(p) ==
    /\ At(p, "capture")
    /\ Len(proc[p].snapshot) = NumFiles
    /\ Finish(p)
    /\ UNCHANGED <<file, journal, artifact, started, faults, history>>

\* Repair lists the journals and, in a second reading, the artifact directories.
CollectJournals(p) ==
    /\ At(p, "collect")
    /\ proc' = [proc EXCEPT ![p].todo = Recoveries(Journals \ OfClass("UnsafeFailed")),
                            ![p].seen = Journals, ![p].pc = "collectOrphans"]
    /\ UNCHANGED <<file, journal, artifact, localLock, txnLock, started, faults, history>>

CollectOrphans(p) ==
    /\ At(p, "collectOrphans")
    /\ proc' = [proc EXCEPT ![p].seen = {t \in Txn : artifact[t].root} \ @,
                            ![p].pc = IF Recovering(p) THEN "recover" ELSE "removeOrphans"]
    /\ UNCHANGED <<file, journal, artifact, localLock, txnLock, started, faults, history>>

RemoveOrphans(p) ==
    LET orphans == proc[p].seen
    IN  /\ At(p, "removeOrphans")
        /\ artifact' = [t \in Txn |-> IF t \in orphans THEN NoArtifact ELSE artifact[t]]
        /\ plundered' = plundered \cup (orphans \cap Journals)
        /\ exposed' = exposed \cup (IF orphans \cap Journals # {} THEN File ELSE {})
        /\ Finish(p)
        /\ UNCHANGED <<file, journal, started, faults, done, intent>>

---------------------------------------------------------------------------
(* Failures *)

\* A read, a write or a sync fails.  Once live writes began the restore rolls
\* back by itself; everywhere else the command gives up where it is, or, in a
\* recovery, goes on as after an error.
Fail(p) ==
    /\ faults < MaxFaults
    /\ proc[p].pc \notin {"idle", "lockLocal", "lockTxn", "recover"}
    /\ faults' = faults + 1
    /\ IF proc[p].pc \in {"install", "installed"}
       THEN Goto(p, "rollback") /\ UNCHANGED <<localLock, txnLock>>
       ELSE IF At(p, "collectOrphans") THEN Finish(p) ELSE Return(p, FALSE)
    /\ UNCHANGED <<file, journal, artifact, started, history>>

Abandoned(lock, p) == IF lock = p THEN DeadOwner ELSE lock

Crash(p) ==
    /\ faults < MaxFaults
    /\ ~At(p, "idle")
    /\ faults' = faults + 1
    /\ proc' = [proc EXCEPT ![p] = Idle]
    /\ localLock' = Abandoned(localLock, p)
    /\ txnLock' = Abandoned(txnLock, p)
    /\ UNCHANGED <<file, journal, artifact, started, history>>

---------------------------------------------------------------------------

Step(p) == \/ Gate(p) \/ LockLocal(p) \/ Write(p)
           \/ Recover(p) \/ RollBegin(p) \/ RollFile(p) \/ RollAdvance(p)
           \/ EnsurePending(p) \/ RecordPending(p)
           \/ BeginCleanup(p) \/ Clean(p) \/ RemoveJournal(p)
           \/ LockTxn(p) \/ Begin(p) \/ Prepare(p) \/ Durable(p) \/ StartCommit(p)
           \/ Install(p) \/ InstallAdvance(p) \/ CommitLocal(p)
           \/ Capture(p) \/ BackupDone(p)
           \/ CollectJournals(p) \/ CollectOrphans(p) \/ RemoveOrphans(p)

Next == \/ \E p \in Process, op \in Op : Start(p, op)
        \/ \E p \in Process : Step(p) \/ Fail(p) \/ Crash(p)

Spec == Init /\ [][Next]_vars

---------------------------------------------------------------------------
(* Properties *)

\* The types of the variables, and that a lock's live owner is running.
TypeOK ==
    /\ file \in [File -> Content]
    /\ journal \in [Txn -> Journal \cup {NoJournal}]
    /\ artifact \in [Txn -> Artifact]
    /\ \A lock \in {localLock, txnLock} :
          \/ Free(lock)
          \/ lock \in Process /\ ~At(lock, "idle")
    /\ \A p \in Process : proc[p].op \in Op \cup {"none"} /\ proc[p].id \in Txn \cup {0}
    /\ started \in 0..MaxOps /\ faults \in 0..MaxFaults
    /\ done \subseteq Txn /\ intent \subseteq Txn /\ plundered \subseteq Txn
    /\ exposed \subseteq File

\* Whatever an interrupted transaction overwrote it can put back: until its rollback
\* is complete the journal names a backup of every file it replaced, and each backup
\* it names is there, whichever step died or failed and whoever resumed it (except
\* when a concurrent repair took the artifacts for orphans).
OverwrittenIsBackedUp ==
    \A t \in OfClass("Rollback") \ plundered : \A f \in Existed(t) :
        /\ f \in journal[t].backups => artifact[t].backup[f] = journal[t].original[f]
        /\ file[f] = t => f \in journal[t].backups

\* The stronger claim of architecture/commands/restore_cmd.md:229, "Each of these is
\* a distinct recovery state that `snp repair` must classify and resolve": also a
\* restore that stopped right after it wrote its journal.
EveryInterruptionResolvable ==
    \A t \in OfClass("Rollback") \ plundered :
        Existed(t) \subseteq journal[t].backups \/ \E p \in Process : proc[p].id = t

\* What a reader sees of a file once the interrupted transactions are recovered.
Logical == [f \in File |->
    LET undo == {t \in OfClass("Rollback") : \/ journal[t].action[f] = "Create"
                                             \/ f \in journal[t].backups}
    IN  IF undo = {} THEN file[f] ELSE journal[CHOOSE t \in undo : TRUE].original[f]]

\* A snapshot the backup command took with no interrupted restore around is the state
\* of all files at one moment, never a mixture.
SnapshotsWhole ==
    \A p \in Process :
        At(p, "capture") /\ Len(proc[p].snapshot) = NumFiles /\ proc[p].clean
        => \A f \in File : proc[p].snapshot[f] = Logical[f]

\* local_data.rs:6-8 promises that of every snapshot.
EverySnapshotWhole ==
    \A p \in Process :
        At(p, "capture") /\ Len(proc[p].snapshot) = NumFiles /\ exposed = {}
        => \A f \in File : proc[p].snapshot[f] = Logical[f]

\* The journal of a restore that installed something is not cleaned up before its
\* pending intent is established, by the restore itself or by its recovery.
IntentBeforeCleanup ==
    \A t \in done : journal[t] # NoJournal /\ journal[t].state = "CleaningUp" => t \in intent

\* restore_cmd.rs:1712-1714 says of a restore that died before its pending intent,
\* "the gate will see CommittedLocal and clean up without creating a pending
\* generation".  The code breaks this, and IntentBeforeCleanup needs that it does: the
\* gate of the next command establishes the intent first (transaction.rs:795-805).
GateCreatesNoIntent ==
    [][\A p \in Process : Recovering(p) /\ proc[p].op \in {"restore", "edit"}
                          /\ proc'[p] # proc[p] => intent' = intent]_vars

\* A transaction that was resolved stays resolved: nobody who scanned its journal
\* earlier brings the journal back.
ResolvedOnce ==
    [][\A t \in Txn : journal[t] = NoJournal /\ journal'[t] # NoJournal
                      => \E p \in Process : At(p, "begin") /\ proc[p].id = t]_vars

\* A restore, an edit and every recovery together act as operations that change
\* their files at once, take effect at most once and are not undone, but for the
\* files written by a command that passed the gate before a restore was interrupted.
Promise == INSTANCE AtomicFiles
             WITH value <- Logical, done <- done \cup {Absent, Legacy}, exposed <- exposed
ImplementsAtomicFiles == Promise!Spec
=============================================================================
