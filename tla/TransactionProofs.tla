---------------------------- MODULE TransactionProofs ----------------------------
(***************************************************************************)
(* What Transaction guarantees for any number of commands, files and faults, *)
(* and that it implements AtomicFiles for them.                            *)
(***************************************************************************)
EXTENDS Transaction, FiniteSetTheorems, FunctionTheorems, SequenceTheorems, TLAPS

\* Where a process can be.
Restoring == {"begin", "prepare", "durable", "commit", "install", "installed", "commitLocal"}
Resolving == {"pending", "recorded", "beginCleanup", "clean", "removeTerminal",
              "rollback", "restoreFile", "rolled"}
Place == {"idle", "gate", "recover", "lockLocal", "lockTxn", "write", "capture",
          "collect", "collectOrphans", "removeOrphans"} \cup Restoring \cup Resolving
Resolvable == {"Rollback", "FinalizeCommittedLocal", "ResumeCleanup",
               "CleanupLegacyCommitted", "CleanupLegacyRolledBack", "RemoveTerminalJournal"}
Command == [op : Op \cup {"none"}, pc : Place, id : Txn \cup {0},
            todo : Seq(Txn \X Resolvable), skip : SUBSET File, seen : SUBSET Txn,
            snapshot : Seq(Content), clean : BOOLEAN]

InTxn(p) == proc[p].pc \in Restoring \cup Resolving
InLocal(p) == \/ proc[p].pc \in {"lockTxn", "write", "capture"} \cup Restoring
              \/ proc[p].pc \in Resolving /\ proc[p].todo = <<>>
\* The transaction of the command itself has begun.
Begun(p) == InTxn(p) /\ ~At(p, "begin") /\ proc[p].todo = <<>>

Typed ==
    /\ file \in [File -> Content]
    /\ journal \in [Txn -> Journal \cup {NoJournal}]
    /\ artifact \in [Txn -> Artifact]
    /\ proc \in [Process -> Command]
    /\ localLock \in Process \cup {NoOwner, DeadOwner}
    /\ txnLock \in Process \cup {NoOwner, DeadOwner}
    /\ started \in 0..MaxOps /\ faults \in 0..MaxFaults
    /\ done \subseteq Txn /\ intent \subseteq Txn /\ plundered \subseteq Txn
    /\ exposed \subseteq File

\* What a command has to do and who it is, by the place it is at.
Placed(p) ==
    /\ At(p, "idle") => proc[p] = Idle
    /\ ~At(p, "idle") => proc[p].op \in Op /\ proc[p].id \in 2..(started + 1)
    /\ proc[p].pc \in {"recover", "removeTerminal"} => Recovering(p)
    /\ proc[p].pc \notin {"recover", "collectOrphans"} \cup Resolving => ~Recovering(p)
    /\ proc[p].pc \in {"gate", "lockLocal"} => proc[p].op # "repair"
    /\ ~At(p, "capture") => proc[p].snapshot = <<>>

\* The locks exclude.
Locked(p) == /\ InTxn(p) => txnLock = p
             /\ InLocal(p) => localLock = p
Owned == \A lock \in {localLock, txnLock} : lock \in Process => ~At(lock, "idle")

Rolling == {"Prepared", "BackupsDurable", "Committing", "RollingBack"}
RolledBackNext(t) == t \in Journals /\ journal[t].state \in Rolling

\* What the journal says while its transaction is worked on.
Staged(p) ==
    LET t == TxnOf(p)
        j == journal[t]
    IN  /\ InTxn(p) /\ ~At(p, "begin") => t \in Journals
        /\ At(p, "prepare") => j.state = "Prepared" /\ j.backups = {} /\ j.original = file
        /\ At(p, "durable") => /\ j.state = "Prepared" /\ j.backups = {}
                               /\ t \notin plundered =>
                                    \A f \in Existed(t) : artifact[t].backup[f] = j.original[f]
        /\ At(p, "commit") => j.state = "BackupsDurable" /\ j.backups = Existed(t)
        /\ proc[p].pc \in {"install", "installed", "commitLocal"} =>
              j.state = "Committing" /\ j.backups = Existed(t)
        /\ proc[p].pc \in {"install", "installed"} => j.position < NumFiles
        /\ At(p, "rollback") => j.state \in Rolling
        /\ proc[p].pc \in {"restoreFile", "rolled"} =>
              j.state = "RollingBack" /\ j.position < NumFiles
        /\ proc[p].pc \in {"recorded", "beginCleanup"} /\ t \in done => t \in intent
        /\ At(p, "clean") => j.state = "CleaningUp"

\* Ids and contents are those of commands that started; nothing has the id of a
\* command whose transaction has not begun.
Used(c) == \/ c \in Journals \cup done
           \/ \E f \in File : file[f] = c
           \/ \E t \in Journals, f \in File : journal[t].original[f] = c
Fresh == /\ \A c \in Content : Used(c) => c <= started + 1
         /\ \A p \in Process : Used(proc[p].id) /\ ~At(p, "idle") => Begun(p)
         /\ \A p, q \in Process : ~At(p, "idle") /\ proc[p].id = proc[q].id => p = q
         /\ Legacy \notin done

\* A transaction that took effect goes to its cleanup through its intent.
Committed(t) ==
    /\ journal[t].state \in {"CommittedLocal", "CleaningUp"}
    /\ journal[t].state = "CleaningUp" \/ journal[t].pending = "Recorded" => t \in intent

\* What is overwritten, in a file or in what another journal puts back, has a
\* backup that the journal names, and what it names is there.
Backed(t) == \A f \in Existed(t) :
    /\ t \notin plundered /\ f \in journal[t].backups => artifact[t].backup[f] = journal[t].original[f]
    /\ file[f] = t => f \in journal[t].backups
    /\ \A u \in Journals : journal[u].original[f] = t => f \in journal[t].backups

\* What a backup that met no interrupted restore has read is still there.
Read(p) == At(p, "capture") /\ proc[p].clean /\ proc[p].snapshot # <<>> =>
    /\ OfClass("Rollback") = {}
    /\ \A f \in File : f <= Len(proc[p].snapshot) => proc[p].snapshot[f] = file[f]

Data(t) == /\ t \in done => Committed(t)
           /\ RolledBackNext(t) => Backed(t)

Control == Typed /\ Owned /\ \A p \in Process : Placed(p) /\ Locked(p)
IInv == /\ Control /\ Fresh
        /\ \A p \in Process : Staged(p) /\ Read(p)
        /\ \A t \in Journals : Data(t)

---------------------------------------------------------------------------
(* Lemmas about commands and recoveries *)

\* The lists of recoveries are lists.
LEMMA RecoveriesTyped ==
  ASSUME NEW S \in SUBSET Txn, \A t \in S : Class(t) \in Resolvable
  PROVE  Recoveries(S) \in Seq(Txn \X Resolvable)
<1> DEFINE R == {<<t, Class(t)>> : t \in S}
<1>1. IsFiniteSet(Txn)
  BY FS_Interval, BoundsAssumption DEF Txn
<1>2. IsFiniteSet(S)
  BY <1>1, FS_Subset
<1>3. IsFiniteSet(R)
  <2> DEFINE g == [t \in S |-> <<t, Class(t)>>]
  <2>1. R = {g[t] : t \in S}
    OBVIOUS
  <2>2. g \in Surjection(S, R)
    BY DEF Surjection
  <2> QED
    BY <1>2, <2>2, FS_Surjection
<1>4. PICK f : f \in Bijection(1..Cardinality(R), R)
  BY <1>3, FS_CardinalityType DEF ExistsBijection
<1>5. f \in [1..Cardinality(R) -> R] /\ IsInjective(f)
  BY <1>4 DEF Bijection, Injection, Surjection, IsInjective
<1>6. SetToSeq(R) \in [1..Cardinality(R) -> R]
  BY <1>5 DEF SetToSeq
<1>7. R \subseteq Txn \X Resolvable
  OBVIOUS
<1>8. Cardinality(R) \in Nat
  BY <1>3, FS_CardinalityType
<1>9. SetToSeq(R) \in Seq(R)
  <2> HIDE DEF R
  <2> QED
    BY <1>6, <1>8, SeqDef
<1> QED
  BY <1>7, <1>9 DEF Recoveries

\* What recovery makes of a journal.
LEMMA ClassTyped ==
  ASSUME Typed, NEW t \in Journals
  PROVE  /\ Class(t) \in Resolvable \cup {"UnsafeFailed"}
         /\ Class(t) = "Rollback" <=> journal[t].state \in Rolling
         /\ Class(t) = "FinalizeCommittedLocal" <=> journal[t].state = "CommittedLocal"
         /\ Class(t) = "ResumeCleanup" <=> journal[t].state = "CleaningUp"
<1>1. journal[t].state \in State
  BY DEF Typed, Journals, Journal
<1> QED
  BY <1>1 DEF Class, ClassOfState, State, Resolvable, Rolling

\* A process that is where it was moved to, and nothing else.
LEMMA Updated ==
  ASSUME Typed, NEW p \in Process, NEW c \in Command, proc' = [proc EXCEPT ![p] = c]
  PROVE  /\ proc' \in [Process -> Command]
         /\ proc'[p] = c
         /\ \A q \in Process \ {p} : proc'[q] = proc[q]
  BY DEF Typed

\* What every step of a process does to its command and to the locks.
Hands(lock, new, p) == new = lock \/ (Free(lock) /\ new = p) \/ (lock = p /\ Free(new))
Keeps(p) == proc'[p].id = proc[p].id /\ (Begun(p) => Begun(p)')
Handed(p) ==
    /\ proc' \in [Process -> Command]
    /\ \A q \in Process \ {p} : proc'[q] = proc[q]
    /\ Hands(localLock, localLock', p) /\ Hands(txnLock, txnLock', p)
    /\ started' \in 0..MaxOps /\ started <= started'
    /\ Placed(p)' /\ Locked(p)'
    /\ At(p, "idle")' => localLock' # p /\ txnLock' # p
    /\ At(p, "idle") \/ At(p, "idle")' \/ Keeps(p)
    /\ Capture(p) \/ proc'[p].snapshot = <<>>

\* That much keeps the control of every process in order.
LEMMA ControlKept ==
  ASSUME Control, NEW p \in Process, Handed(p)
  PROVE  Owned' /\ \A q \in Process : Placed(q)' /\ Locked(q)'
<1>1. ASSUME NEW q \in Process \ {p} PROVE Placed(q)'
  <2>1. proc'[q] = proc[q] /\ Placed(q) /\ proc[q] \in Command
    BY DEF Control, Typed, Handed
  <2>2. \A m, n \in 0..MaxOps : m <= n => 2..(m + 1) \subseteq 2..(n + 1)
    BY BoundsAssumption
  <2>3. 2..(started + 1) \subseteq 2..(started' + 1)
    BY <2>2 DEF Control, Typed, Handed
  <2> QED
    BY <2>1, <2>3 DEF Placed, At, Recovering
<1>2. ASSUME NEW q \in Process \ {p} PROVE Locked(q)'
  <2>1. proc'[q] = proc[q] /\ Locked(q)
    BY DEF Control, Handed
  <2>2. q # NoOwner /\ q # DeadOwner
    BY OwnerAssumption
  <2>3. (localLock = q => localLock' = q) /\ (txnLock = q => txnLock' = q)
    BY <2>2 DEF Handed, Hands, Free
  <2> QED
    BY <2>1, <2>3 DEF Locked, InTxn, InLocal
<1>3. Owned'
  <2>1. ASSUME NEW lock, NEW new, new \in Process, Hands(lock, new, p),
               lock \in Process => ~At(lock, "idle"), At(p, "idle")' => new # p
        PROVE  ~At(new, "idle")'
    BY <2>1, OwnerAssumption DEF Hands, Free, Handed, At
  <2> QED
    BY <2>1 DEF Owned, Control, Handed
<1> QED
  BY <1>1, <1>2, <1>3 DEF Handed

\* The command returns.
LEMMA Finishes ==
  ASSUME Control, NEW p \in Process, Finish(p), started' = started
  PROVE  Handed(p) /\ proc'[p] = Idle
<1>1. Idle \in Command
  BY DEF Idle, Command, Place
<1>2. proc' \in [Process -> Command] /\ proc'[p] = Idle
      /\ \A q \in Process \ {p} : proc'[q] = proc[q]
  BY <1>1, Updated DEF Control, Finish
<1>3. Hands(localLock, localLock', p) /\ Hands(txnLock, txnLock', p)
  BY DEF Finish, Unlocked, Hands, Free
<1>4. localLock' # p /\ txnLock' # p
  BY OwnerAssumption DEF Finish, Unlocked
<1>5. Placed(p)' /\ Locked(p)'
  BY <1>2 DEF Placed, Locked, At, Recovering, InTxn, InLocal, Idle, Restoring, Resolving
<1>6. At(p, "idle")'
  BY <1>2 DEF At, Idle
<1>7. proc'[p].snapshot = <<>>
  BY <1>2 DEF Idle
<1> QED
  BY <1>2, <1>3, <1>4, <1>5, <1>6, <1>7 DEF Handed, Control, Typed

\* Goto changes the place of one command and nothing of another.
LEMMA Moved ==
  ASSUME Typed, NEW p \in Process, NEW pc \in Place, Goto(p, pc)
  PROVE  /\ proc' \in [Process -> Command]
         /\ proc'[p] = [proc[p] EXCEPT !.pc = pc]
         /\ \A q \in Process \ {p} : proc'[q] = proc[q]
<1>1. proc[p] \in Command
  BY DEF Typed
<1>2. [proc[p] EXCEPT !.pc = pc] \in Command
  <2> HIDE DEF Place
  <2> QED BY <1>1 DEF Command
<1>3. proc' = [proc EXCEPT ![p] = [proc[p] EXCEPT !.pc = pc]]
  BY DEF Goto
<1> QED
  BY <1>2, <1>3, Updated

\* A command that goes on with its transaction.
LEMMA WorksOn ==
  ASSUME Control, NEW p \in Process, InTxn(p), NEW pc \in Place, Goto(p, pc),
         pc \in (Restoring \cup Resolving) \ {"begin", "removeTerminal"},
         pc \in Restoring => proc[p].pc \in Restoring,
         UNCHANGED <<localLock, txnLock, started>>
  PROVE  /\ Handed(p) /\ proc'[p] = [proc[p] EXCEPT !.pc = pc]
         /\ TxnOf(p)' = TxnOf(p) /\ InTxn(p)'
<1>1. proc' \in [Process -> Command] /\ proc'[p] = [proc[p] EXCEPT !.pc = pc]
      /\ \A q \in Process \ {p} : proc'[q] = proc[q]
  BY Moved DEF Control
<1>2. proc[p] \in Command /\ Placed(p) /\ Locked(p)
  BY DEF Control, Typed
<1>3. /\ proc'[p].pc = pc /\ proc'[p].op = proc[p].op /\ proc'[p].id = proc[p].id
      /\ proc'[p].todo = proc[p].todo /\ proc'[p].snapshot = proc[p].snapshot
      /\ proc[p].snapshot = <<>>
  BY <1>1, <1>2 DEF Command, Placed, At, InTxn, Restoring, Resolving
<1>4. Placed(p)'
  BY <1>2, <1>3 DEF Placed, At, Recovering, InTxn, Restoring, Resolving
<1>5. Locked(p)'
  BY <1>2, <1>3 DEF Placed, Locked, At, Recovering, InTxn, InLocal, Restoring, Resolving
<1>6. ~At(p, "idle")'
  BY <1>3 DEF At, Restoring, Resolving
<1>7. TxnOf(p)' = TxnOf(p) /\ InTxn(p)' /\ Keeps(p)
  BY <1>3 DEF TxnOf, Recovering, InTxn, Begun, At, Keeps
<1>8. Hands(localLock, localLock', p) /\ Hands(txnLock, txnLock', p)
  BY DEF Hands
<1>9. started' \in 0..MaxOps /\ started <= started'
  BY DEF Control, Typed
<1> QED
  BY <1>1, <1>3, <1>4, <1>5, <1>6, <1>7, <1>8, <1>9 DEF Handed

\* The recovery of one finding is over, and the next begins, or the rest of the command.
LEMMA GoesOn ==
  ASSUME Control, NEW p \in Process, NEW ok \in BOOLEAN, Recovering(p), ~At(p, "idle"),
         proc[p].pc \in Resolving \cup {"recover"}, Recovered(p, ok), started' = started
  PROVE  /\ Handed(p)
         /\ \/ proc'[p] = Idle
            \/ /\ proc'[p].pc \in {"recover", "removeOrphans", "lockLocal"}
               /\ proc'[p].id = proc[p].id
<1>1. CASE ~ok /\ proc[p].op # "repair"
  <2>1. Finish(p)
    BY <1>1 DEF Recovered
  <2> QED
    BY <2>1, Finishes
<1>2. CASE ~(~ok /\ proc[p].op # "repair")
  <2> DEFINE left == Tail(proc[p].todo)
             next == IF left # <<>> THEN "recover"
                     ELSE IF proc[p].op = "repair" THEN "removeOrphans" ELSE "lockLocal"
             c == [proc[p] EXCEPT !.todo = left, !.pc = next]
  <2>1. proc' = [proc EXCEPT ![p].todo = left, ![p].pc = next]
        /\ txnLock' = Unlocked(txnLock, p) /\ localLock' = localLock
    BY <1>2 DEF Recovered
  <2>2. proc[p] \in Command /\ Placed(p) /\ Locked(p)
    BY DEF Control, Typed
  <2>3. left \in Seq(Txn \X Resolvable)
    <3>1. proc[p].todo \in Seq(Txn \X Resolvable)
      BY <2>2 DEF Command
    <3> QED
      BY <3>1, HeadTailProperties DEF Recovering
  <2>4. next \in Place
    BY DEF Place, Resolving
  <2> HIDE DEF left, next
  <2>5. c \in Command
    BY <2>2, <2>3, <2>4 DEF Command
  <2>6. c.pc = next /\ c.todo = left /\ c.op = proc[p].op /\ c.id = proc[p].id
        /\ c.snapshot = <<>>
    BY <2>2 DEF Command, Placed, At, Resolving
  <2>7. proc' = [proc EXCEPT ![p] = c]
    BY <2>1
  <2> HIDE DEF c
  <2>8. proc' \in [Process -> Command] /\ proc'[p] = c
        /\ \A q \in Process \ {p} : proc'[q] = proc[q]
    BY <2>5, <2>7, Updated DEF Control
  <2>9. Placed(p)' /\ ~At(p, "idle")'
    BY <2>2, <2>6, <2>8 DEF Placed, At, Recovering, Resolving, next
  <2>10. Locked(p)'
    BY <2>6, <2>8 DEF Locked, InTxn, InLocal, Restoring, Resolving, next
  <2>11. Hands(txnLock, txnLock', p) /\ Hands(localLock, localLock', p)
    BY <2>1 DEF Hands, Unlocked, Free
  <2>12. Keeps(p)
    BY <2>6, <2>8 DEF Keeps, Begun, Recovering
  <2> QED
    BY <2>6, <2>8, <2>9, <2>10, <2>11, <2>12 DEF Handed, next, Control, Typed
<1> QED
  BY <1>1, <1>2

\* Return ends the command, or hands it to the next journal, orphan sweep or lock: it holds
\* no transaction afterwards, and every other command keeps what it had.
LEMMA Returns ==
  ASSUME Control, NEW p \in Process, NEW ok \in BOOLEAN, ~At(p, "idle"),
         ~At(p, "collectOrphans"), Return(p, ok), started' = started
  PROVE  /\ Handed(p) /\ ~InTxn(p)'
         /\ \/ proc'[p] = Idle
            \/ /\ proc'[p].pc \in {"recover", "removeOrphans", "lockLocal"}
               /\ proc'[p].id = proc[p].id
<1>1. CASE Recovering(p)
  <2>1. proc[p].pc \in Resolving \cup {"recover"}
    BY <1>1 DEF Control, Placed, At
  <2>2. Recovered(p, ok)
    BY <1>1 DEF Return
  <2> QED
    BY <1>1, <2>1, <2>2, GoesOn DEF InTxn, Restoring, Resolving, Idle
<1>2. CASE ~Recovering(p)
  <2>1. Finish(p)
    BY <1>2 DEF Return
  <2> QED
    BY <2>1, Finishes DEF InTxn, Restoring, Resolving, Idle
<1> QED
  BY <1>1, <1>2

\* The command goes on, with more of its record changed.
LEMMA Becomes ==
  ASSUME Control, NEW p \in Process, NEW c \in Command, proc' = [proc EXCEPT ![p] = c],
         ~At(p, "idle"), c.pc # "idle", c.op = proc[p].op, c.id = proc[p].id,
         c.pc \in {"recover", "removeTerminal"} => c.todo # <<>>,
         c.pc \notin {"recover", "collectOrphans"} \cup Resolving => c.todo = <<>>,
         c.pc \in {"gate", "lockLocal"} => c.op # "repair",
         c.snapshot = <<>> \/ (Capture(p) /\ c.pc = "capture"),
         c.pc \in Restoring \cup Resolving => txnLock' = p,
         c.pc \in {"lockTxn", "write", "capture"} \cup Restoring => localLock' = p,
         c.pc \in Resolving /\ c.todo = <<>> => localLock' = p,
         Begun(p) => c.pc \in (Restoring \cup Resolving) \ {"begin"} /\ c.todo = <<>>,
         Hands(localLock, localLock', p), Hands(txnLock, txnLock', p), started' = started
  PROVE  Handed(p) /\ proc'[p] = c
<1>1. proc' \in [Process -> Command] /\ proc'[p] = c
      /\ \A q \in Process \ {p} : proc'[q] = proc[q]
  BY Updated DEF Control
<1>2. Placed(p)
  BY DEF Control
<1>3. Placed(p)'
  BY <1>1, <1>2 DEF Placed, At, Recovering
<1>4. Locked(p)'
  BY <1>1 DEF Locked, InTxn, InLocal
<1>5. Keeps(p) /\ ~At(p, "idle")'
  BY <1>1 DEF Keeps, At, Begun, InTxn
<1>6. started' \in 0..MaxOps /\ started <= started'
  BY DEF Control, Typed
<1> QED
  BY <1>1, <1>3, <1>4, <1>5, <1>6 DEF Handed

\* A step that moves p to a place of its own run, with the locks that place needs, keeps
\* the control invariant.
LEMMA GoesTo ==
  ASSUME Control, NEW p \in Process, NEW pc \in Place, Goto(p, pc), ~At(p, "idle"),
         ~Recovering(p), ~At(p, "capture"), pc # "idle", pc \notin {"recover", "removeTerminal"},
         pc \in {"gate", "lockLocal"} => proc[p].op # "repair",
         pc \in Restoring \cup Resolving => txnLock' = p,
         pc \in {"lockTxn", "write", "capture"} \cup Restoring \cup Resolving => localLock' = p,
         Begun(p) => pc \in (Restoring \cup Resolving) \ {"begin"},
         Hands(localLock, localLock', p), Hands(txnLock, txnLock', p), started' = started
  PROVE  Handed(p) /\ proc'[p] = [proc[p] EXCEPT !.pc = pc]
<1> DEFINE c == [proc[p] EXCEPT !.pc = pc]
<1>1. proc[p] \in Command
  BY DEF Control, Typed
<1>2. c \in Command /\ c.pc = pc /\ c.op = proc[p].op /\ c.id = proc[p].id
      /\ c.todo = proc[p].todo /\ c.snapshot = <<>>
  <2>1. proc[p].snapshot = <<>>
    BY DEF Control, Placed
  <2> HIDE DEF Place
  <2> QED
    BY <1>1, <2>1 DEF Command
<1>3. proc' = [proc EXCEPT ![p] = c]
  BY DEF Goto
<1> HIDE DEF c
<1>4. Handed(p) /\ proc'[p] = c
  BY <1>2, <1>3, Becomes DEF Recovering
<1> QED
  BY <1>4 DEF c

---------------------------------------------------------------------------
(* The control of the commands *)

\* A command that starts keeps the control invariant: its identifier is new.
LEMMA StartHands ==
  ASSUME Control, NEW p \in Process, NEW op \in Op, Start(p, op)
  PROVE  Handed(p)
<1> DEFINE pc == IF op = "backup" THEN "lockLocal" ELSE IF op = "repair" THEN "collect" ELSE "gate"
           c == [Idle EXCEPT !.op = op, !.id = started + 2, !.pc = pc]
<1>1. started + 2 \in Txn /\ started + 2 \in 2..(started + 2) /\ started \in Int
      /\ started + 1 \in 0..MaxOps /\ started <= started + 1 /\ started + 2 = (started + 1) + 1
  BY BoundsAssumption DEF Control, Typed, Start, Txn
<1>2. pc \in Place
  BY DEF Place
<1> HIDE DEF pc
<1>3. c \in Command /\ c.op = op /\ c.id = started + 2 /\ c.pc = pc /\ c.todo = <<>>
      /\ c.snapshot = <<>>
  <2>1. Idle \in Command /\ Idle.todo = <<>> /\ Idle.snapshot = <<>>
    BY DEF Idle, Command, Place
  <2> QED
    BY <1>1, <1>2, <2>1 DEF Command
<1>5. proc' = [proc EXCEPT ![p] = c]
  BY DEF Start, pc
<1> HIDE DEF c
<1>6. proc' \in [Process -> Command] /\ proc'[p] = c
      /\ \A q \in Process \ {p} : proc'[q] = proc[q]
  BY <1>3, <1>5, Updated DEF Control
<1>7. c.id \in 2..(started' + 1) /\ started' \in 0..MaxOps /\ started <= started'
  BY <1>1, <1>3 DEF Start
<1>8. Placed(p)'
  BY <1>3, <1>6, <1>7 DEF Placed, At, Recovering, pc, Resolving
<1>9. Locked(p)'
  BY <1>3, <1>6 DEF Locked, InTxn, InLocal, Restoring, Resolving, pc
<1>10. ~At(p, "idle")' /\ At(p, "idle")
  BY <1>3, <1>6 DEF At, pc, Start
<1> QED
  BY <1>3, <1>6, <1>7, <1>8, <1>9, <1>10 DEF Handed, Hands, Start

\* The gate before a local command keeps the control invariant, whichever way it lets it go.
LEMMA GateHands ==
  ASSUME Control, NEW p \in Process, Gate(p)
  PROVE  Handed(p)
<1> DEFINE interrupted == Journals \ OfClass("RemoveTerminalJournal")
           S == IF interrupted = {} THEN Journals ELSE interrupted
           todo == Recoveries(S)
           c == [proc[p] EXCEPT !.todo = todo, !.pc = IF todo = <<>> THEN "lockLocal" ELSE "recover"]
<1>1. CASE OfClass("UnsafeFailed") # {} \/ Cardinality(interrupted) > 1
  BY <1>1, Finishes DEF Gate
<1>2. CASE ~(OfClass("UnsafeFailed") # {} \/ Cardinality(interrupted) > 1)
  <2>1. todo \in Seq(Txn \X Resolvable)
    <3>1. S \in SUBSET Txn /\ S \subseteq Journals
      BY DEF Journals
    <3>2. \A t \in S : Class(t) \in Resolvable
      BY <1>2, <3>1, ClassTyped DEF OfClass, Control
    <3> HIDE DEF S
    <3> QED
      BY <3>1, <3>2, RecoveriesTyped
  <2>2. proc' = [proc EXCEPT ![p] = c] /\ UNCHANGED <<localLock, txnLock, started>>
    BY <1>2 DEF Gate
  <2> HIDE DEF todo
  <2>3. proc[p] \in Command /\ Placed(p) /\ At(p, "gate")
    BY DEF Control, Typed, Gate
  <2>4. c \in Command
    BY <2>1, <2>3 DEF Command, Place
  <2>5. c.pc \in {"lockLocal", "recover"} /\ c.op = proc[p].op /\ c.id = proc[p].id
        /\ c.todo = todo /\ (c.pc = "lockLocal" <=> todo = <<>>) /\ c.snapshot = <<>>
    BY <2>3 DEF Command, Placed, At
  <2> HIDE DEF c
  <2> QED
    BY <2>2, <2>3, <2>4, <2>5, Becomes
      DEF Placed, Begun, InTxn, At, Restoring, Resolving, Hands
<1> QED
  BY <1>1, <1>2

\* The two listings of repair keep the control invariant.
LEMMA RepairHands ==
  ASSUME Control, NEW p \in Process, CollectJournals(p) \/ CollectOrphans(p)
  PROVE  Handed(p)
<1>1. proc[p] \in Command /\ Placed(p)
  BY DEF Control, Typed
<1>2. CASE CollectJournals(p)
  <2> DEFINE todo == Recoveries(Journals \ OfClass("UnsafeFailed"))
             c == [proc[p] EXCEPT !.todo = todo, !.seen = Journals, !.pc = "collectOrphans"]
  <2>1. todo \in Seq(Txn \X Resolvable)
    <3>1. \A t \in Journals \ OfClass("UnsafeFailed") : Class(t) \in Resolvable
      BY ClassTyped DEF OfClass, Control
    <3>2. Journals \ OfClass("UnsafeFailed") \in SUBSET Txn
      BY DEF Journals
    <3> QED
      BY <3>1, <3>2, RecoveriesTyped
  <2>2. proc' = [proc EXCEPT ![p] = c] /\ UNCHANGED <<localLock, txnLock, started>>
    BY <1>2 DEF CollectJournals
  <2> HIDE DEF todo
  <2>3. c \in Command
    BY <1>1, <2>1 DEF Command, Place, Journals
  <2>4. c.pc = "collectOrphans" /\ c.op = proc[p].op /\ c.id = proc[p].id /\ c.snapshot = <<>>
    BY <1>1, <1>2 DEF Command, Placed, At, CollectJournals
  <2> HIDE DEF c
  <2> QED
    BY <1>2, <2>2, <2>3, <2>4, Becomes
      DEF CollectJournals, Begun, InTxn, At, Restoring, Resolving, Hands
<1>3. CASE CollectOrphans(p)
  <2> DEFINE seen == {t \in Txn : artifact[t].root} \ proc[p].seen
             pc == IF Recovering(p) THEN "recover" ELSE "removeOrphans"
             c == [proc[p] EXCEPT !.seen = seen, !.pc = pc]
  <2>1. proc' = [proc EXCEPT ![p] = c] /\ UNCHANGED <<localLock, txnLock, started>>
    BY <1>3 DEF CollectOrphans
  <2>2. c \in Command
    BY <1>1 DEF Command, Place
  <2>3. c.pc = pc /\ c.op = proc[p].op /\ c.id = proc[p].id /\ c.todo = proc[p].todo
        /\ c.snapshot = <<>>
    BY <1>1, <1>3 DEF Command, Placed, At, CollectOrphans
  <2> HIDE DEF c
  <2> QED
    BY <1>3, <2>1, <2>2, <2>3, Becomes
      DEF CollectOrphans, Recovering, Begun, InTxn, At, Restoring, Resolving, Hands
<1> QED
  BY <1>2, <1>3

\* One file read by backup: the snapshot grows by that file, and stays clean only while
\* no journal is to be rolled back.
LEMMA CaptureHands ==
  ASSUME Control, NEW p \in Process, Capture(p)
  PROVE  /\ Handed(p)
         /\ proc'[p].pc = "capture"
         /\ proc'[p].snapshot = Append(proc[p].snapshot, file[Len(proc[p].snapshot) + 1])
         /\ proc'[p].clean => proc[p].clean /\ OfClass("Rollback") = {}
<1> DEFINE f == Len(proc[p].snapshot) + 1
           snapshot == Append(proc[p].snapshot, file[f])
           clean == proc[p].clean /\ OfClass("Rollback") = {}
           c == [proc[p] EXCEPT !.snapshot = snapshot, !.clean = clean]
<1>1. proc[p] \in Command /\ Placed(p) /\ Locked(p) /\ proc[p].pc = "capture"
  BY DEF Control, Typed, Capture, At
<1>2. snapshot \in Seq(Content)
  <2>1. proc[p].snapshot \in Seq(Content)
    BY <1>1 DEF Command
  <2>2. f \in File
    BY <2>1, LenProperties DEF Capture, File
  <2> QED
    BY <2>1, <2>2, AppendProperties DEF Control, Typed
<1>3. clean \in BOOLEAN
  OBVIOUS
<1>4. proc' = [proc EXCEPT ![p] = c] /\ UNCHANGED <<localLock, txnLock, started>>
  BY DEF Capture
<1> HIDE DEF snapshot, clean
<1>5. c \in Command
  BY <1>1, <1>2, <1>3 DEF Command
<1>6. /\ c.pc = "capture" /\ c.op = proc[p].op /\ c.id = proc[p].id /\ c.todo = proc[p].todo
      /\ c.snapshot = snapshot /\ c.clean = clean
  BY <1>1, <1>3 DEF Command
<1> HIDE DEF c
<1>7. Handed(p) /\ proc'[p] = c
  BY <1>1, <1>4, <1>5, <1>6, Becomes
    DEF Placed, Locked, Recovering, Begun, InTxn, InLocal, At, Restoring, Resolving, Hands
<1> QED
  BY <1>6, <1>7 DEF clean, snapshot

\* The copies of a restore keep the control invariant; it skips only files it replaces.
LEMMA PrepareHands ==
  ASSUME Control, NEW p \in Process, Prepare(p)
  PROVE  /\ Handed(p) /\ proc'[p].pc = "durable"
         /\ proc'[p].id = proc[p].id /\ proc'[p].todo = proc[p].todo
         /\ proc'[p].skip \subseteq Existed(proc[p].id)
<1>1. PICK skip \in SUBSET Existed(proc[p].id) :
         proc' = [proc EXCEPT ![p].skip = skip, ![p].pc = "durable"]
  BY DEF Prepare
<1> DEFINE c == [proc[p] EXCEPT !.skip = skip, !.pc = "durable"]
<1>2. proc[p] \in Command /\ Placed(p) /\ Locked(p) /\ proc[p].pc = "prepare"
  BY DEF Control, Typed, Prepare, At
<1>3. skip \in SUBSET File
  BY DEF Existed
<1>4. proc' = [proc EXCEPT ![p] = c] /\ UNCHANGED <<localLock, txnLock, started>>
  BY <1>1 DEF Prepare
<1>5. c \in Command
  BY <1>2, <1>3 DEF Command, Place, Restoring
<1>6. /\ c.pc = "durable" /\ c.op = proc[p].op /\ c.id = proc[p].id /\ c.todo = proc[p].todo
      /\ c.skip = skip /\ c.snapshot = <<>>
  BY <1>2 DEF Command, Placed, At
<1> HIDE DEF c
<1>7. Handed(p) /\ proc'[p] = c
  BY <1>2, <1>4, <1>5, <1>6, Becomes
    DEF Placed, Locked, Recovering, Begun, InTxn, InLocal, At, Restoring, Resolving, Hands
<1> QED
  BY <1>6, <1>7

\* A recovery that looks at its next journal either leaves it or enters the first step of
\* the class the journal is in now, never of the class it was in when it was listed.
LEMMA RecoverHands ==
  ASSUME Control, NEW p \in Process, Recover(p)
  PROVE  LET t == Head(proc[p].todo)[1]
         IN  /\ Handed(p)
             /\ \/ ~InTxn(p)' /\ ~At(p, "capture")'
                \/ /\ t \in Journals /\ TxnOf(p)' = t
                   /\ Class(t) \in Resolvable /\ proc'[p].pc = FirstStep(t)[Class(t)]
<1> DEFINE t == Head(proc[p].todo)[1]
           class == Head(proc[p].todo)[2]
           pc == FirstStep(t)[class]
           c == [proc[p] EXCEPT !.pc = pc]
<1>1. proc[p] \in Command /\ Placed(p) /\ proc[p].pc = "recover" /\ Recovering(p)
  BY DEF Control, Typed, Recover, At, Placed
<1>2. Head(proc[p].todo) \in Txn \X Resolvable
  <2>1. proc[p].todo \in Seq(Txn \X Resolvable)
    BY <1>1 DEF Command
  <2> QED
    BY <1>1, <2>1, HeadTailProperties DEF Recovering
<1>3. class \in Resolvable
  BY <1>2
<1>4. pc \in Resolving \cap Place
  BY <1>3 DEF FirstStep, Resolvable, Resolving, Place
<1>5. CASE CanRecover(p, t, class)
  <2>1. txnLock' = p /\ Goto(p, pc) /\ localLock' = localLock /\ started' = started /\ Free(txnLock)
    BY <1>5 DEF Recover, CanRecover
  <2>2. proc' = [proc EXCEPT ![p] = c]
    BY <2>1 DEF Goto
  <2>3. c \in Command /\ c.pc = pc /\ c.op = proc[p].op /\ c.id = proc[p].id
        /\ c.todo = proc[p].todo /\ c.snapshot = <<>>
    <3>1. pc \in Place
      BY <1>4
    <3>2. proc[p].snapshot = <<>>
      BY <1>1 DEF Placed, At
    <3> HIDE DEF Place, pc
    <3> QED
      BY <1>1, <3>1, <3>2 DEF Command
  <2> HIDE DEF c, pc
  <2>4. Handed(p) /\ proc'[p] = c
    BY <1>1, <1>4, <2>1, <2>2, <2>3, Becomes
      DEF Recovering, Begun, InTxn, At, Restoring, Resolving, Hands
  <2>5. t \in Journals /\ Class(t) = class
    BY <1>5 DEF CanRecover
  <2>6. TxnOf(p)' = t
    BY <1>1, <2>3, <2>4 DEF TxnOf, Recovering
  <2> QED
    BY <1>3, <2>3, <2>4, <2>5, <2>6 DEF pc
<1>6. CASE ~CanRecover(p, t, class)
  <2>1. Recovered(p, FALSE) /\ started' = started
    BY <1>6 DEF Recover
  <2>2. /\ Handed(p)
        /\ proc'[p] = Idle \/ proc'[p].pc \in {"recover", "removeOrphans", "lockLocal"}
    BY <1>1, <2>1, GoesOn DEF At
  <2> QED
    BY <2>2 DEF Idle, InTxn, At, Restoring, Resolving
<1> QED
  BY <1>5, <1>6

\* Every step of a process hands the control over in order.
LEMMA StepHands ==
  ASSUME Control, NEW p \in Process, Step(p) \/ Fail(p) \/ Crash(p)
  PROVE  Handed(p)
<1>1. proc[p] \in Command /\ Placed(p) /\ Locked(p)
  BY DEF Control, Typed
<1>2. CASE Gate(p) \/ Recover(p) \/ CollectJournals(p) \/ CollectOrphans(p) \/ Capture(p) \/ Prepare(p)
  BY <1>2, GateHands, RecoverHands, RepairHands, CaptureHands, PrepareHands
<1>3. CASE Write(p) \/ BackupDone(p) \/ RemoveOrphans(p)
  BY <1>3, Finishes DEF Write, BackupDone, RemoveOrphans
<1>4. ASSUME LockLocal(p) PROVE Handed(p)
  <2>1. CASE ~Free(localLock) /\ Finish(p)
    BY <1>4, <2>1, Finishes DEF LockLocal
  <2>2. CASE Free(localLock) /\ localLock' = p /\ txnLock' = txnLock
             /\ \E pc \in {"lockTxn", "write", "capture"} : Goto(p, pc)
    BY <1>1, <1>4, <2>2, GoesTo
      DEF LockLocal, At, Placed, Recovering, Hands, Place, Restoring, Resolving, Begun, InTxn
  <2>3. proc[p].op \in {"restore", "edit", "backup"}
    BY <1>1, <1>4 DEF LockLocal, Placed, At, Op
  <2> QED
    BY <1>4, <2>1, <2>2, <2>3 DEF LockLocal
<1>5. ASSUME LockTxn(p) PROVE Handed(p)
  <2>1. CASE ~Free(txnLock)
    BY <1>5, <2>1, Finishes DEF LockTxn
  <2>2. CASE Free(txnLock)
    BY <1>1, <1>5, <2>2, GoesTo
      DEF LockTxn, At, Placed, Locked, Recovering, Hands, Place, Restoring, Resolving, Begun, InTxn, InLocal
  <2> QED
    BY <2>1, <2>2
<1>6. CASE \/ RollBegin(p) \/ RollAdvance(p) \/ EnsurePending(p) \/ RecordPending(p) \/ BeginCleanup(p)
           \/ Begin(p) \/ Durable(p) \/ StartCommit(p) \/ Install(p) \/ InstallAdvance(p) \/ CommitLocal(p)
  <2>1. InTxn(p)
    BY <1>6 DEF InTxn, Restoring, Resolving, At, RollBegin, RollAdvance, EnsurePending, RecordPending,
      BeginCleanup, Begin, Durable, StartCommit, Install, InstallAdvance, CommitLocal
  <2>2. UNCHANGED <<localLock, txnLock, started>>
    BY <1>6 DEF RollBegin, RollAdvance, EnsurePending, RecordPending,
      BeginCleanup, Begin, Durable, StartCommit, Install, InstallAdvance, CommitLocal
  <2>3. \E pc \in (Restoring \cup Resolving) \ {"begin", "removeTerminal"} :
           Goto(p, pc) /\ (pc \in Restoring => proc[p].pc \in Restoring)
    BY <1>6 DEF Restoring, Resolving, At, RollBegin, RollAdvance, EnsurePending, RecordPending,
      BeginCleanup, Begin, Durable, StartCommit, Install, InstallAdvance, CommitLocal
  <2> QED
    BY <2>1, <2>2, <2>3, WorksOn DEF Place
<1>7. ASSUME RollFile(p) PROVE Handed(p)
  <2>1. CASE Goto(p, "rolled") /\ UNCHANGED <<localLock, txnLock>>
    BY <1>7, <2>1, WorksOn DEF RollFile, InTxn, At, Restoring, Resolving, Place
  <2>2. CASE Return(p, FALSE)
    BY <1>7, <2>2, Returns DEF RollFile, At
  <2> QED
    BY <1>7, <2>1, <2>2 DEF RollFile
<1>8. ASSUME RemoveJournal(p) PROVE Handed(p)
  BY <1>8, Returns DEF RemoveJournal, At
<1>9. ASSUME Clean(p) PROVE Handed(p)
  <2>1. UNCHANGED <<proc, localLock, txnLock, started>>
    BY <1>9 DEF Clean
  <2>2. Placed(p)' /\ Locked(p)' /\ Keeps(p) /\ ~At(p, "idle")' /\ proc'[p].snapshot = <<>>
    BY <1>1, <1>9, <2>1 DEF Placed, Locked, InTxn, InLocal, At, Recovering, Keeps, Begun, Clean
  <2> QED
    BY <2>1, <2>2 DEF Handed, Hands, Control, Typed
<1>10. ASSUME Fail(p) PROVE Handed(p)
  <2>1. CASE proc[p].pc \in {"install", "installed"}
    BY <1>10, <2>1, WorksOn DEF Fail, InTxn, Restoring, Resolving, Place
  <2>2. CASE At(p, "collectOrphans")
    BY <1>10, <2>2, Finishes DEF Fail, At
  <2>3. CASE ~At(p, "collectOrphans") /\ proc[p].pc \notin {"install", "installed"}
    BY <1>10, <2>3, Returns DEF Fail, At
  <2> QED
    BY <2>1, <2>2, <2>3
<1>11. ASSUME Crash(p) PROVE Handed(p)
  <2>1. Idle \in Command /\ Idle.pc = "idle" /\ Idle.todo = <<>> /\ Idle.snapshot = <<>>
    BY DEF Idle, Command, Place
  <2>2. proc' \in [Process -> Command] /\ proc'[p] = Idle
        /\ \A q \in Process \ {p} : proc'[q] = proc[q]
    BY <1>11, <2>1, Updated DEF Control, Crash
  <2>3. Hands(localLock, localLock', p) /\ Hands(txnLock, txnLock', p)
    BY <1>11 DEF Crash, Abandoned, Hands, Free
  <2>4. localLock' # p /\ txnLock' # p
    BY <1>11, OwnerAssumption DEF Crash, Abandoned
  <2>5. Placed(p)' /\ Locked(p)' /\ At(p, "idle")'
    BY <2>1, <2>2 DEF Placed, Locked, At, Recovering, InTxn, InLocal, Restoring, Resolving
  <2> QED
    BY <1>11, <2>1, <2>2, <2>3, <2>4, <2>5 DEF Handed, Crash, Control, Typed
<1> QED
  BY <1>2, <1>3, <1>4, <1>5, <1>6, <1>7, <1>8, <1>9, <1>10, <1>11 DEF Step

---------------------------------------------------------------------------
(* The types *)

\* The transaction that is worked on has its journal.
LEMMA HasJournal ==
  ASSUME IInv, NEW p \in Process, InTxn(p)
  PROVE  /\ At(p, "begin") \/ (TxnOf(p) \in Journals /\ journal[TxnOf(p)] \in Journal)
         /\ proc[p].pc \in Restoring => TxnOf(p) = proc[p].id
         /\ TxnOf(p) \in Txn /\ proc[p].id \in Txn
         /\ Staged(p) /\ txnLock = p
<1>1. Staged(p) /\ Placed(p) /\ Locked(p) /\ proc[p] \in Command
  BY DEF IInv, Control, Typed
<1>2. At(p, "begin") \/ TxnOf(p) \in Journals
  BY <1>1 DEF Staged
<1>3. proc[p].id \in Txn
  BY <1>1 DEF Placed, Command, InTxn, At, Restoring, Resolving
<1>4. proc[p].pc \in Restoring => TxnOf(p) = proc[p].id
  BY <1>1 DEF Placed, TxnOf, Restoring, Resolving
<1> QED
  BY <1>1, <1>2, <1>3, <1>4 DEF Journals, IInv, Control, Typed, At, Restoring, Locked

\* Writing one journal leaves the journals typed and every other one alone.
LEMMA JournalTyped ==
  ASSUME Typed, NEW t \in Txn, NEW j \in Journal \cup {NoJournal}, Persist(t, j)
  PROVE  /\ journal' \in [Txn -> Journal \cup {NoJournal}]
         /\ journal'[t] = j /\ \A u \in Txn \ {t} : journal'[u] = journal[u]
  BY DEF Typed, Persist

\* The journal a restore begins with: nothing backed up, the files as they are.
LEMMA PreparedTyped ==
  ASSUME Typed
  PROVE  /\ Prepared \in Journal /\ Prepared.state = "Prepared" /\ Prepared.position = 0
         /\ Prepared.original = file /\ Prepared.backups = {} /\ Prepared # NoJournal
         /\ Prepared.pending = "NotRecorded"
         /\ \A f \in File : Prepared.action[f] = IF file[f] = Absent THEN "Create" ELSE "Replace"
<1> DEFINE action == [f \in File |-> IF file[f] = Absent THEN "Create" ELSE "Replace"]
<1>1. action \in [File -> Action] /\ \A f \in File : action[f] = IF file[f] = Absent THEN "Create" ELSE "Replace"
  BY DEF Action
<1>2. 0 \in 0..NumFiles
  BY BoundsAssumption
<1>3. /\ NoJournal.position = 0 /\ NoJournal.backups = {} /\ NoJournal.pending = "NotRecorded"
      /\ NoJournal.state = "none"
      /\ NoJournal \in [state : {"none"}, position : 0..NumFiles, pending : Pending,
            outcome : Outcome, step : CleanupStep, original : [File -> Content],
            action : [File -> Action], backups : SUBSET File]
  BY <1>2 DEF NoJournal, Pending, Outcome, CleanupStep, Content, Action
<1>4. Prepared = [NoJournal EXCEPT !.state = "Prepared", !.original = file, !.action = action]
  BY DEF Prepared
<1> HIDE DEF action
<1>5. file \in [File -> Content] /\ "Prepared" \in State
  BY DEF Typed, State
<1> QED
  BY <1>1, <1>3, <1>4, <1>5 DEF Journal

\* Every step of a command leaves the state typed.
LEMMA TypedKept ==
  ASSUME IInv, NEW p \in Process, Handed(p), Step(p) \/ Fail(p) \/ Crash(p)
  PROVE  Typed'
<1> DEFINE t == TxnOf(p)
           J == journal' \in [Txn -> Journal \cup {NoJournal}]
<1>1. Typed /\ Placed(p) /\ Locked(p) /\ proc[p] \in Command /\ Staged(p)
  BY DEF IInv, Control, Typed
<1>2. InTxn(p) /\ ~At(p, "begin") => t \in Txn /\ journal[t] \in Journal
  BY HasJournal DEF Journals
<1>3. NumFiles \in Nat /\ NumFiles > 0
  BY BoundsAssumption
<1>4. J
  <2>1. CASE UNCHANGED journal
    BY <1>1, <2>1 DEF Typed
  <2>2. ASSUME RollBegin(p) PROVE J
    <3> DEFINE from == IF journal[t].state = "RollingBack" THEN journal[t].position ELSE 0
               j == [journal[t] EXCEPT !.state = "RollingBack", !.position = from]
    <3>1. t \in Txn /\ journal[t] \in Journal
      BY <1>2, <2>2 DEF RollBegin, At, InTxn, Resolving
    <3>2. from \in 0..NumFiles
      BY <1>3, <3>1 DEF Journal
    <3>3. Persist(t, j)
      BY <2>2 DEF RollBegin
    <3> HIDE DEF from
    <3>4. j \in Journal
      BY <3>1, <3>2 DEF Journal, State
    <3> QED
      BY <1>1, <3>1, <3>3, <3>4, JournalTyped
  <2>3. ASSUME RollAdvance(p) PROVE J
    BY <1>1, <1>2, <1>3, <2>3, JournalTyped DEF RollAdvance, At, InTxn, Resolving, Journal, Staged
  <2>4. ASSUME RecordPending(p) PROVE J
    BY <1>1, <1>2, <2>4, JournalTyped DEF RecordPending, At, InTxn, Resolving, Journal, Pending
  <2>5. ASSUME BeginCleanup(p) PROVE J
    BY <1>1, <1>2, <2>5, JournalTyped DEF BeginCleanup, At, InTxn, Resolving, Journal, State, Outcome, CleanupStep
  <2>6. ASSUME Clean(p) PROVE J
    BY <1>1, <1>2, <2>6, JournalTyped DEF Clean, At, InTxn, Resolving, Journal, CleanupStep, StepAfter
  <2>7. ASSUME RemoveJournal(p) PROVE J
    BY <1>1, <1>2, <2>7, JournalTyped DEF RemoveJournal, At, InTxn, Resolving
  <2>8. ASSUME Begin(p) PROVE J
    BY <1>1, <2>8, HasJournal, PreparedTyped, JournalTyped DEF Begin, At, InTxn, Restoring
  <2>9. ASSUME Durable(p) PROVE J
    <3>1. proc[p].id = t /\ InTxn(p) /\ ~At(p, "begin")
      BY <2>9, HasJournal DEF Durable, At, InTxn, Restoring
    <3> DEFINE action == [f \in File |-> IF f \in proc[p].skip THEN "NoOp" ELSE journal[t].action[f]]
               j == [journal[t] EXCEPT !.state = "BackupsDurable", !.backups = Existed(t), !.action = action]
    <3>2. action \in [File -> Action]
      BY <1>2, <3>1 DEF Journal, Action
    <3>3. Persist(t, j)
      BY <2>9, <3>1 DEF Durable, Persist
    <3> HIDE DEF action
    <3>4. j \in Journal
      BY <1>2, <3>1, <3>2 DEF Journal, State, Existed
    <3> HIDE DEF j
    <3> QED
      BY <1>1, <1>2, <3>1, <3>3, <3>4, JournalTyped
  <2>10. ASSUME StartCommit(p) PROVE J
    <3>1. t \in Txn /\ journal[t] \in Journal /\ proc[p].id = t
      BY <1>2, <2>10, HasJournal DEF StartCommit, At, InTxn, Restoring
    <3> DEFINE j == [journal[t] EXCEPT !.state = "Committing", !.position = 0]
    <3>2. j \in Journal
      <4>1. 0 \in 0..NumFiles /\ "Committing" \in State
        BY <1>3 DEF State
      <4> QED
        BY <3>1, <4>1 DEF Journal
    <3> QED
      BY <1>1, <2>10, <3>1, <3>2, JournalTyped DEF StartCommit, j
  <2>11. ASSUME InstallAdvance(p) PROVE J
    BY <1>1, <1>2, <1>3, <2>11, HasJournal, JournalTyped DEF InstallAdvance, At, InTxn, Restoring, Journal, Staged
  <2>12. ASSUME CommitLocal(p) PROVE J
    BY <1>1, <1>2, <2>12, HasJournal, JournalTyped DEF CommitLocal, At, InTxn, Restoring, Journal, State, Pending
  <2>13. Step(p) \/ Fail(p) \/ Crash(p) => UNCHANGED journal \/ RollBegin(p) \/ RollAdvance(p) \/ RecordPending(p)
             \/ BeginCleanup(p) \/ Clean(p) \/ RemoveJournal(p) \/ Begin(p) \/ Durable(p)
             \/ StartCommit(p) \/ InstallAdvance(p) \/ CommitLocal(p)
    BY DEF Step, Fail, Crash, Gate, LockLocal, Write, Recover, RollFile, EnsurePending, LockTxn, Prepare,
           Install, Capture, BackupDone, CollectJournals, CollectOrphans, RemoveOrphans
  <2> QED
    BY <2>1, <2>2, <2>3, <2>4, <2>5, <2>6, <2>7, <2>8, <2>9, <2>10, <2>11, <2>12, <2>13
<1>5. file' \in [File -> Content]
  <2>1. CASE UNCHANGED file
    BY <1>1, <2>1 DEF Typed
  <2>2. ASSUME Write(p) PROVE file' \in [File -> Content]
    <3>1. proc[p].id \in Content
      BY <1>1, <2>2 DEF Command, Content, Absent
    <3> QED
      BY <1>1, <2>2, <3>1 DEF Write, Typed
  <2>3. ASSUME RollFile(p) PROVE file' \in [File -> Content]
    <3>1. journal[t].original \in [File -> Content]
      BY <1>2, <2>3 DEF RollFile, InTxn, At, Resolving, Journal
    <3>2. NumFiles - journal[t].position \in File
      BY <1>1, <1>2, <1>3, <2>3 DEF RollFile, InTxn, At, Resolving, Journal, Staged, File
    <3> QED
      BY <1>1, <2>3, <3>1, <3>2 DEF RollFile, Typed
  <2>4. ASSUME Install(p) PROVE file' \in [File -> Content]
    <3>1. InTxn(p) /\ ~At(p, "begin") /\ t = proc[p].id
      BY <2>4, HasJournal DEF Install, InTxn, At, Restoring
    <3>2. t \in Content
      BY <1>2, <3>1 DEF Content
    <3> QED
      BY <1>1, <2>4, <3>1, <3>2 DEF Install, Typed
  <2> QED
    BY <2>1, <2>2, <2>3, <2>4
      DEF Step, Fail, Crash, Gate, LockLocal, Recover, RollBegin, RollAdvance, EnsurePending, RecordPending,
        BeginCleanup, Clean, RemoveJournal, LockTxn, Begin, Prepare, Durable, StartCommit, InstallAdvance,
        CommitLocal, Capture, BackupDone, CollectJournals, CollectOrphans, RemoveOrphans
<1>6. artifact' \in [Txn -> Artifact]
  <2>1. NoArtifact \in Artifact
    BY DEF NoArtifact, Artifact, Content
  <2>2. CASE UNCHANGED artifact
    BY <1>1, <2>2 DEF Typed
  <2>3. ASSUME Clean(p) PROVE artifact' \in [Txn -> Artifact]
    <3>1. artifact[t] \in Artifact /\ journal[t].step \in CleanupStep
      BY <1>1, <1>2, <2>3 DEF Clean, InTxn, At, Resolving, Journal, Typed
    <3>2. AfterStep(t, journal[t].step) \in Artifact
      BY <2>1, <2>3, <3>1 DEF AfterStep, Clean, CleanupStep, Artifact
    <3> QED
      BY <1>1, <2>3, <3>2 DEF Clean, Typed
  <2>4. ASSUME Prepare(p) PROVE artifact' \in [Txn -> Artifact]
    <3>1. PICK skip : artifact' = [artifact EXCEPT ![proc[p].id] =
                     [root |-> TRUE, backup |-> file, staged |-> File \ skip]]
      BY <2>4 DEF Prepare
    <3>2. [root |-> TRUE, backup |-> file, staged |-> File \ skip] \in Artifact
      BY <1>1 DEF Artifact, Typed
    <3> QED
      BY <1>1, <3>1, <3>2 DEF Typed
  <2>5. ASSUME RemoveOrphans(p) PROVE artifact' \in [Txn -> Artifact]
    BY <1>1, <2>1, <2>5 DEF RemoveOrphans, Typed
  <2> QED
    BY <2>2, <2>3, <2>4, <2>5
      DEF Step, Fail, Crash, Gate, LockLocal, Write, Recover, RollBegin, RollFile, RollAdvance, EnsurePending,
        RecordPending, BeginCleanup, RemoveJournal, LockTxn, Begin, Durable, StartCommit, Install,
        InstallAdvance, CommitLocal, Capture, BackupDone, CollectJournals, CollectOrphans
<1>7. done' \subseteq Txn /\ intent' \subseteq Txn /\ plundered' \subseteq Txn /\ exposed' \subseteq File
  <2>1. proc[p].pc \in Restoring \cup Resolving => proc[p].id \in Txn /\ t \in Txn
    BY HasJournal DEF InTxn
  <2>2. At(p, "write") => proc[p].id \in Txn
    BY <1>1 DEF Command, Placed, At
  <2> QED
    BY <1>1, <2>1, <2>2
      DEF Typed, At, Restoring, Resolving, Exposes, Journals, history,
        Step, Fail, Crash, Gate, LockLocal, Write, Recover, RollBegin, RollFile, RollAdvance, EnsurePending,
        RecordPending, BeginCleanup, Clean, RemoveJournal, LockTxn, Begin, Prepare, Durable, StartCommit, Install,
        InstallAdvance, CommitLocal, Capture, BackupDone, CollectJournals, CollectOrphans, RemoveOrphans
<1>8. faults' \in 0..MaxFaults
  <2>1. CASE faults < MaxFaults /\ faults' = faults + 1
    BY <1>1, <2>1, BoundsAssumption DEF Typed
  <2>2. CASE UNCHANGED faults
    BY <1>1, <2>2 DEF Typed
  <2> QED
    BY <2>1, <2>2
      DEF Step, Fail, Crash, Gate, LockLocal, Write, Recover, RollBegin, RollFile, RollAdvance, EnsurePending,
        RecordPending, BeginCleanup, Clean, RemoveJournal, LockTxn, Begin, Prepare, Durable, StartCommit, Install,
        InstallAdvance, CommitLocal, Capture, BackupDone, CollectJournals, CollectOrphans, RemoveOrphans
<1>9. localLock' \in Process \cup {NoOwner, DeadOwner} /\ txnLock' \in Process \cup {NoOwner, DeadOwner}
  BY <1>1 DEF Handed, Hands, Free, Typed
<1> QED
  BY <1>4, <1>5, <1>6, <1>7, <1>8, <1>9 DEF Typed, Handed

---------------------------------------------------------------------------
(* What the steps write into a journal *)

\* The journal of t is another one, and no other journal is touched.
Writes(t, j) == /\ t \in Journals /\ journal[t] \in Journal /\ journal' = [journal EXCEPT ![t] = j]
                /\ j \in Journal /\ j.original = journal[t].original
Keeping(t, j) == /\ Writes(t, j) /\ j.backups = journal[t].backups /\ j.action = journal[t].action

\* What each step that writes a journal writes, for the steps that keep its actions,
\* originals and backups.
LEMMA Written ==
  ASSUME IInv, NEW p \in Process
  PROVE  LET t == TxnOf(p)
         IN  /\ RollBegin(p) => \E j \in Journal :
                   /\ Keeping(t, j) /\ j.state = "RollingBack" /\ j.pending = journal[t].pending
                   /\ j.position = IF journal[t].state = "RollingBack" THEN journal[t].position ELSE 0
             /\ RollAdvance(p) => \E j \in Journal :
                   /\ Keeping(t, j) /\ j.state = journal[t].state /\ j.pending = journal[t].pending
                   /\ j.position = journal[t].position + 1
             /\ RecordPending(p) => \E j \in Journal :
                   /\ Keeping(t, j) /\ j.state = journal[t].state /\ j.position = journal[t].position
             /\ BeginCleanup(p) => \E j \in Journal : Keeping(t, j) /\ j.state = "CleaningUp"
             /\ Clean(p) => \E j \in Journal :
                   /\ Keeping(t, j) /\ j.state = journal[t].state /\ j.pending = journal[t].pending
             /\ StartCommit(p) => \E j \in Journal :
                   /\ Keeping(t, j) /\ j.state = "Committing" /\ j.position = 0
             /\ InstallAdvance(p) => \E j \in Journal :
                   /\ Keeping(t, j) /\ j.state = journal[t].state /\ j.position = journal[t].position + 1
             /\ CommitLocal(p) => \E j \in Journal :
                   /\ Keeping(t, j) /\ j.state = "CommittedLocal" /\ j.pending = "NotRecorded"
<1> DEFINE t == TxnOf(p)
           J == journal[t]
<1>1. NumFiles \in Nat /\ NumFiles > 0 /\ 0 \in 0..NumFiles
  BY BoundsAssumption
<1>2. InTxn(p) /\ ~At(p, "begin") => t \in Journals /\ J \in Journal /\ Staged(p)
  BY HasJournal
<1>3. proc[p].pc \in Restoring => t = proc[p].id
  BY HasJournal DEF InTxn
<1>4. ASSUME RollBegin(p)
      PROVE  \E j \in Journal :
                   /\ Keeping(t, j) /\ j.state = "RollingBack" /\ j.pending = J.pending
                   /\ j.position = IF J.state = "RollingBack" THEN J.position ELSE 0
  <2> DEFINE from == IF J.state = "RollingBack" THEN J.position ELSE 0
             j == [J EXCEPT !.state = "RollingBack", !.position = from]
  <2>1. t \in Journals /\ J \in Journal
    BY <1>2, <1>4 DEF RollBegin, InTxn, At, Resolving
  <2>2. journal' = [journal EXCEPT ![t] = j]
    BY <1>4 DEF RollBegin, Persist
  <2>3. from \in 0..NumFiles
    BY <1>1, <2>1 DEF Journal
  <2> HIDE DEF from
  <2>4. /\ j \in Journal /\ j.state = "RollingBack" /\ j.pending = J.pending /\ j.position = from
        /\ j.original = J.original /\ j.backups = J.backups /\ j.action = J.action
    BY <2>1, <2>3 DEF Journal, State
  <2> HIDE DEF j
  <2> QED
    BY <2>1, <2>2, <2>4 DEF from, Keeping, Writes
<1>5. ASSUME RollAdvance(p) \/ InstallAdvance(p)
      PROVE  \E j \in Journal :
                   /\ Keeping(t, j) /\ j.state = J.state /\ j.pending = J.pending
                   /\ j.position = J.position + 1
  <2> DEFINE next == J.position + 1
             j == [J EXCEPT !.position = next]
  <2>1. t \in Journals /\ J \in Journal /\ J.position < NumFiles
    BY <1>2, <1>5 DEF RollAdvance, InstallAdvance, InTxn, At, Restoring, Resolving, Staged
  <2>2. journal' = [journal EXCEPT ![t] = j]
    BY <1>3, <1>5 DEF RollAdvance, InstallAdvance, Persist, At, Restoring
  <2>3. next \in 0..NumFiles
    BY <1>1, <2>1 DEF Journal
  <2> HIDE DEF next
  <2>4. /\ j \in Journal /\ j.state = J.state /\ j.pending = J.pending /\ j.position = next
        /\ j.original = J.original /\ j.backups = J.backups /\ j.action = J.action
    BY <2>1, <2>3 DEF Journal
  <2> HIDE DEF j
  <2> QED
    BY <2>1, <2>2, <2>4 DEF next, Keeping, Writes
<1>6. ASSUME RecordPending(p)
      PROVE  \E j \in Journal : Keeping(t, j) /\ j.state = J.state /\ j.position = J.position
  <2> DEFINE j == [J EXCEPT !.pending = "Recorded"]
  <2>1. t \in Journals /\ J \in Journal
    BY <1>2, <1>6 DEF RecordPending, InTxn, At, Resolving
  <2>2. journal' = [journal EXCEPT ![t] = j]
    BY <1>6 DEF RecordPending, Persist
  <2>3. /\ j \in Journal /\ j.state = J.state /\ j.position = J.position
        /\ j.original = J.original /\ j.backups = J.backups /\ j.action = J.action
    BY <2>1 DEF Journal, Pending
  <2> HIDE DEF j
  <2> QED
    BY <2>1, <2>2, <2>3 DEF Keeping, Writes
<1>7. ASSUME BeginCleanup(p) PROVE \E j \in Journal : Keeping(t, j) /\ j.state = "CleaningUp"
  <2> DEFINE outcome == IF J.state \in {"RollingBack", "RolledBack"} THEN "Rollback" ELSE "Commit"
             j == [J EXCEPT !.state = "CleaningUp", !.outcome = outcome, !.step = "Validate"]
  <2>1. t \in Journals /\ J \in Journal
    BY <1>2, <1>7 DEF BeginCleanup, InTxn, At, Resolving
  <2>2. journal' = [journal EXCEPT ![t] = j]
    BY <1>7 DEF BeginCleanup, Persist
  <2>3. outcome \in Outcome /\ "CleaningUp" \in State /\ "Validate" \in CleanupStep
    BY DEF Outcome, State, CleanupStep
  <2> HIDE DEF outcome
  <2>4. /\ j \in Journal /\ j.state = "CleaningUp"
        /\ j.original = J.original /\ j.backups = J.backups /\ j.action = J.action
    BY <2>1, <2>3 DEF Journal
  <2> HIDE DEF j
  <2> QED
    BY <2>1, <2>2, <2>4 DEF Keeping, Writes
<1>8. ASSUME Clean(p)
      PROVE  \E j \in Journal : Keeping(t, j) /\ j.state = J.state /\ j.pending = J.pending
  <2> DEFINE step == StepAfter[J.step]
             j == [J EXCEPT !.step = step]
  <2>1. t \in Journals /\ J \in Journal
    BY <1>2, <1>8 DEF Clean, InTxn, At, Resolving
  <2>2. journal' = [journal EXCEPT ![t] = j]
    BY <1>8 DEF Clean, Persist
  <2>3. step \in CleanupStep
    BY <1>8, <2>1 DEF Journal, StepAfter, CleanupStep, Clean
  <2> HIDE DEF step
  <2>4. /\ j \in Journal /\ j.state = J.state /\ j.pending = J.pending
        /\ j.original = J.original /\ j.backups = J.backups /\ j.action = J.action
    BY <2>1, <2>3 DEF Journal
  <2> HIDE DEF j
  <2> QED
    BY <2>1, <2>2, <2>4 DEF Keeping, Writes
<1>9. ASSUME StartCommit(p)
      PROVE  \E j \in Journal : Keeping(t, j) /\ j.state = "Committing" /\ j.position = 0
  <2> DEFINE j == [J EXCEPT !.state = "Committing", !.position = 0]
  <2>1. t \in Journals /\ J \in Journal
    BY <1>2, <1>9 DEF StartCommit, InTxn, At, Restoring
  <2>2. journal' = [journal EXCEPT ![t] = j]
    BY <1>3, <1>9 DEF StartCommit, Persist, At, Restoring
  <2>3. "Committing" \in State
    BY DEF State
  <2>4. /\ j \in Journal /\ j.state = "Committing" /\ j.position = 0
        /\ j.original = J.original /\ j.backups = J.backups /\ j.action = J.action
    BY <1>1, <2>1, <2>3 DEF Journal
  <2> HIDE DEF j
  <2> QED
    BY <2>1, <2>2, <2>4 DEF Keeping, Writes
<1>10. ASSUME CommitLocal(p)
       PROVE  \E j \in Journal : Keeping(t, j) /\ j.state = "CommittedLocal" /\ j.pending = "NotRecorded"
  <2> DEFINE j == [J EXCEPT !.state = "CommittedLocal", !.pending = "NotRecorded"]
  <2>1. t \in Journals /\ J \in Journal
    BY <1>2, <1>10 DEF CommitLocal, InTxn, At, Restoring
  <2>2. journal' = [journal EXCEPT ![t] = j]
    BY <1>3, <1>10 DEF CommitLocal, Persist, At, Restoring
  <2>3. /\ j \in Journal /\ j.state = "CommittedLocal" /\ j.pending = "NotRecorded"
        /\ j.original = J.original /\ j.backups = J.backups /\ j.action = J.action
    BY <2>1 DEF Journal, State, Pending
  <2> HIDE DEF j
  <2> QED
    BY <2>1, <2>2, <2>3 DEF Keeping, Writes
<1> QED
  BY <1>4, <1>5, <1>6, <1>7, <1>8, <1>9, <1>10

\* The one step that changes the backups of a journal: all of them at once.
LEMMA WrittenDurable ==
  ASSUME IInv, NEW p \in Process, Durable(p)
  PROVE  LET t == TxnOf(p)
         IN  \E j \in Journal :
                /\ Writes(t, j) /\ j.state = "BackupsDurable" /\ j.backups = Existed(t)
                /\ \A f \in File : j.action[f] = IF f \in proc[p].skip THEN "NoOp" ELSE journal[t].action[f]
<1> DEFINE t == TxnOf(p)
           action == [f \in File |-> IF f \in proc[p].skip THEN "NoOp" ELSE journal[t].action[f]]
           j == [journal[t] EXCEPT !.state = "BackupsDurable", !.backups = Existed(t), !.action = action]
<1>1. InTxn(p) /\ ~At(p, "begin") /\ proc[p].pc \in Restoring
  BY DEF Durable, InTxn, At, Restoring
<1>2. t \in Journals /\ journal[t] \in Journal /\ t = proc[p].id
  BY <1>1, HasJournal
<1>3. action \in [File -> Action]
      /\ \A f \in File : action[f] = IF f \in proc[p].skip THEN "NoOp" ELSE journal[t].action[f]
  BY <1>2 DEF Journal, Action
<1>4. journal' = [journal EXCEPT ![t] = j]
  BY <1>2 DEF Durable, Persist
<1> HIDE DEF action
<1>5. /\ j \in Journal /\ j.state = "BackupsDurable" /\ j.backups = Existed(t)
      /\ j.original = journal[t].original /\ j.action = action
  BY <1>2, <1>3 DEF Journal, State, Existed
<1> HIDE DEF j
<1> QED
  BY <1>2, <1>3, <1>4, <1>5 DEF Writes

\* A journal that is written exists before and after, and no other one changes.
LEMMA WritesOne ==
  ASSUME IInv, NEW t, NEW j, Writes(t, j)
  PROVE  /\ t \in Txn /\ journal'[t] = j /\ \A u \in Txn \ {t} : journal'[u] = journal[u]
         /\ Journals' = Journals
<1>1. t \in Txn /\ journal'[t] = j /\ \A u \in Txn \ {t} : journal'[u] = journal[u]
  BY DEF IInv, Control, Typed, Writes, Journals
<1>2. j # NoJournal
  BY DEF Writes, Journal, State, NoJournal
<1> QED
  BY <1>1, <1>2 DEF Journals, Writes

\* A restore begins with an identifier nobody used.
LEMMA BeginsOne ==
  ASSUME IInv, NEW p \in Process, Begin(p)
  PROVE  LET t == proc[p].id
         IN  /\ t \in Txn /\ ~Used(t) /\ t # Legacy /\ Journals' = Journals \cup {t}
             /\ journal'[t] = Prepared /\ \A u \in Txn \ {t} : journal'[u] = journal[u]
             /\ localLock = p /\ ~Recovering(p) /\ TxnOf(p) = t
<1>1. InTxn(p) /\ Placed(p) /\ Locked(p)
  BY DEF Begin, InTxn, At, Restoring, IInv, Control
<1>2. proc[p].id \in Txn /\ TxnOf(p) = proc[p].id
  BY <1>1, HasJournal DEF Begin, At, Restoring
<1>3. ~Used(proc[p].id)
  BY DEF IInv, Fresh, Begun, Begin, At
<1>4. proc[p].id # Legacy /\ ~Recovering(p)
  BY <1>1 DEF Placed, Legacy, Begin, At, Resolving
<1>5. Prepared # NoJournal
  BY PreparedTyped DEF IInv, Control
<1>6. journal' = [journal EXCEPT ![proc[p].id] = Prepared]
  BY DEF Begin, Persist
<1>7. journal'[proc[p].id] = Prepared /\ \A u \in Txn \ {proc[p].id} : journal'[u] = journal[u]
  BY <1>2, <1>6 DEF IInv, Control, Typed
<1>8. Journals' = Journals \cup {proc[p].id}
  BY <1>2, <1>5, <1>7 DEF Journals
<1> QED
  BY <1>1, <1>2, <1>3, <1>4, <1>7, <1>8 DEF Locked, InLocal, Begin, At, Restoring

\* A removal takes the journal the command works on, and no other.
LEMMA RemovesOne ==
  ASSUME IInv, NEW p \in Process, RemoveJournal(p)
  PROVE  LET t == TxnOf(p)
         IN  /\ t \in Journals /\ Journals' = Journals \ {t}
             /\ \A u \in Txn \ {t} : journal'[u] = journal[u]
<1>1. InTxn(p) /\ ~At(p, "begin")
  BY DEF RemoveJournal, InTxn, At, Resolving
<1>2. TxnOf(p) \in Journals
  BY <1>1, HasJournal
<1>3. journal' = [journal EXCEPT ![TxnOf(p)] = NoJournal]
  BY DEF RemoveJournal, Persist
<1>4. journal'[TxnOf(p)] = NoJournal /\ \A u \in Txn \ {TxnOf(p)} : journal'[u] = journal[u]
  BY <1>2, <1>3 DEF IInv, Control, Typed, Journals
<1> QED
  BY <1>2, <1>4 DEF Journals

\* The steps that touch a journal, and the transaction whose it is.
LEMMA JournalSteps ==
  ASSUME IInv, NEW p \in Process, Step(p) \/ Fail(p) \/ Crash(p)
  PROVE  \/ UNCHANGED journal
         \/ Begin(p)
         \/ RemoveJournal(p)
         \/ InTxn(p) /\ ~At(p, "begin") /\ \E j \in Journal : Writes(TxnOf(p), j)
<1>1. CASE \/ RollBegin(p) \/ RollAdvance(p) \/ RecordPending(p) \/ BeginCleanup(p) \/ Clean(p)
           \/ StartCommit(p) \/ InstallAdvance(p) \/ CommitLocal(p) \/ Durable(p)
  <2>1. InTxn(p) /\ ~At(p, "begin")
    BY <1>1 DEF InTxn, Restoring, Resolving, At, RollBegin, RollAdvance, RecordPending, BeginCleanup,
      Clean, StartCommit, InstallAdvance, CommitLocal, Durable
  <2>2. \E j \in Journal : Writes(TxnOf(p), j)
    BY <1>1, Written, WrittenDurable DEF Keeping
  <2> QED
    BY <2>1, <2>2
<1> QED
  BY <1>1 DEF Step, Fail, Crash, Gate, LockLocal, Write, Recover, RollFile, EnsurePending, LockTxn, Prepare,
           Install, Capture, BackupDone, CollectJournals, CollectOrphans, RemoveOrphans

\* Three steps write a library file: an edit, an installation, a rollback.
LEMMA FileSteps ==
  ASSUME NEW p \in Process, Step(p) \/ Fail(p) \/ Crash(p)
  PROVE  UNCHANGED file \/ Write(p) \/ RollFile(p) \/ Install(p)
  BY DEF Step, Fail, Crash, Gate, LockLocal, Recover, RollBegin, RollAdvance, EnsurePending, RecordPending,
      BeginCleanup, Clean, RemoveJournal, LockTxn, Begin, Prepare, Durable, StartCommit, InstallAdvance,
      CommitLocal, Capture, BackupDone, CollectJournals, CollectOrphans, RemoveOrphans

\* Which steps change what is remembered of the past, and the artifacts.
LEMMA HistorySteps ==
  ASSUME NEW p \in Process, Step(p) \/ Fail(p) \/ Crash(p)
  PROVE  /\ ~At(p, "idle")
         /\ UNCHANGED done \/ Write(p) \/ CommitLocal(p)
         /\ UNCHANGED intent \/ EnsurePending(p)
         /\ UNCHANGED plundered \/ RemoveOrphans(p)
         /\ UNCHANGED exposed \/ Write(p) \/ Begin(p) \/ RemoveOrphans(p)
         /\ UNCHANGED artifact \/ Clean(p) \/ Prepare(p) \/ RemoveOrphans(p)
  BY DEF history, At, Step, Fail, Crash, Gate, LockLocal, Write, Recover, RollBegin, RollFile, RollAdvance, EnsurePending,
      RecordPending, BeginCleanup, Clean, RemoveJournal, LockTxn, Begin, Prepare, Durable, StartCommit, Install,
      InstallAdvance, CommitLocal, Capture, BackupDone, CollectJournals, CollectOrphans, RemoveOrphans

\* The file a step works on is one of the files, and what it holds then.
LEMMA FileWorked ==
  ASSUME IInv, NEW p \in Process
  PROVE  LET t == TxnOf(p)
             j == journal[t]
         IN  /\ Write(p) => \E f \in File : file' = [file EXCEPT ![f] = proc[p].id]
             /\ RollFile(p) => /\ NumFiles - j.position \in File
                               /\ \/ UNCHANGED file
                                  \/ file' = [file EXCEPT ![NumFiles - j.position]
                                                 = j.original[NumFiles - j.position]]
             /\ Install(p) => /\ j.position + 1 \in File
                              /\ \/ UNCHANGED file
                                 \/ file' = [file EXCEPT ![j.position + 1] = t]
<1> DEFINE t == TxnOf(p)
           j == journal[t]
<1>1. NumFiles \in Nat
  BY BoundsAssumption
<1>2. ASSUME RollFile(p) \/ Install(p)
      PROVE  j.position \in Nat /\ j.position < NumFiles
  <2>1. InTxn(p) /\ proc[p].pc \in {"restoreFile", "install"}
    BY <1>2 DEF RollFile, Install, InTxn, At, Restoring, Resolving
  <2>2. j \in Journal /\ Staged(p)
    BY <2>1, HasJournal DEF At
  <2>3. j.position \in 0..NumFiles
    BY <2>2 DEF Journal
  <2>4. j.position < NumFiles
    BY <2>1, <2>2 DEF Staged
  <2> QED
    BY <1>1, <2>3, <2>4
<1>3. ASSUME RollFile(p)
      PROVE  /\ NumFiles - j.position \in File
             /\ \/ UNCHANGED file
                \/ file' = [file EXCEPT ![NumFiles - j.position] = j.original[NumFiles - j.position]]
  <2>1. NumFiles - j.position \in File
    BY <1>1, <1>2, <1>3 DEF File
  <2> QED
    BY <1>3, <2>1 DEF RollFile
<1>4. ASSUME Install(p)
      PROVE  /\ j.position + 1 \in File
             /\ \/ UNCHANGED file
                \/ file' = [file EXCEPT ![j.position + 1] = t]
  <2>1. t = proc[p].id
    BY <1>4, HasJournal DEF Install, InTxn, At, Restoring
  <2>2. j.position + 1 \in File
    BY <1>1, <1>2, <1>4 DEF File
  <2>3. file' = [file EXCEPT ![j.position + 1] = t] \/ file' = [file EXCEPT ![j.position + 1] = @] \/ UNCHANGED file
    BY <1>4, <2>1 DEF Install
  <2> QED
    BY <2>2, <2>3 DEF IInv, Control, Typed
<1> QED
  BY <1>3, <1>4 DEF Write

---------------------------------------------------------------------------
(* Ids are used once *)

\* An identifier comes into use only by the edit or the restore it belongs to.
LEMMA UsedGrows ==
  ASSUME IInv, NEW p \in Process, Step(p) \/ Fail(p) \/ Crash(p), NEW c \in Content, Used(c)'
  PROVE  Used(c) \/ (c = proc[p].id /\ (Begin(p) \/ Write(p)))
<1> SUFFICES ASSUME ~(c = proc[p].id /\ (Begin(p) \/ Write(p))) PROVE Used(c)
  OBVIOUS
<1>1. Typed /\ Absent \notin Txn
  BY DEF IInv, Control, Absent, Txn
<1>2. ASSUME NEW t \in Journals', t \in Journals, journal'[t].original = journal[t].original,
             NEW f \in File, journal'[t].original[f] = c
      PROVE  Used(c)
  BY <1>2 DEF Used
<1>3. \A t \in Journals' : \/ t \in Journals /\ journal'[t].original = journal[t].original
                           \/ Begin(p) /\ t = proc[p].id
  <2>1. CASE UNCHANGED journal
    BY <2>1 DEF Journals
  <2>2. CASE Begin(p)
    BY <2>2, BeginsOne DEF Journals
  <2>3. CASE RemoveJournal(p)
    BY <2>3, RemovesOne DEF Journals
  <2>4. ASSUME NEW j \in Journal, Writes(TxnOf(p), j)
        PROVE  \A t \in Journals' : t \in Journals /\ journal'[t].original = journal[t].original
    <3> DEFINE u == TxnOf(p)
    <3>1. u \in Txn /\ journal'[u] = j /\ (\A t \in Txn \ {u} : journal'[t] = journal[t]) /\ Journals' = Journals
      BY <2>4, WritesOne
    <3>2. j.original = journal[u].original /\ Journals \subseteq Txn
      BY <2>4 DEF Writes, Journals
    <3>3. \A t \in Txn : journal'[t].original = journal[t].original
      BY <3>1, <3>2
    <3> QED
      BY <3>1, <3>2, <3>3
  <2> QED
    BY <2>1, <2>2, <2>3, <2>4, JournalSteps
<1>4. ASSUME NEW f \in File, file'[f] = c PROVE Used(c)
  <2>1. CASE UNCHANGED file
    BY <1>4, <2>1 DEF Used
  <2>2. CASE Write(p)
    BY <1>1, <1>4, <2>2, FileWorked DEF Used, Typed
  <2>3. CASE RollFile(p)
    <3>1. TxnOf(p) \in Journals
      BY <2>3, HasJournal DEF RollFile, InTxn, At, Resolving
    <3> QED
      BY <1>1, <1>4, <2>3, <3>1, FileWorked DEF Used, Typed
  <2>4. CASE Install(p)
    <3>1. TxnOf(p) \in Journals
      BY <2>4, HasJournal DEF Install, InTxn, At, Restoring
    <3> QED
      BY <1>1, <1>4, <2>4, <3>1, FileWorked DEF Used, Typed
  <2> QED
    BY <2>1, <2>2, <2>3, <2>4, FileSteps
<1>5. ASSUME NEW t \in Journals', NEW f \in File, journal'[t].original[f] = c PROVE Used(c)
  <2>1. CASE t \in Journals /\ journal'[t].original = journal[t].original
    BY <1>2, <1>5, <2>1
  <2>2. CASE Begin(p) /\ t = proc[p].id
    BY <1>1, <1>5, <2>2, BeginsOne, PreparedTyped DEF Used
  <2> QED
    BY <1>3, <2>1, <2>2
<1>6. ASSUME c \in done' PROVE Used(c)
  <2>1. ASSUME CommitLocal(p) PROVE done' = done \cup {TxnOf(p)} /\ TxnOf(p) \in Journals
    BY <2>1, HasJournal DEF CommitLocal, InTxn, At, Restoring
  <2> QED
    BY <1>6, <2>1, HistorySteps DEF Used, Write
<1>7. ASSUME c \in Journals' PROVE Used(c)
  BY <1>3, <1>7 DEF Used
<1> QED
  BY <1>4, <1>5, <1>6, <1>7 DEF Used

\* The identifier of a command that has not begun stays unused.
LEMMA FreshKept ==
  ASSUME IInv, NEW p \in Process, Step(p) \/ Fail(p) \/ Crash(p), Handed(p)
  PROVE  Fresh'
<1>1. Fresh /\ Control /\ ~At(p, "idle") /\ Placed(p) /\ \A q \in Process : Placed(q)'
  BY ControlKept, HistorySteps DEF IInv, Control
<1>2. started' = started
  BY DEF Step, Fail, Crash, Gate, LockLocal, Write, Recover, RollBegin, RollFile, RollAdvance, EnsurePending,
      RecordPending, BeginCleanup, Clean, RemoveJournal, LockTxn, Begin, Prepare, Durable, StartCommit, Install,
      InstallAdvance, CommitLocal, Capture, BackupDone, CollectJournals, CollectOrphans, RemoveOrphans
<1>3. proc[p].id \in 2..(started + 1)
  BY <1>1 DEF Placed
<1>4. ASSUME NEW c \in Content, Used(c)' PROVE c <= started' + 1
  BY <1>1, <1>2, <1>3, <1>4, UsedGrows DEF Fresh
<1>5. ASSUME NEW q \in Process, Used(proc[q].id)', ~At(q, "idle")' PROVE Begun(q)'
  <2>1. proc'[q] \in Command /\ proc[q] \in Command
    BY DEF Handed, IInv, Control, Typed
  <2>2. proc'[q].id \in Content
    BY <2>1 DEF Command, Content, Absent
  <2>3. CASE q # p
    <3>1. proc'[q] = proc[q] /\ ~At(q, "idle")
      BY <1>5, <2>3 DEF Handed, At
    <3>2. proc[q].id # proc[p].id
      BY <1>1, <2>3, <3>1 DEF Fresh
    <3>3. Used(proc[q].id)
      BY <1>5, <2>2, <3>1, <3>2, UsedGrows
    <3>4. Begun(q)
      BY <1>1, <3>1, <3>3 DEF Fresh
    <3> QED
      BY <3>1, <3>4 DEF Begun, InTxn, At
  <2>4. CASE q = p
    <3>1. Keeps(p)
      BY <1>1, <1>5, <2>4 DEF Handed
    <3>2. CASE Used(proc[p].id)
      BY <1>1, <2>4, <3>1, <3>2 DEF Fresh, Keeps
    <3>3. CASE Begin(p)
      <4>1. InTxn(p) /\ ~Recovering(p)
        BY <3>3, BeginsOne DEF Begin, InTxn, At, Restoring
      <4>2. proc'[p] = [proc[p] EXCEPT !.pc = "prepare"]
        BY <1>1, <3>3, <4>1, WorksOn DEF Begin, Place, Restoring, At
      <4>3. proc'[p].pc = "prepare" /\ proc'[p].todo = <<>>
        BY <2>1, <2>4, <4>1, <4>2 DEF Command, Recovering
      <4> QED
        BY <2>4, <4>3 DEF Begun, InTxn, At, Restoring
    <3>4. CASE Write(p)
      BY <1>1, <1>2, <1>5, <2>4, <3>4, Finishes DEF Write, At, Idle
    <3> QED
      BY <1>5, <2>2, <2>4, <3>1, <3>2, <3>3, <3>4, UsedGrows DEF Keeps
  <2> QED
    BY <2>3, <2>4
<1>6. ASSUME NEW a \in Process, NEW b \in Process, ~At(a, "idle")', proc'[a].id = proc'[b].id
      PROVE  a = b
  <2>1. \A q \in Process : ~At(q, "idle")' => proc'[q].id = proc[q].id /\ ~At(q, "idle")
    BY <1>1 DEF Handed, Keeps, At
  <2>2. ~At(b, "idle")'
    <3>1. proc'[a].id \in 2..(started' + 1)
      BY <1>1, <1>6 DEF Placed
    <3>2. proc'[a].id # 0
      BY <3>1
    <3> QED
      BY <1>1, <1>6, <3>2 DEF Placed, Idle
  <2> QED
    BY <1>1, <1>6, <2>1, <2>2 DEF Fresh
<1>7. Legacy \notin done'
  <2>1. proc[p].id # Legacy
    BY <1>3 DEF Legacy
  <2>2. done' = done \/ done' = done \cup {proc[p].id}
    BY HistorySteps DEF Write, CommitLocal
  <2> QED
    BY <1>1, <2>1, <2>2 DEF Fresh
<1> QED
  BY <1>4, <1>5, <1>6, <1>7 DEF Fresh

---------------------------------------------------------------------------
(* The processes that do not take the step *)

\* Who is not at work on a transaction leaves the journals, and intents, alone.
LEMMA Outside ==
  ASSUME IInv, NEW p \in Process, Step(p) \/ Fail(p) \/ Crash(p), ~InTxn(p)
  PROVE  /\ UNCHANGED <<journal, intent>>
         /\ UNCHANGED file \/ Write(p)
         /\ \A t \in Journals : t \in done' => t \in done
         /\ \A t \in Journals : artifact'[t] = artifact[t] \/ t \in plundered'
         /\ plundered \subseteq plundered'
<1>1. UNCHANGED journal
  BY JournalSteps DEF Begin, RemoveJournal, InTxn, At, Restoring, Resolving
<1>2. UNCHANGED intent
  BY HistorySteps DEF EnsurePending, InTxn, At, Restoring, Resolving
<1>3. UNCHANGED file \/ Write(p)
  BY FileSteps DEF RollFile, Install, InTxn, At, Restoring, Resolving
<1>4. \A t \in Journals : t \in done' => t \in done
  <2>1. CASE Write(p)
    <3>1. ~Used(proc[p].id)
      BY <2>1 DEF IInv, Fresh, Begun, Write, At
    <3> QED
      BY <2>1, <3>1 DEF Write, Used
  <2> QED
    BY <2>1, HistorySteps DEF CommitLocal, InTxn, At, Restoring, Resolving
<1>5. (\A t \in Journals : artifact'[t] = artifact[t] \/ t \in plundered') /\ plundered \subseteq plundered'
  <2>1. CASE RemoveOrphans(p)
    BY <2>1 DEF RemoveOrphans, Journals
  <2> QED
    BY <2>1, HistorySteps DEF Clean, Prepare, InTxn, At, Restoring, Resolving
<1> QED
  BY <1>1, <1>2, <1>3, <1>4, <1>5

\* A step of one command leaves the journal another one works on as it was.
LEMMA StagedOthers ==
  ASSUME IInv, NEW p \in Process, Step(p) \/ Fail(p) \/ Crash(p), Handed(p),
         NEW q \in Process \ {p}
  PROVE  Staged(q)'
<1>1. proc'[q] = proc[q]
  BY DEF Handed
<1>2. CASE ~InTxn(q)
  BY <1>1, <1>2 DEF Staged, InTxn, At, Restoring, Resolving
<1>3. CASE InTxn(q)
  <2> DEFINE t == TxnOf(q)
  <2>1. ~InTxn(p) /\ Staged(q) /\ Locked(p) /\ Locked(q)
    BY <1>3, HasJournal DEF IInv, Control, Locked
  <2>2. UNCHANGED <<journal, intent>> /\ (UNCHANGED file \/ Write(p))
        /\ (\A u \in Journals : u \in done' => u \in done)
        /\ (\A u \in Journals : artifact'[u] = artifact[u] \/ u \in plundered')
        /\ plundered \subseteq plundered'
    BY <2>1, Outside
  <2>3. TxnOf(q)' = t /\ Journals' = Journals /\ Existed(t)' = Existed(t)
    BY <1>1, <2>2 DEF TxnOf, Recovering, Journals, Existed
  <2>4. At(q, "begin") \/ t \in Journals
    BY <1>3, HasJournal
  <2>5. At(q, "prepare") => UNCHANGED file
    BY <2>1, <2>2 DEF Write, Locked, InLocal, At, Restoring
  <2> QED
    BY <1>1, <2>1, <2>2, <2>3, <2>4, <2>5 DEF Staged, At, InTxn
<1> QED
  BY <1>2, <1>3

\* Only the beginning of a restore leaves a journal to roll back where none was.
LEMMA RollingGrows ==
  ASSUME IInv, NEW p \in Process, Step(p) \/ Fail(p) \/ Crash(p), NEW t \in Txn, RolledBackNext(t)'
  PROVE  RolledBackNext(t) \/ (Begin(p) /\ t = proc[p].id)
<1>1. CASE UNCHANGED journal
  BY <1>1 DEF RolledBackNext, Journals
<1>2. CASE Begin(p)
  BY <1>2, BeginsOne DEF RolledBackNext
<1>3. CASE RemoveJournal(p)
  BY <1>3, RemovesOne DEF RolledBackNext
<1>4. ASSUME InTxn(p), ~At(p, "begin"), NEW j \in Journal, Writes(TxnOf(p), j)
      PROVE  RolledBackNext(t)
  <2> DEFINE u == TxnOf(p)
  <2>1. u \in Txn /\ journal'[u] = j /\ (\A v \in Txn \ {u} : journal'[v] = journal[v]) /\ Journals' = Journals
    BY <1>4, WritesOne
  <2>2. CASE t # u
    BY <2>1, <2>2 DEF RolledBackNext
  <2>3. CASE t = u
    <3>1. j.state \in Rolling
      BY <2>1, <2>3 DEF RolledBackNext
    <3>2. Staged(p)
      BY <1>4, HasJournal
    <3>3. journal[u].state \in Rolling
      <4>1. CASE RollBegin(p) \/ StartCommit(p) \/ Durable(p) \/ CommitLocal(p)
        BY <3>2, <4>1 DEF Staged, RollBegin, StartCommit, Durable, CommitLocal, At, Rolling
      <4>2. CASE RollAdvance(p) \/ RecordPending(p) \/ Clean(p) \/ InstallAdvance(p)
        <5>1. j.state = journal[u].state
          BY <2>1, <4>2, Written, WritesOne DEF Keeping
        <5> QED
          BY <3>1, <5>1
      <4>3. CASE BeginCleanup(p)
        <5>1. j.state = "CleaningUp"
          BY <2>1, <4>3, Written, WritesOne DEF Keeping
        <5> QED
          BY <3>1, <5>1 DEF Rolling
      <4>4. CASE UNCHANGED journal
        BY <2>1, <3>1, <4>4
      <4>5. CASE RemoveJournal(p)
        BY <2>1, <4>5, RemovesOne
      <4>6. CASE Begin(p)
        BY <1>4, <4>6 DEF Begin
      <4> QED
        BY <4>1, <4>2, <4>3, <4>4, <4>5, <4>6
          DEF Step, Fail, Crash, Gate, LockLocal, Write, Recover, RollFile, EnsurePending, LockTxn, Prepare,
            Install, Capture, BackupDone, CollectJournals, CollectOrphans, RemoveOrphans
    <3> QED
      BY <2>1, <2>3, <3>3, <1>4 DEF RolledBackNext, Writes
  <2> QED
    BY <2>2, <2>3
<1> QED
  BY <1>1, <1>2, <1>3, <1>4, JournalSteps

\* The journals recovery rolls back are those in the states before the commit.
LEMMA RollbackSet ==
  ASSUME Typed
  PROVE  OfClass("Rollback") = {t \in Txn : RolledBackNext(t)}
<1>1. \A t \in Journals : Class(t) = "Rollback" <=> journal[t].state \in Rolling
  BY ClassTyped
<1> QED
  BY <1>1 DEF OfClass, RolledBackNext, Journals

\* The same of the state after a step.
LEMMA RollbackSetNext ==
  ASSUME Typed'
  PROVE  OfClass("Rollback")' = {t \in Txn : RolledBackNext(t)'}
<1>1. ASSUME NEW t \in Journals'
      PROVE  Class(t)' = "Rollback" <=> journal'[t].state \in Rolling
  <2>1. journal'[t].state \in State
    BY <1>1 DEF Typed, Journals, Journal
  <2> QED
    BY <2>1 DEF Class, ClassOfState, State, Rolling
<1> QED
  BY <1>1 DEF OfClass, RolledBackNext, Journals

---------------------------------------------------------------------------
(* A backup, journals and files *)

\* What a clean backup has read stays what the files are: the local lock keeps writers out.
LEMMA ReadKept ==
  ASSUME IInv, NEW p \in Process, Step(p) \/ Fail(p) \/ Crash(p), Handed(p), Typed',
         NEW q \in Process
  PROVE  Read(q)'
<1> SUFFICES ASSUME proc'[q].pc = "capture", proc'[q].clean, proc'[q].snapshot # <<>>
             PROVE  /\ OfClass("Rollback")' = {}
                    /\ \A f \in File : f <= Len(proc'[q].snapshot) => proc'[q].snapshot[f] = file'[f]
  BY DEF Read, At
<1>1. CASE q # p
  <2>1. proc'[q] = proc[q] /\ Locked(q) /\ Locked(p) /\ Read(q)
    BY <1>1 DEF Handed, IInv, Control
  <2>2. OfClass("Rollback") = {} /\ localLock = q
        /\ \A f \in File : f <= Len(proc[q].snapshot) => proc[q].snapshot[f] = file[f]
    BY <2>1 DEF Read, At, Locked, InLocal
  <2>3. ~InLocal(p)
    BY <1>1, <2>1, <2>2 DEF Locked
  <2>4. \A t \in Txn : ~RolledBackNext(t)
    BY <2>2, RollbackSet DEF IInv, Control
  <2>5. \A t \in Txn : ~RolledBackNext(t)'
    BY <1>1, <2>2, <2>4, RollingGrows, BeginsOne
  <2>6. UNCHANGED file
    <3>1. ~Write(p) /\ ~Install(p)
      BY <2>3 DEF Write, Install, InLocal, At, Restoring
    <3>2. ~RollFile(p)
      <4>1. SUFFICES ASSUME RollFile(p) PROVE FALSE
        OBVIOUS
      <4>2. InTxn(p) /\ At(p, "restoreFile")
        BY <4>1 DEF RollFile, InTxn, At, Resolving
      <4>3. TxnOf(p) \in Journals /\ Staged(p)
        BY <4>2, HasJournal DEF At
      <4>4. journal[TxnOf(p)].state = "RollingBack"
        BY <4>2, <4>3 DEF Staged, At
      <4> QED
        BY <2>4, <4>3, <4>4 DEF RolledBackNext, Rolling, Journals
    <3> QED
      BY <3>1, <3>2, FileSteps
  <2>7. OfClass("Rollback")' = {}
    BY <2>5, RollbackSetNext
  <2> QED
    BY <2>1, <2>2, <2>6, <2>7
<1>2. CASE q = p
  <2>1. Capture(p)
    BY <1>2 DEF Handed
  <2> DEFINE s == proc[p].snapshot
  <2>2. /\ proc'[p].snapshot = Append(s, file[Len(s) + 1])
        /\ proc[p].clean /\ OfClass("Rollback") = {}
    BY <1>2, <2>1, CaptureHands DEF IInv
  <2>3. s \in Seq(Content) /\ Len(s) + 1 \in File /\ Len(s) \in Nat
    <3>1. s \in Seq(Content)
      BY DEF IInv, Control, Typed, Command
    <3> QED
      BY <2>1, <3>1, LenProperties DEF Capture, File
  <2>4. file[Len(s) + 1] \in Content
    BY <2>3 DEF IInv, Control, Typed
  <2>5. UNCHANGED <<file, journal, artifact>>
    BY <2>1 DEF Capture
  <2>6. \A f \in File : f <= Len(s) => s[f] = file[f]
    <3>1. CASE s = <<>>
      BY <3>1 DEF File
    <3>2. CASE s # <<>>
      BY <2>1, <2>2, <3>2 DEF IInv, Read, Capture
    <3> QED
      BY <3>1, <3>2
  <2> DEFINE x == file[Len(s) + 1]
  <2>7. Len(Append(s, x)) = Len(s) + 1
        /\ (\A i \in 1..Len(s) : Append(s, x)[i] = s[i]) /\ Append(s, x)[Len(s) + 1] = x
    BY <2>3, <2>4, AppendProperties
  <2>8. ASSUME NEW f \in File, f <= Len(Append(s, x)) PROVE Append(s, x)[f] = file[f]
    <3>1. CASE f = Len(s) + 1
      BY <2>7, <3>1
    <3>2. CASE f # Len(s) + 1
      <4>1. f \in 1..Len(s)
        BY <2>3, <2>7, <2>8, <3>2 DEF File
      <4> QED
        BY <2>3, <2>6, <2>7, <4>1
    <3> QED
      BY <3>1, <3>2
  <2>9. OfClass("Rollback")' = {}
    BY <2>2, <2>5 DEF OfClass, Class, Journals
  <2> QED
    BY <1>2, <2>2, <2>5, <2>8, <2>9
<1> QED
  BY <1>1, <1>2

\* The journal a step works on, and what it was worth before.
LEMMA CommittedKept ==
  ASSUME IInv, NEW p \in Process, Step(p) \/ Fail(p) \/ Crash(p),
         NEW t \in Journals', t \in done'
  PROVE  Committed(t)'
<1>1. t \in Txn /\ (\A u \in Journals : u \in done => Committed(u)) /\ intent \subseteq intent'
  <2>1. t \in Txn
    BY DEF Journals
  <2>2. \A u \in Journals : u \in done => Committed(u)
    BY DEF IInv, Data
  <2> QED
    BY <2>1, <2>2, HistorySteps DEF EnsurePending
<1>2. CASE ~InTxn(p)
  <2>1. UNCHANGED journal /\ t \in Journals /\ t \in done
    BY <1>2, Outside DEF Journals
  <2> QED
    BY <1>1, <2>1 DEF Committed
<1>3. CASE InTxn(p) /\ UNCHANGED journal
  <2>1. ~CommitLocal(p)
    <3>1. SUFFICES ASSUME CommitLocal(p) PROVE FALSE
      OBVIOUS
    <3>2. PICK j \in Journal : Writes(TxnOf(p), j) /\ j.state = "CommittedLocal"
      BY <3>1, Written DEF Keeping
    <3>3. journal'[TxnOf(p)] = j
      BY <3>2, WritesOne
    <3>4. journal[TxnOf(p)].state = "Committing"
      BY <1>3, <3>1, HasJournal DEF Staged, CommitLocal, At
    <3> QED
      BY <1>3, <3>2, <3>3, <3>4
  <2>2. done' = done /\ t \in Journals
    BY <1>3, <2>1, HistorySteps DEF Journals, Write, InTxn, At, Restoring, Resolving
  <2> QED
    BY <1>1, <1>3, <2>2 DEF Committed
<1>4. CASE Begin(p)
  <2>1. done' = done /\ ~Used(proc[p].id)
    BY <1>4, BeginsOne DEF Begin
  <2>2. t # proc[p].id
    BY <2>1 DEF Used
  <2> QED
    BY <1>1, <1>4, <2>1, <2>2, BeginsOne DEF Committed
<1>5. CASE RemoveJournal(p)
  <2>1. done' = done
    BY <1>5 DEF RemoveJournal, history
  <2> QED
    BY <1>1, <1>5, <2>1, RemovesOne DEF Committed
<1>6. ASSUME InTxn(p), ~At(p, "begin"), NEW j \in Journal, Writes(TxnOf(p), j)
      PROVE  Committed(t)'
  <2> DEFINE u == TxnOf(p)
  <2>1. u \in Txn /\ journal'[u] = j /\ (\A v \in Txn \ {u} : journal'[v] = journal[v])
        /\ Journals' = Journals /\ u \in Journals
    BY <1>6, WritesOne DEF Writes
  <2>2. t \in done \/ (CommitLocal(p) /\ t = u)
    BY <1>6, HistorySteps, HasJournal DEF Write, InTxn, At, Restoring, Resolving, CommitLocal
  <2>3. CASE t # u
    BY <1>1, <2>1, <2>2, <2>3 DEF Committed
  <2>4. CASE t = u /\ CommitLocal(p)
    <3>1. j.state = "CommittedLocal" /\ j.pending = "NotRecorded"
      BY <2>1, <2>4, Written, WritesOne DEF Keeping
    <3> QED
      BY <2>1, <2>4, <3>1 DEF Committed
  <2>5. CASE t = u /\ t \in done /\ ~CommitLocal(p)
    <3>1. Committed(t) /\ Staged(p)
      BY <1>1, <1>6, <2>1, <2>5, HasJournal
    <3>2. ~RollBegin(p) /\ ~Durable(p) /\ ~StartCommit(p) /\ ~InstallAdvance(p) /\ ~RollAdvance(p)
      BY <2>5, <3>1 DEF Committed, Staged, At, Rolling, RollBegin, Durable, StartCommit, InstallAdvance, RollAdvance
    <3>3. CASE RecordPending(p)
      <4>1. j.state = journal[u].state
        BY <2>1, <3>3, Written, WritesOne DEF Keeping
      <4>2. t \in intent
        BY <2>5, <3>1, <3>3 DEF Staged, RecordPending, At
      <4> QED
        BY <1>1, <2>1, <2>5, <3>1, <4>1, <4>2 DEF Committed
    <3>4. CASE BeginCleanup(p)
      <4>1. j.state = "CleaningUp"
        BY <2>1, <3>4, Written, WritesOne DEF Keeping
      <4>2. t \in intent
        BY <2>5, <3>1, <3>4 DEF Staged, BeginCleanup, At
      <4> QED
        BY <1>1, <2>1, <2>5, <4>1, <4>2 DEF Committed
    <3>5. CASE Clean(p)
      <4>1. j.state = journal[u].state /\ j.pending = journal[u].pending
        BY <2>1, <3>5, Written, WritesOne DEF Keeping
      <4> QED
        BY <1>1, <2>1, <2>5, <3>1, <4>1 DEF Committed
    <3>6. CASE UNCHANGED journal
      BY <1>1, <2>5, <3>1, <3>6 DEF Committed
    <3>7. ~RemoveJournal(p) /\ ~Begin(p)
      BY <1>6, <2>1, RemovesOne DEF Begin
    <3> QED
      BY <2>5, <3>2, <3>3, <3>4, <3>5, <3>6, <3>7
        DEF Step, Fail, Crash, Gate, LockLocal, Write, Recover, RollFile, EnsurePending, LockTxn, Prepare,
          Install, Capture, BackupDone, CollectJournals, CollectOrphans, RemoveOrphans
  <2> QED
    BY <2>2, <2>3, <2>4, <2>5
<1> QED
  BY <1>2, <1>3, <1>4, <1>5, <1>6, JournalSteps

\* A journal keeps what it was written for; its backups are named once.
LEMMA OriginalKept ==
  ASSUME IInv, NEW p \in Process, Step(p) \/ Fail(p) \/ Crash(p), NEW t \in Txn,
         t \in Journals, t \in Journals'
  PROVE  /\ journal'[t].original = journal[t].original
         /\ \/ /\ journal'[t].backups = journal[t].backups /\ journal'[t].action = journal[t].action
            \/ /\ Durable(p) /\ t = TxnOf(p) /\ journal'[t].backups = Existed(t)
               /\ \A f \in File : journal'[t].action[f] = IF f \in proc[p].skip THEN "NoOp" ELSE journal[t].action[f]
<1>1. CASE UNCHANGED journal \/ Begin(p) \/ RemoveJournal(p)
  <2>1. Begin(p) => t # proc[p].id
    BY BeginsOne DEF Used
  <2> QED
    BY <1>1, <2>1, BeginsOne, RemovesOne
<1>2. ASSUME NEW j \in Journal, Writes(TxnOf(p), j), InTxn(p), ~At(p, "begin"),
             ~(UNCHANGED journal \/ Begin(p) \/ RemoveJournal(p))
      PROVE  /\ journal'[t].original = journal[t].original
             /\ \/ /\ journal'[t].backups = journal[t].backups /\ journal'[t].action = journal[t].action
                \/ /\ Durable(p) /\ t = TxnOf(p) /\ journal'[t].backups = Existed(t)
                   /\ \A f \in File : journal'[t].action[f] = IF f \in proc[p].skip THEN "NoOp" ELSE journal[t].action[f]
  <2> DEFINE u == TxnOf(p)
  <2>1. u \in Txn /\ journal'[u] = j /\ (\A v \in Txn \ {u} : journal'[v] = journal[v])
        /\ j.original = journal[u].original
    BY <1>2, WritesOne DEF Writes
  <2>2. CASE t # u
    BY <2>1, <2>2
  <2>3. CASE t = u /\ Durable(p)
    <3>1. PICK k \in Journal :
                /\ Writes(u, k) /\ k.backups = Existed(u)
                /\ \A f \in File : k.action[f] = IF f \in proc[p].skip THEN "NoOp" ELSE journal[u].action[f]
      BY <2>3, WrittenDurable
    <3>2. journal'[u] = k
      BY <3>1, WritesOne
    <3> QED
      BY <2>1, <2>3, <3>1, <3>2
  <2>4. CASE t = u /\ ~Durable(p)
    <3>1. \E k \in Journal : Keeping(u, k)
      BY <1>2, <2>4, Written
        DEF Step, Fail, Crash, Gate, LockLocal, Write, Recover, RollFile, EnsurePending, LockTxn, Prepare,
          Install, Capture, BackupDone, CollectJournals, CollectOrphans, RemoveOrphans
    <3>2. PICK k \in Journal : Keeping(u, k)
      BY <3>1
    <3>3. journal'[u] = k
      BY <3>2, WritesOne DEF Keeping
    <3> QED
      BY <2>1, <2>4, <3>2, <3>3 DEF Keeping
  <2> QED
    BY <2>2, <2>3, <2>4
<1> QED
  BY <1>1, <1>2, JournalSteps

\* A journal that is to be rolled back keeps the backups it names.
LEMMA BackedKept ==
  ASSUME IInv, NEW p \in Process, Step(p) \/ Fail(p) \/ Crash(p),
         NEW t \in Txn, RolledBackNext(t)'
  PROVE  Backed(t)'
<1>1. t \in Journals' /\ Typed
  BY DEF RolledBackNext, IInv, Control
<1>2. CASE Begin(p) /\ t = proc[p].id
  <2>1. /\ ~Used(t) /\ Journals' = Journals \cup {t} /\ journal'[t].original = file
        /\ journal'[t].backups = {} /\ \A u \in Txn \ {t} : journal'[u] = journal[u]
    BY <1>1, <1>2, BeginsOne, PreparedTyped
  <2>2. UNCHANGED file
    BY <1>2 DEF Begin
  <2>3. ASSUME NEW f \in File PROVE file'[f] # t /\ \A u \in Journals' : journal'[u].original[f] # t
    BY <2>1, <2>2 DEF Used, Journals
  <2> QED
    BY <2>1, <2>3 DEF Backed, Existed
<1>3. CASE RolledBackNext(t) /\ ~(Begin(p) /\ t = proc[p].id)
  <2>1. Backed(t) /\ t \in Journals /\ Data(t)
    BY <1>3 DEF IInv, Data, RolledBackNext
  <2>2. /\ journal'[t].original = journal[t].original
        /\ \/ journal'[t].backups = journal[t].backups
           \/ Durable(p) /\ t = TxnOf(p) /\ journal'[t].backups = Existed(t)
    BY <1>1, <2>1, OriginalKept
  <2>3. Existed(t)' = Existed(t)
    BY <2>2 DEF Existed
  <2> SUFFICES ASSUME NEW f \in Existed(t)
               PROVE  /\ t \notin plundered' /\ f \in journal'[t].backups
                            => artifact'[t].backup[f] = journal[t].original[f]
                      /\ file'[f] = t => f \in journal'[t].backups
                      /\ \A u \in Journals' : journal'[u].original[f] = t => f \in journal'[t].backups
    BY <2>2, <2>3 DEF Backed
  <2>4. f \in File /\ (f \in journal[t].backups => f \in journal'[t].backups)
    BY <2>2 DEF Existed
  <2>5. /\ t \notin plundered /\ f \in journal[t].backups => artifact[t].backup[f] = journal[t].original[f]
        /\ file[f] = t => f \in journal[t].backups
        /\ \A u \in Journals : journal[u].original[f] = t => f \in journal[t].backups
    BY <2>1 DEF Backed
  <2>6. ASSUME t \notin plundered', f \in journal'[t].backups
        PROVE  artifact'[t].backup[f] = journal[t].original[f]
    <3>1. t \notin plundered
      BY <2>6, HistorySteps DEF RemoveOrphans
    <3>2. CASE Durable(p) /\ t = TxnOf(p)
      <4>1. Staged(p)
        BY DEF IInv
      <4> QED
        BY <3>1, <3>2, <4>1 DEF Staged, Durable, At
    <3>3. CASE ~(Durable(p) /\ t = TxnOf(p))
      <4>1. artifact[t].backup[f] = journal[t].original[f] /\ f \in journal[t].backups
        BY <2>2, <2>5, <2>6, <3>1, <3>3
      <4>2. CASE Clean(p)
        <5>1. InTxn(p) /\ At(p, "clean")
          BY <4>2 DEF Clean, InTxn, At, Resolving
        <5>2. journal[TxnOf(p)].state = "CleaningUp"
          BY <5>1, HasJournal DEF Staged, At
        <5>3. t # TxnOf(p)
          BY <1>3, <5>2 DEF RolledBackNext, Rolling
        <5> QED
          BY <1>1, <4>1, <4>2, <5>3 DEF Clean, Typed
      <4>3. CASE Prepare(p)
        <5>1. InTxn(p) /\ At(p, "prepare")
          BY <4>3 DEF Prepare, InTxn, At, Restoring
        <5>2. journal[proc[p].id].backups = {}
          BY <5>1, HasJournal DEF Staged, At, Restoring
        <5>3. t # proc[p].id
          BY <4>1, <5>2
        <5> QED
          BY <1>1, <4>1, <4>3, <5>3 DEF Prepare, Typed
      <4>4. CASE RemoveOrphans(p)
        BY <2>1, <2>6, <4>1, <4>4 DEF RemoveOrphans
      <4> QED
        BY <4>1, <4>2, <4>3, <4>4, HistorySteps
    <3> QED
      BY <3>2, <3>3
  <2>7. ASSUME file'[f] = t PROVE f \in journal'[t].backups
    <3>1. CASE UNCHANGED file
      BY <2>4, <2>5, <2>7, <3>1
    <3>2. CASE Write(p)
      <4>1. proc[p].id # t
        BY <2>1, <3>2 DEF IInv, Fresh, Begun, InTxn, Restoring, Resolving, Write, At, Used
      <4> QED
        BY <1>1, <2>4, <2>5, <2>7, <3>2, <4>1, FileWorked DEF Typed
    <3>3. CASE RollFile(p)
      <4>1. TxnOf(p) \in Journals
        BY <3>3, HasJournal DEF RollFile, InTxn, At, Resolving
      <4> QED
        BY <1>1, <2>4, <2>5, <2>7, <3>3, <4>1, FileWorked DEF Typed
    <3>4. CASE Install(p)
      <4>1. Staged(p) /\ At(p, "install")
        BY <3>4 DEF IInv, Install
      <4>2. t = TxnOf(p) => f \in journal[t].backups
        BY <4>1 DEF Staged, At
      <4> QED
        BY <1>1, <2>4, <2>5, <2>7, <3>4, <4>2, FileWorked DEF Typed
    <3> QED
      BY <3>1, <3>2, <3>3, <3>4, FileSteps
  <2>8. ASSUME NEW u \in Txn, u \in Journals', journal'[u].original[f] = t PROVE f \in journal'[t].backups
    <3>1. CASE u \in Journals
      BY <2>4, <2>5, <2>8, <3>1, OriginalKept
    <3>2. CASE u \notin Journals
      <4>1. Begin(p) /\ u = proc[p].id
        BY <2>8, <3>2, JournalSteps, RemovesOne, BeginsOne, WritesOne DEF Journals
      <4>2. journal'[u].original = file
        BY <1>1, <4>1, BeginsOne, PreparedTyped
      <4> QED
        BY <2>4, <2>5, <2>8, <4>2
    <3> QED
      BY <3>1, <3>2
  <2> QED
    BY <2>6, <2>7, <2>8 DEF Journals
<1> QED
  BY <1>2, <1>3, RollingGrows

---------------------------------------------------------------------------
(* The process that takes the step *)

\* Its transaction stays the same while it works on it.
LEMMA StaysOn ==
  ASSUME IInv, NEW p \in Process, InTxn(p), NEW pc, Goto(p, pc)
  PROVE  /\ proc'[p].pc = pc /\ proc'[p].skip = proc[p].skip
         /\ TxnOf(p)' = TxnOf(p)
<1>1. proc[p] \in Command
  BY DEF IInv, Control, Typed
<1>2. proc'[p] = [proc[p] EXCEPT !.pc = pc]
  BY DEF IInv, Control, Typed, Goto
<1>3. /\ proc'[p].pc = pc /\ proc'[p].id = proc[p].id /\ proc'[p].todo = proc[p].todo
      /\ proc'[p].skip = proc[p].skip
  BY <1>1, <1>2 DEF Command
<1> QED
  BY <1>3 DEF TxnOf, Recovering

\* The steps of a restore leave the journal as the next step expects it.
LEMMA StagedRestore ==
  ASSUME IInv, NEW p \in Process, Typed',
         \/ LockTxn(p) \/ Begin(p) \/ Prepare(p) \/ Durable(p) \/ StartCommit(p)
         \/ Install(p) \/ InstallAdvance(p) \/ CommitLocal(p)
  PROVE  Staged(p)'
<1> DEFINE t == TxnOf(p)
<1>1. Typed /\ Control
  BY DEF IInv, Control
<1>2. ASSUME LockTxn(p) PROVE Staged(p)'
  <2>1. CASE Goto(p, "begin")
    <3>1. proc'[p].pc = "begin"
      BY <1>1, <2>1 DEF Goto, Typed, Command
    <3> QED
      BY <3>1 DEF Staged, InTxn, At
  <2>2. CASE Finish(p)
    <3>1. proc'[p] = Idle
      BY <1>1, <2>2 DEF Finish, Typed
    <3> QED
      BY <3>1 DEF Staged, InTxn, At, Idle, Restoring, Resolving
  <2> QED
    BY <1>2, <2>1, <2>2 DEF LockTxn
<1>3. ASSUME Begin(p) PROVE Staged(p)'
  <2>1. InTxn(p) /\ Goto(p, "prepare")
    BY <1>3 DEF Begin, InTxn, At, Restoring
  <2>2. /\ t \in Journals' /\ journal'[t] = Prepared
    BY <1>3, BeginsOne
  <2>3. journal'[t].state = "Prepared" /\ journal'[t].backups = {} /\ journal'[t].original = file'
    BY <1>1, <1>3, <2>2, PreparedTyped DEF Begin
  <2>4. proc'[p].pc = "prepare" /\ TxnOf(p)' = t
    BY <2>1, StaysOn
  <2> QED
    BY <2>2, <2>3, <2>4 DEF Staged, At
<1>4. ASSUME Prepare(p) PROVE Staged(p)'
  <2>1. InTxn(p) /\ At(p, "prepare") /\ proc[p].pc \in Restoring
    BY <1>4 DEF Prepare, InTxn, At, Restoring
  <2>2. t \in Journals /\ t = proc[p].id /\ Staged(p)
    BY <2>1, HasJournal DEF At
  <2>3. proc'[p].pc = "durable" /\ TxnOf(p)' = t
    BY <1>1, <1>4, <2>2, PrepareHands DEF TxnOf, Recovering
  <2>4. journal' = journal /\ artifact'[t].backup = file
    <3>1. PICK skip : artifact' = [artifact EXCEPT ![t] =
                     [root |-> TRUE, backup |-> file, staged |-> File \ skip]]
      BY <1>4, <2>2 DEF Prepare
    <3>2. t \in Txn /\ artifact \in [Txn -> Artifact]
      BY <1>1, <2>2 DEF Typed, Journals
    <3>3. artifact'[t] = [root |-> TRUE, backup |-> file, staged |-> File \ skip]
      BY <3>1, <3>2
    <3> QED
      BY <1>4, <3>3 DEF Prepare
  <2>5. journal[t].state = "Prepared" /\ journal[t].backups = {} /\ journal[t].original = file
    BY <2>1, <2>2 DEF Staged
  <2> QED
    BY <2>2, <2>3, <2>4, <2>5 DEF Staged, At, Journals
<1>5. ASSUME Durable(p) PROVE Staged(p)'
  <2>1. InTxn(p) /\ Goto(p, "commit")
    BY <1>5 DEF Durable, InTxn, At, Restoring
  <2>2. PICK j \in Journal : Writes(t, j) /\ j.state = "BackupsDurable" /\ j.backups = Existed(t)
    BY <1>5, WrittenDurable
  <2>3. journal'[t] = j /\ t \in Journals' /\ j.original = journal[t].original
    BY <2>2, WritesOne DEF Writes
  <2>4. proc'[p].pc = "commit" /\ TxnOf(p)' = t /\ Existed(t)' = Existed(t)
    BY <2>1, <2>3, StaysOn DEF Existed
  <2> QED
    BY <2>2, <2>3, <2>4 DEF Staged, At
<1>6. ASSUME StartCommit(p) PROVE Staged(p)'
  <2>1. InTxn(p) /\ Goto(p, "install") /\ At(p, "commit")
    BY <1>6 DEF StartCommit, InTxn, At, Restoring
  <2>2. PICK j \in Journal : Keeping(t, j) /\ j.state = "Committing" /\ j.position = 0
    BY <1>6, Written
  <2>3. journal'[t] = j /\ t \in Journals' /\ j.original = journal[t].original /\ j.backups = journal[t].backups
    BY <2>2, WritesOne DEF Keeping, Writes
  <2>4. proc'[p].pc = "install" /\ TxnOf(p)' = t /\ Existed(t)' = Existed(t)
    BY <2>1, <2>3, StaysOn DEF Existed
  <2>5. journal[t].backups = Existed(t)
    BY <2>1 DEF IInv, Staged, At
  <2>6. 0 < NumFiles
    BY BoundsAssumption
  <2> QED
    BY <2>2, <2>3, <2>4, <2>5, <2>6 DEF Staged, At
<1>7. ASSUME Install(p) PROVE Staged(p)'
  <2>1. InTxn(p) /\ At(p, "install") /\ UNCHANGED journal
        /\ \E pc \in {"rollback", "installed"} : Goto(p, pc)
    BY <1>7 DEF Install, InTxn, At, Restoring
  <2>2. t \in Journals /\ journal[t].state = "Committing" /\ journal[t].backups = Existed(t)
        /\ journal[t].position < NumFiles
    BY <2>1, HasJournal DEF Staged, At
  <2>3. proc'[p].pc \in {"rollback", "installed"} /\ TxnOf(p)' = t
    BY <2>1, StaysOn
  <2> QED
    BY <2>1, <2>2, <2>3 DEF Staged, At, Journals, Existed, Rolling
<1>8. ASSUME InstallAdvance(p) PROVE Staged(p)'
  <2>1. InTxn(p) /\ At(p, "installed") /\ proc[p].pc \in Restoring
    BY <1>8 DEF InstallAdvance, InTxn, At, Restoring
  <2>2. t \in Journals /\ t = proc[p].id /\ journal[t].state = "Committing" /\ journal[t].backups = Existed(t)
    BY <2>1, HasJournal DEF Staged, At
  <2> DEFINE next == journal[t].position + 1
  <2>3. Goto(p, IF next < NumFiles THEN "install"
                ELSE IF Restored(t) # {} THEN "commitLocal" ELSE "beginCleanup")
    BY <1>8, <2>2 DEF InstallAdvance
  <2>4. PICK j \in Journal : Keeping(t, j) /\ j.state = "Committing" /\ j.position = next
    BY <1>8, <2>2, Written
  <2>5. journal'[t] = j /\ t \in Journals' /\ j.original = journal[t].original /\ j.backups = journal[t].backups
    BY <2>4, WritesOne DEF Keeping, Writes
  <2>6. /\ proc'[p].pc \in {"install", "commitLocal", "beginCleanup"}
        /\ proc'[p].pc = "install" => next < NumFiles
        /\ TxnOf(p)' = t /\ Existed(t)' = Existed(t)
    BY <2>1, <2>3, <2>5, StaysOn DEF Existed
  <2>7. t \notin done'
    BY <1>8, <2>2 DEF IInv, Data, Committed, InstallAdvance, history
  <2> QED
    BY <2>2, <2>4, <2>5, <2>6, <2>7 DEF Staged, At
<1>9. ASSUME CommitLocal(p) PROVE Staged(p)'
  <2>1. InTxn(p) /\ Goto(p, "pending")
    BY <1>9 DEF CommitLocal, InTxn, At, Restoring
  <2>2. PICK j \in Journal : Writes(t, j)
    BY <1>9, Written DEF Keeping
  <2>3. t \in Journals'
    BY <2>2, WritesOne DEF Writes
  <2>4. proc'[p].pc = "pending" /\ TxnOf(p)' = t
    BY <2>1, StaysOn
  <2> QED
    BY <2>3, <2>4 DEF Staged, At
<1> QED
  BY <1>2, <1>3, <1>4, <1>5, <1>6, <1>7, <1>8, <1>9

\* So do the steps of a recovery.
LEMMA StagedRecovery ==
  ASSUME IInv, NEW p \in Process, Typed',
         \/ Recover(p) \/ RollBegin(p) \/ RollFile(p) \/ RollAdvance(p)
         \/ EnsurePending(p) \/ RecordPending(p) \/ BeginCleanup(p) \/ Clean(p) \/ RemoveJournal(p)
  PROVE  Staged(p)'
<1> DEFINE t == TxnOf(p)
<1>1. Typed /\ Control
  BY DEF IInv, Control
<1>2. ASSUME ~InTxn(p)' PROVE Staged(p)'
  BY <1>2 DEF Staged, InTxn, At, Restoring, Resolving
<1>3. ASSUME Recover(p) PROVE Staged(p)'
  <2> DEFINE u == Head(proc[p].todo)[1]
  <2>1. CASE ~InTxn(p)'
    BY <1>2, <2>1
  <2>2. CASE InTxn(p)'
    <3>1. /\ u \in Journals /\ TxnOf(p)' = u
          /\ Class(u) \in Resolvable /\ proc'[p].pc = FirstStep(u)[Class(u)]
      BY <1>1, <1>3, <2>2, RecoverHands
    <3>2. UNCHANGED <<journal, done, intent>>
      BY <1>3 DEF Recover, history
    <3>3. /\ Class(u) = "Rollback" <=> journal[u].state \in Rolling
          /\ Class(u) = "FinalizeCommittedLocal" <=> journal[u].state = "CommittedLocal"
          /\ Class(u) = "ResumeCleanup" <=> journal[u].state = "CleaningUp"
      BY <1>1, <3>1, ClassTyped
    <3>4. u \in done => Committed(u)
      BY <3>1 DEF IInv, Data
    <3>5. journal[u].pending \in {"NotRecorded", "Recorded"}
      BY <1>1, <3>1 DEF Typed, Journals, Journal, Pending
    <3>6. CASE Class(u) = "Rollback"
      <4>1. proc'[p].pc = "rollback"
        BY <3>1, <3>6 DEF FirstStep
      <4> QED
        BY <3>1, <3>2, <3>3, <3>6, <4>1 DEF Staged, At, Journals
    <3>7. CASE Class(u) = "FinalizeCommittedLocal"
      <4>1. /\ proc'[p].pc \in {"pending", "recorded"}
            /\ proc'[p].pc = "recorded" => journal[u].pending = "Recorded"
        BY <3>1, <3>5, <3>7 DEF FirstStep
      <4> QED
        BY <3>1, <3>2, <3>4, <4>1 DEF Staged, At, Journals, Committed
    <3>8. CASE Class(u) = "ResumeCleanup"
      <4>1. proc'[p].pc = "clean"
        BY <3>1, <3>8 DEF FirstStep
      <4> QED
        BY <3>1, <3>2, <3>3, <3>8, <4>1 DEF Staged, At, Journals
    <3>9. CASE Class(u) \in {"CleanupLegacyCommitted", "CleanupLegacyRolledBack", "RemoveTerminalJournal"}
      <4>1. proc'[p].pc \in {"beginCleanup", "removeTerminal"}
        BY <3>1, <3>9 DEF FirstStep
      <4>2. u \notin done
        BY <3>3, <3>4, <3>9 DEF Committed
      <4> QED
        BY <3>1, <3>2, <4>1, <4>2 DEF Staged, At, Journals
    <3> QED
      BY <3>1, <3>6, <3>7, <3>8, <3>9 DEF Resolvable
  <2> QED
    BY <2>1, <2>2
<1>4. ASSUME RollBegin(p) PROVE Staged(p)'
  <2> DEFINE from == IF journal[t].state = "RollingBack" THEN journal[t].position ELSE 0
  <2>1. InTxn(p) /\ At(p, "rollback") /\ Goto(p, IF from < NumFiles THEN "restoreFile" ELSE "beginCleanup")
    BY <1>4 DEF RollBegin, InTxn, At, Resolving
  <2>2. PICK j \in Journal : Keeping(t, j) /\ j.state = "RollingBack" /\ j.position = from
    BY <1>4, Written
  <2>3. journal'[t] = j /\ t \in Journals'
    BY <2>2, WritesOne DEF Keeping, Writes
  <2>4. /\ proc'[p].pc \in {"restoreFile", "beginCleanup"} /\ TxnOf(p)' = t
        /\ proc'[p].pc = "restoreFile" => from < NumFiles
    BY <2>1, StaysOn
  <2>5. t \notin done'
    <3>1. journal[t].state \in Rolling /\ t \in Journals
      BY <2>1, HasJournal DEF Staged, At
    <3> QED
      BY <1>4, <3>1 DEF IInv, Data, Committed, RollBegin, history, Rolling
  <2> QED
    BY <2>2, <2>3, <2>4, <2>5 DEF Staged, At
<1>5. ASSUME RollFile(p) PROVE Staged(p)'
  <2>1. InTxn(p) /\ At(p, "restoreFile") /\ UNCHANGED <<journal, started>>
    BY <1>5 DEF RollFile, InTxn, At, Resolving
  <2>2. t \in Journals /\ journal[t].state = "RollingBack" /\ journal[t].position < NumFiles
    BY <2>1, HasJournal DEF Staged, At
  <2>3. CASE Goto(p, "rolled")
    <3>1. proc'[p].pc = "rolled" /\ TxnOf(p)' = t
      BY <2>1, <2>3, StaysOn
    <3> QED
      BY <2>1, <2>2, <3>1 DEF Staged, At, Journals
  <2>4. CASE Return(p, FALSE)
    BY <1>1, <1>2, <2>1, <2>4, Returns DEF At
  <2> QED
    BY <1>5, <2>3, <2>4 DEF RollFile
<1>6. ASSUME RollAdvance(p) PROVE Staged(p)'
  <2> DEFINE next == journal[t].position + 1
  <2>1. InTxn(p) /\ At(p, "rolled") /\ Goto(p, IF next = NumFiles THEN "beginCleanup" ELSE "restoreFile")
    BY <1>6 DEF RollAdvance, InTxn, At, Resolving
  <2>2. t \in Journals /\ journal[t].state = "RollingBack" /\ journal[t].position < NumFiles
        /\ journal[t] \in Journal
    BY <2>1, HasJournal DEF Staged, At
  <2>3. PICK j \in Journal : Keeping(t, j) /\ j.state = "RollingBack" /\ j.position = next
    BY <1>6, <2>2, Written
  <2>4. journal'[t] = j /\ t \in Journals'
    BY <2>3, WritesOne DEF Keeping, Writes
  <2>5. next = NumFiles \/ next < NumFiles
    <3>1. journal[t].position \in 0..NumFiles /\ NumFiles \in Nat
      BY <2>2, BoundsAssumption DEF Journal
    <3> QED
      BY <2>2, <3>1
  <2>6. /\ proc'[p].pc \in {"restoreFile", "beginCleanup"} /\ TxnOf(p)' = t
        /\ proc'[p].pc = "restoreFile" => next < NumFiles
    BY <2>1, <2>5, StaysOn
  <2>7. t \notin done'
    BY <1>6, <2>2 DEF IInv, Data, Committed, RollAdvance, history
  <2> QED
    BY <2>3, <2>4, <2>6, <2>7 DEF Staged, At
<1>7. ASSUME EnsurePending(p) PROVE Staged(p)'
  <2>1. InTxn(p) /\ ~At(p, "begin") /\ Goto(p, "recorded") /\ UNCHANGED journal /\ t \in intent'
    BY <1>7 DEF EnsurePending, InTxn, At, Resolving
  <2>2. proc'[p].pc = "recorded" /\ TxnOf(p)' = t /\ t \in Journals
    BY <2>1, StaysOn, HasJournal
  <2> QED
    BY <2>1, <2>2 DEF Staged, At, Journals
<1>8. ASSUME RecordPending(p) PROVE Staged(p)'
  <2>1. InTxn(p) /\ At(p, "recorded") /\ Goto(p, "beginCleanup") /\ UNCHANGED <<done, intent>>
    BY <1>8 DEF RecordPending, InTxn, At, Resolving, history
  <2>2. PICK j \in Journal : Writes(t, j)
    BY <1>8, Written DEF Keeping
  <2>3. t \in Journals'
    BY <2>2, WritesOne DEF Writes
  <2>4. proc'[p].pc = "beginCleanup" /\ TxnOf(p)' = t
    BY <2>1, StaysOn
  <2>5. t \in done => t \in intent
    BY <2>1, HasJournal DEF Staged, At
  <2> QED
    BY <2>1, <2>3, <2>4, <2>5 DEF Staged, At
<1>9. ASSUME BeginCleanup(p) PROVE Staged(p)'
  <2>1. InTxn(p) /\ Goto(p, "clean")
    BY <1>9 DEF BeginCleanup, InTxn, At, Resolving
  <2>2. PICK j \in Journal : Writes(t, j) /\ j.state = "CleaningUp"
    BY <1>9, Written DEF Keeping
  <2>3. t \in Journals' /\ journal'[t] = j
    BY <2>2, WritesOne DEF Writes
  <2>4. proc'[p].pc = "clean" /\ TxnOf(p)' = t
    BY <2>1, StaysOn
  <2> QED
    BY <2>2, <2>3, <2>4 DEF Staged, At
<1>10. ASSUME Clean(p) PROVE Staged(p)'
  <2>1. InTxn(p) /\ At(p, "clean") /\ UNCHANGED proc
    BY <1>10 DEF Clean, InTxn, At, Resolving
  <2>2. PICK j \in Journal : Writes(t, j) /\ j.state = journal[t].state
    BY <1>10, Written DEF Keeping
  <2>3. t \in Journals' /\ journal'[t] = j
    BY <2>2, WritesOne DEF Writes
  <2>4. journal[t].state = "CleaningUp"
    BY <2>1, HasJournal DEF Staged, At
  <2>5. TxnOf(p)' = t /\ proc'[p].pc = "clean"
    BY <2>1 DEF TxnOf, Recovering, At
  <2> QED
    BY <2>2, <2>3, <2>4, <2>5 DEF Staged, At
<1>11. ASSUME RemoveJournal(p) PROVE Staged(p)'
  <2>1. Return(p, TRUE) /\ started' = started /\ ~At(p, "idle") /\ ~At(p, "collectOrphans")
    BY <1>11 DEF RemoveJournal, At
  <2> QED
    BY <1>1, <1>2, <2>1, Returns
<1> QED
  BY <1>3, <1>4, <1>5, <1>6, <1>7, <1>8, <1>9, <1>10, <1>11

\* After any step each command finds its journal as its place says.
LEMMA StagedKept ==
  ASSUME IInv, NEW p \in Process, Step(p) \/ Fail(p) \/ Crash(p), Handed(p), Typed',
         NEW q \in Process
  PROVE  Staged(q)'
<1>1. Typed /\ Control
  BY DEF IInv, Control
<1>2. ASSUME proc'[p] = Idle \/ proc'[p].pc \in {"lockTxn", "write", "capture", "lockLocal", "recover",
                  "removeOrphans", "collectOrphans"}
      PROVE  Staged(p)'
  BY <1>2 DEF Staged, InTxn, At, Restoring, Resolving, Idle
<1>3. ASSUME \/ Gate(p) \/ LockLocal(p) \/ Write(p) \/ BackupDone(p) \/ RemoveOrphans(p) \/ Crash(p)
             \/ Capture(p) \/ CollectJournals(p) \/ CollectOrphans(p)
      PROVE  Staged(p)'
  <2>1. proc[p] \in Command /\ Placed(p)
    BY <1>1 DEF Control, Typed
  <2>2. CASE Finish(p) \/ Crash(p)
    <3>1. proc'[p] = Idle
      BY <1>1, <2>2 DEF Finish, Crash, Typed
    <3> QED
      BY <1>2, <3>1
  <2>3. CASE Capture(p)
    BY <1>1, <1>2, <2>3, CaptureHands
  <2>4. CASE ~Finish(p) /\ ~Crash(p) /\ ~Capture(p)
    <3>1. proc'[p].pc \in {"lockTxn", "write", "capture", "lockLocal", "recover", "removeOrphans", "collectOrphans"}
      <4>1. CASE Gate(p)
        <5>1. PICK todo : proc' = [proc EXCEPT ![p].todo = todo,
                               ![p].pc = IF todo = <<>> THEN "lockLocal" ELSE "recover"]
          BY <2>4, <4>1 DEF Gate
        <5> QED
          BY <1>1, <2>1, <5>1 DEF Typed, Command
      <4>2. CASE LockLocal(p)
        <5>1. proc[p].op \in {"restore", "edit", "backup"}
          BY <2>1, <4>2 DEF LockLocal, Placed, At, Op
        <5>2. \E pc \in {"lockTxn", "write", "capture"} : Goto(p, pc)
          BY <2>4, <4>2, <5>1 DEF LockLocal
        <5> QED
          BY <1>1, <2>1, <5>2 DEF Goto, Typed, Command
      <4>3. CASE CollectJournals(p)
        BY <1>1, <2>1, <4>3 DEF CollectJournals, Typed, Command
      <4>4. CASE CollectOrphans(p)
        BY <1>1, <2>1, <4>4 DEF CollectOrphans, Typed, Command
      <4> QED
        BY <1>3, <2>4, <4>1, <4>2, <4>3, <4>4 DEF Write, BackupDone, RemoveOrphans
    <3> QED
      BY <1>2, <3>1
  <2> QED
    BY <2>2, <2>3, <2>4
<1>4. ASSUME Fail(p) PROVE Staged(p)'
  <2>1. CASE proc[p].pc \in {"install", "installed"}
    <3> DEFINE t == TxnOf(p)
    <3>1. InTxn(p) /\ ~At(p, "begin") /\ Goto(p, "rollback") /\ UNCHANGED journal
      BY <1>4, <2>1 DEF Fail, InTxn, At, Restoring
    <3>2. proc'[p].pc = "rollback" /\ TxnOf(p)' = t /\ t \in Journals /\ Staged(p)
      BY <3>1, StaysOn, HasJournal
    <3>3. journal[t].state \in Rolling
      BY <2>1, <3>2 DEF Staged, Rolling
    <3> QED
      BY <3>1, <3>2, <3>3 DEF Staged, At, Journals
  <2>2. CASE At(p, "collectOrphans")
    BY <1>1, <1>2, <1>4, <2>2, Finishes DEF Fail, At
  <2>3. CASE ~At(p, "collectOrphans") /\ proc[p].pc \notin {"install", "installed"}
    BY <1>1, <1>2, <1>4, <2>3, Returns DEF Fail, At
  <2> QED
    BY <2>1, <2>2, <2>3
<1> QED
  BY <1>3, <1>4, StagedOthers, StagedRestore, StagedRecovery DEF Step

---------------------------------------------------------------------------
(* The inductive invariant *)

\* What a step leaves of a command that starts.
LEMMA StartKept ==
  ASSUME IInv, NEW p \in Process, NEW op \in Op, Start(p, op)
  PROVE  IInv'
<1>1. Control /\ Typed /\ Handed(p)
  BY StartHands DEF IInv, Control
<1>2. UNCHANGED <<file, journal, artifact, faults, done, intent, exposed, plundered>>
  BY DEF Start, history
<1>3. Typed'
  BY <1>1, <1>2 DEF Typed, Handed, Hands, Free
<1>4. Control'
  BY <1>1, <1>3, ControlKept DEF Control
<1>5. /\ proc'[p].id = started + 2 /\ proc'[p].pc \in {"lockLocal", "collect", "gate"}
      /\ proc'[p].snapshot = <<>>
  BY <1>1 DEF Start, Typed, Idle
<1>6. /\ started' = started + 1 /\ started \in Int
      /\ \A m \in 0..MaxOps, c \in 0..(MaxOps + 1) :
            c <= m + 1 => c <= (m + 1) + 1 /\ c # m + 2
  BY <1>1, BoundsAssumption DEF Start, Typed
<1>7. \A c \in Content : Used(c)' <=> Used(c)
  BY <1>2 DEF Used, Journals
<1>8. \A c \in Content : Used(c) => c <= started' + 1 /\ c # started + 2
  <2>1. Content = 0..(MaxOps + 1)
    BY BoundsAssumption DEF Content, Txn, Absent
  <2>2. \A c \in Content : Used(c) => c <= started + 1
    BY DEF IInv, Fresh
  <2>3. started \in 0..MaxOps
    BY <1>1 DEF Typed
  <2> QED
    BY <1>6, <2>1, <2>2, <2>3
<1>9. \A q \in Process \ {p} : ~At(q, "idle") => proc[q].id # started + 2
  <2>1. \A m \in 0..MaxOps : m + 2 \notin 2..(m + 1)
    BY BoundsAssumption
  <2> QED
    BY <1>1, <2>1 DEF Control, Typed, Placed
<1>10. \A q \in Process : proc'[q].id \in Content /\ proc[q].id \in Content
  <2>1. \A q \in Process : proc'[q] \in Command /\ proc[q] \in Command
    BY <1>1, <1>3 DEF Typed
  <2> QED
    BY <2>1 DEF Command, Content, Absent
<1>11. Fresh'
  <2>1. \A c \in Content : Used(c)' => c <= started' + 1
    BY <1>7, <1>8
  <2>2. ASSUME NEW q \in Process, Used(proc[q].id)', ~At(q, "idle")' PROVE Begun(q)'
    <3>1. q # p
      BY <1>5, <1>7, <1>8, <1>10, <2>2
    <3>2. proc'[q] = proc[q]
      BY <1>1, <3>1 DEF Handed
    <3>3. Used(proc[q].id) /\ ~At(q, "idle")
      BY <1>7, <1>10, <2>2, <3>2 DEF At
    <3>4. Begun(q)
      BY <3>3 DEF IInv, Fresh
    <3> QED
      BY <3>2, <3>4 DEF Begun, InTxn, At
  <2>3. ASSUME NEW a \in Process, NEW b \in Process, ~At(a, "idle")', proc'[a].id = proc'[b].id
        PROVE  a = b
    <3>1. \A q \in Process \ {p} : proc'[q] = proc[q]
      BY <1>1 DEF Handed
    <3>2. \A q \in Process \ {p} : proc[q].id # started + 2
      <4>1. \A q \in Process : At(q, "idle") => proc[q].id = 0
        BY <1>1 DEF Control, Placed, Idle
      <4>2. started + 2 # 0
        BY <1>1 DEF Typed
      <4> QED
        BY <1>9, <4>1, <4>2
    <3>3. CASE a = p \/ b = p
      BY <1>5, <2>3, <3>1, <3>2, <3>3
    <3>4. CASE a # p /\ b # p
      BY <2>3, <3>1, <3>4 DEF IInv, Fresh, At
    <3> QED
      BY <3>3, <3>4
  <2>4. Legacy \notin done'
    BY <1>2 DEF IInv, Fresh
  <2> QED
    BY <2>1, <2>2, <2>3, <2>4 DEF Fresh
<1>12. ASSUME NEW q \in Process PROVE Staged(q)' /\ Read(q)'
  <2>1. CASE q = p
    BY <1>5, <2>1 DEF Staged, Read, InTxn, At, Restoring, Resolving
  <2>2. CASE q # p
    <3>1. proc'[q] = proc[q] /\ Staged(q) /\ Read(q)
      BY <1>1, <2>2 DEF Handed, IInv
    <3>2. TxnOf(q)' = TxnOf(q) /\ Journals' = Journals /\ \A t : Existed(t)' = Existed(t)
      BY <1>2, <3>1 DEF TxnOf, Recovering, Journals, Existed
    <3>3. Staged(q)'
      BY <1>2, <3>1, <3>2 DEF Staged, InTxn, At
    <3>4. Read(q)'
      BY <1>2, <3>1 DEF Read, At, OfClass, Class, Journals
    <3> QED
      BY <3>3, <3>4
  <2> QED
    BY <2>1, <2>2
<1>13. \A t \in Journals' : Data(t)'
  BY <1>2 DEF IInv, Data, Committed, RolledBackNext, Backed, Journals, Existed
<1> QED
  BY <1>4, <1>11, <1>12, <1>13 DEF IInv

\* What a step, a failure or a crash of a process leaves.
LEMMA StepKept ==
  ASSUME IInv, NEW p \in Process, Step(p) \/ Fail(p) \/ Crash(p)
  PROVE  IInv'
<1>1. Handed(p)
  BY StepHands DEF IInv
<1>2. Typed'
  BY <1>1, TypedKept
<1>3. Control'
  BY <1>1, <1>2, ControlKept DEF IInv, Control
<1>4. Fresh'
  BY <1>1, FreshKept
<1>5. \A q \in Process : Staged(q)' /\ Read(q)'
  BY <1>1, <1>2, StagedKept, ReadKept
<1>6. ASSUME NEW t \in Txn, t \in Journals' PROVE Data(t)'
  <2>1. t \in done' => Committed(t)'
    BY <1>6, CommittedKept
  <2>2. RolledBackNext(t)' => Backed(t)'
    BY BackedKept
  <2> QED
    BY <2>1, <2>2 DEF Data
<1>7. Journals' \subseteq Txn
  BY DEF Journals
<1> QED
  BY <1>3, <1>4, <1>5, <1>6, <1>7 DEF IInv

\* At first there is at most the journal an older version left, and nothing runs.
LEMMA InitInv ==
  ASSUME Init
  PROVE  IInv
<1>1. PICK s \in {"none", "Committed", "RolledBack", "Failed"}, r \in BOOLEAN :
          /\ journal = [t \in Txn |-> IF t = Legacy /\ s # "none"
                                      THEN [Prepared EXCEPT !.state = s] ELSE NoJournal]
          /\ artifact = [t \in Txn |-> IF t = Legacy THEN [NoArtifact EXCEPT !.root = r]
                                       ELSE NoArtifact]
          /\ started = IF s = "none" THEN 0 ELSE 1
  BY DEF Init
<1>2. 0 \in 0..NumFiles /\ 0 \in 0..MaxFaults /\ 0 \in 0..MaxOps /\ 1 \in 0..MaxOps
      /\ Legacy \in Txn /\ MaxOps \in Nat
  BY BoundsAssumption DEF Txn, Legacy
<1>3. file \in [File -> {Absent, Legacy}]
  BY BoundsAssumption DEF Init, File, Absent, Legacy
<1>4. file \in [File -> Content]
  BY <1>2, <1>3 DEF Content
<1> DEFINE action == [f \in File |-> IF file[f] = Absent THEN "Create" ELSE "Replace"]
           left == [Prepared EXCEPT !.state = s]
<1>5. NoJournal.state = "none" /\ NoJournal.original = [f \in File |-> Absent]
      /\ NoJournal \in [state : {"none"}, position : 0..NumFiles, pending : Pending,
            outcome : Outcome, step : CleanupStep, original : [File -> Content],
            action : [File -> Action], backups : SUBSET File]
  BY <1>2 DEF NoJournal, Pending, Outcome, CleanupStep, Content, Action
<1>6. action \in [File -> Action]
  BY DEF Action
<1>7. Prepared = [NoJournal EXCEPT !.state = "Prepared", !.original = file, !.action = action]
  BY DEF Prepared
<1> HIDE DEF action
<1>8. s # "none" => left \in Journal /\ left.state = s /\ left.original = file /\ left # NoJournal
  BY <1>1, <1>4, <1>5, <1>6, <1>7 DEF Journal, State
<1> HIDE DEF left
<1>9. journal = [t \in Txn |-> IF t = Legacy /\ s # "none" THEN left ELSE NoJournal]
  BY <1>1 DEF left
<1>10. NoArtifact \in Artifact /\ [NoArtifact EXCEPT !.root = r] \in Artifact
  BY DEF NoArtifact, Artifact, Content
<1>11. Idle \in Command /\ Idle.pc = "idle" /\ Idle.id = 0
  BY DEF Idle, Command, Place
<1>12. Typed
  <2>1. journal \in [Txn -> Journal \cup {NoJournal}]
    BY <1>8, <1>9
  <2>2. artifact \in [Txn -> Artifact]
    BY <1>1, <1>10
  <2>3. started \in 0..MaxOps /\ faults \in 0..MaxFaults
    BY <1>1, <1>2 DEF Init
  <2>4. proc \in [Process -> Command]
    BY <1>11 DEF Init
  <2> QED
    BY <1>4, <2>1, <2>2, <2>3, <2>4 DEF Init, Typed
<1>13. \A p \in Process : proc[p] = Idle /\ At(p, "idle")
  BY <1>11 DEF Init, At
<1>14. Control
  <2>1. Owned
    BY OwnerAssumption DEF Init, Owned
  <2>2. \A p \in Process : Placed(p) /\ Locked(p)
    BY <1>13 DEF Placed, Locked, At, Recovering, InTxn, InLocal, Idle, Restoring, Resolving
  <2> QED
    BY <1>12, <2>1, <2>2 DEF Control
<1>15. \A t \in Journals : t = Legacy /\ s # "none" /\ journal[t] = left
  BY <1>9 DEF Journals
<1>16. Fresh
  <2>1. ASSUME NEW c \in Content, Used(c) PROVE c <= started + 1
    <3>1. c \in {Absent, Legacy}
      BY <1>3, <1>8, <1>15, <2>1 DEF Used, Init
    <3>2. started \in {0, 1}
      BY <1>1
    <3> QED
      BY <3>1, <3>2 DEF Absent, Legacy
  <2> QED
    BY <1>13, <2>1 DEF Fresh, Init
<1>17. \A p \in Process : Staged(p) /\ Read(p)
  BY <1>13 DEF Staged, Read, InTxn, At, Restoring, Resolving
<1>18. \A t \in Journals : Data(t)
  <2>1. \A t \in Journals : journal[t].state \in {"Committed", "RolledBack", "Failed"}
    BY <1>8, <1>15
  <2> QED
    BY <2>1 DEF Data, Init, RolledBackNext, Rolling
<1> QED
  BY <1>14, <1>16, <1>17, <1>18 DEF IInv

\* A stuttering step changes nothing of it.
LEMMA StutterKept ==
  ASSUME IInv, UNCHANGED vars
  PROVE  IInv'
<1> USE DEF vars, history
<1>1. Typed' /\ Owned' /\ Fresh'
  BY DEF IInv, Control, Typed, Owned, Fresh, Used, Begun, InTxn, At, Journals
<1>2. \A p \in Process : Placed(p)' /\ Locked(p)'
  BY DEF IInv, Control, Placed, Locked, InTxn, InLocal, At, Recovering
<1>3. ASSUME NEW p \in Process PROVE Staged(p)'
  <2>1. TxnOf(p)' = TxnOf(p) /\ Journals' = Journals /\ \A t : Existed(t)' = Existed(t)
    BY DEF TxnOf, Recovering, Journals, Existed
  <2>2. Staged(p)
    BY DEF IInv
  <2> QED
    BY <2>1, <2>2 DEF Staged, InTxn, At
<1>4. \A p \in Process : Read(p)'
  BY DEF IInv, Read, At, OfClass, Class, Journals
<1>5. \A t \in Journals' : Data(t)'
  BY DEF IInv, Data, Committed, RolledBackNext, Backed, Journals, Existed
<1> QED
  BY <1>1, <1>2, <1>3, <1>4, <1>5 DEF IInv, Control

\* The invariant of all that follows: who holds which lock, what the journal of a
\* transaction says while it is worked on, and what its backups are good for.
THEOREM Invariance == Spec => []IInv
<1>1. ASSUME IInv, [Next]_vars PROVE IInv'
  BY <1>1, StartKept, StepKept, StutterKept DEF Next
<1> QED
  BY InitInv, <1>1, PTL DEF Spec

---------------------------------------------------------------------------
(* What follows from it *)

\* The variables have their types, and a lock's live owner is running.
THEOREM TypeCorrect == Spec => []TypeOK
<1>1. ASSUME IInv PROVE TypeOK
  <2>1. \A p \in Process : proc[p].op \in Op \cup {"none"} /\ proc[p].id \in Txn \cup {0}
    BY <1>1 DEF IInv, Control, Typed, Command
  <2>2. \A lock \in {localLock, txnLock} : Free(lock) \/ (lock \in Process /\ ~At(lock, "idle"))
    BY <1>1 DEF IInv, Control, Typed, Owned, Free
  <2> QED
    BY <1>1, <2>1, <2>2 DEF IInv, Control, Typed, TypeOK
<1> QED
  BY <1>1, Invariance, PTL

\* An interrupted restore can put back whatever it overwrote, however many commands
\* fail, die or resume one another's rollbacks.
THEOREM BackupsSuffice == Spec => []OverwrittenIsBackedUp
<1>1. ASSUME IInv PROVE OverwrittenIsBackedUp
  <2>1. \A t \in OfClass("Rollback") : RolledBackNext(t)
    BY <1>1, RollbackSet DEF IInv, Control
  <2>2. \A t \in OfClass("Rollback") : Backed(t)
    BY <1>1, <2>1 DEF IInv, Data, RolledBackNext
  <2> QED
    BY <2>2 DEF OverwrittenIsBackedUp, Backed
<1> QED
  BY <1>1, Invariance, PTL

\* No restore that took effect is cleaned up before its pending intent is there.
THEOREM IntentFirst == Spec => []IntentBeforeCleanup
<1>1. ASSUME IInv PROVE IntentBeforeCleanup
  <2>1. \A t \in done : journal[t] # NoJournal => t \in Journals
    BY <1>1 DEF IInv, Control, Typed, Journals
  <2> QED
    BY <1>1, <2>1 DEF IInv, Data, Committed, IntentBeforeCleanup
<1> QED
  BY <1>1, Invariance, PTL

\* A backup that met no interrupted restore is one state of all the files.
THEOREM BackupsAreWhole == Spec => []SnapshotsWhole
<1>1. ASSUME IInv PROVE SnapshotsWhole
  <2> SUFFICES ASSUME NEW p \in Process, At(p, "capture"), Len(proc[p].snapshot) = NumFiles, proc[p].clean,
                      NEW f \in File
               PROVE  proc[p].snapshot[f] = Logical[f]
    BY DEF SnapshotsWhole
  <2>1. NumFiles # 0 /\ \A g \in File : g <= NumFiles
    BY BoundsAssumption DEF File
  <2>2. proc[p].snapshot # <<>>
    BY <2>1
  <2>3. OfClass("Rollback") = {} /\ proc[p].snapshot[f] = file[f]
    BY <1>1, <2>1, <2>2 DEF IInv, Read
  <2>4. Logical[f] = file[f]
    BY <2>3 DEF Logical
  <2> QED
    BY <2>3, <2>4
<1> QED
  BY <1>1, Invariance, PTL

\* Only a restore that begins brings a journal about: what is resolved stays so.
THEOREM ResolvedForGood == Spec => ResolvedOnce
<1>1. ASSUME IInv, [Next]_vars
      PROVE  [\A t \in Txn : journal[t] = NoJournal /\ journal'[t] # NoJournal
                 => \E p \in Process : At(p, "begin") /\ proc[p].id = t]_vars
  <2> SUFFICES ASSUME NEW t \in Txn, journal[t] = NoJournal, journal'[t] # NoJournal
               PROVE  \E p \in Process : At(p, "begin") /\ proc[p].id = t
    OBVIOUS
  <2>1. journal' # journal
    OBVIOUS
  <2>2. PICK p \in Process : Step(p) \/ Fail(p) \/ Crash(p)
    BY <1>1, <2>1 DEF Next, Start, vars
  <2>3. CASE Begin(p)
    BY <1>1, <2>3, BeginsOne DEF Begin
  <2>4. ~RemoveJournal(p)
    BY <1>1, RemovesOne DEF Journals
  <2>5. ASSUME NEW j \in Journal, Writes(TxnOf(p), j) PROVE FALSE
    <3>1. TxnOf(p) \in Journals /\ \A u \in Txn \ {TxnOf(p)} : journal'[u] = journal[u]
      BY <1>1, <2>5, WritesOne DEF Writes
    <3> QED
      BY <3>1 DEF Journals
  <2> QED
    BY <1>1, <2>1, <2>2, <2>3, <2>4, <2>5, JournalSteps
<1> QED
  BY <1>1, Invariance, PTL DEF Spec, ResolvedOnce
---------------------------------------------------------------------------
(* Transaction implements AtomicFiles.  What a reader sees of a file while a
   restore is interrupted is what its journal puts back; the second invariant
   says why the file itself is that again when the journal is no longer to be
   rolled back. *)

\* File f is as it was when transaction t began.
AsBefore(t, f) == f \in exposed \/ file[f] = journal[t].original[f]

\* Of every file a rollback that is still to come puts back what was there, or
\* leaves alone what still is.
Intact(t) ==
    LET j == journal[t]
    IN  \A f \in File :
          /\ j.action[f] = "Create" <=> j.original[f] = Absent
          /\ \/ AsBefore(t, f)
             \/ /\ j.original[f] = Absent \/ f \in j.backups
                /\ j.state = "RollingBack" => f <= NumFiles - j.position

\* There is one such transaction, else nothing is promised.
Alone == \A t, u \in Txn : RolledBackNext(t) /\ RolledBackNext(u) /\ t # u => exposed = File

\* How far the installation has come.
Reached(p) == LET j == journal[TxnOf(p)]
              IN  CASE At(p, "install") -> j.position
                    [] At(p, "installed") -> j.position + 1
                    [] OTHER -> NumFiles

\* What the files are while a transaction is worked on.
Shown(p) ==
    LET t == TxnOf(p)
        j == journal[t]
    IN  /\ At(p, "durable") => proc[p].skip \subseteq Existed(t)
        /\ proc[p].pc \in {"pending", "recorded"} => j.state = "CommittedLocal"
        /\ At(p, "removeTerminal") => j.state \in {"Committed", "RolledBack"}
        /\ proc[p].pc \in {"prepare", "durable", "commit"} => \A f \in File : AsBefore(t, f)
        /\ proc[p].pc \in {"install", "installed", "commitLocal"} =>
              \A f \in File : /\ f \in Restored(t) => f \in exposed \/ file[f] = t \/ f > Reached(p)
                              /\ f \notin Restored(t) => AsBefore(t, f)
        /\ At(p, "rolled") => AsBefore(t, NumFiles - j.position)
        /\ At(p, "beginCleanup") /\ j.state \in Rolling => \A f \in File : AsBefore(t, f)

RInv == /\ Alone
        /\ \A t \in Txn : RolledBackNext(t) => Intact(t)
        /\ \A p \in Process : Shown(p)

---------------------------------------------------------------------------
(* What a step does to a transaction that is still to be rolled back *)

\* What is exposed stays so.
LEMMA ExposedGrows ==
  ASSUME IInv, NEW p \in Process, Step(p) \/ Fail(p) \/ Crash(p)
  PROVE  /\ exposed \subseteq exposed'
         /\ \A t \in Txn : RolledBackNext(t) /\ Begin(p) => exposed' = File
<1>1. exposed \subseteq exposed'
  BY HistorySteps DEF Write, Begin, RemoveOrphans, Exposes
<1>2. ASSUME NEW t \in Txn, RolledBackNext(t), Begin(p) PROVE exposed' = File
  <2>1. OfClass("Rollback") # {}
    BY <1>2, RollbackSet DEF IInv, Control
  <2> QED
    BY <1>2, <2>1 DEF Begin, Exposes, IInv, Control, Typed
<1> QED
  BY <1>1, <1>2

\* A journal changes under the hands of who works on it.
LEMMA JournalOf ==
  ASSUME IInv, NEW p \in Process, Step(p) \/ Fail(p) \/ Crash(p), NEW t \in Txn,
         t \in Journals, t \in Journals'
  PROVE  \/ journal'[t] = journal[t]
         \/ t = TxnOf(p) /\ (\/ RollBegin(p) \/ RollAdvance(p) \/ RecordPending(p) \/ BeginCleanup(p)
                             \/ Clean(p) \/ Durable(p) \/ StartCommit(p) \/ InstallAdvance(p) \/ CommitLocal(p))
<1>1. CASE UNCHANGED journal \/ Begin(p) \/ RemoveJournal(p)
  <2>1. Begin(p) => t # proc[p].id
    BY BeginsOne DEF Used
  <2>2. RemoveJournal(p) => t # TxnOf(p)
    BY RemovesOne
  <2> QED
    BY <1>1, <2>1, <2>2, BeginsOne, RemovesOne
<1>2. ASSUME ~(UNCHANGED journal \/ Begin(p) \/ RemoveJournal(p)),
             NEW j \in Journal, Writes(TxnOf(p), j), t = TxnOf(p)
      PROVE  \/ RollBegin(p) \/ RollAdvance(p) \/ RecordPending(p) \/ BeginCleanup(p) \/ Clean(p)
             \/ Durable(p) \/ StartCommit(p) \/ InstallAdvance(p) \/ CommitLocal(p)
  BY <1>2 DEF Step, Fail, Crash, Gate, LockLocal, Write, Recover, RollFile, EnsurePending, LockTxn, Prepare,
        Install, Capture, BackupDone, CollectJournals, CollectOrphans, RemoveOrphans
<1>3. ASSUME NEW j \in Journal, Writes(TxnOf(p), j), t # TxnOf(p)
      PROVE  journal'[t] = journal[t]
  BY <1>3, WritesOne
<1> QED
  BY <1>1, <1>2, <1>3, JournalSteps

\* Of what is promised, only the restore and its rollback change the files.
LEMMA Touched ==
  ASSUME IInv, Alone, NEW p \in Process, Step(p) \/ Fail(p) \/ Crash(p),
         NEW t \in Txn, RolledBackNext(t), NEW f \in File \ exposed'
  PROVE  \/ file'[f] = file[f]
         \/ /\ RollFile(p) /\ t = TxnOf(p) /\ f = NumFiles - journal[t].position
            /\ file'[f] = journal[t].original[f]
         \/ /\ Install(p) /\ t = TxnOf(p) /\ f = journal[t].position + 1
            /\ f \in Restored(t) /\ file'[f] = t
<1>1. exposed # File /\ Typed /\ f \in File
  BY ExposedGrows DEF IInv, Control
<1>2. \A u \in Txn : RolledBackNext(u) => u = t
  BY <1>1 DEF Alone
<1>3. ASSUME Write(p) PROVE file'[f] = file[f]
  <2>1. OfClass("Rollback") # {}
    BY <1>1, RollbackSet
  <2>2. PICK g \in File : file' = [file EXCEPT ![g] = proc[p].id] /\ Exposes({g})
    BY <1>3 DEF Write
  <2>3. f # g
    BY <2>1, <2>2 DEF Exposes
  <2> QED
    BY <1>1, <2>2, <2>3 DEF Typed
<1>4. ASSUME RollFile(p)
      PROVE  \/ file'[f] = file[f]
             \/ /\ RollFile(p) /\ t = TxnOf(p) /\ f = NumFiles - journal[t].position
                /\ file'[f] = journal[t].original[f]
  <2>1. InTxn(p) /\ At(p, "restoreFile")
    BY <1>4 DEF RollFile, InTxn, At, Resolving
  <2>2. TxnOf(p) \in Journals /\ journal[TxnOf(p)].state = "RollingBack"
    BY <2>1, HasJournal DEF Staged, At
  <2>3. TxnOf(p) = t
    BY <1>2, <2>2 DEF RolledBackNext, Rolling, Journals
  <2> QED
    BY <1>1, <1>4, <2>3, FileWorked DEF Typed
<1>5. ASSUME Install(p)
      PROVE  \/ file'[f] = file[f]
             \/ /\ Install(p) /\ t = TxnOf(p) /\ f = journal[t].position + 1
                /\ f \in Restored(t) /\ file'[f] = t
  <2>1. InTxn(p) /\ At(p, "install") /\ proc[p].pc \in Restoring
    BY <1>5 DEF Install, InTxn, At, Restoring
  <2>2. TxnOf(p) \in Journals /\ journal[TxnOf(p)].state = "Committing" /\ TxnOf(p) = proc[p].id
    BY <2>1, HasJournal DEF Staged, At
  <2>3. TxnOf(p) = t
    BY <1>2, <2>2 DEF RolledBackNext, Rolling, Journals
  <2> DEFINE g == journal[t].position + 1
  <2>4. \/ UNCHANGED file
        \/ file' = [file EXCEPT ![g] = IF g \in Restored(t) THEN t ELSE @]
    BY <1>5, <2>2, <2>3 DEF Install
  <2> QED
    BY <1>1, <1>5, <2>3, <2>4 DEF Typed
<1> QED
  BY <1>3, <1>4, <1>5, FileSteps

\* There stays one transaction to roll back, or nothing is promised.
LEMMA AloneKept ==
  ASSUME IInv, Alone, NEW p \in Process, Step(p) \/ Fail(p) \/ Crash(p), Typed'
  PROVE  Alone'
<1> SUFFICES ASSUME NEW t \in Txn, NEW u \in Txn, RolledBackNext(t)', RolledBackNext(u)', t # u
             PROVE  exposed' = File
  BY DEF Alone
<1>1. CASE RolledBackNext(t) /\ RolledBackNext(u)
  BY <1>1, ExposedGrows DEF Alone, Typed
<1>2. CASE ~(RolledBackNext(t) /\ RolledBackNext(u))
  BY <1>2, RollingGrows, ExposedGrows
<1> QED
  BY <1>1, <1>2

\* What a rollback puts back stays what was there.
LEMMA IntactKept ==
  ASSUME IInv, RInv, NEW p \in Process, Step(p) \/ Fail(p) \/ Crash(p), Typed',
         NEW t \in Txn, RolledBackNext(t)'
  PROVE  Intact(t)'
<1>1. t \in Journals' /\ Typed /\ Shown(p) /\ Alone
  BY DEF RolledBackNext, IInv, Control, RInv
<1>2. CASE Begin(p) /\ t = proc[p].id
  <2>1. journal'[t] = Prepared /\ UNCHANGED file
    BY <1>2, BeginsOne DEF Begin
  <2>2. \A f \in File : Prepared.action[f] = IF file[f] = Absent THEN "Create" ELSE "Replace"
    BY <1>1, PreparedTyped
  <2>3. Prepared.original = file
    BY <1>1, PreparedTyped
  <2> QED
    BY <2>1, <2>2, <2>3 DEF Intact, AsBefore
<1>3. CASE RolledBackNext(t)
  <2> DEFINE j == journal[t]
             k == journal'[t]
  <2>1. t \in Journals /\ Intact(t) /\ j \in Journal /\ k \in Journal
    BY <1>1, <1>3 DEF RInv, RolledBackNext, Typed, Journals
  <2>2. /\ k.original = j.original
        /\ \/ k.backups = j.backups /\ k.action = j.action
           \/ /\ Durable(p) /\ t = TxnOf(p) /\ k.backups = Existed(t)
              /\ \A f \in File : k.action[f] = IF f \in proc[p].skip THEN "NoOp" ELSE j.action[f]
    BY <1>1, <2>1, OriginalKept
  <2> SUFFICES ASSUME NEW f \in File
               PROVE  /\ k.action[f] = "Create" <=> k.original[f] = Absent
                      /\ \/ AsBefore(t, f)'
                         \/ /\ k.original[f] = Absent \/ f \in k.backups
                            /\ k.state = "RollingBack" => f <= NumFiles - k.position
    BY DEF Intact
  <2>3. /\ j.action[f] = "Create" <=> j.original[f] = Absent
        /\ \/ AsBefore(t, f)
           \/ /\ j.original[f] = Absent \/ f \in j.backups
              /\ j.state = "RollingBack" => f <= NumFiles - j.position
    BY <2>1 DEF Intact
  <2>4. k.action[f] = "Create" <=> k.original[f] = Absent
    <3>1. CASE k.action = j.action
      BY <2>2, <2>3, <3>1
    <3>2. CASE Durable(p) /\ t = TxnOf(p)
      <4>1. f \in proc[p].skip => j.original[f] # Absent
        BY <1>1, <3>2 DEF Shown, Durable, Existed
      <4> QED
        BY <2>2, <2>3, <4>1
    <3> QED
      BY <2>2, <3>1, <3>2
  <2>5. ASSUME f \notin exposed', file'[f] # j.original[f]
        PROVE  /\ k.original[f] = Absent \/ f \in k.backups
               /\ k.state = "RollingBack" => f <= NumFiles - k.position
    <3>1. f \notin exposed
      BY <2>5, ExposedGrows
    <3>2. \/ file'[f] = file[f]
          \/ Install(p) /\ t = TxnOf(p) /\ f = j.position + 1
      BY <1>1, <1>3, <2>5, Touched
    <3>3. CASE Install(p) /\ t = TxnOf(p)
      <4>1. j.state = "Committing" /\ j.backups = Existed(t)
        BY <3>3 DEF IInv, Staged, Install, At
      <4>2. k = j
        BY <3>3 DEF Install
      <4> QED
        BY <4>1, <4>2 DEF Existed
    <3>4. CASE file'[f] = file[f]
      <4>1. /\ j.original[f] = Absent \/ f \in j.backups
            /\ j.state = "RollingBack" => f <= NumFiles - j.position
        BY <2>3, <2>5, <3>1, <3>4 DEF AsBefore
      <4>2. k.original[f] = Absent \/ f \in k.backups
        BY <2>2, <4>1 DEF Existed
      <4>3. CASE k = j
        BY <4>1, <4>3
      <4>4. CASE t = TxnOf(p) /\ RollBegin(p)
        <5>1. k.position = IF j.state = "RollingBack" THEN j.position ELSE 0
          BY <1>1, <4>4, Written, WritesOne DEF Keeping
        <5>2. NumFiles \in Nat /\ f <= NumFiles
          BY BoundsAssumption DEF File
        <5> QED
          BY <4>1, <4>2, <5>1, <5>2
      <4>5. CASE t = TxnOf(p) /\ RollAdvance(p)
        <5>1. k.position = j.position + 1
          BY <1>1, <4>5, Written, WritesOne DEF Keeping
        <5>2. At(p, "rolled")
          BY <4>5 DEF RollAdvance
        <5>3. j.state = "RollingBack" /\ AsBefore(t, NumFiles - j.position)
          BY <1>1, <4>5, <5>2 DEF IInv, Staged, Shown, At
        <5>4. f # NumFiles - j.position
          BY <2>5, <3>1, <3>4, <5>3 DEF AsBefore
        <5>5. j.position \in 0..NumFiles /\ NumFiles \in Nat /\ f \in 1..NumFiles
          BY <2>1, BoundsAssumption DEF Journal, File
        <5>6. f <= NumFiles - j.position
          BY <4>1, <5>3
        <5> QED
          BY <4>2, <5>1, <5>4, <5>5, <5>6
      <4>6. CASE t = TxnOf(p) /\ Durable(p)
        <5>1. k.state = "BackupsDurable"
          BY <1>1, <4>6, WrittenDurable, WritesOne
        <5> QED
          BY <4>2, <5>1
      <4>7. CASE t = TxnOf(p) /\ StartCommit(p)
        <5>1. k.state = "Committing"
          BY <1>1, <4>7, Written, WritesOne DEF Keeping
        <5> QED
          BY <4>2, <5>1
      <4>8. CASE t = TxnOf(p) /\ InstallAdvance(p)
        <5>1. k.state = j.state
          BY <1>1, <4>8, Written, WritesOne DEF Keeping
        <5>2. j.state = "Committing"
          BY <4>8 DEF IInv, Staged, InstallAdvance, At
        <5> QED
          BY <4>2, <5>1, <5>2
      <4>9. CASE t = TxnOf(p) /\ (BeginCleanup(p) \/ CommitLocal(p))
        <5>1. k.state \in {"CleaningUp", "CommittedLocal"}
          BY <1>1, <4>9, Written, WritesOne DEF Keeping
        <5> QED
          BY <4>2, <5>1
      <4>10. CASE t = TxnOf(p) /\ (RecordPending(p) \/ Clean(p))
        <5>1. j.state \in {"CommittedLocal", "CleaningUp"}
          BY <1>1, <4>10 DEF IInv, Staged, Shown, RecordPending, Clean, At
        <5> QED
          BY <1>3, <5>1 DEF RolledBackNext, Rolling
      <4> QED
        BY <1>1, <2>1, <4>3, <4>4, <4>5, <4>6, <4>7, <4>8, <4>9, <4>10, JournalOf
    <3> QED
      BY <3>2, <3>3, <3>4
  <2> QED
    BY <2>2, <2>4, <2>5 DEF AsBefore
<1> QED
  BY <1>2, <1>3, RollingGrows

---------------------------------------------------------------------------
(* What the files are while a transaction is worked on *)

\* Off the places Shown speaks of there is nothing to show.
LEMMA Unshown ==
  ASSUME NEW p \in Process,
         ~InTxn(p)' \/ proc'[p].pc \in {"begin", "rollback", "restoreFile", "clean"}
  PROVE  Shown(p)'
  BY DEF Shown, InTxn, At, Restoring, Resolving

\* A file that is as before the transaction stays so, but for its installation.
LEMMA StaysAsBefore ==
  ASSUME IInv, Alone, NEW p \in Process, Step(p) \/ Fail(p) \/ Crash(p),
         NEW t \in Txn, RolledBackNext(t), t \in Journals', NEW f \in File, AsBefore(t, f),
         ~(Install(p) /\ t = TxnOf(p) /\ f = journal[t].position + 1 /\ f \in Restored(t))
  PROVE  AsBefore(t, f)'
<1>1. journal'[t].original = journal[t].original
  BY OriginalKept DEF RolledBackNext
<1>2. CASE f \in exposed'
  BY <1>2 DEF AsBefore
<1>3. CASE f \notin exposed'
  <2>1. file'[f] = file[f] \/ file'[f] = journal[t].original[f]
    BY <1>3, Touched
  <2>2. file[f] = journal[t].original[f]
    BY <1>3, ExposedGrows DEF AsBefore
  <2> QED
    BY <1>1, <2>1, <2>2 DEF AsBefore
<1> QED
  BY <1>2, <1>3

\* Who does not take the step finds what it works on as it left it.
LEMMA ShownOthers ==
  ASSUME IInv, RInv, NEW p \in Process, Step(p) \/ Fail(p) \/ Crash(p), Handed(p),
         NEW q \in Process \ {p}
  PROVE  Shown(q)'
<1>1. proc'[q] = proc[q] /\ Shown(q) /\ Staged(q) /\ Alone
  BY DEF Handed, RInv, IInv
<1>2. CASE ~InTxn(q) \/ At(q, "begin")
  BY <1>1, <1>2, Unshown DEF InTxn, At
<1>3. ASSUME InTxn(q), ~At(q, "begin"), NEW t, t = TxnOf(q) PROVE Shown(q)'
  <2> DEFINE j == journal[t]
  <2>1. ~InTxn(p) /\ t \in Journals /\ t \in Txn
    BY <1>1, <1>3, HasJournal DEF IInv, Control, Locked
  <2>2. UNCHANGED journal
    BY <2>1, Outside
  <2>3. /\ TxnOf(q)' = t /\ Journals' = Journals /\ Existed(t)' = Existed(t)
        /\ Restored(t)' = Restored(t) /\ Reached(q)' = Reached(q)
    BY <1>1, <1>3, <2>2 DEF TxnOf, Recovering, Journals, Existed, Restored, Reached, At
  <2>4. ~Install(p)
    BY <2>1 DEF Install, InTxn, At, Restoring
  <2>5. ASSUME j.state \in Rolling, NEW f \in File
        PROVE  /\ AsBefore(t, f) => AsBefore(t, f)'
               /\ f \in exposed \/ file[f] = t => f \in exposed' \/ file'[f] = t
    <3>1. RolledBackNext(t)
      BY <2>1, <2>5 DEF RolledBackNext
    <3>2. f \in exposed' \/ file'[f] = file[f]
      BY <1>1, <1>3, <2>1, <3>1, Touched DEF RollFile, Install, InTxn, At, Restoring, Resolving
    <3> QED
      BY <2>2, <3>2, ExposedGrows DEF AsBefore
  <2>6. /\ At(q, "durable") => proc[q].skip \subseteq Existed(t)
        /\ proc[q].pc \in {"pending", "recorded"} => j.state = "CommittedLocal"
        /\ At(q, "removeTerminal") => j.state \in {"Committed", "RolledBack"}
    BY <1>1, <1>3 DEF Shown
  <2>7. ASSUME proc[q].pc \in {"prepare", "durable", "commit"}, NEW f \in File PROVE AsBefore(t, f)'
    <3>1. j.state \in Rolling /\ AsBefore(t, f)
      BY <1>1, <1>3, <2>7 DEF Shown, Staged, At, Rolling
    <3> QED
      BY <2>5, <3>1
  <2>8. ASSUME proc[q].pc \in {"install", "installed", "commitLocal"}, NEW f \in File
        PROVE  /\ f \in Restored(t) => f \in exposed' \/ file'[f] = t \/ f > Reached(q)
               /\ f \notin Restored(t) => AsBefore(t, f)'
    <3>1. j.state \in Rolling
      BY <1>1, <1>3, <2>8 DEF Staged, Rolling
    <3>2. /\ f \in Restored(t) => f \in exposed \/ file[f] = t \/ f > Reached(q)
          /\ f \notin Restored(t) => AsBefore(t, f)
      BY <1>1, <1>3, <2>8 DEF Shown
    <3> QED
      BY <2>5, <3>1, <3>2
  <2>9. ASSUME At(q, "rolled") PROVE AsBefore(t, NumFiles - j.position)'
    <3>1. j.state = "RollingBack" /\ AsBefore(t, NumFiles - j.position) /\ j.position < NumFiles
      BY <1>1, <1>3, <2>9 DEF Shown, Staged, At
    <3>2. NumFiles - j.position \in File
      <4>1. j \in Journal
        BY <1>3, HasJournal
      <4>2. j.position \in 0..NumFiles /\ NumFiles \in Nat
        BY <4>1, BoundsAssumption DEF Journal
      <4> QED
        BY <3>1, <4>2 DEF File
    <3> QED
      BY <2>2, <2>5, <3>1, <3>2 DEF Rolling
  <2>10. ASSUME At(q, "beginCleanup"), j.state \in Rolling, NEW f \in File PROVE AsBefore(t, f)'
    BY <1>1, <1>3, <2>5, <2>10 DEF Shown
  <2>11. journal'[t] = j /\ proc'[q].pc = proc[q].pc /\ proc'[q].skip = proc[q].skip
    BY <1>1, <1>3, <2>2
  <2> QED
    BY <1>3, <2>2, <2>3, <2>6, <2>7, <2>8, <2>9, <2>10, <2>11 DEF Shown, At
<1> QED
  BY <1>2, <1>3

\* A restore finds every file as it was until it installs it.
LEMMA ShownRestore ==
  ASSUME IInv, RInv, NEW p \in Process, Typed',
         \/ Begin(p) \/ Prepare(p) \/ Durable(p) \/ StartCommit(p)
         \/ Install(p) \/ InstallAdvance(p) \/ CommitLocal(p)
  PROVE  Shown(p)'
<1> SUFFICES ASSUME NEW t, t = TxnOf(p) PROVE Shown(p)'
  OBVIOUS
<1> DEFINE j == journal[t]
<1>1. Typed /\ Control /\ Shown(p) /\ Alone
  BY DEF IInv, Control, RInv
<1>2. ASSUME Begin(p) PROVE Shown(p)'
  <2>1. InTxn(p) /\ Goto(p, "prepare") /\ UNCHANGED file
    BY <1>2 DEF Begin, InTxn, At, Restoring
  <2>2. journal'[t] = Prepared /\ Prepared.original = file
    BY <1>1, <1>2, BeginsOne, PreparedTyped
  <2>3. proc'[p].pc = "prepare" /\ TxnOf(p)' = t
    BY <2>1, StaysOn
  <2> QED
    BY <2>1, <2>2, <2>3 DEF Shown, At, AsBefore
<1>3. ASSUME Prepare(p) PROVE Shown(p)'
  <2>1. InTxn(p) /\ At(p, "prepare") /\ proc[p].pc \in Restoring
    BY <1>3 DEF Prepare, InTxn, At, Restoring
  <2>2. t = proc[p].id /\ \A f \in File : AsBefore(t, f)
    BY <1>1, <2>1, HasJournal DEF Shown, At
  <2>3. proc'[p].pc = "durable" /\ TxnOf(p)' = t /\ proc'[p].skip \subseteq Existed(t)
    BY <1>1, <1>3, <2>2, PrepareHands DEF TxnOf, Recovering
  <2>4. UNCHANGED <<file, journal, exposed>>
    BY <1>3 DEF Prepare, history
  <2>5. Existed(t)' = Existed(t) /\ \A f \in File : AsBefore(t, f)'
    BY <2>2, <2>4 DEF Existed, AsBefore
  <2> QED
    BY <2>3, <2>5 DEF Shown, At
<1>4. ASSUME Durable(p) PROVE Shown(p)'
  <2>1. InTxn(p) /\ At(p, "durable") /\ Goto(p, "commit") /\ UNCHANGED <<file, exposed>>
    BY <1>4 DEF Durable, InTxn, At, Restoring, history
  <2>2. \A f \in File : AsBefore(t, f)
    BY <1>1, <2>1 DEF Shown, At
  <2>3. journal'[t].original = j.original
    BY <1>4, WrittenDurable, WritesOne DEF Writes
  <2>4. proc'[p].pc = "commit" /\ TxnOf(p)' = t
    BY <2>1, StaysOn
  <2>5. \A f \in File : AsBefore(t, f)'
    BY <2>1, <2>2, <2>3 DEF AsBefore
  <2> QED
    BY <2>4, <2>5 DEF Shown, At
<1>5. ASSUME StartCommit(p) PROVE Shown(p)'
  <2>1. InTxn(p) /\ At(p, "commit") /\ Goto(p, "install") /\ UNCHANGED <<file, exposed>>
    BY <1>5 DEF StartCommit, InTxn, At, Restoring, history
  <2>2. \A f \in File : AsBefore(t, f)
    BY <1>1, <2>1 DEF Shown, At
  <2>3. journal'[t].original = j.original /\ journal'[t].position = 0
    BY <1>5, Written, WritesOne DEF Keeping, Writes
  <2>4. proc'[p].pc = "install" /\ TxnOf(p)' = t
    BY <2>1, StaysOn
  <2>5. \A f \in File : AsBefore(t, f)'
    BY <2>1, <2>2, <2>3 DEF AsBefore
  <2>6. Reached(p)' = 0 /\ \A f \in File : f > 0
    BY <2>3, <2>4 DEF Reached, At, File
  <2> QED
    BY <2>4, <2>5, <2>6 DEF Shown, At
<1>6. ASSUME Install(p) PROVE Shown(p)'
  <2> DEFINE g == j.position + 1
  <2>1. /\ InTxn(p) /\ At(p, "install") /\ proc[p].pc \in Restoring
        /\ UNCHANGED <<journal, exposed>>
    BY <1>6 DEF Install, InTxn, At, Restoring, history
  <2>2. t = proc[p].id /\ t \in Txn /\ j \in Journal
    BY <2>1, HasJournal DEF At
  <2>3. /\ Reached(p) = j.position
        /\ \A f \in File : /\ f \in Restored(t) => f \in exposed \/ file[f] = t \/ f > j.position
                           /\ f \notin Restored(t) => AsBefore(t, f)
    BY <1>1, <2>1 DEF Shown, Reached, At
  <2>4. CASE Goto(p, "rollback")
    <3>1. proc'[p].pc = "rollback"
      BY <2>1, <2>4, StaysOn
    <3> QED
      BY <3>1, Unshown
  <2>5. CASE file' = [file EXCEPT ![g] = IF g \in Restored(t) THEN t ELSE @] /\ Goto(p, "installed")
    <3>1. proc'[p].pc = "installed" /\ TxnOf(p)' = t
      BY <2>1, <2>5, StaysOn
    <3>2. Reached(p)' = g /\ Restored(t)' = Restored(t)
      BY <2>1, <3>1 DEF Reached, Restored, At
    <3>3. j.position \in Int /\ File \subseteq Int
      BY <2>2, BoundsAssumption DEF Journal, File
    <3>4. ASSUME NEW f \in File
          PROVE  /\ f \in Restored(t) => f \in exposed \/ file'[f] = t \/ f > g
                 /\ f \notin Restored(t) => AsBefore(t, f)'
      <4>1. file'[f] = IF f = g /\ g \in Restored(t) THEN t ELSE file[f]
        BY <1>1, <2>5 DEF Typed
      <4>2. f > j.position => f = g \/ f > g
        BY <3>3
      <4> QED
        BY <2>1, <2>3, <4>1, <4>2 DEF AsBefore
    <3> QED
      BY <2>1, <3>1, <3>2, <3>4 DEF Shown, At
  <2> QED
    BY <1>6, <2>2, <2>4, <2>5 DEF Install
<1>7. ASSUME InstallAdvance(p) PROVE Shown(p)'
  <2> DEFINE next == j.position + 1
  <2>1. /\ InTxn(p) /\ At(p, "installed") /\ proc[p].pc \in Restoring
        /\ UNCHANGED <<file, exposed>>
    BY <1>7 DEF InstallAdvance, InTxn, At, Restoring, history
  <2>2. /\ t = proc[p].id /\ t \in Txn /\ j \in Journal /\ j.state = "Committing"
        /\ j.position < NumFiles
    BY <2>1, HasJournal DEF At, Staged
  <2>3. Goto(p, IF next < NumFiles THEN "install"
                ELSE IF Restored(t) # {} THEN "commitLocal" ELSE "beginCleanup")
    BY <1>7, <2>2 DEF InstallAdvance
  <2>4. PICK k \in Journal : /\ Keeping(TxnOf(p), k) /\ k.state = journal[TxnOf(p)].state
                            /\ k.position = journal[TxnOf(p)].position + 1
    BY <1>7, Written
  <2>5. /\ journal'[t] = k /\ k.original = j.original /\ k.action = j.action
        /\ k.state = "Committing" /\ k.position = next
    <3>1. journal'[TxnOf(p)] = k
      BY <2>4, WritesOne DEF Keeping
    <3>2. k.original = journal[TxnOf(p)].original /\ k.action = journal[TxnOf(p)].action
      BY <2>4 DEF Keeping, Writes
    <3> QED
      BY <2>2, <2>4, <3>1, <3>2
  <2>6. /\ proc'[p].pc = IF next < NumFiles THEN "install"
                         ELSE IF Restored(t) # {} THEN "commitLocal" ELSE "beginCleanup"
        /\ TxnOf(p)' = t
    BY <2>1, <2>3, StaysOn
  <2>7. next < NumFiles \/ next = NumFiles
    <3>1. j.position \in 0..NumFiles /\ NumFiles \in Nat
      BY <2>2, BoundsAssumption DEF Journal
    <3> QED
      BY <2>2, <3>1
  <2>8. \A f \in File : /\ f \in Restored(t) => f \in exposed \/ file[f] = t \/ f > next
                        /\ f \notin Restored(t) => AsBefore(t, f)
    BY <1>1, <2>1 DEF Shown, Reached, At
  <2>9. Restored(t)' = Restored(t) /\ \A f \in File : AsBefore(t, f) => AsBefore(t, f)'
    BY <2>1, <2>5 DEF Restored, AsBefore
  <2>10. proc'[p].pc \in {"install", "commitLocal"} => Reached(p)' = next
    BY <2>5, <2>6, <2>7 DEF Reached, At
  <2> HIDE DEF next
  <2> QED
    BY <2>1, <2>6, <2>8, <2>9, <2>10 DEF Shown, At
<1>8. ASSUME CommitLocal(p) PROVE Shown(p)'
  <2>1. InTxn(p) /\ Goto(p, "pending")
    BY <1>8 DEF CommitLocal, InTxn, At, Restoring
  <2>2. journal'[t].state = "CommittedLocal"
    BY <1>8, Written, WritesOne DEF Keeping
  <2>3. proc'[p].pc = "pending" /\ TxnOf(p)' = t
    BY <2>1, StaysOn
  <2> QED
    BY <2>2, <2>3 DEF Shown, At
<1> QED
  BY <1>2, <1>3, <1>4, <1>5, <1>6, <1>7, <1>8

\* A rollback has put back the files it has passed.
LEMMA ShownRecovery ==
  ASSUME IInv, RInv, NEW p \in Process, Typed',
         \/ Recover(p) \/ RollBegin(p) \/ RollFile(p) \/ RollAdvance(p)
         \/ EnsurePending(p) \/ RecordPending(p) \/ BeginCleanup(p) \/ Clean(p) \/ RemoveJournal(p)
  PROVE  Shown(p)'
<1> SUFFICES ASSUME NEW t, t = TxnOf(p) PROVE Shown(p)'
  OBVIOUS
<1> DEFINE j == journal[t]
<1>1. Typed /\ Control /\ Shown(p)
  BY DEF IInv, Control, RInv
<1>2. RolledBackNext(t) => Intact(t)
  BY DEF RInv, RolledBackNext, Journals
<1>3. ASSUME Recover(p) PROVE Shown(p)'
  <2> DEFINE u == Head(proc[p].todo)[1]
  <2>1. CASE ~InTxn(p)'
    BY <2>1, Unshown
  <2>2. CASE InTxn(p)'
    <3>1. PICK v : v = Head(proc[p].todo)[1]
      OBVIOUS
    <3>2. /\ v \in Journals /\ TxnOf(p)' = v
          /\ Class(v) \in Resolvable /\ proc'[p].pc = FirstStep(v)[Class(v)]
      BY <1>1, <1>3, <2>2, <3>1, RecoverHands
    <3>3. UNCHANGED journal
      BY <1>3 DEF Recover
    <3>4. /\ Class(v) = "Rollback" <=> journal[v].state \in Rolling
          /\ Class(v) = "FinalizeCommittedLocal" <=> journal[v].state = "CommittedLocal"
      BY <1>1, <3>2, ClassTyped
    <3>5. Class(v) = "RemoveTerminalJournal" => journal[v].state \in {"Committed", "RolledBack"}
      <4>1. journal[v].state \in State
        BY <1>1, <3>2 DEF Typed, Journals, Journal
      <4> QED
        BY <4>1 DEF Class, ClassOfState, State
    <3>6. CASE Class(v) \in {"Rollback", "ResumeCleanup"}
      <4>1. proc'[p].pc \in {"rollback", "clean"}
        BY <3>2, <3>6 DEF FirstStep
      <4> QED
        BY <4>1, Unshown
    <3>7. CASE Class(v) = "FinalizeCommittedLocal"
      <4>1. proc'[p].pc \in {"pending", "recorded"}
        BY <3>2, <3>7 DEF FirstStep
      <4> QED
        BY <3>2, <3>3, <3>4, <3>7, <4>1 DEF Shown, At
    <3>8. CASE Class(v) \in {"CleanupLegacyCommitted", "CleanupLegacyRolledBack"}
      <4>1. proc'[p].pc = "beginCleanup" /\ journal[v].state \notin Rolling
        BY <3>2, <3>4, <3>8 DEF FirstStep
      <4> QED
        BY <3>2, <3>3, <4>1 DEF Shown, At
    <3>9. CASE Class(v) = "RemoveTerminalJournal"
      <4>1. proc'[p].pc = "removeTerminal"
        BY <3>2, <3>9 DEF FirstStep
      <4> QED
        BY <3>2, <3>3, <3>5, <3>9, <4>1 DEF Shown, At
    <3> QED
      BY <3>2, <3>6, <3>7, <3>8, <3>9 DEF Resolvable
  <2> QED
    BY <2>1, <2>2
<1>4. ASSUME RollBegin(p) PROVE Shown(p)'
  <2> DEFINE from == IF j.state = "RollingBack" THEN j.position ELSE 0
  <2>1. /\ InTxn(p) /\ At(p, "rollback") /\ UNCHANGED <<file, exposed>>
        /\ Goto(p, IF from < NumFiles THEN "restoreFile" ELSE "beginCleanup")
    BY <1>4 DEF RollBegin, InTxn, At, Resolving, history
  <2>2. t \in Txn /\ t \in Journals /\ j.state \in Rolling /\ j \in Journal
    BY <2>1, HasJournal DEF Staged, At, Journals
  <2>3. PICK k \in Journal : Keeping(TxnOf(p), k)
    BY <1>4, Written
  <2>4. journal'[t] = k /\ k.original = j.original
    <3>1. journal'[TxnOf(p)] = k
      BY <2>3, WritesOne DEF Keeping
    <3>2. k.original = journal[TxnOf(p)].original
      BY <2>3 DEF Keeping, Writes
    <3> QED
      BY <3>1, <3>2
  <2>5. CASE from < NumFiles
    <3>1. proc'[p].pc = "restoreFile"
      BY <2>1, <2>5, StaysOn
    <3> QED
      BY <3>1, Unshown
  <2>6. CASE ~(from < NumFiles)
    <3>1. proc'[p].pc = "beginCleanup" /\ TxnOf(p)' = t
      BY <2>1, <2>6, StaysOn
    <3>2. j.state = "RollingBack" /\ j.position = NumFiles
      <4>1. j.position \in 0..NumFiles /\ NumFiles \in Nat /\ NumFiles > 0
        BY <2>2, BoundsAssumption DEF Journal
      <4> QED
        BY <2>6, <4>1
    <3>3. \A f \in File : AsBefore(t, f)
      <4>1. Intact(t)
        BY <1>2, <2>2 DEF RolledBackNext
      <4>2. \A f \in File : ~(f <= NumFiles - NumFiles)
        BY BoundsAssumption DEF File
      <4> QED
        BY <3>2, <4>1, <4>2 DEF Intact
    <3>4. \A f \in File : AsBefore(t, f)'
      BY <2>1, <2>4, <3>3 DEF AsBefore
    <3> QED
      BY <3>1, <3>4 DEF Shown, At
  <2> QED
    BY <2>5, <2>6
<1>5. ASSUME RollFile(p) PROVE Shown(p)'
  <2>1. InTxn(p) /\ At(p, "restoreFile") /\ UNCHANGED <<journal, started>>
    BY <1>5 DEF RollFile, InTxn, At, Resolving
  <2> DEFINE g == NumFiles - j.position
  <2>2. CASE Return(p, FALSE)
    <3>1. ~InTxn(p)'
      BY <1>1, <2>1, <2>2, Returns DEF At
    <3> QED
      BY <3>1, Unshown
  <2>3. CASE Goto(p, "rolled") /\ file' = [file EXCEPT ![g] = j.original[g]]
    <3>1. proc'[p].pc = "rolled" /\ TxnOf(p)' = t
      BY <2>1, <2>3, StaysOn
    <3>2. g \in File
      BY <1>5, FileWorked
    <3>3. file'[g] = j.original[g]
      BY <1>1, <2>3, <3>2 DEF Typed
    <3> QED
      BY <2>1, <3>1, <3>3 DEF Shown, At, AsBefore
  <2> QED
    BY <1>5, <2>2, <2>3 DEF RollFile
<1>6. ASSUME RollAdvance(p) PROVE Shown(p)'
  <2> DEFINE next == j.position + 1
  <2>1. /\ InTxn(p) /\ At(p, "rolled") /\ UNCHANGED <<file, exposed>>
        /\ Goto(p, IF next = NumFiles THEN "beginCleanup" ELSE "restoreFile")
    BY <1>6 DEF RollAdvance, InTxn, At, Resolving, history
  <2>2. t \in Txn /\ t \in Journals /\ j.state = "RollingBack" /\ j \in Journal
    BY <2>1, HasJournal DEF Staged, At, Journals
  <2>3. PICK k \in Journal : Keeping(TxnOf(p), k)
    BY <1>6, Written
  <2>4. journal'[t] = k /\ k.original = j.original
    <3>1. journal'[TxnOf(p)] = k
      BY <2>3, WritesOne DEF Keeping
    <3>2. k.original = journal[TxnOf(p)].original
      BY <2>3 DEF Keeping, Writes
    <3> QED
      BY <3>1, <3>2
  <2>5. CASE next # NumFiles
    <3>1. proc'[p].pc = "restoreFile"
      BY <2>1, <2>5, StaysOn
    <3> QED
      BY <3>1, Unshown
  <2>6. CASE next = NumFiles
    <3>1. proc'[p].pc = "beginCleanup" /\ TxnOf(p)' = t
      BY <2>1, <2>6, StaysOn
    <3>2. AsBefore(t, NumFiles - j.position) /\ Intact(t)
      BY <1>1, <1>2, <2>1, <2>2 DEF Shown, At, RolledBackNext, Rolling
    <3>3. ASSUME NEW f \in File PROVE AsBefore(t, f)
      <4>1. j.position \in 0..NumFiles /\ NumFiles \in Nat /\ f \in 1..NumFiles
        BY <2>2, BoundsAssumption DEF Journal, File
      <4>2. f = NumFiles - j.position \/ ~(f <= NumFiles - j.position)
        BY <2>6, <4>1
      <4> QED
        BY <2>2, <3>2, <4>2 DEF Intact
    <3>4. \A f \in File : AsBefore(t, f)'
      BY <2>1, <2>4, <3>3 DEF AsBefore
    <3> QED
      BY <3>1, <3>4 DEF Shown, At
  <2> QED
    BY <2>5, <2>6
<1>7. ASSUME EnsurePending(p) PROVE Shown(p)'
  <2>1. InTxn(p) /\ At(p, "pending") /\ Goto(p, "recorded") /\ UNCHANGED journal
    BY <1>7 DEF EnsurePending, InTxn, At, Resolving
  <2>2. proc'[p].pc = "recorded" /\ TxnOf(p)' = t
    BY <2>1, StaysOn
  <2>3. j.state = "CommittedLocal"
    BY <1>1, <2>1 DEF Shown, At
  <2> QED
    BY <2>1, <2>2, <2>3 DEF Shown, At
<1>8. ASSUME RecordPending(p) PROVE Shown(p)'
  <2>1. InTxn(p) /\ At(p, "recorded") /\ Goto(p, "beginCleanup")
    BY <1>8 DEF RecordPending, InTxn, At, Resolving
  <2>2. proc'[p].pc = "beginCleanup" /\ TxnOf(p)' = t
    BY <2>1, StaysOn
  <2>3. j.state = "CommittedLocal"
    BY <1>1, <2>1 DEF Shown, At
  <2>4. journal'[TxnOf(p)].state = journal[TxnOf(p)].state
    BY <1>8, Written, WritesOne DEF Keeping
  <2> QED
    BY <2>2, <2>3, <2>4 DEF Shown, At, Rolling
<1>9. ASSUME BeginCleanup(p) \/ Clean(p) PROVE Shown(p)'
  <2>1. InTxn(p) /\ ((UNCHANGED proc /\ At(p, "clean")) \/ Goto(p, "clean"))
    BY <1>9 DEF BeginCleanup, Clean, InTxn, At, Resolving
  <2>2. proc'[p].pc = "clean"
    BY <2>1, StaysOn DEF At
  <2> QED
    BY <2>2, Unshown
<1>10. ASSUME RemoveJournal(p) PROVE Shown(p)'
  <2>1. Return(p, TRUE) /\ started' = started /\ ~At(p, "idle") /\ ~At(p, "collectOrphans")
    BY <1>10 DEF RemoveJournal, At
  <2>2. ~InTxn(p)'
    BY <1>1, <2>1, Returns
  <2> QED
    BY <2>2, Unshown
<1> QED
  BY <1>3, <1>4, <1>5, <1>6, <1>7, <1>8, <1>9, <1>10

\* Every process, after a step, a failure or a crash of one of them.
LEMMA ShownKept ==
  ASSUME IInv, RInv, NEW p \in Process, Step(p) \/ Fail(p) \/ Crash(p), Handed(p), Typed',
         NEW q \in Process
  PROVE  Shown(q)'
<1>1. Typed /\ Control
  BY DEF IInv, Control
<1>2. ASSUME proc'[p] = Idle \/ proc'[p].pc \in {"lockTxn", "write", "capture", "lockLocal", "recover",
                  "removeOrphans", "collectOrphans", "begin", "rollback"}
      PROVE  Shown(p)'
  BY <1>2, Unshown DEF InTxn, Restoring, Resolving, Idle
<1>3. ASSUME \/ Gate(p) \/ LockLocal(p) \/ Write(p) \/ BackupDone(p) \/ RemoveOrphans(p) \/ Crash(p)
             \/ Capture(p) \/ CollectJournals(p) \/ CollectOrphans(p) \/ LockTxn(p)
      PROVE  Shown(p)'
  <2>1. proc[p] \in Command /\ Placed(p)
    BY <1>1 DEF Control, Typed
  <2>2. CASE Finish(p) \/ Crash(p)
    <3>1. proc'[p] = Idle
      BY <1>1, <2>2 DEF Finish, Crash, Typed
    <3> QED
      BY <1>2, <3>1
  <2>3. CASE Capture(p)
    BY <1>1, <1>2, <2>3, CaptureHands
  <2>4. CASE ~Finish(p) /\ ~Crash(p) /\ ~Capture(p)
    <3>1. CASE Gate(p)
      <4>1. PICK todo : proc' = [proc EXCEPT ![p].todo = todo,
                             ![p].pc = IF todo = <<>> THEN "lockLocal" ELSE "recover"]
        BY <2>4, <3>1 DEF Gate
      <4> QED
        BY <1>1, <1>2, <2>1, <4>1 DEF Typed, Command
    <3>2. CASE LockLocal(p) \/ LockTxn(p)
      <4>1. LockLocal(p) => proc[p].op \in {"restore", "edit", "backup"}
        BY <2>1 DEF LockLocal, Placed, At, Op
      <4>2. \E pc \in {"lockTxn", "write", "capture", "begin"} : Goto(p, pc)
        BY <2>4, <3>2, <4>1 DEF LockLocal, LockTxn
      <4> QED
        BY <1>1, <1>2, <2>1, <4>2 DEF Goto, Typed, Command
    <3>3. CASE CollectJournals(p)
      BY <1>1, <1>2, <2>1, <3>3 DEF CollectJournals, Typed, Command
    <3>4. CASE CollectOrphans(p)
      BY <1>1, <1>2, <2>1, <3>4 DEF CollectOrphans, Typed, Command
    <3> QED
      BY <1>3, <2>4, <3>1, <3>2, <3>3, <3>4 DEF Write, BackupDone, RemoveOrphans
  <2> QED
    BY <2>2, <2>3, <2>4
<1>4. ASSUME Fail(p) PROVE Shown(p)'
  <2>1. CASE proc[p].pc \in {"install", "installed"}
    <3>1. InTxn(p) /\ Goto(p, "rollback")
      BY <1>4, <2>1 DEF Fail, InTxn, At, Restoring
    <3>2. proc'[p].pc = "rollback"
      BY <3>1, StaysOn
    <3> QED
      BY <1>2, <3>2
  <2>2. CASE At(p, "collectOrphans")
    BY <1>1, <1>2, <1>4, <2>2, Finishes DEF Fail, At
  <2>3. CASE ~At(p, "collectOrphans") /\ proc[p].pc \notin {"install", "installed"}
    BY <1>1, <1>2, <1>4, <2>3, Returns DEF Fail, At
  <2> QED
    BY <2>1, <2>2, <2>3
<1> QED
  BY <1>3, <1>4, ShownOthers, ShownRestore, ShownRecovery DEF Step

---------------------------------------------------------------------------
(* The second invariant *)

\* It holds at first: no journal is there to be rolled back.
LEMMA InitRInv ==
  ASSUME Init
  PROVE  RInv
<1>1. IInv
  BY InitInv
<1>2. \A t \in Txn : ~RolledBackNext(t)
  <2>1. \A t \in Txn : journal[t].state \in {"Committed", "RolledBack", "Failed"} \/ journal[t] = NoJournal
    <3>1. PICK s \in {"none", "Committed", "RolledBack", "Failed"} :
            journal = [t \in Txn |-> IF t = Legacy /\ s # "none"
                                     THEN [Prepared EXCEPT !.state = s] ELSE NoJournal]
      BY DEF Init
    <3>2. Prepared \in Journal
      BY <1>1, PreparedTyped DEF IInv, Control
    <3>3. [Prepared EXCEPT !.state = s].state = s
      BY <3>2 DEF Journal
    <3> QED
      BY <3>1, <3>3
  <2> QED
    BY <2>1 DEF RolledBackNext, Journals, Rolling
<1>3. \A p \in Process : proc[p].pc = "idle"
  BY DEF Init, Idle
<1>4. \A p \in Process : Shown(p)
  BY <1>3 DEF Shown, At
<1> QED
  BY <1>2, <1>4 DEF RInv, Alone

\* Every step keeps it.
LEMMA NextRInv ==
  ASSUME IInv, RInv, [Next]_vars
  PROVE  RInv'
<1>1. ASSUME NEW p \in Process, Step(p) \/ Fail(p) \/ Crash(p) PROVE RInv'
  <2>1. Handed(p) /\ Typed' /\ Alone
    BY <1>1, StepHands, StepKept DEF IInv, Control, RInv
  <2> QED
    BY <1>1, <2>1, AloneKept, IntactKept, ShownKept DEF RInv
<1>2. ASSUME UNCHANGED <<file, journal, exposed>>,
             \A q \in Process : \/ UNCHANGED proc[q]
                                \/ proc'[q].pc \in {"lockLocal", "collect", "gate"}
      PROVE  RInv'
  <2>1. \A t : /\ RolledBackNext(t)' <=> RolledBackNext(t)
               /\ Existed(t)' = Existed(t) /\ Restored(t)' = Restored(t)
               /\ \A f : AsBefore(t, f)' <=> AsBefore(t, f)
    BY <1>2 DEF RolledBackNext, Journals, Existed, Restored, AsBefore
  <2>2. Alone' /\ \A t \in Txn : RolledBackNext(t)' => Intact(t)'
    BY <1>2, <2>1 DEF RInv, Alone, Intact
  <2>3. ASSUME NEW q \in Process PROVE Shown(q)'
    <3>1. CASE proc'[q].pc \in {"lockLocal", "collect", "gate"}
      BY <3>1, Unshown DEF InTxn, Restoring, Resolving
    <3>2. CASE UNCHANGED proc[q]
      <4>1. TxnOf(q)' = TxnOf(q) /\ Reached(q)' = Reached(q) /\ Shown(q)
        BY <1>2, <3>2 DEF TxnOf, Recovering, Reached, At, RInv
      <4> QED
        BY <1>2, <2>1, <3>2, <4>1 DEF Shown, At
    <3> QED
      BY <1>2, <3>1, <3>2
  <2> QED
    BY <2>2, <2>3 DEF RInv
<1>3. ASSUME NEW p \in Process, NEW op \in Op, Start(p, op) PROVE RInv'
  <2>1. UNCHANGED <<file, journal, exposed>>
    BY <1>3 DEF Start, history
  <2>2. \A q \in Process \ {p} : UNCHANGED proc[q]
    BY <1>3, StartHands DEF Handed, IInv
  <2>3. proc'[p].pc \in {"lockLocal", "collect", "gate"}
    BY <1>3 DEF Start, IInv, Control, Typed, Idle
  <2> QED
    BY <1>2, <2>1, <2>2, <2>3
<1>4. CASE UNCHANGED vars
  BY <1>2, <1>4 DEF vars, history
<1> QED
  BY <1>1, <1>3, <1>4 DEF Next

\* Both invariants hold of every reachable state.
THEOREM FilesInvariance == Spec => [](IInv /\ RInv)
<1>1. Init => RInv
  BY InitRInv
<1>2. IInv /\ RInv /\ [Next]_vars => RInv'
  BY NextRInv
<1> QED
  BY <1>1, <1>2, Invariance, PTL DEF Spec

---------------------------------------------------------------------------
(* The refinement *)

\* What a reader sees of a file once the interrupted transaction is recovered.
LEMMA Seen ==
  ASSUME IInv, RInv, NEW f \in File, f \notin exposed
  PROVE  /\ \A t \in Txn : RolledBackNext(t) => Logical[f] = journal[t].original[f]
         /\ (\A t \in Txn : ~RolledBackNext(t)) => Logical[f] = file[f]
<1> DEFINE undo == {t \in OfClass("Rollback") : \/ journal[t].action[f] = "Create"
                                                \/ f \in journal[t].backups}
<1>1. OfClass("Rollback") = {t \in Txn : RolledBackNext(t)}
  BY RollbackSet DEF IInv, Control
<1>2. Logical[f] = IF undo = {} THEN file[f] ELSE journal[CHOOSE t \in undo : TRUE].original[f]
  BY DEF Logical
<1>3. ASSUME NEW t \in Txn, RolledBackNext(t) PROVE Logical[f] = journal[t].original[f]
  <2>1. OfClass("Rollback") = {t}
    BY <1>1, <1>3 DEF RInv, Alone
  <2>2. CASE undo = {}
    <3>1. Intact(t)
      BY <1>3 DEF RInv
    <3>2. AsBefore(t, f)
      BY <2>1, <2>2, <3>1 DEF Intact
    <3> QED
      BY <1>2, <2>2, <3>2 DEF AsBefore
  <2>3. CASE undo # {}
    <3>1. (CHOOSE u \in undo : TRUE) \in undo
      BY <2>3
    <3>2. (CHOOSE u \in undo : TRUE) = t
      BY <2>1, <3>1
    <3> QED
      BY <1>2, <2>3, <3>2
  <2> QED
    BY <2>2, <2>3
<1>4. ASSUME \A t \in Txn : ~RolledBackNext(t) PROVE Logical[f] = file[f]
  BY <1>1, <1>2, <1>4
<1> QED
  BY <1>3, <1>4

\* The same after a step.
LEMMA SeenNext ==
  ASSUME IInv', RInv', NEW f \in File, f \notin exposed'
  PROVE  /\ \A t \in Txn : RolledBackNext(t)' => Logical'[f] = journal'[t].original[f]
         /\ (\A t \in Txn : ~RolledBackNext(t)') => Logical'[f] = file'[f]
<1> DEFINE undo == {t \in OfClass("Rollback")' : \/ journal'[t].action[f] = "Create"
                                                 \/ f \in journal'[t].backups}
<1>1. OfClass("Rollback")' = {t \in Txn : RolledBackNext(t)'}
  BY RollbackSetNext DEF IInv, Control
<1>2. Logical'[f] = IF undo = {} THEN file'[f] ELSE journal'[CHOOSE t \in undo : TRUE].original[f]
  BY DEF Logical
<1>3. ASSUME NEW t \in Txn, RolledBackNext(t)' PROVE Logical'[f] = journal'[t].original[f]
  <2>1. OfClass("Rollback")' = {t}
    BY <1>1, <1>3 DEF RInv, Alone
  <2>2. CASE undo = {}
    <3>1. Intact(t)'
      BY <1>3 DEF RInv
    <3>2. AsBefore(t, f)'
      BY <2>1, <2>2, <3>1 DEF Intact
    <3> QED
      BY <1>2, <2>2, <3>2 DEF AsBefore
  <2>3. CASE undo # {}
    <3>1. (CHOOSE u \in undo : TRUE) \in undo
      BY <2>3
    <3>2. (CHOOSE u \in undo : TRUE) = t
      BY <2>1, <3>1
    <3> QED
      BY <1>2, <2>3, <3>2
  <2> QED
    BY <2>2, <2>3
<1>4. ASSUME \A t \in Txn : ~RolledBackNext(t)' PROVE Logical'[f] = file'[f]
  BY <1>1, <1>2, <1>4
<1> QED
  BY <1>3, <1>4

\* A transaction that is no longer to be rolled back took effect, or its rollback is
\* complete.
LEMMA RollingEnds ==
  ASSUME IInv, RInv, NEW p \in Process, Step(p) \/ Fail(p) \/ Crash(p),
         NEW t \in Txn, RolledBackNext(t), ~RolledBackNext(t)', ~CommitLocal(p)
  PROVE  UNCHANGED <<file, exposed>> /\ \A f \in File : AsBefore(t, f)
<1>1. t \in Journals /\ journal[t].state \in Rolling /\ Shown(p) /\ Staged(p)
  BY DEF RolledBackNext, RInv, IInv
<1>2. ~(RemoveJournal(p) /\ t = TxnOf(p))
  BY <1>1 DEF RemoveJournal, Shown, Staged, At, Rolling
<1>3. t \in Journals'
  <2>1. CASE UNCHANGED journal
    BY <1>1, <2>1 DEF Journals
  <2>2. CASE Begin(p)
    BY <1>1, <2>2, BeginsOne
  <2>3. CASE RemoveJournal(p)
    BY <1>1, <1>2, <2>3, RemovesOne
  <2>4. ASSUME NEW j \in Journal, Writes(TxnOf(p), j) PROVE t \in Journals'
    BY <1>1, <2>4, WritesOne
  <2> QED
    BY <2>1, <2>2, <2>3, <2>4, JournalSteps
<1>4. journal'[t].state \notin Rolling
  BY <1>3 DEF RolledBackNext
<1>5. t = TxnOf(p) /\ BeginCleanup(p)
  <2>1. journal'[t] # journal[t]
    BY <1>1, <1>4
  <2>2. ~(t = TxnOf(p) /\ RollBegin(p))
    <3>1. RollBegin(p) => journal'[TxnOf(p)].state = "RollingBack"
      BY Written, WritesOne DEF Keeping
    <3> QED
      BY <1>4, <3>1 DEF Rolling
  <2>3. ~(t = TxnOf(p) /\ (RollAdvance(p) \/ RecordPending(p) \/ Clean(p) \/ InstallAdvance(p)))
    <3>1. RollAdvance(p) \/ RecordPending(p) \/ Clean(p) \/ InstallAdvance(p)
            => journal'[TxnOf(p)].state = journal[TxnOf(p)].state
      BY Written, WritesOne DEF Keeping
    <3> QED
      BY <1>1, <1>4, <3>1
  <2>4. ~(t = TxnOf(p) /\ StartCommit(p))
    <3>1. StartCommit(p) => journal'[TxnOf(p)].state = "Committing"
      BY Written, WritesOne DEF Keeping
    <3> QED
      BY <1>4, <3>1 DEF Rolling
  <2>5. ~(t = TxnOf(p) /\ Durable(p))
    <3>1. Durable(p) => journal'[TxnOf(p)].state = "BackupsDurable"
      BY WrittenDurable, WritesOne
    <3> QED
      BY <1>4, <3>1 DEF Rolling
  <2> QED
    BY <1>1, <1>3, <2>1, <2>2, <2>3, <2>4, <2>5, JournalOf
<1> QED
  BY <1>1, <1>5 DEF BeginCleanup, Shown, At, history

\* Only an edit and the commit of a restore change what a reader sees of a file.
LEMMA SeenKept ==
  ASSUME IInv, RInv, IInv', RInv', NEW p \in Process, Step(p) \/ Fail(p) \/ Crash(p),
         ~CommitLocal(p), NEW f \in File \ exposed',
         ~(Write(p) /\ \A t \in Txn : ~RolledBackNext(t))
  PROVE  Logical'[f] = Logical[f]
<1>1. f \in File /\ f \notin exposed /\ exposed # File /\ Alone /\ Alone'
  BY ExposedGrows DEF RInv
<1>2. ASSUME NEW t \in Txn, RolledBackNext(t), RolledBackNext(t)' PROVE Logical'[f] = Logical[f]
  <2>1. journal'[t].original = journal[t].original
    BY <1>2, OriginalKept DEF RolledBackNext
  <2> QED
    BY <1>1, <1>2, <2>1, Seen, SeenNext
<1>3. ASSUME NEW t \in Txn, RolledBackNext(t), ~RolledBackNext(t)' PROVE Logical'[f] = Logical[f]
  <2>1. UNCHANGED <<file, exposed>> /\ AsBefore(t, f)
    BY <1>3, RollingEnds
  <2>2. \A u \in Txn : ~RolledBackNext(u)'
    <3>1. ~Begin(p)
      BY <1>3, <2>1, <1>1, ExposedGrows
    <3>2. \A u \in Txn : RolledBackNext(u) => u = t
      BY <1>1, <1>3 DEF Alone
    <3> QED
      BY <1>3, <3>1, <3>2, RollingGrows
  <2> QED
    BY <1>1, <1>3, <2>1, <2>2, Seen, SeenNext DEF AsBefore
<1>4. ASSUME \A t \in Txn : ~RolledBackNext(t) PROVE Logical'[f] = Logical[f]
  <2>1. file'[f] = file[f]
    <3>1. ~RollFile(p)
      <4>1. SUFFICES ASSUME RollFile(p) PROVE FALSE
        OBVIOUS
      <4>2. InTxn(p) /\ At(p, "restoreFile")
        BY <4>1 DEF RollFile, InTxn, At, Resolving
      <4>3. TxnOf(p) \in Journals /\ journal[TxnOf(p)].state = "RollingBack"
        BY <4>2, HasJournal DEF Staged, At
      <4> QED
        BY <1>4, <4>3 DEF RolledBackNext, Rolling, Journals
    <3>2. ~Install(p)
      <4>1. SUFFICES ASSUME Install(p) PROVE FALSE
        OBVIOUS
      <4>2. InTxn(p) /\ At(p, "install")
        BY <4>1 DEF Install, InTxn, At, Restoring
      <4>3. TxnOf(p) \in Journals /\ journal[TxnOf(p)].state = "Committing"
        BY <4>2, HasJournal DEF Staged, At
      <4> QED
        BY <1>4, <4>3 DEF RolledBackNext, Rolling, Journals
    <3> QED
      BY <1>4, <3>1, <3>2, FileSteps
  <2>2. CASE Begin(p)
    <3>1. /\ proc[p].id \in Txn /\ proc[p].id \in Journals'
          /\ journal'[proc[p].id].original = file /\ journal'[proc[p].id].state = "Prepared"
      BY <2>2, BeginsOne, PreparedTyped DEF IInv, Control
    <3>2. RolledBackNext(proc[p].id)'
      <4>1. PICK t : t = proc[p].id
        OBVIOUS
      <4>2. RolledBackNext(t)'
        BY <3>1, <4>1 DEF RolledBackNext, Rolling
      <4>3. proc'[p].id = proc[p].id
        BY <2>2 DEF Begin, Goto, IInv, Control, Typed, Command
      <4> QED
        BY <4>1, <4>2, <4>3
    <3>3. \A t \in Txn : RolledBackNext(t)' => Logical'[f] = journal'[t].original[f]
      BY <1>1, SeenNext
    <3>4. proc'[p].id = proc[p].id
      BY <2>2 DEF Begin, Goto, IInv, Control, Typed, Command
    <3> QED
      BY <1>1, <1>4, <3>1, <3>2, <3>3, <3>4, Seen
  <2>3. CASE ~Begin(p)
    <3>1. \A t \in Txn : ~RolledBackNext(t)'
      BY <1>4, <2>3, RollingGrows
    <3> QED
      BY <1>1, <1>4, <2>1, <3>1, Seen, SeenNext
  <2> QED
    BY <2>2, <2>3
<1> QED
  BY <1>2, <1>3, <1>4

\* What has not taken effect has content of its own.
LEMMA OwnContent ==
  ASSUME IInv, NEW p \in Process, Write(p) \/ CommitLocal(p)
  PROVE  /\ proc[p].id \in Content /\ proc[p].id \notin done \cup {Absent, Legacy}
         /\ done' = done \cup {proc[p].id}
<1>1. Placed(p) /\ proc[p] \in Command /\ ~At(p, "idle")
  BY DEF IInv, Control, Typed, Write, CommitLocal, At
<1>2. proc[p].id \in 2..(started + 1) /\ proc[p].id \in Txn
  BY <1>1 DEF Placed, Command
<1>3. proc[p].id \notin {Absent, Legacy} /\ proc[p].id \in Content
  BY <1>2 DEF Absent, Legacy, Content
<1>4. proc[p].id \notin done
  <2>1. CASE Write(p)
    BY <1>1, <2>1 DEF IInv, Fresh, Used, Begun, InTxn, Write, At, Restoring, Resolving
  <2>2. CASE CommitLocal(p)
    <3>1. InTxn(p) /\ At(p, "commitLocal") /\ proc[p].pc \in Restoring
      BY <2>2 DEF CommitLocal, InTxn, At, Restoring
    <3>2. proc[p].id \in Journals /\ journal[proc[p].id].state = "Committing"
      BY <3>1, HasJournal DEF Staged, At
    <3> QED
      BY <3>2 DEF IInv, Data, Committed
  <2> QED
    BY <2>1, <2>2
<1>5. done' = done \cup {proc[p].id}
  BY DEF Write, CommitLocal
<1> QED
  BY <1>3, <1>4, <1>5

\* A restore takes effect when its commit is recorded, in all of its files at once.
LEMMA CommitRefines ==
  ASSUME IInv, RInv, IInv', RInv', NEW p \in Process, CommitLocal(p)
  PROVE  Promise!Next
<1> SUFFICES ASSUME NEW t, t = proc[p].id PROVE Promise!Next
  OBVIOUS
<1>1. InTxn(p) /\ At(p, "commitLocal") /\ proc[p].pc \in Restoring
      /\ UNCHANGED <<file, exposed>>
  BY DEF CommitLocal, InTxn, At, Restoring, history
<1>2. t = TxnOf(p) /\ t \in Journals /\ journal[t].state = "Committing" /\ t \in Txn
  BY <1>1, HasJournal DEF Staged, At
<1>3. RolledBackNext(t) /\ Step(p)
  BY <1>2 DEF RolledBackNext, Rolling, Step
<1>4. ~RolledBackNext(t)'
  <2>1. journal'[TxnOf(p)].state = "CommittedLocal"
    BY Written, WritesOne DEF Keeping
  <2> QED
    BY <1>2, <2>1 DEF RolledBackNext, Rolling
<1>5. ASSUME exposed # File PROVE \A u \in Txn : ~RolledBackNext(u)'
  <2>1. \A u \in Txn : RolledBackNext(u) => u = t
    BY <1>2, <1>3, <1>5 DEF RInv, Alone
  <2>2. ~Begin(p)
    BY <1>1 DEF Begin, At
  <2> QED
    BY <1>3, <1>4, <2>1, <2>2, RollingGrows
<1>6. ASSUME NEW f \in File \ exposed'
      PROVE  /\ f \in Restored(t) => Logical'[f] = t
             /\ f \notin Restored(t) => Logical'[f] = Logical[f]
  <2>1. f \in File /\ f \notin exposed /\ exposed # File
    BY <1>1, <1>6
  <2>2. Logical'[f] = file[f]
    BY <1>1, <1>5, <1>6, <2>1, SeenNext
  <2>3. Logical[f] = journal[t].original[f]
    BY <1>2, <1>3, <2>1, Seen
  <2>4. /\ f \in Restored(t) => file[f] = t \/ f > NumFiles
        /\ f \notin Restored(t) => AsBefore(t, f)
    <3>1. Shown(p) /\ Reached(p) = NumFiles
      BY <1>1 DEF RInv, Reached, At
    <3> QED
      BY <1>1, <1>2, <2>1, <3>1 DEF Shown, At
  <2>5. ~(f > NumFiles)
    BY <2>1, BoundsAssumption DEF File
  <2> QED
    BY <2>1, <2>2, <2>3, <2>4, <2>5 DEF AsBefore
<1>7. /\ t \in Content /\ t \notin done \cup {Absent, Legacy} /\ done' = done \cup {t}
  BY OwnContent
<1>8. Restored(t) \in SUBSET File
  BY DEF Restored
<1>9. Promise!Commit(Restored(t), t)
  BY <1>6, <1>7, <1>8 DEF Promise!Commit, Promise!Kept
<1> QED
  BY <1>1, <1>7, <1>8, <1>9 DEF Promise!Next

\* An edit takes effect when it saves its file, or nothing is promised of that file.
LEMMA WriteRefines ==
  ASSUME IInv, RInv, IInv', RInv', NEW p \in Process, Write(p)
  PROVE  Promise!Next
<1> SUFFICES ASSUME NEW v, v = proc[p].id PROVE Promise!Next
  OBVIOUS
<1>1. Step(p) /\ ~CommitLocal(p) /\ ~Begin(p)
  BY DEF Step, Write, CommitLocal, Begin, At
<1>2. PICK g \in File : file' = [file EXCEPT ![g] = v] /\ Exposes({g})
  BY DEF Write
<1>3. v \in Content /\ v \notin done \cup {Absent, Legacy} /\ done' = done \cup {v}
  BY OwnContent
<1>4. exposed \subseteq exposed'
  BY <1>1, ExposedGrows
<1>5. CASE \A t \in Txn : ~RolledBackNext(t)
  <2>1. \A t \in Txn : ~RolledBackNext(t)'
    BY <1>1, <1>5, RollingGrows
  <2>2. ASSUME NEW f \in File \ exposed'
        PROVE  Logical'[f] = IF f = g THEN v ELSE Logical[f]
    <3>1. f \notin exposed /\ f \in File /\ f \notin exposed'
      BY <1>4, <2>2
    <3>2. Logical'[f] = file'[f] /\ Logical[f] = file[f]
      BY <1>5, <2>1, <3>1, Seen, SeenNext
    <3> QED
      BY <1>2, <3>1, <3>2 DEF IInv, Control, Typed
  <2>3. Promise!Commit({g}, v)
    BY <1>3, <2>2 DEF Promise!Commit, Promise!Kept
  <2> QED
    BY <1>3, <1>4, <2>3 DEF Promise!Next
<1>6. CASE ~(\A t \in Txn : ~RolledBackNext(t))
  <2>1. \A f \in File \ exposed' : Logical'[f] = Logical[f]
    BY <1>1, <1>6, SeenKept
  <2>2. Promise!Commit({}, v)
    BY <1>3, <2>1 DEF Promise!Commit, Promise!Kept
  <2> QED
    BY <1>3, <1>4, <2>2 DEF Promise!Next
<1> QED
  BY <1>5, <1>6

\* Every step is one of the promise, or changes nothing of it.
LEMMA StepRefines ==
  ASSUME IInv, RInv, [Next]_vars
  PROVE  [Promise!Next]_Promise!vars
<1>1. RInv'
  BY NextRInv
<1>2. IInv'
  BY StartKept, StepKept, StutterKept DEF Next
<1>3. ASSUME NEW p \in Process, Step(p) \/ Fail(p) \/ Crash(p) PROVE Promise!Next
  <2>1. CASE Write(p)
    BY <1>1, <1>2, <2>1, WriteRefines
  <2>2. CASE CommitLocal(p)
    BY <1>1, <1>2, <2>2, CommitRefines
  <2>3. CASE ~Write(p) /\ ~CommitLocal(p)
    <3>1. exposed \subseteq exposed' /\ done' = done
      BY <1>3, <2>3, ExposedGrows, HistorySteps
    <3>2. \A f \in File \ exposed' : Logical'[f] = Logical[f]
      BY <1>1, <1>2, <1>3, <2>3, SeenKept
    <3> QED
      BY <3>1, <3>2 DEF Promise!Next, Promise!Expose, Promise!Kept
  <2> QED
    BY <2>1, <2>2, <2>3
<1>4. ASSUME UNCHANGED <<file, journal, artifact, done, exposed>> PROVE UNCHANGED Promise!vars
  <2>1. OfClass("Rollback")' = OfClass("Rollback")
    BY <1>4 DEF OfClass, Class, Journals
  <2> DEFINE Undo(f) == {t \in OfClass("Rollback") : \/ journal[t].action[f] = "Create"
                                                     \/ f \in journal[t].backups}
  <2>2. \A f : Undo(f)' = Undo(f)
    BY <1>4, <2>1
  <2>3. /\ Logical = [f \in File |-> IF Undo(f) = {} THEN file[f]
                                    ELSE journal[CHOOSE t \in Undo(f) : TRUE].original[f]]
        /\ Logical' = [f \in File |-> IF Undo(f)' = {} THEN file'[f]
                                     ELSE journal'[CHOOSE t \in Undo(f)' : TRUE].original[f]]
    BY DEF Logical
  <2> HIDE DEF Undo
  <2>4. Logical' = Logical
    BY <1>4, <2>2, <2>3
  <2> QED
    BY <1>4, <2>4 DEF Promise!vars
<1>5. ASSUME NEW p \in Process, NEW op \in Op, Start(p, op) PROVE UNCHANGED Promise!vars
  BY <1>4, <1>5 DEF Start, history
<1>6. CASE UNCHANGED vars
  BY <1>4, <1>6 DEF vars, history
<1> QED
  BY <1>3, <1>5, <1>6 DEF Next

\* At first nothing is exposed, and a reader sees contents.
LEMMA InitRefines ==
  ASSUME Init
  PROVE  Promise!Init
<1>1. IInv /\ RInv
  BY InitInv, InitRInv
<1>2. exposed = {} /\ done = {}
  BY DEF Init
<1>3. \A t \in Txn : ~RolledBackNext(t)
  <2>1. ASSUME NEW t \in Txn, RolledBackNext(t) PROVE FALSE
    <3>1. t \in Journals /\ journal[t].state \in Rolling
      BY <2>1 DEF RolledBackNext
    <3>2. PICK s \in {"none", "Committed", "RolledBack", "Failed"} :
            journal = [u \in Txn |-> IF u = Legacy /\ s # "none"
                                     THEN [Prepared EXCEPT !.state = s] ELSE NoJournal]
      BY DEF Init
    <3>3. Prepared \in Journal
      BY <1>1, PreparedTyped DEF IInv, Control
    <3>4. [Prepared EXCEPT !.state = s].state = s
      BY <3>3 DEF Journal
    <3> QED
      BY <3>1, <3>2, <3>4 DEF Journals, Rolling
  <2> QED
    BY <2>1
<1>4. \A f \in File : Logical[f] = file[f]
  BY <1>1, <1>2, <1>3, Seen
<1>5. Logical = [f \in File |-> Logical[f]]
  BY DEF Logical
<1>6. Logical \in [File -> Content]
  BY <1>1, <1>4, <1>5 DEF IInv, Control, Typed
<1>7. {Absent, Legacy} \subseteq Content
  BY BoundsAssumption DEF Content, Txn, Legacy
<1> QED
  BY <1>2, <1>6, <1>7 DEF Promise!Init

\* A restore, an edit and every recovery together act as operations that change their
\* files at once, take effect at most once and are not undone.
THEOREM Atomicity == Spec => ImplementsAtomicFiles
<1>1. Init => Promise!Init
  BY InitRefines
<1>2. IInv /\ RInv /\ [Next]_vars => [Promise!Next]_Promise!vars
  BY StepRefines
<1> QED
  BY <1>1, <1>2, FilesInvariance, PTL DEF Spec, ImplementsAtomicFiles, Promise!Spec
=============================================================================
