--------------------------- MODULE AutoSyncProofs ---------------------------
(***************************************************************************)
(* Type correctness of AutoSync and the exclusion of two sync runs, for    *)
(* every value of the constants.  TypeOK is inductive on its own;          *)
(* OneSyncAtATime is inductive once TypeOK holds.  Then, below, that no    *)
(* recorded edit is forgotten.                                             *)
(***************************************************************************)
EXTENDS AutoSync, TLAPS

(* NoProc, the owner of a free lock, is no process. *)
LEMMA ProcFacts == NoProc \notin Proc
BY ConstantsAssumption DEF Proc

(* Configurations, and the 0 that stands for none, are numbers, so that a *)
(* fingerprint has its type.                                              *)
LEMMA ConfigNumbers == \A n \in Configs \cup {0} : n \in Nat
<1>1. Configs \subseteq Nat \ {0}
  BY ConstantsAssumption
<1> QED
  BY <1>1

(* The memory of a process that does nothing has its type. *)
LEMMA NoJobType == NoJob \in Job
BY WidthAssumption
   DEF NoJob, Job, AllKinds, Marker, NoMarker, Versions, Status, MissingStatus, Classes, StrikeLimit

(* The operators of status.rs return a status; the failure count stays in range. *)
LEMMA StatusOps ==
    /\ MissingStatus \in Status
    /\ \A s \in Status :
          /\ NextFailures(s) \in 0..FailureMax
          /\ RecordSuccess(s) \in Status
          /\ ClearedByOperator(s) \in Status
          /\ [s EXCEPT !.deferred = FALSE] \in Status
          /\ \A n \in Nat : Released(s, n) \in Status
    /\ \A class \in Classes \cup {"none"}, f \in 0..FailureMax, d \in BOOLEAN, n \in Nat :
          RecordFailure(class, f, d, n) \in Status
<1>1. MissingStatus \in Status
  BY WidthAssumption DEF MissingStatus, Status, StrikeLimit
<1>2. ASSUME NEW s \in Status
      PROVE  /\ NextFailures(s) \in 0..FailureMax
             /\ RecordSuccess(s) \in Status
             /\ ClearedByOperator(s) \in Status
             /\ [s EXCEPT !.deferred = FALSE] \in Status
             /\ \A n \in Nat : Released(s, n) \in Status
  <2>1. s.failures \in 0..FailureMax
    BY DEF Status
  <2>2. NextFailures(s) \in 0..FailureMax
    BY <2>1, WidthAssumption DEF NextFailures, StrikeLimit
  <2>. 0 \in 0..FailureMax /\ FALSE \in BOOLEAN
    BY WidthAssumption DEF StrikeLimit
  <2>3. RecordSuccess(s) \in Status
    BY DEF Status, RecordSuccess
  <2>4. ClearedByOperator(s) \in Status
    BY DEF Status, ClearedByOperator
  <2>5. [s EXCEPT !.deferred = FALSE] \in Status
    BY DEF Status
  <2>6. \A n \in Nat : Released(s, n) \in Status
    BY DEF Status, Released
  <2> QED
    BY <2>2, <2>3, <2>4, <2>5, <2>6
<1>3. ASSUME NEW class \in Classes \cup {"none"}, NEW f \in 0..FailureMax, NEW d \in BOOLEAN, NEW n \in Nat
      PROVE  RecordFailure(class, f, d, n) \in Status
  BY DEF RecordFailure, RaisesAttention, Status, StrikeLimit, Classes
<1> QED
  BY <1>1, <1>2, <1>3

(* The operators of pending.rs return a marker. *)
LEMMA MarkerOps ==
    /\ NoMarker \in Marker
    /\ \A m \in Marker, n \in Nat :
          /\ RecordMutation(m, n) \in Marker
          /\ EnsureForTransaction(m, n) \in Marker
          /\ ClearIfGenerationMatches(m, n) \in Marker
BY DEF NoMarker, Marker, RecordMutation, EnsureForTransaction,
       ClearIfGenerationMatches, Present

(* The fields of a job, and what an update of one field leaves a job. *)
LEMMA JobFields ==
    ASSUME NEW j \in Job
    PROVE  /\ \A m \in Marker : [j EXCEPT !.obs = m] \in Job
           /\ \A v \in Versions : [j EXCEPT !.seen = v] \in Job
           /\ \A t \in SUBSET Libs : [j EXCEPT !.todo = t] \in Job
           /\ \A l \in Libs : [j EXCEPT !.lib = l] \in Job
           /\ \A v \in Nat : [j EXCEPT !.ver = v] \in Job
           /\ \A b \in BOOLEAN : [j EXCEPT !.failed = b] \in Job
           /\ \A class \in Classes : [j EXCEPT !.class = class] \in Job
           /\ \A n \in 0..FailureMax : [j EXCEPT !.strikes = n] \in Job
           /\ \A n \in Configs : [j EXCEPT !.print = n] \in Job
           /\ \A s \in Status : [j EXCEPT !.read = s] \in Job
<1>1. \A m \in Marker : [j EXCEPT !.obs = m] \in Job
  BY DEF Job
<1>2. \A v \in Versions : [j EXCEPT !.seen = v] \in Job
  BY DEF Job
<1>3. \A t \in SUBSET Libs : [j EXCEPT !.todo = t] \in Job
  BY DEF Job
<1>4. \A l \in Libs : [j EXCEPT !.lib = l] \in Job
  BY DEF Job
<1>5. \A v \in Nat : [j EXCEPT !.ver = v] \in Job
  BY DEF Job
<1>6. \A b \in BOOLEAN : [j EXCEPT !.failed = b] \in Job
  BY DEF Job
<1>7. \A class \in Classes : [j EXCEPT !.class = class] \in Job
  BY DEF Job
<1>8. \A n \in 0..FailureMax : [j EXCEPT !.strikes = n] \in Job
  BY DEF Job
<1>9. \A n \in Configs : [j EXCEPT !.print = n] \in Job
  BY DEF Job
<1>10. \A s \in Status : [j EXCEPT !.read = s] \in Job
  BY DEF Job
<1> QED
  BY <1>1, <1>2, <1>3, <1>4, <1>5, <1>6, <1>7, <1>8, <1>9, <1>10

(* The updates of job that the actions make keep its type. *)
LEMMA JobUpdate ==
    ASSUME job \in [Proc -> Job], NEW p \in Proc
    PROVE  /\ [job EXCEPT ![p] = NoJob] \in [Proc -> Job]
           /\ \A m \in Marker : [job EXCEPT ![p].obs = m] \in [Proc -> Job]
           /\ \A l \in Libs, v \in Nat :
                 [job EXCEPT ![p].lib = l, ![p].ver = v] \in [Proc -> Job]
           /\ \A class \in Classes : [job EXCEPT ![p].class = class] \in [Proc -> Job]
           /\ \A m \in Marker, v \in Versions :
                 [job EXCEPT ![p].obs = m, ![p].seen = v] \in [Proc -> Job]
           /\ \A b \in BOOLEAN, t \in SUBSET Libs :
                 [job EXCEPT ![p].failed = b, ![p].todo = t] \in [Proc -> Job]
           /\ \A m \in Marker, v \in Versions, b \in BOOLEAN, t \in SUBSET Libs :
                 [job EXCEPT ![p].obs = m, ![p].seen = v, ![p].todo = t, ![p].failed = b]
                 \in [Proc -> Job]
           /\ \A n \in Configs : [job EXCEPT ![p].print = n] \in [Proc -> Job]
           /\ \A s \in Status : [job EXCEPT ![p].read = s] \in [Proc -> Job]
           /\ \A n \in 0..FailureMax :
                 [job EXCEPT ![p].strikes = n] \in [Proc -> Job]
<1>1. \A j \in Job : [job EXCEPT ![p] = j] \in [Proc -> Job]
  OBVIOUS
<1>2. job[p] \in Job
  OBVIOUS
<1>3. \A m \in Marker : [job EXCEPT ![p].obs = m] \in [Proc -> Job]
  BY <1>1, <1>2, JobFields
<1>4. ASSUME NEW l \in Libs, NEW v \in Nat
      PROVE  [job EXCEPT ![p].lib = l, ![p].ver = v] \in [Proc -> Job]
  <2>1. [[job[p] EXCEPT !.lib = l] EXCEPT !.ver = v] \in Job
    BY <1>2, JobFields
  <2> QED
    BY <1>1, <2>1
<1>5. \A class \in Classes : [job EXCEPT ![p].class = class] \in [Proc -> Job]
  BY <1>1, <1>2, JobFields
<1>6. ASSUME NEW m \in Marker, NEW v \in Versions
      PROVE  [job EXCEPT ![p].obs = m, ![p].seen = v] \in [Proc -> Job]
  <2>1. [[job[p] EXCEPT !.obs = m] EXCEPT !.seen = v] \in Job
    BY <1>2, JobFields
  <2> QED
    BY <1>1, <2>1
<1>7. ASSUME NEW b \in BOOLEAN, NEW t \in SUBSET Libs
      PROVE  [job EXCEPT ![p].failed = b, ![p].todo = t] \in [Proc -> Job]
  <2>1. [[job[p] EXCEPT !.failed = b] EXCEPT !.todo = t] \in Job
    BY <1>2, JobFields
  <2> QED
    BY <1>1, <2>1
<1>8. ASSUME NEW m \in Marker, NEW v \in Versions, NEW b \in BOOLEAN, NEW t \in SUBSET Libs
      PROVE  [job EXCEPT ![p].obs = m, ![p].seen = v, ![p].todo = t, ![p].failed = b]
             \in [Proc -> Job]
  <2>1. [[[[job[p] EXCEPT !.obs = m] EXCEPT !.seen = v] EXCEPT !.todo = t]
            EXCEPT !.failed = b] \in Job
    BY <1>2, JobFields
  <2> QED
    BY <1>1, <2>1
<1>9. /\ \A n \in Configs : [job EXCEPT ![p].print = n] \in [Proc -> Job]
      /\ \A s \in Status : [job EXCEPT ![p].read = s] \in [Proc -> Job]
      /\ \A n \in 0..FailureMax : [job EXCEPT ![p].strikes = n] \in [Proc -> Job]
  BY <1>1, <1>2, JobFields
<1> QED
  BY <1>1, NoJobType, <1>3, <1>4, <1>5, <1>6, <1>7, <1>8, <1>9

(* Every program counter the actions go to is a label. *)
LEMMA Names ==
    /\ "loop" \in Labels /\ "debounce" \in Labels /\ "preflight" \in Labels
    /\ "observe" \in Labels /\ "connect" \in Labels /\ "sync" \in Labels
    /\ "upload" \in Labels /\ "clear" \in Labels /\ "success" \in Labels
    /\ "recheck" \in Labels /\ "fail" \in Labels /\ "fail_write" \in Labels
    /\ "exit" \in Labels /\ "recover_probe" \in Labels /\ "schedule_probe" \in Labels
    /\ "idle" \in Labels /\ "spawned" \in Labels /\ "recover" \in Labels
    /\ "recover_try" \in Labels /\ "edit" \in Labels /\ "record" \in Labels
    /\ "ensure" \in Labels /\ "schedule" \in Labels /\ "schedule_try" \in Labels
    /\ "peek" \in Labels /\ "wait" \in Labels /\ "discard" \in Labels
    /\ "clear_read" \in Labels /\ "clear_write" \in Labels
BY DEF Labels, Locked, Unlocked

(* Goto, Finish and Continue keep the types of pc and job. *)
LEMMA Moves ==
    ASSUME TypeOK, NEW p \in Proc, NEW next \in Labels
    PROVE  /\ Goto(p, next) => pc' \in [Proc -> Labels]
           /\ Finish(p) \/ Continue(p, next)
              => pc' \in [Proc -> Labels] /\ job' \in [Proc -> Job]
<1>1. /\ "idle" \in Labels
      /\ pc \in [Proc -> Labels]
      /\ job \in [Proc -> Job]
  BY Names DEF TypeOK
<1>2. Goto(p, next) => pc' \in [Proc -> Labels]
  BY <1>1 DEF Goto
<1>3. Finish(p) => pc' \in [Proc -> Labels] /\ job' \in [Proc -> Job]
  <2>1. [job EXCEPT ![p] = NoJob] \in [Proc -> Job]
    BY <1>1, NoJobType
  <2> QED
    BY <1>1, <2>1 DEF Goto, Finish
<1>4. Continue(p, next) => pc' \in [Proc -> Labels] /\ job' \in [Proc -> Job]
  BY <1>1, <1>2, <1>3 DEF Continue
<1> QED
  BY <1>2, <1>3, <1>4

(* So does the spawn of a worker, which moves two processes. *)
LEMMA SpawnType ==
    ASSUME TypeOK, NEW c \in Commands, Spawn(c)
    PROVE  pc' \in [Proc -> Labels] /\ job' \in [Proc -> Job]
<1>1. c \in Proc /\ AfterSchedule(c) \in Labels
  BY Names DEF Proc, AfterSchedule
<1>2. CASE Continue(c, AfterSchedule(c))
  BY <1>1, <1>2, Moves
<1>3. ASSUME NEW w \in Workers,
             pc' = [pc EXCEPT ![w] = "spawned", ![c] = AfterSchedule(c)],
             job' = [job EXCEPT ![w] = [NoJob EXCEPT !.kind = "worker"],
                                ![c] = IF AfterSchedule(c) = "idle" THEN NoJob ELSE @]
      PROVE  pc' \in [Proc -> Labels] /\ job' \in [Proc -> Job]
  <2>1. pc' \in [Proc -> Labels]
    BY <1>1, <1>3, Names DEF TypeOK, Proc
  <2>2. [NoJob EXCEPT !.kind = "worker"] \in Job
    BY NoJobType DEF Job
  <2>3. c # w
    BY ConstantsAssumption
  <2>4. job' \in [Proc -> Job]
    BY <1>3, <2>2, <2>3, NoJobType DEF TypeOK, Proc
  <2> QED
    BY <2>1, <2>4
<1> QED
  BY <1>2, <1>3 DEF Spawn

(* What a step leaves alone keeps its type. *)
LEMMA TypeFrame ==
    /\ TypeOK /\ UNCHANGED <<marker, clock>> => marker' \in Marker /\ clock' \in Nat
    /\ TypeOK /\ UNCHANGED status => status' \in Status
    /\ TypeOK /\ UNCHANGED config => config' \in Configs
    /\ TypeOK /\ UNCHANGED lock => lock' \in Proc \cup {NoProc}
    /\ TypeOK /\ UNCHANGED job => job' \in [Proc -> Job]
    /\ TypeOK /\ UNCHANGED data
       => local' \in Versions /\ server' \in Versions /\ recorded' \in Versions
BY DEF TypeOK, data

(* The steps of a command outside its sync keep the types. *)
LEMMA CommandTypes ==
    ASSUME TypeOK, NEW c \in Commands, CommandStep(c), ~SyncStep(c)
    PROVE  TypeOK'
<1> c \in Proc
  BY DEF Proc
<1> AfterSchedule(c) \in Labels
  BY Names DEF AfterSchedule
<1> USE DEF files
<1>1. CASE Schedule(c)
  <2>1. CASE Spawn(c)
    BY <1>1, <2>1, SpawnType, TypeFrame DEF Schedule, TypeOK
  <2>2. CASE Continue(c, AfterSchedule(c))
    BY <1>1, <2>2, Moves, TypeFrame DEF Schedule, TypeOK
  <2>3. CASE /\ Goto(c, IF pc[c] = "recover" THEN "recover_try" ELSE "schedule_try")
             /\ job' = [job EXCEPT ![c].print = config]
    <3>1. pc' \in [Proc -> Labels]
      BY <2>3, Names DEF Goto, TypeOK
    <3>2. job' \in [Proc -> Job]
      BY <2>3, JobUpdate DEF TypeOK
    <3> QED
      BY <1>1, <3>1, <3>2, TypeFrame DEF Schedule, TypeOK
  <2> QED
    BY <1>1, <2>1, <2>2, <2>3 DEF Schedule
<1>2. CASE ProbeLock(c)
  BY <1>2, Names, NoJobType DEF ProbeLock, Continue, Finish, Goto, TypeOK, data
<1>3. CASE ProbeDone(c)
  <2>1. job[c].print \in Nat
    <3>1. job[c].print \in Configs \cup {0}
      BY DEF TypeOK, Job
    <3> QED
      BY <3>1, ConfigNumbers
  <2>2. status' \in Status
    BY <1>3, <2>1, StatusOps DEF ProbeDone, TypeOK
  <2>3. pc' \in [Proc -> Labels] /\ job' \in [Proc -> Job]
    BY <1>3, SpawnType, Moves DEF ProbeDone
  <2> QED
    BY <1>3, <2>2, <2>3, TypeFrame DEF ProbeDone, TypeOK
<1>4. CASE Edit(c)
  <2> PICK l \in Libs :
         /\ local' = [local EXCEPT ![l] = @ + 1]
         /\ job' = [job EXCEPT ![c].lib = l, ![c].ver = local[l] + 1]
    BY <1>4 DEF Edit
  <2>1. local' \in Versions /\ local[l] + 1 \in Nat
    BY DEF TypeOK, Versions
  <2>2. job' \in [Proc -> Job]
    BY <2>1, JobUpdate DEF TypeOK
  <2>3. pc' \in [Proc -> Labels]
    BY <1>4, Names DEF Edit, Goto, TypeOK
  <2> QED
    BY <1>4, <2>1, <2>2, <2>3 DEF Edit, TypeOK
<1>5. CASE NoEdit(c)
  BY <1>5, Names, NoJobType DEF NoEdit, Continue, Finish, Goto, TypeOK, data
<1>6. ASSUME RecordPending(c) \/ EnsurePending(c) PROVE TypeOK'
  <2>1. pc' \in [Proc -> Labels] /\ job' \in [Proc -> Job]
    BY <1>6, Names, Moves DEF RecordPending, EnsurePending
  <2>2. clock' \in Nat
    BY <1>6 DEF RecordPending, EnsurePending, TypeOK
  <2>3. marker' \in Marker
    BY <1>6, <2>2, MarkerOps DEF RecordPending, EnsurePending, TypeOK
  <2>4. job[c].ver \in Nat
    BY DEF TypeOK, Job
  <2>5. Covered(c) \in Versions
    BY <2>4 DEF Covered, Larger, TypeOK, Versions
  <2>6. recorded' \in Versions
    BY <1>6, <2>5 DEF RecordPending, EnsurePending, TypeOK
  <2> QED
    BY <1>6, <2>1, <2>2, <2>3, <2>6 DEF RecordPending, EnsurePending, TypeOK
<1>7. CASE AcquireForeground(c)
  BY <1>7, Names DEF AcquireForeground, Goto, TypeOK, data
<1>8. CASE WaitTimeout(c)
  BY <1>8, Names, NoJobType DEF WaitTimeout, Finish, Goto, TypeOK, data
<1>9. ASSUME ObserveUnlocked(c) \/ ObserveLocked(c) PROVE TypeOK'
  <2>1. pc' \in [Proc -> Labels]
    BY <1>9, Names DEF ObserveUnlocked, ObserveLocked, Finish, Goto, TypeOK
  <2>2. Observed(c) => job' \in [Proc -> Job]
    <3>1. [job EXCEPT ![c].obs = marker, ![c].seen = recorded] \in [Proc -> Job]
      BY JobUpdate DEF TypeOK
    <3> QED
      BY <3>1 DEF Observed
  <2>3. job' \in [Proc -> Job]
    BY <1>9, <2>2, Moves, TypeFrame DEF ObserveUnlocked, ObserveLocked
  <2> QED
    BY <1>9, <2>1, <2>3, TypeFrame DEF ObserveUnlocked, ObserveLocked, TypeOK
<1>10. CASE DiscardPending(c)
  <2>1. job[c].obs.gen \in Nat
    BY DEF TypeOK, Job, Marker
  <2>2. marker' \in Marker
    BY <1>10, <2>1, MarkerOps DEF DiscardPending, TypeOK
  <2>3. recorded' \in Versions
    BY <1>10 DEF DiscardPending, Waived, TypeOK, Versions
  <2>4. pc' \in [Proc -> Labels] /\ job' \in [Proc -> Job]
    BY <1>10, Moves DEF DiscardPending
  <2> QED
    BY <1>10, <2>2, <2>3, <2>4 DEF DiscardPending, TypeOK
<1>11. CASE ClearFailureRead(c)
  <2>1. pc' \in [Proc -> Labels]
    BY <1>11, Names DEF ClearFailureRead, Finish, Goto, TypeOK
  <2>2. job' \in [Proc -> Job]
    <3>1. [job EXCEPT ![c].read = status] \in [Proc -> Job]
      BY JobUpdate DEF TypeOK
    <3>2. [job EXCEPT ![c] = NoJob] \in [Proc -> Job]
      BY JobUpdate DEF TypeOK
    <3> QED
      BY <1>11, <3>1, <3>2 DEF ClearFailureRead, Finish
  <2> QED
    BY <1>11, <2>1, <2>2, TypeFrame DEF ClearFailureRead, TypeOK
<1>12. CASE ClearFailureWrite(c)
  <2>1. job[c].read \in Status
    BY DEF TypeOK, Job
  <2>2. status' \in Status
    BY <1>12, <2>1, StatusOps DEF ClearFailureWrite, TypeOK
  <2>3. pc' \in [Proc -> Labels] /\ job' \in [Proc -> Job]
    BY <1>12, Moves DEF ClearFailureWrite
  <2> QED
    BY <1>12, <2>2, <2>3, TypeFrame DEF ClearFailureWrite, TypeOK
<1> QED
  BY <1>1, <1>2, <1>3, <1>4, <1>5, <1>6, <1>7, <1>8, <1>9, <1>10, <1>11, <1>12
  DEF CommandStep

(* The steps of a worker outside its sync keep the types. *)
LEMMA WorkerTypes ==
    ASSUME TypeOK, NEW w \in Workers, WorkerStep(w), ~SyncStep(w)
    PROVE  TypeOK'
<1> w \in Proc
  BY DEF Proc
<1> USE DEF files
<1>0. PendingErrors \subseteq Classes
  BY DEF PendingErrors, Classes
<1>1. ASSUME NEW class \in Classes, FailWith(w, class)
      PROVE  pc' \in [Proc -> Labels] /\ job' \in [Proc -> Job]
  <2>1. job' \in [Proc -> Job]
    BY <1>1, JobUpdate DEF FailWith, TypeOK
  <2> QED
    BY <1>1, <2>1, Names, Moves DEF FailWith
<1>2. "internal" \in Classes
  BY DEF Classes
<1>3. CASE TryAcquire(w)
  BY <1>3, Names, NoJobType DEF TryAcquire, Finish, Goto, TypeOK, data
<1>4. CASE ReadPending(w)
  <2>1. [job EXCEPT ![w].obs = marker] \in [Proc -> Job]
    BY JobUpdate DEF TypeOK
  <2>2. pc' \in [Proc -> Labels] /\ job' \in [Proc -> Job]
    BY <1>0, <1>1, <1>4, <2>1, Names, Moves, TypeFrame DEF ReadPending
  <2> QED
    BY <1>4, <2>2, TypeFrame DEF ReadPending, TypeOK
<1>5. CASE LifetimeOver(w)
  BY <1>5, Names DEF LifetimeOver, Goto, TypeOK, data
<1>6. CASE Debounce(w)
  <2>1. [job EXCEPT ![w].obs = marker] \in [Proc -> Job]
    BY JobUpdate DEF TypeOK
  <2>2. pc' \in [Proc -> Labels] /\ job' \in [Proc -> Job]
    BY <1>1, <1>2, <1>6, <2>1, Names, Moves, TypeFrame DEF Debounce, TypeOK
  <2> QED
    BY <1>6, <2>2, TypeFrame DEF Debounce, TypeOK
<1>7. CASE Preflight(w)
  <2>1. [job EXCEPT ![w].obs = marker, ![w].seen = recorded,
                    ![w].todo = Libs, ![w].failed = FALSE] \in [Proc -> Job]
    BY JobUpdate DEF TypeOK
  <2>2. pc' \in [Proc -> Labels] /\ job' \in [Proc -> Job]
    BY <1>0, <1>1, <1>2, <1>7, <2>1, Names, Moves, TypeFrame DEF Preflight
  <2> QED
    BY <1>7, <2>2, TypeFrame DEF Preflight, TypeOK
<1>8. CASE Recheck(w)
  <2>1. pc' \in [Proc -> Labels] /\ job' \in [Proc -> Job]
    BY <1>1, <1>2, <1>8, Names, Moves, TypeFrame DEF Recheck
  <2> QED
    BY <1>8, <2>1, TypeFrame DEF Recheck, TypeOK
<1>9. CASE ReadStrikes(w)
  <2>1. job' \in [Proc -> Job]
    BY <1>9, JobUpdate, StatusOps DEF ReadStrikes, TypeOK
  <2>2. pc' \in [Proc -> Labels]
    BY <1>9, Names, Moves DEF ReadStrikes
  <2> QED
    BY <1>9, <2>1, <2>2, TypeFrame DEF ReadStrikes, TypeOK
<1> QED
  BY <1>3, <1>4, <1>5, <1>6, <1>7, <1>8, <1>9 DEF WorkerStep

(* The steps of a sync, of a worker or a command, keep the types. *)
LEMMA SyncTypes ==
    ASSUME TypeOK, NEW p \in Proc, SyncStep(p)
    PROVE  TypeOK'
<1> USE DEF files
<1>1. ASSUME NEW class \in Classes, RunFails(p, class)
      PROVE  pc' \in [Proc -> Labels] /\ job' \in [Proc -> Job]
  <2>1. [job EXCEPT ![p].class = class] \in [Proc -> Job]
    BY JobUpdate DEF TypeOK
  <2>2. pc' \in [Proc -> Labels]
    BY <1>1, Names DEF RunFails, Goto, TypeOK
  <2> QED
    BY <1>1, <2>1, <2>2 DEF RunFails, TypeOK
<1>2. CASE Connect(p)
  <2>1. pc' \in [Proc -> Labels] /\ job' \in [Proc -> Job]
    BY <1>1, <1>2, ConstantsAssumption, Names, Moves, TypeFrame DEF Connect
  <2> QED
    BY <1>2, <2>1, TypeFrame DEF Connect, TypeOK
<1>3. CASE ReadLibrary(p)
  <2>1. job' \in [Proc -> Job]
    <3> PICK l \in job[p].todo : job' = [job EXCEPT ![p].lib = l, ![p].ver = local[l]]
      BY <1>3 DEF ReadLibrary
    <3>1. l \in Libs
      BY DEF TypeOK, Job
    <3>2. local[l] \in Nat
      BY <3>1 DEF TypeOK, Versions
    <3> QED
      BY <3>1, <3>2, JobUpdate DEF TypeOK
  <2> QED
    BY <1>3, <2>1, Names, Moves, TypeFrame DEF ReadLibrary, TypeOK
<1>4. CASE Upload(p)
  <2>1. job[p].ver \in Nat
    BY DEF TypeOK, Job
  <2>2. Received(p) \in Versions
    BY <2>1 DEF Received, Larger, TypeOK, Versions
  <2>3. server' \in Versions
    BY <1>4, <2>2 DEF Upload, TypeOK
  <2>4. job' \in [Proc -> Job]
    <3> PICK ok \in BOOLEAN :
           job' = [job EXCEPT ![p].failed = @ \/ ~ok, ![p].todo = @ \ {job[p].lib}]
      BY <1>4 DEF Upload
    <3>1. job[p].failed \in BOOLEAN /\ job[p].todo \in SUBSET Libs
      BY DEF TypeOK, Job
    <3> DEFINE b == job[p].failed \/ ~ok
               t == job[p].todo \ {job[p].lib}
    <3>2. b \in BOOLEAN /\ t \in SUBSET Libs
      BY <3>1
    <3>3. job \in [Proc -> Job] /\ job' = [job EXCEPT ![p].failed = b, ![p].todo = t]
      BY DEF TypeOK
    <3> HIDE DEF b, t
    <3>4. \A bb \in BOOLEAN, tt \in SUBSET Libs :
             [job EXCEPT ![p].failed = bb, ![p].todo = tt] \in [Proc -> Job]
      BY <3>3, JobUpdate
    <3>5. [job EXCEPT ![p].failed = b, ![p].todo = t] \in [Proc -> Job]
      BY <3>2, <3>4, Zenon
    <3> QED
      BY <3>3, <3>5, Zenon
  <2>5. pc' \in [Proc -> Labels]
    BY <1>4, Names, Moves DEF Upload
  <2> QED
    BY <1>4, <2>3, <2>4, <2>5 DEF Upload, TypeOK
<1>5. CASE SyncDone(p)
  <2>1. "transient" \in Classes /\ AfterSync(job[p].kind) \in Labels
    BY Names DEF Classes, AfterSync
  <2>2. pc' \in [Proc -> Labels] /\ job' \in [Proc -> Job]
    BY <1>1, <1>5, <2>1, Moves, TypeFrame DEF SyncDone
  <2> QED
    BY <1>5, <2>2, TypeFrame DEF SyncDone, TypeOK
<1>6. CASE Acknowledge(p)
  <2>1. job[p].obs.gen \in Nat
    BY DEF TypeOK, Job, Marker
  <2>2. marker' \in Marker
    BY <1>6, <2>1, MarkerOps DEF Acknowledge, TypeOK
  <2>3. \A class \in PendingErrors : FailWith(p, class) => job' \in [Proc -> Job]
    <3> SUFFICES ASSUME NEW class \in PendingErrors, FailWith(p, class)
                 PROVE  job' \in [Proc -> Job]
      OBVIOUS
    <3>1. class \in Classes
      BY DEF PendingErrors, Classes
    <3>2. job \in [Proc -> Job] /\ job' = [job EXCEPT ![p].class = class]
      BY DEF TypeOK, FailWith
    <3> QED
      BY <3>1, <3>2, JobUpdate
  <2>4. job' \in [Proc -> Job]
    BY <1>6, <2>3, TypeFrame DEF Acknowledge
  <2>5. pc' \in [Proc -> Labels]
    BY <1>6, Names DEF Acknowledge, FailWith, Goto, TypeOK
  <2> QED
    BY <1>6, <2>2, <2>4, <2>5, TypeFrame DEF Acknowledge, TypeOK
<1>7. CASE WriteSuccess(p)
  <2>1. status' \in Status
    BY <1>7, StatusOps DEF WriteSuccess, TypeOK
  <2> QED
    BY <1>7, <2>1, Names, TypeFrame DEF WriteSuccess, Goto, TypeOK
<1>8. CASE WriteFailure(p)
  <2>1. status' \in Status
    <3>1. job[p].strikes \in 0..FailureMax /\ 0 \in 0..FailureMax
      BY WidthAssumption DEF TypeOK, Job, StrikeLimit
    <3>2. config \in Configs \cup {0} /\ job[p].print \in Configs \cup {0}
      BY DEF TypeOK, Job
    <3>3. config \in Nat /\ job[p].print \in Nat
      BY <3>2, ConfigNumbers
    <3>4. job[p].class \in Classes \cup {"none"}
      BY DEF TypeOK, Job
    <3> QED
      BY <1>8, <3>1, <3>3, <3>4, StatusOps DEF WriteFailure, TypeOK
  <2> QED
    BY <1>8, <2>1, Names, TypeFrame DEF WriteFailure, Goto, TypeOK
<1>9. CASE Release(p)
  BY <1>9, Names, NoJobType DEF Release, Finish, Goto, TypeOK, data
<1> QED
  BY <1>2, <1>3, <1>4, <1>5, <1>6, <1>7, <1>8, <1>9 DEF SyncStep

(* The initial states have their types. *)
LEMMA TypeInit == Init => TypeOK
<1> SUFFICES ASSUME Init PROVE TypeOK
  OBVIOUS
<1>1. [l \in Libs |-> 0] \in Versions
  BY DEF Versions
<1> QED
  BY <1>1, Names, NoJobType, MarkerOps, StatusOps DEF Init, TypeOK

(* The start of a command keeps the types. *)
LEMMA StartTypes ==
    ASSUME TypeOK, NEW c \in Commands, NEW k \in Kinds, Start(c, k)
    PROVE  TypeOK'
<1>1. c \in Proc /\ k \in AllKinds
  BY ConstantsAssumption DEF Proc
<1>2. PICK scope \in IF k \in {"sync", "retry"} THEN Scopes ELSE {Libs},
           push \in IF k = "sync" THEN Pushes ELSE {TRUE} :
         job' = [job EXCEPT ![c] = [NoJob EXCEPT !.kind = k, !.todo = scope,
                                                 !.push = push, !.print = config]]
  BY DEF Start
<1>3. scope \in SUBSET Libs /\ push \in BOOLEAN
  BY <1>2, ConstantsAssumption, Zenon
<1>4. [NoJob EXCEPT !.kind = k, !.todo = scope, !.push = push, !.print = config] \in Job
  <2>1. \A b \in BOOLEAN :
           [NoJob EXCEPT !.kind = k, !.todo = scope, !.push = b, !.print = config] \in Job
    BY <1>1, <1>3, NoJobType DEF Job, TypeOK
  <2> QED
    BY <1>3, <2>1, Zenon
<1>5. job' \in [Proc -> Job]
  <2>1. \A j \in Job : [job EXCEPT ![c] = j] \in [Proc -> Job]
    BY <1>1 DEF TypeOK
  <2> QED
    BY <1>2, <1>4, <2>1, Zenon
<1>6. pc' \in [Proc -> Labels]
  BY <1>1, Names DEF Start, FirstStep, Goto, TypeOK
<1> QED
  BY <1>5, <1>6, TypeFrame DEF Start, files, TypeOK

(* The type invariant is inductive on its own. *)
LEMMA TypeStep == TypeOK /\ [Next]_vars => TypeOK'
<1> SUFFICES ASSUME TypeOK, [Next]_vars PROVE TypeOK'
  OBVIOUS
<1>1. CASE UNCHANGED vars
  BY <1>1 DEF TypeOK, vars, files, data
<1>2. ASSUME NEW w \in Workers, WorkerStep(w) PROVE TypeOK'
  BY <1>2, WorkerTypes, SyncTypes DEF Proc
<1>3. ASSUME NEW c \in Commands, CommandStep(c) PROVE TypeOK'
  BY <1>3, CommandTypes, SyncTypes DEF Proc
<1>4. ASSUME NEW c \in Commands, NEW k \in Kinds, Start(c, k) PROVE TypeOK'
  BY <1>4, StartTypes
<1>5. ASSUME NEW p \in Proc, Crash(p) PROVE TypeOK'
  BY <1>5, Names, Moves, TypeFrame DEF Crash, files, TypeOK
<1>6. CASE BackoffElapses
  <2>1. status' \in Status
    BY <1>6, StatusOps DEF BackoffElapses, TypeOK
  <2> QED
    BY <1>6, <2>1 DEF BackoffElapses, TypeOK, data
<1>7. CASE ChangeConfig
  BY <1>7 DEF ChangeConfig, TypeOK, data
<1> QED
  BY <1>1, <1>2, <1>3, <1>4, <1>5, <1>6, <1>7 DEF Next

(* Type correctness: in every reachable state the files, the lock and the       *)
(* memory of every process (pending.rs, status.rs, worker.rs) have their types, *)
(* the failure count of the status never exceeds the third strike among them.   *)
THEOREM Typing == Spec => []TypeOK
BY TypeInit, TypeStep, PTL DEF Spec

-----------------------------------------------------------------------------
(* Which labels stand for holding the execution lock. *)
LEMMA LockedNames ==
    /\ "loop" \in Locked /\ "debounce" \in Locked /\ "preflight" \in Locked
    /\ "observe" \in Locked /\ "connect" \in Locked /\ "sync" \in Locked
    /\ "upload" \in Locked /\ "clear" \in Locked /\ "success" \in Locked
    /\ "recheck" \in Locked /\ "fail" \in Locked /\ "fail_write" \in Locked
    /\ "exit" \in Locked /\ "recover_probe" \in Locked /\ "schedule_probe" \in Locked
    /\ "idle" \notin Locked /\ "spawned" \notin Locked /\ "recover" \notin Locked
    /\ "recover_try" \notin Locked /\ "edit" \notin Locked /\ "record" \notin Locked
    /\ "ensure" \notin Locked /\ "schedule" \notin Locked /\ "schedule_try" \notin Locked
    /\ "peek" \notin Locked /\ "wait" \notin Locked /\ "discard" \notin Locked
    /\ "clear_read" \notin Locked /\ "clear_write" \notin Locked
BY DEF Locked

(* A step of one process keeps the correspondence between the lock and the *)
(* program counters if it keeps the lock, takes a free lock or releases it. *)
LEMMA LockMoves ==
    ASSUME TypeOK, OneSyncAtATime, NEW p \in Proc, NEW n \in Labels,
           pc' = [pc EXCEPT ![p] = n],
           \/ lock' = lock /\ (n \in Locked <=> pc[p] \in Locked)
           \/ lock = NoProc /\ lock' = p /\ n \in Locked
           \/ lock = p /\ lock' = NoProc /\ n \notin Locked
    PROVE  OneSyncAtATime'
BY ProcFacts DEF OneSyncAtATime, TypeOK

(* Nobody holds the lock initially, and nobody is where a holder is. *)
LEMMA LockInit == Init => OneSyncAtATime
BY ProcFacts, LockedNames DEF Init, OneSyncAtATime

(* Every step keeps the correspondence of lock and program counters. *)
LEMMA LockStep == TypeOK /\ OneSyncAtATime /\ [Next]_vars => OneSyncAtATime'
<1> SUFFICES ASSUME TypeOK, OneSyncAtATime, [Next]_vars PROVE OneSyncAtATime'
  OBVIOUS
<1>0. NoProc \notin Proc
  BY ProcFacts
<1> USE Names, LockedNames
<1>1. CASE UNCHANGED vars
  BY <1>1 DEF OneSyncAtATime, vars
<1>2. ASSUME NEW p \in Proc, SyncStep(p) PROVE OneSyncAtATime'
  <2>1. lock = p \/ pc[p] \notin Locked
    BY DEF OneSyncAtATime
  <2>2. CASE Connect(p)
    BY <2>2, LockMoves DEF Connect, RunFails, Goto
  <2>3. CASE ReadLibrary(p)
    BY <2>3, LockMoves DEF ReadLibrary, Goto
  <2>4. CASE Upload(p)
    BY <2>4, LockMoves DEF Upload, Goto
  <2>5. CASE SyncDone(p)
    BY <2>5, LockMoves DEF SyncDone, AfterSync, RunFails, Goto
  <2>6. CASE Acknowledge(p)
    BY <2>6, LockMoves DEF Acknowledge, FailWith, Goto
  <2>7. CASE WriteSuccess(p)
    BY <2>7, LockMoves DEF WriteSuccess, Goto
  <2>8. CASE WriteFailure(p)
    BY <2>8, LockMoves DEF WriteFailure, Goto
  <2>9. CASE Release(p)
    BY <2>1, <2>9, LockMoves DEF Release, Finish, Goto
  <2> QED
    BY <1>2, <2>2, <2>3, <2>4, <2>5, <2>6, <2>7, <2>8, <2>9 DEF SyncStep
<1>3. ASSUME NEW w \in Workers, WorkerStep(w) PROVE OneSyncAtATime'
  <2> w \in Proc
    BY DEF Proc
  <2>1. CASE TryAcquire(w)
    BY <2>1, LockMoves DEF TryAcquire, Finish, Goto
  <2>2. CASE ReadPending(w)
    BY <2>2, LockMoves DEF ReadPending, FailWith, Goto
  <2>3. CASE LifetimeOver(w)
    BY <2>3, LockMoves DEF LifetimeOver, Goto
  <2>4. CASE Debounce(w)
    <3>1. pc' = pc \/ \E n \in {"fail", "preflight", "exit"} : pc' = [pc EXCEPT ![w] = n]
      BY <2>4 DEF Debounce, FailWith, Goto
    <3> QED
      BY <2>4, <3>1, LockMoves DEF Debounce, OneSyncAtATime
  <2>5. CASE Preflight(w)
    BY <2>5, LockMoves DEF Preflight, FailWith, Goto
  <2>6. CASE Recheck(w)
    BY <2>6, LockMoves DEF Recheck, FailWith, Goto
  <2>7. CASE ReadStrikes(w)
    BY <2>7, LockMoves DEF ReadStrikes, Goto
  <2> QED
    BY <1>2, <1>3, <2>1, <2>2, <2>3, <2>4, <2>5, <2>6, <2>7 DEF WorkerStep
<1>4. ASSUME NEW c \in Commands, CommandStep(c) PROVE OneSyncAtATime'
  <2> c \in Proc
    BY DEF Proc
  <2>0. AfterSchedule(c) \in Labels /\ AfterSchedule(c) \notin Locked
    BY DEF AfterSchedule
  <2>1. ASSUME Spawn(c),
               \/ pc[c] \notin Locked /\ lock' = lock
               \/ pc[c] \in Locked /\ lock' = NoProc
        PROVE  OneSyncAtATime'
    <3>1. CASE Continue(c, AfterSchedule(c))
      BY <2>0, <2>1, <3>1, LockMoves DEF Continue, Finish, Goto, OneSyncAtATime
    <3>2. ASSUME NEW w \in Workers, pc[w] = "idle",
                 pc' = [pc EXCEPT ![w] = "spawned", ![c] = AfterSchedule(c)]
          PROVE  OneSyncAtATime'
      <4> w \in Proc /\ w # c
        BY ConstantsAssumption DEF Proc
      <4> QED
        BY <1>0, <2>0, <2>1, <3>2 DEF OneSyncAtATime, TypeOK
    <3> QED
      BY <2>1, <3>1, <3>2 DEF Spawn
  <2>2. CASE Schedule(c)
    BY <2>0, <2>1, <2>2, LockMoves DEF Schedule, Continue, Finish, Goto
  <2>3. CASE ProbeLock(c)
    BY <2>0, <2>3, LockMoves DEF ProbeLock, Continue, Finish, Goto
  <2>4. CASE ProbeDone(c)
    BY <2>0, <2>1, <2>4, LockMoves DEF ProbeDone, Continue, Finish, Goto, OneSyncAtATime
  <2>5. CASE Edit(c)
    BY <2>5, LockMoves DEF Edit, Goto
  <2>6. CASE NoEdit(c)
    BY <2>6, LockMoves DEF NoEdit, Continue, Finish, Goto
  <2>7. ASSUME RecordPending(c) \/ EnsurePending(c) PROVE OneSyncAtATime'
    BY <2>7, LockMoves DEF RecordPending, EnsurePending, Continue, Finish, Goto
  <2>8. CASE AcquireForeground(c)
    BY <2>8, LockMoves DEF AcquireForeground, Goto
  <2>9. CASE WaitTimeout(c)
    BY <2>9, LockMoves DEF WaitTimeout, Finish, Goto
  <2>10. ASSUME ObserveUnlocked(c) \/ ObserveLocked(c) PROVE OneSyncAtATime'
    BY <2>10, LockMoves DEF ObserveUnlocked, ObserveLocked, Finish, Goto
  <2>11. CASE DiscardPending(c)
    BY <2>11, LockMoves DEF DiscardPending, Finish, Goto
  <2>12. ASSUME ClearFailureRead(c) \/ ClearFailureWrite(c) PROVE OneSyncAtATime'
    BY <2>12, LockMoves DEF ClearFailureRead, ClearFailureWrite, Finish, Goto
  <2> QED
    BY <1>2, <1>4, <2>2, <2>3, <2>4, <2>5, <2>6, <2>7, <2>8, <2>9, <2>10, <2>11, <2>12
    DEF CommandStep
<1>5. ASSUME NEW c \in Commands, NEW k \in Kinds, Start(c, k) PROVE OneSyncAtATime'
  BY <1>5, LockMoves DEF Start, FirstStep, Goto, Proc
<1>6. ASSUME NEW p \in Proc, Crash(p) PROVE OneSyncAtATime'
  <2>1. lock = p <=> pc[p] \in Locked
    BY DEF OneSyncAtATime
  <2> QED
    BY <1>6, <2>1, LockMoves DEF Crash, Finish, Goto
<1>7. CASE BackoffElapses \/ ChangeConfig
  BY <1>7 DEF BackoffElapses, ChangeConfig, OneSyncAtATime
<1> QED
  BY <1>1, <1>3, <1>4, <1>5, <1>6, <1>7 DEF Next

(* Mutual exclusion of syncs (execution_lock.rs): the processes between    *)
(* try_acquire or wait_acquire and the drop of their guard are exactly the *)
(* owner of the lock, so two syncs of one device never overlap.            *)
THEOREM Exclusion == Spec => []OneSyncAtATime
<1>1. Init => TypeOK /\ OneSyncAtATime
  BY TypeInit, LockInit
<1>2. TypeOK /\ OneSyncAtATime /\ [Next]_vars => TypeOK' /\ OneSyncAtATime'
  BY TypeStep, LockStep
<1> QED
  BY <1>1, <1>2, PTL DEF Spec
-----------------------------------------------------------------------------
(* A worker's attention stops the scheduler.                               *)

(* What asks for attention after counted failures is of a class that is not *)
(* retried, so that it stands in the scheduler's way.                       *)
Telling(s) == s.attention /\ s.failures > 0 => Blocked(s)

(* Only successes, failures, releases, the operator and time write the status. *)
LEMMA StatusMoves ==
    ASSUME [Next]_vars
    PROVE  \/ status' = status
           \/ status' = RecordSuccess(status)
           \/ \E class, failures, deferred, print :
                 status' = RecordFailure(class, failures, deferred, print)
           \/ \E print : status' = Released(status, print)
           \/ \E p \in Proc : status' = ClearedByOperator(job[p].read)
           \/ status' = [status EXCEPT !.deferred = FALSE]
<1> USE DEF files
<1>1. CASE UNCHANGED vars
  BY <1>1 DEF vars
<1>2. ASSUME NEW p \in Proc, SyncStep(p)
      PROVE  \/ status' = status
             \/ status' = RecordSuccess(status)
             \/ \E class, failures, deferred, print :
                   status' = RecordFailure(class, failures, deferred, print)
  <2>1. CASE WriteSuccess(p)
    BY <2>1 DEF WriteSuccess
  <2>2. CASE WriteFailure(p)
    BY <2>2 DEF WriteFailure
  <2> QED
    BY <1>2, <2>1, <2>2 DEF SyncStep, Connect, ReadLibrary, Upload, SyncDone, Acknowledge, Release
<1>3. ASSUME NEW w \in Workers, WorkerStep(w), ~SyncStep(w) PROVE status' = status
  BY <1>3 DEF WorkerStep, TryAcquire, ReadPending, LifetimeOver, Debounce, Preflight, Recheck, ReadStrikes
<1>4. ASSUME NEW c \in Commands, CommandStep(c), ~SyncStep(c)
      PROVE  \/ status' = status
             \/ \E print : status' = Released(status, print)
             \/ \E p \in Proc : status' = ClearedByOperator(job[p].read)
  <2>1. CASE ProbeDone(c)
    BY <2>1 DEF ProbeDone
  <2>2. CASE ClearFailureWrite(c)
    BY <2>2 DEF ClearFailureWrite, Proc
  <2> QED
    BY <1>4, <2>1, <2>2 DEF CommandStep, Schedule, ProbeLock, Edit, NoEdit, RecordPending, EnsurePending,
        AcquireForeground, WaitTimeout, ObserveUnlocked, ObserveLocked, DiscardPending, ClearFailureRead
<1>5. ASSUME NEW c \in Commands, NEW k \in Kinds, Start(c, k) PROVE status' = status
  BY <1>5 DEF Start
<1>6. ASSUME NEW p \in Proc, Crash(p) PROVE status' = status
  BY <1>6 DEF Crash
<1>7. CASE BackoffElapses \/ ChangeConfig
  BY <1>7 DEF BackoffElapses, ChangeConfig
<1> QED
  BY <1>1, <1>2, <1>3, <1>4, <1>5, <1>6, <1>7 DEF Next, Proc

(* Every one of these writes keeps the status telling. *)
LEMMA TellingStep ==
    ASSUME TypeOK, Telling(status), [Next]_vars
    PROVE  Telling(status')
<1> USE DEF Telling, Blocked, NoRetry
<1>1. status \in Status /\ \A p \in Proc : job[p].read \in Status
  BY DEF TypeOK, Job
<1>2. ASSUME NEW s \in Status PROVE ~ClearedByOperator(s).attention
  BY DEF Status, ClearedByOperator
<1>3. ASSUME NEW print PROVE ~Released(status, print).attention
  BY <1>1 DEF Status, Released
<1>4. ASSUME NEW class, NEW failures, NEW deferred, NEW print
      PROVE  Telling(RecordFailure(class, failures, deferred, print))
  BY DEF RecordFailure, RaisesAttention
<1>5. ~RecordSuccess(status).attention
  BY DEF RecordSuccess
<1>6. Telling([status EXCEPT !.deferred = FALSE])
  BY <1>1 DEF Status
<1> HIDE DEF Telling
<1>7. ASSUME NEW p \in Proc, status' = ClearedByOperator(job[p].read) PROVE Telling(status')
  BY <1>1, <1>2, <1>7 DEF Telling
<1>8. ASSUME NEW print, status' = Released(status, print) PROVE Telling(status')
  BY <1>3, <1>8 DEF Telling
<1>9. ASSUME NEW class, NEW failures, NEW deferred, NEW print,
             status' = RecordFailure(class, failures, deferred, print)
      PROVE  Telling(status')
  BY <1>4, <1>9
<1>10. CASE status' = RecordSuccess(status)
  BY <1>5, <1>10 DEF Telling
<1> QED
  BY <1>6, <1>7, <1>8, <1>9, <1>10, StatusMoves

(* A process that goes anywhere but to "spawned" spawns nobody. *)
LEMMA NoSpawn ==
    ASSUME TypeOK, NEW p \in Proc,
           pc' = pc \/ \E n : n # "spawned" /\ pc' = [pc EXCEPT ![p] = n]
    PROVE  \A c \in Commands : ~Spawns(c)
<1>1. CASE pc' = pc
  BY <1>1 DEF Spawns
<1>2. ASSUME NEW n, n # "spawned", pc' = [pc EXCEPT ![p] = n] PROVE \A c \in Commands : ~Spawns(c)
  BY <1>2 DEF TypeOK, Spawns, Proc
<1> QED
  BY <1>1, <1>2

(* The steps that spawn a worker are the two decisions of a command. *)
LEMMA OnlyDecisionsSpawn ==
    ASSUME TypeOK, Next, NEW c \in Commands, Spawns(c)
    PROVE  \/ Schedule(c) /\ ~Blocked(status)
           \/ ProbeDone(c) /\ Releases(status, job[c].print)
<1>1. ASSUME NEW p \in Proc, SyncStep(p) PROVE FALSE
  <2>1. pc' = pc \/ \E n \in Labels \ {"spawned"} : pc' = [pc EXCEPT ![p] = n]
    <3> USE Names
    <3>1. CASE Connect(p)
      BY <3>1 DEF Connect, RunFails, Goto
    <3>2. CASE ReadLibrary(p)
      BY <3>2 DEF ReadLibrary, Goto
    <3>3. CASE Upload(p)
      BY <3>3 DEF Upload, Goto
    <3>4. CASE SyncDone(p)
      BY <3>4 DEF SyncDone, AfterSync, RunFails, Goto
    <3>5. CASE Acknowledge(p)
      BY <3>5 DEF Acknowledge, FailWith, Goto
    <3>6. CASE WriteSuccess(p) \/ WriteFailure(p)
      BY <3>6 DEF WriteSuccess, WriteFailure, Goto
    <3>7. CASE Release(p)
      BY <3>7 DEF Release, Finish, Goto
    <3> QED
      BY <1>1, <3>1, <3>2, <3>3, <3>4, <3>5, <3>6, <3>7 DEF SyncStep
  <2> QED
    BY <2>1, NoSpawn
<1>2. ASSUME NEW w \in Workers, WorkerStep(w), ~SyncStep(w) PROVE FALSE
  <2> w \in Proc
    BY DEF Proc
  <2>1. pc' = pc \/ \E n \in Labels \ {"spawned"} : pc' = [pc EXCEPT ![w] = n]
    <3> USE Names
    <3>1. CASE TryAcquire(w)
      BY <3>1 DEF TryAcquire, Finish, Goto
    <3>2. CASE ReadPending(w)
      BY <3>2 DEF ReadPending, FailWith, Goto
    <3>3. CASE LifetimeOver(w)
      BY <3>3 DEF LifetimeOver, Goto
    <3>4. CASE Debounce(w)
      BY <3>4 DEF Debounce, FailWith, Goto
    <3>5. CASE Preflight(w)
      BY <3>5 DEF Preflight, FailWith, Goto
    <3>6. CASE Recheck(w) \/ ReadStrikes(w)
      BY <3>6 DEF Recheck, ReadStrikes, FailWith, Goto
    <3> QED
      BY <1>2, <3>1, <3>2, <3>3, <3>4, <3>5, <3>6 DEF WorkerStep
  <2> QED
    BY <2>1, NoSpawn
<1>3. ASSUME NEW d \in Commands, Schedule(d) \/ ProbeDone(d), d # c PROVE FALSE
  <2> d \in Proc /\ c \in Proc
    BY DEF Proc
  <2>1. AfterSchedule(d) # "spawned"
    BY DEF AfterSchedule
  <2>2. \/ \E n \in {AfterSchedule(d), "idle", "recover_try", "schedule_try"} : pc' = [pc EXCEPT ![d] = n]
        \/ \E w \in Workers : pc' = [pc EXCEPT ![w] = "spawned", ![d] = AfterSchedule(d)]
    BY <1>3 DEF Schedule, ProbeDone, Spawn, Continue, Finish, Goto
  <2>3. \A w \in Workers : w # c
    BY ConstantsAssumption
  <2>4. pc'[c] = pc[c]
    BY <1>3, <2>2, <2>3 DEF TypeOK
  <2> QED
    BY <2>4 DEF Spawns
<1>4. ASSUME NEW d \in Commands, CommandStep(d), ~SyncStep(d), ~Schedule(d), ~ProbeDone(d) PROVE FALSE
  <2> d \in Proc
    BY DEF Proc
  <2>1. AfterSchedule(d) # "spawned"
    BY DEF AfterSchedule
  <2>2. pc' = pc \/ \E n \in (Labels \cup {AfterSchedule(d)}) \ {"spawned"} : pc' = [pc EXCEPT ![d] = n]
    <3> USE Names, <2>1
    <3>1. CASE ProbeLock(d)
      BY <3>1 DEF ProbeLock, Continue, Finish, Goto
    <3>2. CASE Edit(d) \/ NoEdit(d)
      BY <3>2 DEF Edit, NoEdit, Continue, Finish, Goto
    <3>3. CASE RecordPending(d) \/ EnsurePending(d)
      BY <3>3 DEF RecordPending, EnsurePending, Continue, Finish, Goto
    <3>4. CASE AcquireForeground(d) \/ WaitTimeout(d)
      BY <3>4 DEF AcquireForeground, WaitTimeout, Finish, Goto
    <3>5. CASE ObserveUnlocked(d) \/ ObserveLocked(d)
      BY <3>5 DEF ObserveUnlocked, ObserveLocked, Finish, Goto
    <3>6. CASE DiscardPending(d)
      BY <3>6 DEF DiscardPending, Finish, Goto
    <3>7. CASE ClearFailureRead(d) \/ ClearFailureWrite(d)
      BY <3>7 DEF ClearFailureRead, ClearFailureWrite, Finish, Goto
    <3> QED
      BY <1>4, <3>1, <3>2, <3>3, <3>4, <3>5, <3>6, <3>7 DEF CommandStep
  <2> QED
    BY <2>2, NoSpawn
<1>5. ASSUME NEW d \in Commands, NEW k \in Kinds, Start(d, k) PROVE FALSE
  <2>1. d \in Proc /\ FirstStep(k) # "spawned"
    BY DEF Proc, FirstStep
  <2> QED
    BY <1>5, <2>1, NoSpawn DEF Start, Goto
<1>6. ASSUME NEW p \in Proc, Crash(p) PROVE FALSE
  BY <1>6, NoSpawn DEF Crash, Finish, Goto
<1>7. CASE BackoffElapses \/ ChangeConfig
  BY <1>7 DEF BackoffElapses, ChangeConfig, Spawns
<1>8. ASSUME Schedule(c), Blocked(status) PROVE FALSE
  <2> c \in Proc /\ AfterSchedule(c) # "spawned"
    BY DEF Proc, AfterSchedule
  <2>1. \E n \in {AfterSchedule(c), "idle", "recover_try", "schedule_try"} : pc' = [pc EXCEPT ![c] = n]
    BY <1>8 DEF Schedule, Continue, Finish, Goto
  <2> QED
    BY <2>1, NoSpawn
<1>9. ASSUME ProbeDone(c), ~Releases(status, job[c].print) PROVE FALSE
  <2> c \in Proc /\ AfterSchedule(c) # "spawned"
    BY DEF Proc, AfterSchedule
  <2>1. \E n \in {AfterSchedule(c), "idle"} : pc' = [pc EXCEPT ![c] = n]
    BY <1>9 DEF ProbeDone, Continue, Finish, Goto
  <2> QED
    BY <2>1, NoSpawn
<1> QED
  BY <1>1, <1>2, <1>3, <1>4, <1>5, <1>6, <1>7, <1>8, <1>9 DEF Next, Proc

(* While a worker's failures ask for attention under the present           *)
(* configuration, no command spawns a worker, for any commands and faults. *)
THEOREM AttentionStops == Spec => WorkerAttentionHolds
<1> DEFINE Step == \A c \in Commands :
                      Spawns(c) /\ (Probing(c) => job[c].print = config)
                      => ~(status.attention /\ status.failures > 0 /\ status.print = config)
<1> SUFFICES Spec => [][Step]_vars
  BY DEF WorkerAttentionHolds
<1>1. Init => TypeOK /\ Telling(status)
  BY TypeInit DEF Init, Telling, MissingStatus
<1>2. TypeOK /\ Telling(status) /\ [Next]_vars => TypeOK' /\ Telling(status)'
  BY TypeStep, TellingStep
<1>3. TypeOK /\ Telling(status) /\ [Next]_vars => [Step]_vars
  <2> SUFFICES ASSUME TypeOK, Telling(status), Next, NEW c \in Commands, Spawns(c),
                      Probing(c) => job[c].print = config,
                      status.attention, status.failures > 0, status.print = config
               PROVE  FALSE
    OBVIOUS
  <2>1. CASE Schedule(c) /\ ~Blocked(status)
    BY <2>1 DEF Telling
  <2>2. CASE ProbeDone(c) /\ Releases(status, job[c].print)
    BY <2>2 DEF ProbeDone, Probing, Releases
  <2> QED
    BY <2>1, <2>2, OnlyDecisionsSpawn
<1> QED
  BY <1>1, <1>2, <1>3, PTL DEF Spec

---------------------------------------------------------------------------
(* No recorded edit is forgotten: AutoSync keeps IntentKept and implements *)
(* SyncIntent, for any number of workers, commands, libraries and edits,   *)
(* with crashes and failures, as long as foreground syncs cover all        *)
(* libraries and push, and restore, --sync and discard-pending are not     *)
(* used (the runs show what they do to the promise).                       *)

OrdinaryUse ==
    /\ Kinds \subseteq {"mutate", "browse", "sync", "retry", "clear_failure"}
    /\ Scopes \subseteq {Libs}
    /\ Pushes \subseteq {TRUE}

(* Process p will acknowledge the generation it observed. *)
Acknowledging(p) ==
    \/ pc[p] \in {"connect", "sync", "upload", "clear"}
    \/ pc[p] = "success" /\ job[p].kind # "worker"

(* Foreground syncs cover everything, and nobody reads the marker without  *)
(* the lock or touches it without recording or acknowledging.              *)
WholeSyncs(p) ==
    /\ job[p].push = TRUE
    /\ job[p].kind \notin {"flag", "restore", "discard"}
    /\ pc[p] \notin {"peek", "ensure", "discard"}
    /\ pc[p] \in {"wait", "observe", "connect"} => job[p].todo = Libs

(* The edit that a command is about to record has been committed. *)
EditCommitted(p) ==
    pc[p] = "record" => job[p].lib \in Libs /\ job[p].ver <= local[job[p].lib]

(* The marker cannot fall behind the observed one before it is             *)
(* acknowledged, and while it has not moved on nothing new was recorded.   *)
MarkerHolds(p) ==
    Present(job[p].obs) =>
        /\ marker.gen >= job[p].obs.gen
        /\ marker.gen = job[p].obs.gen => \A l \in Libs : recorded[l] <= job[p].seen[l]

(* What was recorded when p observed the marker, p has uploaded, is about  *)
(* to upload, or knows that it failed to.                                  *)
UploadCovers(p) ==
    /\ \A l \in Libs : job[p].seen[l] <= local[l]
    /\ job[p].failed \/ \A l \in Libs : l \in job[p].todo \/ job[p].seen[l] <= server[l]
    /\ pc[p] = "upload" => job[p].lib \in Libs /\ job[p].seen[job[p].lib] <= job[p].ver
    /\ pc[p] \in {"success", "clear"} => ~job[p].failed /\ job[p].todo = {}
    /\ p \in Workers => Present(job[p].obs)

ProcInv(p) ==
    /\ WholeSyncs(p)
    /\ EditCommitted(p)
    /\ Acknowledging(p) => MarkerHolds(p) /\ UploadCovers(p)

RecordedCommitted == \A l \in Libs : recorded[l] <= local[l]

IntentInv ==
    /\ RecordedCommitted
    /\ \A p \in Proc : ProcInv(p)
    /\ IntentKept

Inv == TypeOK /\ OneSyncAtATime /\ IntentInv

-----------------------------------------------------------------------------
(* Nothing is owed, edited or observed initially. *)
LEMMA InitIntent == Init => IntentInv
<1> SUFFICES ASSUME Init PROVE IntentInv
  OBVIOUS
<1>1. RecordedCommitted /\ IntentKept
  BY DEF Init, RecordedCommitted, IntentKept, Owed
<1>2. ASSUME NEW p \in Proc PROVE ProcInv(p)
  BY DEF Init, ProcInv, WholeSyncs, EditCommitted, Acknowledging, NoJob
<1> QED
  BY <1>1, <1>2 DEF IntentInv

(* Facts about the numbers in a process' memory, for the arithmetic below. *)
LEMMA Numbers ==
    ASSUME TypeOK
    PROVE  /\ \A l \in Libs : local[l] \in Nat /\ server[l] \in Nat /\ recorded[l] \in Nat
           /\ marker.gen \in Nat
           /\ \A p \in Proc : /\ job[p].obs.gen \in Nat /\ job[p].ver \in Nat
                             /\ \A l \in Libs : job[p].seen[l] \in Nat
                             /\ job[p].todo \subseteq Libs
BY DEF TypeOK, Versions, Marker, Job

(* The same in the next state. *)
LEMMA NumbersNext ==
    ASSUME TypeOK'
    PROVE  /\ \A l \in Libs : local'[l] \in Nat /\ server'[l] \in Nat /\ recorded'[l] \in Nat
           /\ marker'.gen \in Nat
           /\ \A p \in Proc : /\ job'[p].obs.gen \in Nat /\ job'[p].ver \in Nat
                             /\ \A l \in Libs : job'[p].seen[l] \in Nat
                             /\ job'[p].todo \subseteq Libs
BY DEF TypeOK, Versions, Marker, Job

(* A process that does nothing keeps its part of the invariant when others *)
(* edit, upload, or record.                                                *)
LEMMA Undisturbed ==
    ASSUME TypeOK, TypeOK', NEW p \in Proc, ProcInv(p),
           pc'[p] = pc[p], job'[p] = job[p],
           \A l \in Libs : local[l] <= local'[l] /\ server[l] <= server'[l],
           \/ ~Acknowledging(p)
           \/ marker'.gen > marker.gen
           \/ marker' = marker /\ recorded' = recorded
    PROVE  ProcInv(p)'
<1>1. WholeSyncs(p)'
  BY DEF ProcInv, WholeSyncs
<1>2. EditCommitted(p)'
  BY Numbers, NumbersNext DEF ProcInv, EditCommitted
<1>3. ASSUME Acknowledging(p)' PROVE MarkerHolds(p)' /\ UploadCovers(p)'
  <2>1. Acknowledging(p) /\ MarkerHolds(p) /\ UploadCovers(p)
    BY <1>3 DEF Acknowledging, ProcInv
  <2>2. MarkerHolds(p)'
    BY <2>1, Numbers, NumbersNext DEF MarkerHolds, Present
  <2>3. UploadCovers(p)'
    BY <2>1, Numbers, NumbersNext DEF UploadCovers
  <2> QED
    BY <2>2, <2>3
<1> QED
  BY <1>1, <1>2, <1>3 DEF ProcInv

(* A process that gives up or finishes its sync has no obligation left. *)
LEMMA Aside ==
    ASSUME NEW p \in Proc, ProcInv(p),
           \/ job'[p] = NoJob
           \/ job'[p].push = job[p].push /\ job'[p].kind = job[p].kind,
           pc'[p] \in {"idle", "spawned", "recover", "recover_try", "edit", "schedule",
                      "schedule_try", "clear_read", "clear_write", "loop", "debounce",
                      "preflight", "recheck", "fail", "fail_write", "exit",
                      "recover_probe", "schedule_probe"}
    PROVE  ProcInv(p)'
BY DEF ProcInv, WholeSyncs, EditCommitted, Acknowledging, NoJob

(* A step that leaves marker and data alone only has to restore the part   *)
(* of the process that takes it.                                           *)
LEMMA QuietStep ==
    ASSUME Inv, TypeOK', UNCHANGED <<marker, data>>, NEW p \in Proc,
           \A q \in Proc \ {p} : pc'[q] = pc[q] /\ job'[q] = job[q],
           ProcInv(p)'
    PROVE  IntentInv'
<1>1. ASSUME NEW q \in Proc PROVE ProcInv(q)'
  <2>1. CASE q = p
    BY <2>1
  <2>2. CASE q # p
    <3>1. ProcInv(q) /\ TypeOK
      BY DEF Inv, IntentInv
    <3>2. \A l \in Libs : local[l] <= local'[l] /\ server[l] <= server'[l]
      BY Numbers, <3>1 DEF data
    <3> QED
      BY <2>2, <3>1, <3>2, Undisturbed DEF data
  <2> QED
    BY <2>1, <2>2
<1>2. RecordedCommitted' /\ IntentKept'
  BY DEF Inv, IntentInv, RecordedCommitted, IntentKept, Owed, Present, data
<1> QED
  BY <1>1, <1>2 DEF IntentInv

-----------------------------------------------------------------------------
(* The steps of a sync. *)
LEMMA SyncIntentStep ==
    ASSUME Inv, TypeOK', NEW p \in Proc, SyncStep(p)
    PROVE  IntentInv'
<1> USE DEF files
<1>0. /\ TypeOK /\ ProcInv(p)
      /\ pc \in [Proc -> Labels] /\ job \in [Proc -> Job]
  BY DEF Inv, IntentInv, TypeOK
<1>9. ASSUME NEW class \in Classes, RunFails(p, class) PROVE ProcInv(p)'
  <2>1. job'[p].push = job[p].push /\ job'[p].kind = job[p].kind
    BY <1>0, <1>9 DEF RunFails, Job
  <2>2. pc'[p] \in {"exit", "fail", "fail_write"}
    BY <1>0, <1>9 DEF RunFails, Goto
  <2> QED
    BY <1>0, <2>1, <2>2, Aside
<1>1. CASE Connect(p)
  <2>1. CASE Goto(p, "sync") /\ UNCHANGED job
    <3>1. /\ pc[p] = "connect" /\ pc'[p] = "sync" /\ job' = job
          /\ UNCHANGED <<marker, local, server, recorded>>
      BY <1>0, <1>1, <2>1 DEF Connect, Goto, data
    <3>2. MarkerHolds(p) /\ UploadCovers(p)
      BY <1>0, <3>1 DEF ProcInv, Acknowledging
    <3>3. MarkerHolds(p)' /\ UploadCovers(p)'
      BY <3>1, <3>2 DEF MarkerHolds, UploadCovers
    <3>4. ProcInv(p)'
      <4>1. WholeSyncs(p)'
        BY <1>0, <3>1 DEF ProcInv, WholeSyncs
      <4>2. EditCommitted(p)'
        BY <3>1 DEF EditCommitted
      <4> QED
        BY <3>3, <4>1, <4>2 DEF ProcInv
    <3> QED
      BY <1>0, <1>1, <2>1, <3>4, QuietStep DEF Connect, Goto
  <2>2. ASSUME NEW class \in SyncFailures, RunFails(p, class) PROVE IntentInv'
    <3>1. ProcInv(p)'
      BY <1>9, <2>2, ConstantsAssumption
    <3> QED
      BY <1>0, <1>1, <2>2, <3>1, QuietStep DEF Connect, RunFails, Goto
  <2> QED
    BY <1>1, <2>1, <2>2 DEF Connect
<1>2. CASE ReadLibrary(p)
  <2> PICK l \in job[p].todo : job' = [job EXCEPT ![p].lib = l, ![p].ver = local[l]]
    BY <1>2 DEF ReadLibrary
  <2>1. job'[p] = [job[p] EXCEPT !.lib = l, !.ver = local[l]] /\ pc'[p] = "upload"
    BY <1>0, <1>2 DEF ReadLibrary, Goto
  <2>2. l \in Libs
    BY <1>0 DEF Job
  <2>3. /\ job'[p].push = job[p].push /\ job'[p].kind = job[p].kind
        /\ job'[p].obs = job[p].obs /\ job'[p].seen = job[p].seen
        /\ job'[p].todo = job[p].todo /\ job'[p].failed = job[p].failed
        /\ job'[p].lib = l /\ job'[p].ver = local[l]
    BY <1>0, <2>1 DEF Job
  <2>4. Acknowledging(p)
    BY <1>2 DEF ReadLibrary, Acknowledging
  <2>5. ProcInv(p)'
    BY <1>0, <1>2, <2>1, <2>2, <2>3, <2>4
    DEF ReadLibrary, ProcInv, WholeSyncs, EditCommitted, MarkerHolds, UploadCovers, data
  <2> QED
    BY <1>0, <1>2, <2>5, QuietStep DEF ReadLibrary, Goto
<1>3. CASE SyncDone(p)
  <2>1. CASE RunFails(p, "transient")
    <3>1. ProcInv(p)'
      BY <1>9, <2>1 DEF Classes
    <3> QED
      BY <1>0, <1>3, <2>1, <3>1, QuietStep DEF SyncDone, RunFails, Goto
  <2>2. CASE ~job[p].failed /\ Goto(p, AfterSync(job[p].kind)) /\ UNCHANGED job
    <3>1. Acknowledging(p)
      BY <1>3 DEF SyncDone, Acknowledging
    <3>2. pc'[p] \in {"success", "clear"}
      BY <1>0, <2>2 DEF Goto, AfterSync
    <3>3. /\ job[p].todo = {} /\ job' = job
          /\ UNCHANGED <<marker, local, server, recorded>>
      BY <1>3, <2>2 DEF SyncDone, data
    <3>4. MarkerHolds(p) /\ UploadCovers(p)
      BY <1>0, <3>1 DEF ProcInv
    <3>5. MarkerHolds(p)' /\ UploadCovers(p)'
      BY <2>2, <3>2, <3>3, <3>4 DEF MarkerHolds, UploadCovers
    <3>6. ProcInv(p)'
      <4>1. WholeSyncs(p)'
        BY <1>0, <3>2, <3>3 DEF ProcInv, WholeSyncs
      <4>2. EditCommitted(p)'
        BY <3>2 DEF EditCommitted
      <4> QED
        BY <3>5, <4>1, <4>2 DEF ProcInv
    <3> QED
      BY <1>0, <1>3, <2>2, <3>6, QuietStep DEF SyncDone, Goto
  <2> QED
    BY <1>3, <2>1, <2>2 DEF SyncDone
<1>4. CASE WriteSuccess(p)
  <2>1. CASE job[p].kind = "worker"
    BY <1>0, <1>4, <2>1, QuietStep, Aside DEF WriteSuccess, Goto
  <2>2. CASE job[p].kind # "worker"
    <3>1. Acknowledging(p)
      BY <1>4, <2>2 DEF WriteSuccess, Acknowledging
    <3>2. pc'[p] = "clear"
      BY <1>0, <1>4, <2>2 DEF WriteSuccess, Goto
    <3>3. ProcInv(p)'
      BY <1>0, <1>4, <3>1, <3>2
      DEF WriteSuccess, ProcInv, WholeSyncs, EditCommitted, MarkerHolds, UploadCovers, data
    <3> QED
      BY <1>0, <1>4, <3>3, QuietStep DEF WriteSuccess, Goto
  <2> QED
    BY <2>1, <2>2
<1>5. CASE WriteFailure(p)
  BY <1>0, <1>5, QuietStep, Aside DEF WriteFailure, Goto
<1>6. CASE Release(p)
  BY <1>0, <1>6, QuietStep, Aside DEF Release, Finish, Goto
<1>7. CASE Upload(p)
  <2> DEFINE l == job[p].lib
  <2>1. /\ Acknowledging(p) /\ UploadCovers(p) /\ MarkerHolds(p)
        /\ l \in Libs /\ job[p].seen[l] <= job[p].ver /\ job[p].push = TRUE
    BY <1>0, <1>7 DEF Upload, Acknowledging, ProcInv, UploadCovers, WholeSyncs
  <2>2. PICK ok \in BOOLEAN :
           /\ server' \in IF ok THEN {Received(p)} ELSE {server, Received(p)}
           /\ job' = [job EXCEPT ![p].failed = @ \/ ~ok, ![p].todo = @ \ {l}]
    BY <1>7 DEF Upload
  <2>3. Received(p) = [server EXCEPT ![l] = Larger(@, job[p].ver)]
    BY <2>1 DEF Received
  <2>4. /\ \A k \in Libs : server[k] <= server'[k]
        /\ ok => job[p].seen[l] <= server'[l]
    BY <1>0, <2>1, <2>2, <2>3, Numbers DEF Larger, TypeOK, Versions
  <2>5. /\ job'[p].push = job[p].push /\ job'[p].kind = job[p].kind
        /\ job'[p].obs = job[p].obs /\ job'[p].seen = job[p].seen
        /\ job'[p].todo = job[p].todo \ {l}
    BY <1>0, <2>2 DEF Job
  <2>6. job'[p].failed <=> (job[p].failed \/ ~ok)
    BY <1>0, <2>2 DEF Job
  <2>7. pc'[p] = "sync" /\ UNCHANGED <<marker, local, recorded>>
    BY <1>0, <1>7 DEF Upload, Goto
  <2>8. UploadCovers(p)'
    <3>1. job'[p].failed \/ \A k \in Libs : k \in job'[p].todo \/ job'[p].seen[k] <= server'[k]
      BY <1>0, <2>1, <2>4, <2>5, <2>6, Numbers, NumbersNext DEF UploadCovers
    <3> QED
      BY <2>1, <2>5, <2>7, <3>1 DEF UploadCovers
  <2>9. ProcInv(p)'
    <3>1. WholeSyncs(p)' /\ EditCommitted(p)'
      BY <1>0, <2>5, <2>7 DEF ProcInv, WholeSyncs, EditCommitted
    <3>2. MarkerHolds(p)'
      BY <2>1, <2>5, <2>7 DEF MarkerHolds
    <3> QED
      BY <2>8, <3>1, <3>2 DEF ProcInv
  <2>10. ASSUME NEW q \in Proc, q # p PROVE ProcInv(q)'
    <3>1. pc'[q] = pc[q] /\ job'[q] = job[q] /\ ProcInv(q)
      BY <1>0, <1>7, <2>2, <2>10 DEF Upload, Goto, Inv, IntentInv
    <3>2. \A k \in Libs : local[k] <= local'[k]
      BY <1>0, <2>7, Numbers
    <3> QED
      BY <1>0, <2>4, <2>7, <3>1, <3>2, Undisturbed
  <2>11. RecordedCommitted' /\ IntentKept'
    BY <1>0, <2>4, <2>7, Numbers, NumbersNext
    DEF Inv, IntentInv, RecordedCommitted, IntentKept, Owed, Present
  <2> QED
    BY <2>9, <2>10, <2>11 DEF IntentInv
<1>8. CASE Acknowledge(p)
  <2>1. UNCHANGED <<data, lock>> /\ pc[p] = "clear"
    BY <1>8 DEF Acknowledge
  <2>2. ProcInv(p)'
    <3>1. CASE UNCHANGED job /\ Goto(p, IF job[p].kind = "worker" THEN "success" ELSE "exit")
      BY <1>0, <3>1 DEF Goto, ProcInv, WholeSyncs, EditCommitted, Acknowledging
    <3>2. ASSUME NEW class \in PendingErrors, FailWith(p, class) PROVE ProcInv(p)'
      BY <1>0, <3>2, Aside DEF FailWith, Goto
    <3>3. CASE UNCHANGED job /\ Goto(p, "exit")
      BY <1>0, <3>3, Aside DEF Goto
    <3> QED
      BY <1>8, <3>1, <3>2, <3>3 DEF Acknowledge
  <2>3. \A q \in Proc \ {p} : pc'[q] = pc[q] /\ job'[q] = job[q]
    BY <1>0, <1>8 DEF Acknowledge, FailWith, Goto
  <2>4. CASE marker' = marker
    BY <2>1, <2>2, <2>3, <2>4, QuietStep
  <2>5. CASE marker' # marker
    <3>1. Present(job[p].obs) /\ marker.gen = job[p].obs.gen
      BY <1>8, <2>5 DEF Acknowledge, ClearIfGenerationMatches, Present
    <3>2. MarkerHolds(p) /\ UploadCovers(p)
      BY <1>0, <2>1 DEF ProcInv, Acknowledging
    <3>3. \A l \in Libs : recorded[l] <= job[p].seen[l] /\ job[p].seen[l] <= server[l]
      BY <2>1, <3>1, <3>2 DEF MarkerHolds, UploadCovers
    <3>4. \A l \in Libs : recorded[l] <= server[l]
      BY <1>0, <3>3, Numbers
    <3>5. IntentKept'
      BY <1>0, <2>1, <3>4, Numbers DEF IntentKept, Owed, data
    <3>6. ASSUME NEW q \in Proc, q # p PROVE ProcInv(q)'
      <4>1. ~Acknowledging(q)
        BY <2>1, <3>6, LockedNames DEF Inv, OneSyncAtATime, Acknowledging
      <4>2. ProcInv(q)
        BY DEF Inv, IntentInv
      <4>3. \A l \in Libs : local[l] <= local'[l] /\ server[l] <= server'[l]
        BY <1>0, <2>1, Numbers DEF data
      <4> QED
        BY <1>0, <2>3, <3>6, <4>1, <4>2, <4>3, Undisturbed
    <3>7. RecordedCommitted'
      BY <2>1 DEF Inv, IntentInv, RecordedCommitted, data
    <3> QED
      BY <2>2, <3>5, <3>6, <3>7 DEF IntentInv
  <2> QED
    BY <2>4, <2>5
<1> QED
  BY <1>1, <1>2, <1>3, <1>4, <1>5, <1>6, <1>7, <1>8 DEF SyncStep

(* The steps of a worker up to its sync, and its follow-up decision. *)
LEMMA WorkerIntentStep ==
    ASSUME Inv, TypeOK', NEW w \in Workers, WorkerStep(w), ~SyncStep(w)
    PROVE  IntentInv'
<1> USE DEF files
<1> w \in Proc
  BY DEF Proc
<1>0. /\ TypeOK /\ ProcInv(w)
      /\ pc \in [Proc -> Labels] /\ job \in [Proc -> Job]
  BY DEF Inv, IntentInv, TypeOK
<1>1. CASE TryAcquire(w)
  BY <1>0, <1>1, QuietStep, Aside DEF TryAcquire, Finish, Goto
<1>2. ASSUME UNCHANGED <<marker, data>>,
             pc'[w] \in {"idle", "loop", "debounce", "preflight", "fail", "fail_write", "exit"},
             job'[w].push = job[w].push /\ job'[w].kind = job[w].kind,
             \A q \in Proc \ {w} : pc'[q] = pc[q] /\ job'[q] = job[q]
      PROVE  IntentInv'
  BY <1>0, <1>2, QuietStep, Aside
<1>3. \A m : job' = [job EXCEPT ![w].obs = m]
             => job'[w].push = job[w].push /\ job'[w].kind = job[w].kind
  BY <1>0 DEF Job
<1>4. ASSUME UNCHANGED <<marker, data>>, NEW class, FailWith(w, class)
      PROVE  IntentInv'
  <2>1. job'[w].push = job[w].push /\ job'[w].kind = job[w].kind
    BY <1>0, <1>4 DEF FailWith, Job
  <2> QED
    BY <1>0, <1>2, <1>4, <2>1 DEF FailWith, Goto
<1>5. CASE ReadPending(w)
  <2>1. UNCHANGED <<marker, data>>
    BY <1>5 DEF ReadPending
  <2>2. CASE Goto(w, "debounce") /\ job' = [job EXCEPT ![w].obs = marker]
    BY <1>0, <1>2, <1>3, <2>1, <2>2 DEF Goto
  <2>3. CASE Goto(w, "exit") /\ UNCHANGED job
    BY <1>0, <1>2, <2>1, <2>3 DEF Goto
  <2> QED
    BY <1>4, <1>5, <2>1, <2>2, <2>3 DEF ReadPending
<1>9. CASE LifetimeOver(w)
  BY <1>0, <1>2, <1>9 DEF LifetimeOver, Goto
<1>10. CASE Debounce(w)
  <2>1. UNCHANGED <<marker, data>> /\ pc[w] = "debounce"
    BY <1>10 DEF Debounce
  <2>2. CASE job' = [job EXCEPT ![w].obs = marker] /\ UNCHANGED pc
    BY <1>0, <1>2, <1>3, <2>1, <2>2
  <2>3. ASSUME NEW n \in {"preflight", "exit"}, Goto(w, n), UNCHANGED job PROVE IntentInv'
    BY <1>0, <1>2, <2>1, <2>3 DEF Goto
  <2> QED
    BY <1>4, <1>10, <2>1, <2>2, <2>3 DEF Debounce
<1>6. CASE Preflight(w)
  <2>1. CASE pc'[w] # "connect"
    <3>1. UNCHANGED <<marker, data>>
      BY <1>6 DEF Preflight
    <3>2. CASE Goto(w, "exit") /\ UNCHANGED job
      BY <1>0, <1>2, <3>1, <3>2 DEF Goto
    <3> QED
      BY <1>0, <1>4, <1>6, <2>1, <3>1, <3>2 DEF Preflight, Goto
  <2>2. CASE pc'[w] = "connect"
    <3>1. job' = [job EXCEPT ![w].obs = marker, ![w].seen = recorded,
                             ![w].todo = Libs, ![w].failed = FALSE]
      BY <1>0, <1>6, <2>2 DEF Preflight, FailWith, Goto
    <3>2. /\ job'[w].push = job[w].push /\ job'[w].kind = job[w].kind
          /\ job'[w].obs = marker /\ job'[w].seen = recorded /\ job'[w].todo = Libs
      BY <1>0, <3>1 DEF Job
    <3>3. UNCHANGED <<marker, data>>
      BY <1>6 DEF Preflight
    <3>4. MarkerHolds(w)'
      BY <1>0, <3>2, <3>3, Numbers DEF MarkerHolds, data
    <3>7. Present(marker)
      BY <1>0, <1>6, <2>2 DEF Preflight, FailWith, Goto
    <3>5. UploadCovers(w)'
      BY <1>0, <2>2, <3>2, <3>3, <3>7, Numbers
      DEF UploadCovers, Inv, IntentInv, RecordedCommitted, data
    <3>6. ProcInv(w)'
      BY <1>0, <2>2, <3>2, <3>4, <3>5 DEF ProcInv, WholeSyncs, EditCommitted
    <3> QED
      BY <1>0, <1>6, <3>1, <3>3, <3>6, QuietStep DEF Preflight, FailWith, Goto
  <2> QED
    BY <2>1, <2>2
<1>7. CASE Recheck(w)
  <2>1. UNCHANGED <<marker, data>>
    BY <1>7 DEF Recheck
  <2>2. ASSUME NEW n \in {"loop", "exit"}, Goto(w, n), UNCHANGED job PROVE IntentInv'
    BY <1>0, <1>2, <2>1, <2>2 DEF Goto
  <2> QED
    BY <1>4, <1>7, <2>1, <2>2 DEF Recheck
<1>8. CASE ReadStrikes(w)
  <2>1. job'[w].push = job[w].push /\ job'[w].kind = job[w].kind
    BY <1>0, <1>8 DEF ReadStrikes, Job
  <2> QED
    BY <1>0, <1>2, <1>8, <2>1 DEF ReadStrikes, Goto
<1> QED
  BY <1>1, <1>5, <1>6, <1>7, <1>8, <1>9, <1>10 DEF WorkerStep

(* The steps of a command outside its sync. *)
LEMMA CommandIntentStep ==
    ASSUME Inv, TypeOK', NEW c \in Commands, CommandStep(c), ~SyncStep(c)
    PROVE  IntentInv'
<1> USE DEF files
<1> c \in Proc
  BY DEF Proc
<1>0. /\ TypeOK /\ ProcInv(c)
      /\ pc \in [Proc -> Labels] /\ job \in [Proc -> Job]
  BY DEF Inv, IntentInv, TypeOK
<1>1. AfterSchedule(c) \in {"idle", "edit"}
  BY DEF AfterSchedule
<1>2. ASSUME NEW n \in {"idle", "edit", "schedule"}, UNCHANGED <<marker, data>>, Continue(c, n)
      PROVE  IntentInv'
  BY <1>0, <1>2, QuietStep, Aside DEF Continue, Finish, Goto
<1>3. ASSUME UNCHANGED <<marker, data>>, Spawn(c) PROVE IntentInv'
  <2>1. CASE Continue(c, AfterSchedule(c))
    BY <1>1, <1>2, <1>3, <2>1
  <2>2. ASSUME NEW w \in Workers,
               pc[w] = "idle",
               pc' = [pc EXCEPT ![w] = "spawned", ![c] = AfterSchedule(c)],
               job' = [job EXCEPT ![w] = [NoJob EXCEPT !.kind = "worker"],
                                  ![c] = IF AfterSchedule(c) = "idle" THEN NoJob ELSE @]
        PROVE  IntentInv'
    <3> w \in Proc /\ w # c
      BY ConstantsAssumption DEF Proc
    <3>1. ProcInv(w)'
      <4>1. job'[w] = [NoJob EXCEPT !.kind = "worker"] /\ pc'[w] = "spawned"
        BY <1>0, <2>2
      <4>2. job'[w].push = TRUE /\ job'[w].kind = "worker"
        BY <4>1 DEF NoJob
      <4> QED
        BY <4>1, <4>2 DEF ProcInv, WholeSyncs, EditCommitted, Acknowledging
    <3>2. ProcInv(c)'
      <4>1. pc'[c] \in {"idle", "edit"} /\ (job'[c] = NoJob \/ job'[c] = job[c])
        BY <1>0, <1>1, <2>2
      <4> QED
        BY <1>0, <4>1, Aside
    <3>3. ASSUME NEW q \in Proc, q # w, q # c PROVE ProcInv(q)'
      <4>1. pc'[q] = pc[q] /\ job'[q] = job[q] /\ ProcInv(q)
        BY <1>0, <2>2, <3>3 DEF Inv, IntentInv
      <4>2. \A l \in Libs : local[l] <= local'[l] /\ server[l] <= server'[l]
        BY <1>0, <1>3, Numbers DEF data
      <4> QED
        BY <1>0, <1>3, <4>1, <4>2, Undisturbed DEF data
    <3>4. RecordedCommitted' /\ IntentKept'
      BY <1>3 DEF Inv, IntentInv, RecordedCommitted, IntentKept, Owed, Present, data
    <3> QED
      BY <3>1, <3>2, <3>3, <3>4 DEF IntentInv
  <2> QED
    BY <1>3, <2>1, <2>2 DEF Spawn
<1>4. CASE Schedule(c)
  <2>1. CASE /\ Goto(c, IF pc[c] = "recover" THEN "recover_try" ELSE "schedule_try")
             /\ job' = [job EXCEPT ![c].print = config]
    <3>1. job'[c].push = job[c].push /\ job'[c].kind = job[c].kind
      BY <1>0, <2>1 DEF Job
    <3>2. pc'[c] \in {"recover_try", "schedule_try"}
      BY <1>0, <2>1 DEF Goto
    <3> QED
      BY <1>0, <1>4, <2>1, <3>1, <3>2, QuietStep, Aside DEF Schedule, Goto
  <2> QED
    BY <1>1, <1>2, <1>3, <1>4, <2>1 DEF Schedule
<1>5. CASE ProbeLock(c)
  <2>1. CASE UNCHANGED job /\ Goto(c, IF pc[c] = "recover_try" THEN "recover_probe"
                                                         ELSE "schedule_probe")
    BY <1>0, <1>5, <2>1, QuietStep, Aside DEF ProbeLock, Goto
  <2> QED
    BY <1>1, <1>2, <1>5, <2>1 DEF ProbeLock
<1>6. CASE ProbeDone(c)
  BY <1>1, <1>2, <1>3, <1>6 DEF ProbeDone
<1>7. CASE NoEdit(c)
  <2>1. job[c].kind # "flag"
    BY <1>0 DEF ProcInv, WholeSyncs
  <2> QED
    BY <1>2, <1>7, <2>1 DEF NoEdit
<1>8. CASE EnsurePending(c) \/ ObserveUnlocked(c) \/ DiscardPending(c)
  BY <1>0, <1>8 DEF EnsurePending, ObserveUnlocked, DiscardPending, ProcInv, WholeSyncs
<1>9. CASE AcquireForeground(c)
  <2>1. pc'[c] \in {"observe", "connect"} /\ job' = job /\ pc[c] = "wait"
    BY <1>0, <1>9 DEF AcquireForeground, Goto
  <2>2. job[c].kind # "flag"
    BY <1>0 DEF ProcInv, WholeSyncs
  <2>3. pc'[c] = "observe"
    BY <1>0, <1>9, <2>2 DEF AcquireForeground, Goto
  <2>4. ProcInv(c)'
    BY <1>0, <2>1, <2>3 DEF ProcInv, WholeSyncs, EditCommitted, Acknowledging
  <2> QED
    BY <1>0, <1>9, <2>4, QuietStep DEF AcquireForeground, Goto
<1>10. CASE WaitTimeout(c)
  BY <1>0, <1>10, QuietStep, Aside DEF WaitTimeout, Finish, Goto
<1>11. CASE ObserveLocked(c)
  <2>1. CASE Observed(c) /\ Goto(c, "connect")
    <3>1. /\ job'[c].push = job[c].push /\ job'[c].kind = job[c].kind
          /\ job'[c].obs = marker /\ job'[c].seen = recorded /\ job'[c].todo = job[c].todo
      BY <1>0, <2>1 DEF Observed, Job
    <3>2. UNCHANGED <<marker, data>> /\ pc'[c] = "connect" /\ pc[c] = "observe"
      BY <1>0, <1>11, <2>1 DEF ObserveLocked, Goto
    <3>3. job'[c].todo = Libs
      BY <1>0, <3>1, <3>2 DEF ProcInv, WholeSyncs
    <3>4. MarkerHolds(c)'
      BY <1>0, <3>1, <3>2, Numbers DEF MarkerHolds, data
    <3>5. UploadCovers(c)'
      BY <1>0, <3>1, <3>2, <3>3, Numbers, ConstantsAssumption
      DEF UploadCovers, Inv, IntentInv, RecordedCommitted, data
    <3>6. ProcInv(c)'
      <4>1. WholeSyncs(c)'
        BY <1>0, <3>1, <3>2, <3>3 DEF ProcInv, WholeSyncs
      <4>2. EditCommitted(c)'
        BY <3>2 DEF EditCommitted
      <4> QED
        BY <3>4, <3>5, <4>1, <4>2 DEF ProcInv
    <3> QED
      BY <1>0, <2>1, <3>2, <3>6, QuietStep DEF Observed, Goto
  <2>2. CASE Goto(c, "exit") /\ UNCHANGED job
    BY <1>0, <1>11, <2>2, QuietStep, Aside DEF ObserveLocked, Goto
  <2> QED
    BY <1>11, <2>1, <2>2 DEF ObserveLocked
<1>12. CASE ClearFailureRead(c)
  <2>1. CASE Goto(c, "clear_write") /\ job' = [job EXCEPT ![c].read = status]
    <3>1. job'[c].push = job[c].push /\ job'[c].kind = job[c].kind
      BY <1>0, <2>1 DEF Job
    <3> QED
      BY <1>0, <1>12, <2>1, <3>1, QuietStep, Aside DEF ClearFailureRead, Goto
  <2>2. CASE Finish(c)
    BY <1>0, <1>12, <2>2, QuietStep, Aside DEF ClearFailureRead, Finish, Goto
  <2> QED
    BY <1>12, <2>1, <2>2 DEF ClearFailureRead
<1>13. CASE ClearFailureWrite(c)
  BY <1>0, <1>13, QuietStep, Aside DEF ClearFailureWrite, Finish, Goto
<1>14. CASE Edit(c)
  <2> PICK l \in Libs :
         /\ local' = [local EXCEPT ![l] = @ + 1]
         /\ job' = [job EXCEPT ![c].lib = l, ![c].ver = local[l] + 1]
    BY <1>14 DEF Edit
  <2>1. /\ job'[c].push = job[c].push /\ job'[c].kind = job[c].kind
        /\ job'[c].lib = l /\ job'[c].ver = local[l] + 1
    BY <1>0 DEF Job
  <2>2. job[c].kind \notin {"flag", "restore"}
    BY <1>0 DEF ProcInv, WholeSyncs
  <2>3. /\ UNCHANGED <<marker, server, recorded>> /\ pc'[c] = "record"
        /\ \A q \in Proc \ {c} : pc'[q] = pc[q] /\ job'[q] = job[q]
    BY <1>0, <1>14, <2>2 DEF Edit, Goto
  <2>4. /\ \A k \in Libs : local[k] <= local'[k] /\ server[k] <= server'[k]
        /\ local'[l] = local[l] + 1
    BY <1>0, <2>3, Numbers DEF TypeOK, Versions
  <2>5. ProcInv(c)'
    <3>1. WholeSyncs(c)'
      BY <1>0, <2>1, <2>3 DEF ProcInv, WholeSyncs
    <3>2. EditCommitted(c)'
      BY <1>0, <2>1, <2>4, NumbersNext DEF EditCommitted
    <3> QED
      BY <2>3, <3>1, <3>2 DEF ProcInv, Acknowledging
  <2>6. ASSUME NEW q \in Proc, q # c PROVE ProcInv(q)'
    <3>1. ProcInv(q)
      BY DEF Inv, IntentInv
    <3> QED
      BY <1>0, <2>3, <2>4, <2>6, <3>1, Undisturbed
  <2>7. RecordedCommitted' /\ IntentKept'
    BY <1>0, <2>3, <2>4, Numbers, NumbersNext
    DEF Inv, IntentInv, RecordedCommitted, IntentKept, Owed, Present
  <2> QED
    BY <2>5, <2>6, <2>7 DEF IntentInv
<1>15. CASE RecordPending(c)
  <2>1. CASE /\ marker' = RecordMutation(marker, clock')
             /\ recorded' = Covered(c)
             /\ Continue(c, "schedule")
    <3>1. /\ UNCHANGED <<local, server, job>> /\ pc' = [pc EXCEPT ![c] = "schedule"]
          /\ pc[c] = "record"
      BY <1>15, <2>1 DEF RecordPending, Continue, Goto
    <3>2. marker'.gen > marker.gen /\ Present(marker')
      BY <1>0, <2>1, Numbers DEF RecordMutation, Present
    <3>3. ASSUME NEW q \in Proc PROVE ProcInv(q)'
      <4>1. CASE q = c
        BY <1>0, <3>1, <4>1, Aside
      <4>2. CASE q # c
        <5>1. ProcInv(q) /\ pc'[q] = pc[q] /\ job'[q] = job[q]
          BY <1>0, <3>1, <4>2 DEF Inv, IntentInv
        <5>2. \A l \in Libs : local[l] <= local'[l] /\ server[l] <= server'[l]
          BY <1>0, <3>1, Numbers
        <5> QED
          BY <1>0, <3>2, <5>1, <5>2, Undisturbed
      <4> QED
        BY <4>1, <4>2
    <3>4. RecordedCommitted'
      <4>1. job[c].lib \in Libs /\ job[c].ver <= local[job[c].lib]
        BY <1>0, <3>1 DEF ProcInv, EditCommitted
      <4>2. \A l \in Libs : recorded[l] <= local[l]
        BY DEF Inv, IntentInv, RecordedCommitted
      <4>3. recorded' = [recorded EXCEPT ![job[c].lib] = Larger(@, job[c].ver)]
        BY <2>1, <4>1 DEF Covered
      <4>4. ASSUME NEW l \in Libs PROVE recorded'[l] <= local[l]
        <5>1. CASE l = job[c].lib
          <6>1. recorded'[l] = Larger(recorded[l], job[c].ver)
            BY <1>0, <4>3, <5>1 DEF TypeOK, Versions
          <6> QED
            BY <4>1, <4>2, <5>1, <6>1 DEF Larger
        <5>2. CASE l # job[c].lib
          BY <1>0, <4>2, <4>3, <5>2 DEF TypeOK, Versions
        <5> QED
          BY <5>1, <5>2
      <4> QED
        BY <3>1, <4>4 DEF RecordedCommitted
    <3>5. IntentKept'
      BY <3>2 DEF IntentKept
    <3> QED
      BY <3>3, <3>4, <3>5 DEF IntentInv
  <2>2. CASE Finish(c) /\ UNCHANGED <<marker, recorded>>
    BY <1>0, <1>15, <2>2, QuietStep, Aside DEF RecordPending, Finish, Goto, data
  <2> QED
    BY <1>15, <2>1, <2>2 DEF RecordPending
<1> QED
  BY <1>4, <1>5, <1>6, <1>7, <1>8, <1>9, <1>10, <1>11, <1>12, <1>13, <1>14, <1>15
  DEF CommandStep

(* A command starts without an obligation, and its sync is to cover everything. *)
LEMMA StartIntentStep ==
    ASSUME OrdinaryUse, Inv, TypeOK', NEW c \in Commands, NEW k \in Kinds, Start(c, k)
    PROVE  IntentInv'
<1> c \in Proc
  BY DEF Proc
<1>0. pc \in [Proc -> Labels] /\ job \in [Proc -> Job]
  BY DEF Inv, TypeOK
<1>1. k \in {"mutate", "browse", "sync", "retry", "clear_failure"}
  BY DEF OrdinaryUse
<1>2. PICK scope \in IF k \in {"sync", "retry"} THEN Scopes ELSE {Libs},
           push \in IF k = "sync" THEN Pushes ELSE {TRUE} :
         job' = [job EXCEPT ![c] = [NoJob EXCEPT !.kind = k, !.todo = scope,
                                                 !.push = push, !.print = config]]
  BY DEF Start
<1>3. scope = Libs /\ push = TRUE
  BY <1>2 DEF OrdinaryUse
<1>4. job'[c] = [NoJob EXCEPT !.kind = k, !.todo = Libs, !.push = TRUE, !.print = config]
  BY <1>0, <1>2, <1>3
<1>5. job'[c].kind = k /\ job'[c].todo = Libs /\ job'[c].push = TRUE
  BY <1>4 DEF NoJob
<1>6. pc'[c] \in {"wait", "recover", "clear_read"}
  BY <1>0, <1>1 DEF Start, FirstStep, Goto
<1>7. ProcInv(c)'
  BY <1>1, <1>5, <1>6 DEF ProcInv, WholeSyncs, EditCommitted, Acknowledging
<1>8. \A q \in Proc \ {c} : pc'[q] = pc[q] /\ job'[q] = job[q]
  BY <1>0, <1>2 DEF Start, Goto
<1> QED
  BY <1>7, <1>8, QuietStep DEF Start, files

(* The invariant is inductive. *)
LEMMA IntentStep == OrdinaryUse /\ Inv /\ [Next]_vars => Inv'
<1> SUFFICES ASSUME OrdinaryUse, Inv, [Next]_vars PROVE Inv'
  OBVIOUS
<1>1. TypeOK' /\ OneSyncAtATime'
  BY TypeStep, LockStep DEF Inv
<1>2. CASE UNCHANGED vars
  <2>1. ASSUME NEW p \in Proc PROVE ProcInv(p)'
    BY <1>1, <1>2, <2>1, Undisturbed, Numbers DEF Inv, IntentInv, vars, files, data
  <2> QED
    BY <1>1, <1>2, <2>1 DEF Inv, IntentInv, RecordedCommitted, IntentKept, Owed, Present,
                            vars, files, data
<1>3. ASSUME NEW w \in Workers, WorkerStep(w) PROVE Inv'
  BY <1>1, <1>3, WorkerIntentStep, SyncIntentStep DEF Proc, Inv
<1>4. ASSUME NEW c \in Commands, CommandStep(c) PROVE Inv'
  BY <1>1, <1>4, CommandIntentStep, SyncIntentStep DEF Proc, Inv
<1>5. ASSUME NEW c \in Commands, NEW k \in Kinds, Start(c, k) PROVE Inv'
  BY <1>1, <1>5, StartIntentStep DEF Inv
<1>6. ASSUME NEW p \in Proc, Crash(p) PROVE Inv'
  <2>1. ProcInv(p) /\ pc \in [Proc -> Labels] /\ job \in [Proc -> Job]
    BY DEF Inv, IntentInv, TypeOK
  <2> QED
    BY <1>1, <1>6, <2>1, QuietStep, Aside DEF Crash, Finish, Goto, files, Inv
<1>7. CASE BackoffElapses \/ ChangeConfig
  <2>1. UNCHANGED <<marker, data, pc, job>>
    BY <1>7 DEF BackoffElapses, ChangeConfig
  <2>2. ASSUME NEW p \in Proc PROVE ProcInv(p)'
    BY <1>1, <2>1, Undisturbed, Numbers DEF Inv, IntentInv, data
  <2> QED
    BY <1>1, <2>1, <2>2 DEF Inv, IntentInv, RecordedCommitted, IntentKept, Owed, Present, data
<1> QED
  BY <1>2, <1>3, <1>4, <1>5, <1>6, <1>7 DEF Next

(* The invariant holds in every reachable state of an ordinary use. *)
LEMMA InvAlways == OrdinaryUse => (Spec => []Inv)
<1> SUFFICES ASSUME OrdinaryUse PROVE Spec => []Inv
  OBVIOUS
<1>1. Init => Inv
  BY TypeInit, LockInit, InitIntent DEF Inv
<1>2. Inv /\ [Next]_vars => Inv'
  BY IntentStep
<1> QED
  BY <1>1, <1>2, PTL DEF Spec

(* No recorded edit is forgotten, the property IntentKept: while the server *)
(* lacks an edit whose intent was recorded (pending.rs), a marker stands.   *)
THEOREM IntentNeverLost == OrdinaryUse => (Spec => []IntentKept)
<1> SUFFICES ASSUME OrdinaryUse PROVE Spec => []IntentKept
  OBVIOUS
<1>1. Inv => IntentKept
  BY DEF Inv, IntentInv
<1> QED
  BY <1>1, InvAlways, PTL

(* ObservationCurrent: the generation that a syncing worker will acknowledge *)
(* covers what was recorded when it was observed (preflight_check).          *)
THEOREM ObservationsCurrent == OrdinaryUse => (Spec => []ObservationCurrent)
<1> SUFFICES ASSUME OrdinaryUse PROVE Spec => []ObservationCurrent
  OBVIOUS
<1>1. Inv => ObservationCurrent
  <2> SUFFICES ASSUME Inv, NEW w \in Workers,
                      pc[w] \in {"connect", "sync", "upload", "clear"},
                      marker.gen = job[w].obs.gen
               PROVE  \A l \in Libs : recorded[l] <= job[w].seen[l]
    BY DEF ObservationCurrent
  <2>1. ProcInv(w)
    BY DEF Inv, IntentInv, Proc
  <2> QED
    BY <2>1 DEF ProcInv, Acknowledging, MarkerHolds, UploadCovers
<1> QED
  BY <1>1, InvAlways, PTL

-----------------------------------------------------------------------------
(* The refinement: owed libraries and the presence of the marker behave as *)
(* SyncIntent says.                                                        *)
LEMMA InitRefines == Init => Intent!Init
BY DEF Init, Intent!Init, Owed, Present, NoMarker

(* A step that leaves the marker and the versions alone is a stutter there. *)
LEMMA Bystanders ==
    ASSUME UNCHANGED <<marker, data>>
    PROVE  UNCHANGED Intent!vars
BY DEF data, Owed, Present, Intent!vars

(* notify_local_mutation records an intent. *)
LEMMA RecordRefines ==
    ASSUME Inv, Inv', NEW c \in Commands, RecordPending(c)
    PROVE  [Intent!Next]_Intent!vars
<1> c \in Proc
  BY DEF Proc
<1>0. TypeOK /\ ProcInv(c) /\ pc[c] = "record"
  BY DEF Inv, IntentInv, RecordPending
<1> DEFINE l == job[c].lib
<1>1. l \in Libs
  BY <1>0 DEF ProcInv, EditCommitted
<1>2. CASE /\ marker' = RecordMutation(marker, clock')
           /\ recorded' = Covered(c)
           /\ server' = server
  <2>1. Present(marker')
    BY <1>0, <1>2, Numbers DEF RecordMutation, Present
  <2>2. \A k \in Libs \ {l} : recorded'[k] = recorded[k]
    BY <1>0, <1>2 DEF Covered, TypeOK, Versions
  <2>3. recorded'[l] >= recorded[l]
    <3>1. recorded'[l] = Larger(recorded[l], job[c].ver)
      BY <1>0, <1>1, <1>2 DEF Covered, TypeOK, Versions
    <3> QED
      BY <1>0, <1>1, <3>1, Numbers DEF Larger
  <2>4. Owed' = Owed \/ Owed' = Owed \cup {l}
    BY <1>0, <1>1, <1>2, <2>2, <2>3, Numbers, NumbersNext DEF Owed, Inv
  <2> QED
    BY <1>1, <2>1, <2>4 DEF Intent!Next, Intent!Record
<1>3. CASE UNCHANGED <<marker, data>>
  BY <1>3, Bystanders
<1> QED
  BY <1>2, <1>3 DEF RecordPending, data

(* The exchange of one library delivers its edits, or nothing. *)
LEMMA UploadRefines ==
    ASSUME Inv, Inv', NEW p \in Proc, Upload(p)
    PROVE  [Intent!Next]_Intent!vars
<1>0. TypeOK /\ TypeOK' /\ ProcInv(p) /\ pc[p] = "upload"
  BY DEF Inv, IntentInv, Upload
<1> DEFINE l == job[p].lib
<1>1. l \in Libs
  BY <1>0 DEF ProcInv, Acknowledging, UploadCovers
<1>2. UNCHANGED <<marker, recorded>> /\ (server' = server \/ server' = Received(p))
  BY DEF Upload, files
<1>3. CASE server' = server \/ ~job[p].push
  <2>1. UNCHANGED Intent!vars
    BY <1>2, <1>3 DEF Received, Owed, Intent!vars
  <2> QED
    BY <2>1
<1>4. CASE server' = [server EXCEPT ![l] = Larger(@, job[p].ver)]
  <2>1. \A k \in Libs \ {l} : server'[k] = server[k]
    BY <1>0, <1>4 DEF TypeOK, Versions
  <2>2. server'[l] >= server[l]
    <3>1. server'[l] = Larger(server[l], job[p].ver)
      BY <1>0, <1>1, <1>4 DEF TypeOK, Versions
    <3> QED
      BY <1>0, <1>1, <3>1, Numbers DEF Larger
  <2>3. Owed' = Owed \/ Owed' = Owed \ {l}
    BY <1>0, <1>1, <1>2, <2>1, <2>2, Numbers, NumbersNext DEF Owed
  <2> QED
    BY <1>1, <1>2, <2>3 DEF Intent!Next, Intent!Deliver, Intent!vars
<1> QED
  BY <1>2, <1>3, <1>4 DEF Received

(* clear_if_generation_matches drops the intent only when nothing is owed: *)
(* otherwise the invariant would not hold after it.                        *)
LEMMA AcknowledgeRefines ==
    ASSUME Inv, Inv', NEW p \in Proc, Acknowledge(p)
    PROVE  [Intent!Next]_Intent!vars
<1>1. UNCHANGED data /\ (marker' = marker \/ marker' = NoMarker)
  BY DEF Acknowledge, ClearIfGenerationMatches
<1>2. CASE marker' = marker
  BY <1>1, <1>2, Bystanders
<1>3. CASE marker' = NoMarker
  <2>1. ~Present(marker') /\ Owed' = Owed
    BY <1>1, <1>3 DEF Present, NoMarker, Owed, data
  <2>2. Owed = {}
    BY <2>1 DEF Inv, IntentInv, IntentKept
  <2> QED
    BY <2>1, <2>2 DEF Intent!Next, Intent!Acknowledge
<1> QED
  BY <1>1, <1>2, <1>3

(* Every step of auto-sync is a step of SyncIntent or a stutter. *)
LEMMA StepRefines ==
    ASSUME OrdinaryUse, Inv, Inv', [Next]_vars
    PROVE  [Intent!Next]_Intent!vars
<1>1. CASE UNCHANGED vars
  BY <1>1, Bystanders DEF vars, files
<1>2. ASSUME NEW p \in Proc, SyncStep(p) PROVE [Intent!Next]_Intent!vars
  <2>1. CASE Upload(p)
    BY <2>1, UploadRefines
  <2>2. CASE Acknowledge(p)
    BY <2>2, AcknowledgeRefines
  <2>3. ASSUME ~Upload(p), ~Acknowledge(p) PROVE UNCHANGED <<marker, data>>
    BY <1>2, <2>3 DEF SyncStep, Connect, ReadLibrary, SyncDone, WriteSuccess,
                      WriteFailure, Release, files
  <2> QED
    BY <2>1, <2>2, <2>3, Bystanders
<1>3. ASSUME NEW w \in Workers, WorkerStep(w) PROVE [Intent!Next]_Intent!vars
  <2>1. CASE SyncStep(w)
    BY <1>2, <2>1 DEF Proc
  <2>2. ASSUME ~SyncStep(w) PROVE UNCHANGED <<marker, data>>
    BY <1>3, <2>2 DEF WorkerStep, TryAcquire, ReadPending, LifetimeOver, Debounce,
                      Preflight, Recheck, ReadStrikes, files
  <2> QED
    BY <2>1, <2>2, Bystanders
<1>4. ASSUME NEW c \in Commands, CommandStep(c) PROVE [Intent!Next]_Intent!vars
  <2>0. c \in Proc
    BY DEF Proc
  <2>1. CASE SyncStep(c)
    BY <1>2, <2>0, <2>1
  <2>2. CASE RecordPending(c)
    BY <2>2, RecordRefines
  <2>3. ~EnsurePending(c) /\ ~DiscardPending(c)
    BY <2>0 DEF Inv, IntentInv, ProcInv, WholeSyncs, EnsurePending, DiscardPending
  <2>4. ASSUME ~SyncStep(c), ~RecordPending(c) PROVE UNCHANGED marker
    BY <1>4, <2>3, <2>4
    DEF CommandStep, Schedule, ProbeLock, ProbeDone, Edit, NoEdit, AcquireForeground,
        WaitTimeout, ObserveUnlocked, ObserveLocked, ClearFailureRead,
        ClearFailureWrite, files
  <2>5. ASSUME ~SyncStep(c), ~RecordPending(c) PROVE UNCHANGED <<server, recorded>>
    BY <1>4, <2>3, <2>5
    DEF CommandStep, Schedule, ProbeLock, ProbeDone, Edit, NoEdit, AcquireForeground,
        WaitTimeout, ObserveUnlocked, ObserveLocked, ClearFailureRead,
        ClearFailureWrite, data
  <2>6. ASSUME UNCHANGED <<marker, server, recorded>> PROVE UNCHANGED Intent!vars
    BY <2>6 DEF Owed, Intent!vars
  <2> QED
    BY <2>1, <2>2, <2>4, <2>5, <2>6
<1>5. CASE \/ \E c \in Commands, k \in Kinds : Start(c, k)
           \/ \E p \in Proc : Crash(p)
           \/ BackoffElapses \/ ChangeConfig
  BY <1>5, Bystanders DEF Start, Crash, BackoffElapses, ChangeConfig, files
<1> QED
  BY <1>1, <1>3, <1>4, <1>5 DEF Next

(* Auto-sync implements the promise of the pending marker, the property    *)
(* KeepsIntent: the code records, delivers and acknowledges intents only   *)
(* as SyncIntent allows, and above all drops one only when nothing is owed. *)
THEOREM ImplementsSyncIntent == OrdinaryUse => (Spec => KeepsIntent)
<1> SUFFICES ASSUME OrdinaryUse PROVE Spec => KeepsIntent
  OBVIOUS
<1>1. Init => Intent!Init
  BY InitRefines
<1>2. Inv /\ Inv' /\ [Next]_vars => [Intent!Next]_Intent!vars
  BY StepRefines
<1> QED
  BY <1>1, <1>2, InvAlways, PTL DEF Spec, KeepsIntent, Intent!Spec
=============================================================================
