-------------------------- MODULE RecordLockProofs --------------------------
(* What RecordLock guarantees for every set of processes and every ladder. *)
EXTENDS RecordLock, TLAPS

\* Unless somebody was robbed, whoever is inside finds its own file at the path:
\* this is why removing what is there, as a release does, removes its own.
OwnFileAtThePath == robbed = {} => \A p \in Process : Inside(p) => file.by = p

IInv == TypeOK /\ OwnFileAtThePath

\* A step keeps every variable within its type.
LEMMA TypeStep == TypeOK /\ [Next]_vars => TypeOK'
<1> SUFFICES ASSUME TypeOK, [Next]_vars PROVE TypeOK'
  OBVIOUS
<1> USE LockAssumption DEF TypeOK, File, NoFile, Body, Owner, Step, Over, Fate, Policy, At, Goto
<1>1. CASE UNCHANGED vars
  BY <1>1 DEF vars
<1>2. ASSUME NEW p \in Process, Create(p) PROVE TypeOK'
  BY <1>2 DEF Create
<1>3. ASSUME NEW p \in Process, WriteRecord(p) PROVE TypeOK'
  BY <1>3 DEF WriteRecord
<1>4. ASSUME NEW p \in Process, WritePart(p) PROVE TypeOK'
  BY <1>4 DEF WritePart
<1>5. ASSUME NEW p \in Process, WriteFails(p) PROVE TypeOK'
  BY <1>5 DEF WriteFails
<1>6. ASSUME NEW p \in Process, Read(p) PROVE TypeOK'
  <2>1. seen' \in [Process -> File] /\ misses' \in [Process -> 0..Ladder]
    BY <1>6 DEF Read
  <2>2. pc' \in [Process -> Step]
    BY <1>6 DEF Read
  <2> QED
    BY <1>6, <2>1, <2>2 DEF Read
<1>7. ASSUME NEW p \in Process, Judge(p) PROVE TypeOK'
  <2>1. seen[p].by \in Owner \cup {Nobody}
    OBVIOUS
  <2>2. known' \in [Process -> Owner \cup {Nobody}]
    BY <1>7, <2>1 DEF Judge
  <2>3. \E step \in Step : pc' = [pc EXCEPT ![p] = step]
    <3> HIDE DEF Step
    <3>1. {"verifying", "creating", "failed"} \subseteq Step
      BY DEF Step
    <3> QED
      BY <1>7, <3>1 DEF Judge
  <2>4. late' = late \/ late' = [late EXCEPT ![p] = FALSE]
    BY <1>7 DEF Judge
  <2>5. UNCHANGED <<file, fate, policy, seen, misses, robbed>>
    BY <1>7 DEF Judge
  <2>6. pc' \in [Process -> Step]
    BY <2>3
  <2>7. late' \in [Process -> BOOLEAN]
    BY <2>4
  <2> QED
    BY <2>2, <2>5, <2>6, <2>7
<1>8. ASSUME NEW p \in Process, Verify(p) PROVE TypeOK'
  BY <1>8 DEF Verify
<1>9. ASSUME NEW p \in Process, Quarantine(p) PROVE TypeOK'
  BY <1>9 DEF Quarantine, Alive
<1>10. ASSUME NEW p \in Process, Release(p) PROVE TypeOK'
  BY <1>10 DEF Release, ReadOwn, CompareHandle, Unlink
<1>11. ASSUME NEW p \in Process, Exit(p) \/ Crash(p) \/ Deadline(p) PROVE TypeOK'
  BY <1>11 DEF Exit, Crash, Deadline
<1> QED
  BY <1>1, <1>2, <1>3, <1>4, <1>5, <1>6, <1>7, <1>8, <1>9, <1>10, <1>11 DEF Next, Acquire

\* A step keeps the files of those inside where they are, or robs somebody.
LEMMA OwnFileStep == IInv /\ [Next]_vars => OwnFileAtThePath'
<1> SUFFICES ASSUME IInv, [Next]_vars, robbed' = {},
                    NEW q \in Process, Inside(q)'
             PROVE  (file.by = q)'
  BY DEF OwnFileAtThePath
<1> USE LockAssumption DEF IInv, TypeOK, OwnFileAtThePath, At, Goto, Inside
<1>0. robbed = {}
  BY DEF Quarantine, vars, Next, Acquire, Create, WriteRecord, WritePart, WriteFails, Read, Judge, Verify,
                Release, ReadOwn, CompareHandle, Unlink, Exit, Crash, Deadline
<1>1. CASE UNCHANGED vars
  BY <1>0, <1>1 DEF vars
<1>2. ASSUME NEW p \in Process, Create(p) PROVE (file.by = q)'
  BY <1>0, <1>2 DEF Create, NoFile
<1>3. ASSUME NEW p \in Process, WriteRecord(p) \/ WritePart(p) PROVE (file.by = q)'
  BY <1>0, <1>3 DEF WriteRecord, WritePart, File, NoFile
<1>4. ASSUME NEW p \in Process, WriteFails(p) \/ Unlink(p) PROVE (file.by = q)'
  BY <1>0, <1>4 DEF WriteFails, Unlink
<1>5. ASSUME NEW p \in Process, Quarantine(p) PROVE (file.by = q)'
  <2>1. Inside(q)
    BY <1>5 DEF Quarantine
  <2>2. file.by = q /\ Alive(q)
    BY <1>0, <2>1 DEF Alive
  <2> QED
    BY <1>5, <2>2 DEF Quarantine
<1>6. ASSUME NEW p \in Process, Read(p) \/ Judge(p) \/ Verify(p) PROVE (file.by = q)'
  BY <1>0, <1>6 DEF Read, Judge, Verify
<1>7. ASSUME NEW p \in Process, ReadOwn(p) \/ CompareHandle(p) \/ Exit(p) \/ Crash(p) \/ Deadline(p)
      PROVE  (file.by = q)'
  BY <1>0, <1>7 DEF ReadOwn, CompareHandle, Exit, Crash, Deadline
<1> QED
  BY <1>1, <1>2, <1>3, <1>4, <1>5, <1>6, <1>7 DEF Next, Acquire, Release

\* The types of the variables are kept by every behaviour.
THEOREM Typing == Spec => []TypeOK
<1>1. Init => TypeOK
  BY LockAssumption DEF Init, TypeOK, File, NoFile, Body, Owner, Step, Fate, Policy
<1> QED
  BY <1>1, TypeStep, PTL DEF Spec

\* Unless a live process was quarantined, at most one process is between the
\* creation of the lock file and its removal.
THEOREM Exclusion == Spec => []ExclusionUnlessRobbed
<1>1. Init => IInv
  <2>1. Init => TypeOK
    BY LockAssumption DEF Init, TypeOK, File, NoFile, Body, Owner, Step, Fate, Policy
  <2> QED
    BY <2>1 DEF Init, IInv, OwnFileAtThePath, Inside
<1>2. IInv /\ [Next]_vars => IInv'
  BY TypeStep, OwnFileStep DEF IInv
<1>3. IInv => ExclusionUnlessRobbed
  BY DEF IInv, OwnFileAtThePath, ExclusionUnlessRobbed
<1> QED
  BY <1>1, <1>2, <1>3, PTL DEF Spec

\* Who is about to move away a record it has read knows that its owner is gone.
Judged == \A p \in Process :
             /\ pc[p] \in {"judging", "verifying"} => seen[p].body = "whole"
             /\ pc[p] \in {"verifying", "moving"} /\ seen[p].body = "whole" => Reclaimable(seen[p].by)

\* The dead stay dead, so that what was judged stays true of everybody.
LEMMA JudgedKept ==
  ASSUME TypeOK, Judged, NEW p \in Process, NEW step, NEW read \in File,
         UNCHANGED fate, pc[p] # "dead",
         pc' = [pc EXCEPT ![p] = step], seen' = [seen EXCEPT ![p] = read],
         step \in {"judging", "verifying"} => read.body = "whole",
         step \in {"verifying", "moving"} /\ read.body = "whole" => Reclaimable(read.by)
  PROVE  Judged'
<1>1. /\ pc'[p] = step /\ seen'[p] = read
      /\ \A q \in Process : q # p => pc'[q] = pc[q] /\ seen'[q] = seen[q]
  BY DEF TypeOK
<1>2. \A q \in Process : seen'[q] \in File
  BY <1>1 DEF TypeOK
<1>3. ASSUME NEW owner, owner \in Owner \/ owner = Nobody, Reclaimable(owner) PROVE Reclaimable(owner)'
  <2>1. CASE owner = Ghost
    BY <1>3, <2>1 DEF Reclaimable
  <2>2. CASE owner # Ghost
    <3>1. pc[owner] = "dead"
      BY <1>3, <2>2 DEF Reclaimable, Alive
    <3>2. owner # p
      BY <3>1
    <3>3. pc'[owner] = pc[owner]
      BY <3>2 DEF TypeOK
    <3> QED
      BY <2>2, <3>1, <3>3 DEF Reclaimable, Alive
  <2> QED
    BY <2>1, <2>2
<1>4. \A q \in Process : seen'[q].by \in Owner \/ seen'[q].by = Nobody
  BY <1>2 DEF File, NoFile
<1>5. ASSUME NEW q \in Process
      PROVE  /\ pc'[q] \in {"judging", "verifying"} => seen'[q].body = "whole"
             /\ pc'[q] \in {"verifying", "moving"} /\ seen'[q].body = "whole" => Reclaimable(seen'[q].by)
  BY <1>1 DEF Judged
<1> QED
  BY <1>3, <1>4, <1>5 DEF Judged

\* Each step judges before it moves a record.
LEMMA JudgedStep == TypeOK /\ Judged /\ [Next]_vars => Judged'
<1> SUFFICES ASSUME TypeOK, Judged, [Next]_vars PROVE Judged'
  OBVIOUS
<1> USE DEF At, Goto
<1>0. \A p \in Process : seen[p] \in File /\ seen = [seen EXCEPT ![p] = seen[p]]
  BY DEF TypeOK
<1>1. CASE UNCHANGED vars
  BY <1>1 DEF vars, Judged, Reclaimable, Alive
<1>2. ASSUME NEW p \in Process, UNCHANGED <<fate, pc, seen>> PROVE Judged'
  BY <1>2 DEF Judged, Reclaimable, Alive
<1>3. ASSUME NEW p \in Process, NEW step, step \notin {"judging", "verifying", "moving"},
             pc[p] # "dead", pc' = [pc EXCEPT ![p] = step], UNCHANGED <<fate, seen>>
      PROVE  Judged'
  BY <1>0, <1>3, JudgedKept
<1>4. ASSUME NEW p \in Process, Create(p) \/ WriteRecord(p) \/ WriteFails(p) \/ Quarantine(p) \/ Release(p)
      PROVE  Judged'
  BY <1>3, <1>4 DEF Create, WriteRecord, WriteFails, Quarantine, Release, ReadOwn, CompareHandle, Unlink
<1>5. ASSUME NEW p \in Process, Read(p) PROVE Judged'
  <2>1. file \in File /\ UNCHANGED fate /\ pc[p] # "dead" /\ seen' = [seen EXCEPT ![p] = file]
    BY <1>5 DEF Read, TypeOK
  <2>2. \E step \in {"judging", "moving", "creating", "failed"} :
           /\ pc' = [pc EXCEPT ![p] = step]
           /\ step = "judging" => file.body = "whole"
           /\ step = "moving" => file.body # "whole"
    BY <1>5 DEF Read, NoFile
  <2> QED
    BY <2>1, <2>2, JudgedKept
<1>6. ASSUME NEW p \in Process, Judge(p) PROVE Judged'
  <2>1. UNCHANGED <<fate, seen>> /\ pc[p] # "dead" /\ seen[p].body = "whole"
    BY <1>6 DEF Judge, Judged
  <2>2. \E step \in {"verifying", "creating", "failed"} :
           pc' = [pc EXCEPT ![p] = step] /\ (step = "verifying" => Reclaimable(seen[p].by))
    BY <1>6 DEF Judge
  <2> QED
    BY <1>0, <2>1, <2>2, JudgedKept
<1>7. ASSUME NEW p \in Process, Verify(p) PROVE Judged'
  <2>1. /\ UNCHANGED <<fate, seen>> /\ pc[p] # "dead" /\ seen[p].body = "whole"
        /\ Reclaimable(seen[p].by)
    BY <1>7 DEF Verify, Judged
  <2>2. \E step \in {"moving", "creating"} : pc' = [pc EXCEPT ![p] = step]
    BY <1>7 DEF Verify
  <2> QED
    BY <1>0, <2>1, <2>2, JudgedKept
<1>8. ASSUME NEW p \in Process, Exit(p) \/ Crash(p) PROVE Judged'
  BY <1>3, <1>8 DEF Exit, Crash, Over
<1>9. ASSUME NEW p \in Process, WritePart(p) \/ Deadline(p) PROVE Judged'
  BY <1>2, <1>9 DEF WritePart, Deadline
<1> QED
  BY <1>1, <1>4, <1>5, <1>6, <1>7, <1>8, <1>9 DEF Next, Acquire

\* The record of an owner that lives, or may live, is not moved away by whoever had
\* read this very record.
THEOREM ReadRecordsKept == Spec => LiveRecordsKept
<1> DEFINE Kept == \A p \in Process :
                      /\ At(p, "moving") /\ file' # file /\ pc'[p] # "moving"
                      /\ file.body = "whole" /\ MayLive(file.by)
                      => seen[p] # file
<1> SUFFICES Spec => [][Kept]_vars
  BY DEF LiveRecordsKept
<1>1. Init => TypeOK /\ Judged
  <2> SUFFICES ASSUME Init PROVE TypeOK /\ Judged
    OBVIOUS
  <2>1. TypeOK
    BY LockAssumption DEF Init, TypeOK, File, NoFile, Body, Owner, Step, Fate, Policy
  <2>2. Judged
    BY DEF Init, Judged
  <2> QED
    BY <2>1, <2>2
<1>2. TypeOK /\ Judged /\ [Next]_vars => TypeOK' /\ Judged'
  BY TypeStep, JudgedStep
<1>3. TypeOK /\ Judged /\ [Next]_vars => [Kept]_vars
  <2> SUFFICES ASSUME TypeOK, Judged, NEW p \in Process, At(p, "moving"), file.body = "whole",
                      MayLive(file.by), seen[p] = file
               PROVE  FALSE
    OBVIOUS
  <2>1. Reclaimable(file.by)
    BY DEF At, Judged
  <2> QED
    BY <2>1 DEF Reclaimable, MayLive
<1> QED
  BY <1>1, <1>2, <1>3, PTL DEF Spec

=============================================================================
