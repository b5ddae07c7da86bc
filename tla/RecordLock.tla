----------------------------- MODULE RecordLock -----------------------------
(***************************************************************************)
(* The owned-record lock (src/src/record_lock.rs): a file created with     *)
(* create_new and then filled with its owner's record; who finds one       *)
(* waits, fails, or moves it away ("quarantine") when its owner is dead.   *)
(* Nothing but the calls of the file system is atomic: every step below is *)
(* one call, any process may be interrupted between two of them, and any   *)
(* may die.  The lock serves the transactions, which fail when the owner   *)
(* lives, and the local data, whose users wait (local_data.rs).            *)
(***************************************************************************)
EXTENDS Naturals

CONSTANTS Process,   \* the processes that take the lock once each
          Ladder     \* failed reads of a record after which it is moved away

Ghost == "an earlier process"
Owner == Process \cup {Ghost}

Nobody == "nobody"

ASSUME LockAssumption == {Ghost, Nobody} \cap Process = {} /\ Ladder \in Nat

VARIABLES file,     \* the lock file: who created it, and what it holds
          fate,     \* what became of the earlier process's PID
          policy,   \* what the users of the lock do when its owner lives
          pc,       \* [Process -> step]
          seen,     \* [Process -> File]: the lock file as it was last read
          misses,   \* [Process -> Nat]: unreadable records seen in a row
          known,    \* [Process -> Owner or nobody]: the live owner last polled
          late,     \* [Process -> BOOLEAN]: the deadline of WaitForProgress has passed
          robbed    \* history: live processes whose file was quarantined

vars == <<file, fate, policy, pc, seen, misses, known, late, robbed>>

NoFile == [by |-> Nobody, body |-> "none"]
Body == {"empty", "partial", "whole"}
File == {NoFile} \cup [by : Owner, body : Body]

Policy == {"FailFast", "WaitForProgress"}
Step == {"creating", "created", "reading", "judging", "verifying", "moving",
         "held", "releasing", "unlinking", "done", "failed", "dead"}
Over == {"done", "failed", "dead"}

\* What the lock's PID and start token say of an earlier owner: dead, a PID that
\* is in use again with another start time, or one nobody can tell apart.
Fate == {"dead", "reused", "unverifiable"}

TypeOK == /\ file \in File /\ fate \in Fate /\ policy \in Policy
          /\ pc \in [Process -> Step] /\ seen \in [Process -> File]
          /\ misses \in [Process -> 0..Ladder]
          /\ known \in [Process -> Owner \cup {Nobody}]
          /\ late \in [Process -> BOOLEAN] /\ robbed \subseteq Process

\* The lock is free, or an earlier process left its file in some state.
Init == /\ file \in {NoFile} \cup [by : {Ghost}, body : Body]
        /\ fate \in (IF file = NoFile THEN {"dead"} ELSE Fate)
        /\ policy \in Policy
        /\ pc = [p \in Process |-> "creating"]
        /\ seen = [p \in Process |-> NoFile]
        /\ misses = [p \in Process |-> 0]
        /\ known = [p \in Process |-> Nobody]
        /\ late = [p \in Process |-> FALSE]
        /\ robbed = {}

At(p, step) == pc[p] = step
Goto(p, step) == pc' = [pc EXCEPT ![p] = step]

Alive(p) == pc[p] # "dead"

MayLive(owner) == IF owner = Ghost THEN fate = "unverifiable" ELSE Alive(owner)

\* Mutant of Reclaimable: an owner that cannot be verified counts as dead.
ReclaimableUnlessMatching(owner) == IF owner = Ghost THEN TRUE ELSE ~Alive(owner)

\* ProcessIdentity::observe: an owner is reclaimable when its PID is dead, or
\* was given to a process whose start token differs.
Reclaimable(owner) == IF owner = Ghost THEN fate \in {"dead", "reused"} ELSE ~Alive(owner)

---------------------------------------------------------------------------
(* Acquiring *)

\* Mutant of Create: the file is created where none was seen a moment before.
CreateWithoutExclusion(p) ==
    /\ At(p, "creating")
    /\ IF file = NoFile \/ file.body = "empty"
       THEN /\ file' = [by |-> p, body |-> "empty"]
            /\ Goto(p, "created")
       ELSE Goto(p, "reading") /\ UNCHANGED file
    /\ UNCHANGED <<fate, policy, seen, misses, known, late, robbed>>

Create(p) == /\ At(p, "creating")
             /\ IF file = NoFile
                THEN /\ file' = [by |-> p, body |-> "empty"]
                     /\ Goto(p, "created")
                ELSE Goto(p, "reading") /\ UNCHANGED file
             /\ UNCHANGED <<fate, policy, seen, misses, known, late, robbed>>

\* The handle may by now be of a file that was moved away: the record goes there,
\* and the lock counts as acquired all the same.
WriteRecord(p) ==
    /\ At(p, "created")
    /\ \/ file.by = p /\ file' = [file EXCEPT !.body = "whole"]
       \/ file.by # p /\ UNCHANGED file
    /\ Goto(p, "held")
    /\ UNCHANGED <<fate, policy, seen, misses, known, late, robbed>>

\* The write stops half way (and fails, or the process dies there).
WritePart(p) ==
    /\ At(p, "created") /\ file.by = p /\ file.body = "empty"
    /\ file' = [file EXCEPT !.body = "partial"]
    /\ UNCHANGED <<fate, policy, pc, seen, misses, known, late, robbed>>

\* The write fails, and whatever is at the path is removed.
WriteFails(p) ==
    /\ At(p, "created") /\ Goto(p, "failed")
    /\ file' = NoFile
    /\ UNCHANGED <<fate, policy, seen, misses, known, late, robbed>>

\* Mutant of Read: an unreadable record is waited for without end.
ReadWithoutLadder(p) ==
    /\ At(p, "reading")
    /\ seen' = [seen EXCEPT ![p] = file]
    /\ IF file.body = "whole" THEN Goto(p, "judging") ELSE Goto(p, "creating")
    /\ UNCHANGED <<file, fate, policy, misses, known, late, robbed>>

\* Mutant of Read: one unreadable record more than the ladder has rungs.
ReadPastLadder(p) ==
    /\ At(p, "reading")
    /\ seen' = [seen EXCEPT ![p] = file]
    /\ CASE file = NoFile -> Goto(p, "creating") /\ UNCHANGED misses
         [] file.body = "whole" -> Goto(p, "judging") /\ UNCHANGED misses
         [] OTHER -> /\ misses' = [misses EXCEPT ![p] = @ + 1]
                     /\ Goto(p, IF misses[p] > Ladder THEN "moving" ELSE "creating")
    /\ UNCHANGED <<file, fate, policy, known, late, robbed>>

\* The file is gone: FailFast may be at its flat deadline.
Read(p) ==
    /\ At(p, "reading")
    /\ seen' = [seen EXCEPT ![p] = file]
    /\ CASE file = NoFile ->
              /\ \/ Goto(p, "creating")
                 \/ policy = "FailFast" /\ Goto(p, "failed")
              /\ UNCHANGED misses
         [] file.body = "whole" ->
              Goto(p, "judging") /\ misses' = [misses EXCEPT ![p] = 0]
         [] OTHER ->
              IF misses[p] = Ladder
              THEN Goto(p, "moving") /\ misses' = [misses EXCEPT ![p] = 0]
              ELSE /\ misses' = [misses EXCEPT ![p] = @ + 1]
                   /\ IF file.body = "empty" /\ policy = "WaitForProgress" /\ late[p]
                      THEN Goto(p, "failed")
                      ELSE Goto(p, "creating")
    /\ UNCHANGED <<file, fate, policy, known, late, robbed>>

\* on_live_owner: a new owner is progress, and buys the waiter a new deadline
\* unless the cap on the whole wait is reached.
Judge(p) ==
    LET owner == seen[p].by
    IN  /\ At(p, "judging")
        /\ \/ /\ Reclaimable(owner) /\ Goto(p, "verifying")
              /\ UNCHANGED <<known, late>>
           \/ /\ ~Reclaimable(owner)
              /\ IF policy = "FailFast"
                 THEN Goto(p, "failed") /\ UNCHANGED <<known, late>>
                 ELSE \/ /\ owner # known[p] /\ Goto(p, "creating")
                         /\ known' = [known EXCEPT ![p] = owner]
                         /\ late' = [late EXCEPT ![p] = FALSE]
                      \/ /\ late[p] /\ Goto(p, "failed")
                         /\ UNCHANGED <<known, late>>
                      \/ /\ owner = known[p] /\ ~late[p] /\ Goto(p, "creating")
                         /\ UNCHANGED <<known, late>>
        /\ UNCHANGED <<file, fate, policy, seen, misses, robbed>>

\* quarantine_owned_lock reads the record again: it must be the one observed, or
\* have disappeared, in which case the rename is tried nevertheless.
Verify(p) ==
    /\ At(p, "verifying")
    /\ IF file \in {seen[p], NoFile} THEN Goto(p, "moving") ELSE Goto(p, "creating")
    /\ UNCHANGED <<file, fate, policy, seen, misses, known, late, robbed>>

\* The rename takes what is at the path, whoever put it there since.
Quarantine(p) ==
    /\ At(p, "moving") /\ Goto(p, "creating")
    /\ robbed' = robbed \cup {q \in Process : q = file.by /\ Alive(q)}
    /\ file' = NoFile
    /\ UNCHANGED <<fate, policy, seen, misses, known, late>>

---------------------------------------------------------------------------
(* Releasing: read through a handle, compare the handle with the path, unlink *)

ReadOwn(p) ==
    /\ At(p, "held")
    /\ Goto(p, IF file = [by |-> p, body |-> "whole"] THEN "releasing" ELSE "done")
    /\ UNCHANGED <<file, fate, policy, seen, misses, known, late, robbed>>

CompareHandle(p) ==
    /\ At(p, "releasing")
    /\ Goto(p, IF file.by = p THEN "unlinking" ELSE "done")
    /\ UNCHANGED <<file, fate, policy, seen, misses, known, late, robbed>>

Unlink(p) ==
    /\ At(p, "unlinking") /\ Goto(p, "done")
    /\ file' = NoFile
    /\ UNCHANGED <<fate, policy, seen, misses, known, late, robbed>>

Release(p) == ReadOwn(p) \/ CompareHandle(p) \/ Unlink(p)
---------------------------------------------------------------------------
(* Time, crashes *)

\* The wait without progress, or the cap on the whole wait, is over.
Deadline(p) == /\ policy = "WaitForProgress" /\ pc[p] \in {"creating", "reading", "judging"} /\ ~late[p]
               /\ late' = [late EXCEPT ![p] = TRUE]
               /\ UNCHANGED <<file, fate, policy, pc, seen, misses, known, robbed>>

Exit(p) == /\ pc[p] \in {"done", "failed"} /\ Goto(p, "dead")
           /\ UNCHANGED <<file, fate, policy, seen, misses, known, late, robbed>>

Crash(p) == /\ pc[p] \notin Over /\ Goto(p, "dead")
            /\ UNCHANGED <<file, fate, policy, seen, misses, known, late, robbed>>

Acquire(p) == Create(p) \/ WriteRecord(p) \/ Read(p) \/ Judge(p) \/ Verify(p) \/ Quarantine(p)

Next == \E p \in Process :
            \/ Acquire(p) \/ Release(p) \/ Exit(p)
            \/ WritePart(p) \/ WriteFails(p) \/ Deadline(p) \/ Crash(p)

\* Processes run, their sections end, and time passes.
Fairness == \A p \in Process : WF_vars(Acquire(p)) /\ WF_vars(Release(p)) /\ WF_vars(Deadline(p))

Spec == Init /\ [][Next]_vars /\ Fairness
---------------------------------------------------------------------------
(* Properties *)

Inside(p) == pc[p] \in {"created", "held", "releasing", "unlinking"}

\* Unless a live process was quarantined, at most one process holds the lock, from
\* the creation of its file to the removal: every path that removes the file (a
\* release, a failed write, a quarantine) leaves the one of a live owner alone.
ExclusionUnlessRobbed ==
    robbed = {} => \A p, q \in Process : Inside(p) /\ Inside(q) => p = q

\* The record of an owner that lives, or may live, is never moved away by a process
\* that had read this record: it can be lost only to one that had read another
\* before, and was overtaken between its second look and its rename.
LiveRecordsKept ==
    [][\A p \in Process :
           /\ At(p, "moving") /\ file' # file /\ pc'[p] # "moving"
           /\ file.body = "whole" /\ MayLive(file.by)
           => seen[p] # file]_vars

\* The claim made for the second look (record_lock.rs:687-694): who reclaims the
\* lock of a dead owner cannot move away the live one acquired in the meantime.
ReclaimSparesTheLiving ==
    [][\A p \in Process :
           /\ At(p, "moving") /\ file' # file /\ pc'[p] # "moving"
           /\ seen[p].body = "whole" /\ file.body = "whole"
           => ~MayLive(file.by)]_vars

\* Whatever an earlier process left, an acquisition comes to an end: the lock is
\* taken, or the command reports why not.
AcquisitionsEnd == \A p \in Process : At(p, "creating") ~> pc[p] \in {"held"} \cup Over

=============================================================================
