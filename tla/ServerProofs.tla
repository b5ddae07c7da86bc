----------------------------- MODULE ServerProofs -----------------------------
(***************************************************************************)
(* What a server guarantees, for any number of processes, users, libraries *)
(* and rows: the recorded owner is the server, whichever commands run and  *)
(* servers fail; a server that serves has a database that is whole, however *)
(* often a start died; and an answer is what the database held.            *)
(***************************************************************************)
EXTENDS ServerLifecycle, ServerStartup, ServerRequests, FiniteSetTheorems, TLAPS

---------------------------------------------------------------------------
(* The lock of the server: it has one holder at a time, and only its holder
   writes the record. *)

\* A process holds the lock from the answer of the kernel until it drops the
\* guard or ends.
Holding == {"publish", "drop", "starting", "serving", "draining"}
Holds(p) == proc[p].pc \in Holding

\* Processes are numbered as they start, from 1; the fields are typed, but for
\* the bound on the numbers, which only TLC checks.
Record == [kind : Kind, pc : Pc, purpose : Purpose, target : Nat,
           force : BOOLEAN, exe : {"old", "new"}]
TypedLock == /\ \E n \in Nat : Started = 1..n
             /\ proc \in [Started -> Record]
             /\ owner \in Nat /\ installed \in {"old", "new"}

HolderLocks == \A p \in Started : Holds(p) => lock = p

LockInv == TypedLock /\ HolderLocks /\ OwnerNamesServer

\* A process that starts has the next number, and changes no other.
LEMMA Numbering ==
  ASSUME TypedLock
  PROVE  /\ Cardinality(Started) + 1 \notin Started
         /\ \E n \in Nat : Started \cup {Cardinality(Started) + 1} = 1..n
         /\ NoPid \notin Started /\ Started \subseteq Nat
<1>1. PICK n \in Nat : Started = 1..n
  BY DEF TypedLock
<1>2. Cardinality(Started) = n
  BY <1>1, FS_Interval
<1>3. Started \cup {n + 1} = 1..(n + 1)
  BY <1>1
<1> QED
  BY <1>1, <1>2, <1>3 DEF NoPid

\* The fields of a process that starts.
LEMMA NewTyped ==
  ASSUME TypedLock, NEW kind \in Kind, NEW force \in BOOLEAN
  PROVE  New(kind, force) \in Record /\ New(kind, force).pc \notin Holding
  BY DEF TypedLock, New, Record, Kind, FirstPc, FirstPurpose, Pc, Purpose, NoPid, Holding

\* A process that ends holds no lock.
LEMMA EndedTyped ==
  ASSUME NEW r \in Record
  PROVE  Ended(r) \in Record /\ Ended(r).pc = "gone"
<1>1. \A kind \in Kind : FirstPurpose[kind] \in Purpose
  BY DEF Kind, FirstPurpose, Purpose
<1> QED
  BY <1>1 DEF Ended, Record, Pc, NoPid

\* A step of the processes there are: who has the lock after it had it before
\* and was not robbed of it, and no server comes into being.
Quiet == /\ proc' \in [Started -> Record] /\ owner' = owner /\ installed' \in {"old", "new"}
         /\ \A q \in Started : /\ Holds(q)' => Holds(q) /\ (lock = q => lock' = q)
                               /\ Server(q)' => Server(q)

\* Such a step keeps the invariant.
LEMMA QuietKeeps ==
  ASSUME LockInv, Quiet
  PROVE  LockInv'
<1>1. Started' = Started
  BY DEF Quiet, Started
<1>2. TypedLock'
  BY <1>1 DEF LockInv, Quiet, TypedLock, Started
<1> QED
  BY <1>1, <1>2 DEF LockInv, Quiet, HolderLocks, OwnerNamesServer, Holds, Holding, Server

\* A process goes on, with the lock or to where it needs none.
LEMMA GoQuiet ==
  ASSUME LockInv, NEW p \in Started, NEW pc \in Pc, Go(p, pc), owner' = owner,
         installed' \in {"old", "new"},
         \/ pc \notin Holding /\ lock' \in {lock, NoPid} /\ (lock' = lock \/ lock = p)
         \/ pc = "serving" /\ Server(p) /\ lock' = lock
  PROVE  Quiet
<1>1. proc' = [proc EXCEPT ![p] = [proc[p] EXCEPT !.pc = pc]] /\ proc[p] \in Record
  BY DEF LockInv, TypedLock, Go
<1>2. [proc[p] EXCEPT !.pc = pc] \in Record
  BY <1>1 DEF Record
<1>3. proc' \in [Started -> Record]
  BY <1>1, <1>2 DEF LockInv, TypedLock
<1>4. \A q \in Started : q # p => proc'[q] = proc[q]
  BY <1>1 DEF LockInv, TypedLock
<1>5. proc'[p].pc = pc
  BY <1>1 DEF LockInv, TypedLock, Record
<1> QED
  BY <1>3, <1>4, <1>5 DEF Quiet, Holds, Holding, Server

\* A process tries to take the lock.
LEMMA TryQuiet ==
  ASSUME LockInv, NEW p \in Started, NEW purpose \in Purpose, Try(p, purpose), owner' = owner,
         installed' \in {"old", "new"}, lock' = lock \/ lock = p
  PROVE  Quiet
<1>1. proc' = [proc EXCEPT ![p] = [proc[p] EXCEPT !.pc = "try", !.purpose = purpose]]
      /\ proc[p] \in Record
  BY DEF LockInv, TypedLock, Try
<1>2. [proc[p] EXCEPT !.pc = "try", !.purpose = purpose] \in Record
  BY <1>1 DEF Record, Pc
<1>3. proc' \in [Started -> Record]
  BY <1>1, <1>2 DEF LockInv, TypedLock
<1>4. \A q \in Started : q # p => proc'[q] = proc[q]
  BY <1>1 DEF LockInv, TypedLock
<1>5. proc'[p].pc = "try"
  BY <1>1 DEF LockInv, TypedLock, Record
<1> QED
  BY <1>3, <1>4, <1>5 DEF Quiet, Holds, Holding, Server

\* A process ends and the kernel frees what it holds.
LEMMA EndQuiet ==
  ASSUME LockInv, NEW p \in Started, End(p), owner' = owner, installed' \in {"old", "new"}
  PROVE  Quiet
<1>1. proc' = [q \in Started |-> IF q = p THEN Ended(proc[q]) ELSE proc[q]]
  BY DEF End, Gone
<1>2. \A q \in Started : proc[q] \in Record
  BY DEF LockInv, TypedLock
<1>3. proc' \in [Started -> Record]
  BY <1>1, <1>2, EndedTyped
<1>4. proc'[p].pc = "gone" /\ \A q \in Started \ {p} : proc'[q] = proc[q]
  BY <1>1, <1>2, EndedTyped
<1>5. \A q \in Started \ {p} : lock = q => lock' = q
  BY DEF End, FreedBy
<1> QED
  BY <1>3, <1>4, <1>5 DEF Quiet, Holds, Holding, Server

\* What restart, update and managed restart do once the server is stopped.
LEMMA StopSucceededQuiet ==
  ASSUME LockInv, NEW p \in Started, StopSucceeded(p), owner' = owner, installed' \in {"old", "new"}
  PROVE  Quiet
<1>1. FreedBy({p}) => lock' \in {lock, NoPid} /\ (lock' = lock \/ lock = p)
  BY DEF FreedBy
<1>2. CASE End(p)
  BY <1>2, EndQuiet
<1>3. CASE Try(p, "serve") /\ FreedBy({p})
  BY <1>1, <1>3, TryQuiet DEF Purpose
<1>4. ASSUME NEW pc \in {"start_server", "start_cron"}, Go(p, pc), FreedBy({p}) PROVE Quiet
  <2>1. pc \in Pc /\ pc \notin Holding
    BY DEF Pc, Holding
  <2> QED
    BY <1>1, <1>4, <2>1, GoQuiet
<1> QED
  BY <1>2, <1>3, <1>4 DEF StopSucceeded

\* SIGTERM to a process that is alive.
LEMMA TerminateQuiet ==
  ASSUME LockInv, NEW p \in Started, proc[p].pc = "check", NEW t \in Started, Terminate(t, p),
         owner' = owner, installed' \in {"old", "new"}
  PROVE  Quiet
<1> DEFINE waiting == [proc[p] EXCEPT !.pc = "wait"]
           next == [proc EXCEPT ![p].pc = "wait"]
<1>1. /\ next = [proc EXCEPT ![p] = waiting] /\ waiting \in Record /\ waiting.pc = "wait"
      /\ \A q \in Started : proc[q] \in Record
  BY DEF LockInv, TypedLock, Record, Pc
<1>2. next \in [Started -> Record] /\ next[p].pc = "wait" /\ \A q \in Started \ {p} : next[q] = proc[q]
  BY <1>1 DEF LockInv, TypedLock
<1> HIDE DEF next
<1>3. CASE proc[t].pc = "serving" /\ proc' = [next EXCEPT ![t].pc = "draining"] /\ UNCHANGED lock
  <2>1. t # p
    BY <1>3
  <2>2. [next[t] EXCEPT !.pc = "draining"] \in Record /\ [next[t] EXCEPT !.pc = "draining"].pc = "draining"
    BY <1>2 DEF Record, Pc
  <2>3. proc' = [next EXCEPT ![t] = [next[t] EXCEPT !.pc = "draining"]]
    BY <1>3
  <2>4. proc' \in [Started -> Record] /\ proc'[t].pc = "draining" /\ \A q \in Started \ {t} : proc'[q] = next[q]
    BY <1>2, <2>2, <2>3
  <2> QED
    BY <1>2, <1>3, <2>1, <2>4 DEF Quiet, Holds, Holding, Server
<1>4. CASE proc' = next /\ UNCHANGED lock
  BY <1>2, <1>4 DEF Quiet, Holds, Holding, Server
<1>5. CASE proc' = [next EXCEPT ![t] = Ended(proc[t])] /\ FreedBy({t})
  <2>1. Ended(proc[t]) \in Record /\ Ended(proc[t]).pc = "gone"
    BY <1>1, EndedTyped
  <2>2. proc' \in [Started -> Record] /\ proc'[t].pc = "gone" /\ \A q \in Started \ {t} : proc'[q] = next[q]
    BY <1>2, <1>5, <2>1
  <2>3. \A q \in Started \ {t} : lock = q => lock' = q
    BY <1>5 DEF FreedBy
  <2> QED
    BY <1>2, <2>2, <2>3 DEF Quiet, Holds, Holding, Server
<1> QED
  BY <1>3, <1>4, <1>5 DEF Terminate, next

\* The wait for the old server ends: it is gone, given up, or killed.
LEMMA WaitEndsQuiet ==
  ASSUME LockInv, NEW p \in Started, WaitEnds(p)
  PROVE  Quiet
<1> DEFINE t == proc[p].target
<1>1. owner' = owner /\ installed' \in {"old", "new"} /\ proc[p].pc = "wait"
  BY DEF WaitEnds, LockInv, TypedLock
<1>2. CASE Try(p, "confirm") /\ UNCHANGED lock
  BY <1>1, <1>2, TryQuiet DEF Purpose
<1>3. CASE End(p)
  BY <1>1, <1>3, EndQuiet
<1>4. CASE /\ Living(t) /\ FreedBy({t})
           /\ proc' = [proc EXCEPT ![t] = Ended(proc[t]), ![p].pc = "try", ![p].purpose = "confirm"]
  <2>1. t \in Started /\ Ended(proc[t]) \in Record /\ Ended(proc[t]).pc = "gone"
    BY <1>4, EndedTyped DEF Living, LockInv, TypedLock
  <2> DEFINE mid == [proc EXCEPT ![t] = Ended(proc[t])]
             last == [mid[p] EXCEPT !.pc = "try", !.purpose = "confirm"]
  <2>2. mid \in [Started -> Record] /\ mid[t].pc = "gone" /\ \A q \in Started \ {t} : mid[q] = proc[q]
    BY <2>1 DEF LockInv, TypedLock
  <2>3. proc' = [mid EXCEPT ![p] = last]
    BY <1>4, <2>2
  <2> HIDE DEF mid
  <2>4. last \in Record /\ last.pc = "try"
    BY <2>2 DEF Record, Pc, Purpose
  <2>5. proc' \in [Started -> Record] /\ proc'[p].pc = "try" /\ \A q \in Started \ {p} : proc'[q] = mid[q]
    BY <2>2, <2>3, <2>4
  <2>6. \A q \in Started \ {t} : lock = q => lock' = q
    BY <1>4 DEF FreedBy
  <2> QED
    BY <1>1, <2>2, <2>5, <2>6 DEF Quiet, Holds, Holding, Server
<1> QED
  BY <1>2, <1>3, <1>4 DEF WaitEnds

\* The kernel gives the lock to one process, and to nobody while another holds it.
LEMMA AcquireKeeps ==
  ASSUME LockInv, NEW p \in Started, TakeLock(p)
  PROVE  LockInv'
<1>1. owner' = owner /\ installed' \in {"old", "new"}
  BY DEF TakeLock, LockInv, TypedLock
<1>2. CASE lock # NoPid
  <2>1. Go(p, "busy") /\ lock' = lock
    BY <1>2 DEF TakeLock
  <2> QED
    BY <1>1, <2>1, GoQuiet, QuietKeeps DEF Pc, Holding
<1>3. CASE lock = NoPid
  <2>1. lock' = p /\ proc' = [proc EXCEPT ![p] = [proc[p] EXCEPT !.pc = "publish"]]
    BY <1>3 DEF TakeLock, Go, LockInv, TypedLock
  <2>2. \A q \in Started : ~Holds(q)
    BY <1>3, Numbering DEF LockInv, HolderLocks
  <2>3. [proc[p] EXCEPT !.pc = "publish"] \in Record /\ [proc[p] EXCEPT !.pc = "publish"].pc = "publish"
    BY DEF LockInv, TypedLock, Record, Pc
  <2>4. /\ proc' \in [Started -> Record] /\ proc'[p].pc = "publish"
        /\ \A q \in Started \ {p} : proc'[q] = proc[q]
    BY <2>1, <2>3 DEF LockInv, TypedLock
  <2>5. Started' = Started
    BY <2>4 DEF Started
  <2>6. TypedLock'
    BY <1>1, <2>4, <2>5 DEF LockInv, TypedLock, Started
  <2>7. \A q \in Started : ~Server(q)'
    BY <2>2, <2>4 DEF Holds, Holding, Server
  <2>8. HolderLocks'
    BY <2>1, <2>2, <2>4, <2>5 DEF HolderLocks, Holds
  <2> QED
    BY <2>5, <2>6, <2>7, <2>8 DEF LockInv, OwnerNamesServer
<1> QED
  BY <1>2, <1>3

\* Who writes the record holds the lock, so there is no server whose record it is.
LEMMA PublishKeeps ==
  ASSUME LockInv, NEW p \in Started, Publish(p)
  PROVE  LockInv'
<1> DEFINE pc == IF proc[p].purpose = "serve" THEN "starting" ELSE "drop"
           last == [proc[p] EXCEPT !.pc = pc]
<1>1. owner' = p /\ lock' = lock /\ lock = p /\ installed' = installed /\ p \in Nat
  BY Numbering DEF Publish, LockInv, HolderLocks, Holds, Holding
<1>2. proc' = [proc EXCEPT ![p] = last] /\ last \in Record /\ last.pc = pc
  BY DEF Publish, Go, LockInv, TypedLock, Record, Pc
<1>3. proc' \in [Started -> Record] /\ \A q \in Started \ {p} : proc'[q] = proc[q]
  BY <1>2 DEF LockInv, TypedLock
<1>4. Started' = Started
  BY <1>3 DEF Started
<1>5. \A q \in Started \ {p} : ~Holds(q)'
  BY <1>1, <1>3 DEF LockInv, HolderLocks, Holds
<1>6. TypedLock'
  BY <1>1, <1>3, <1>4 DEF LockInv, TypedLock, Started
<1>7. HolderLocks'
  BY <1>1, <1>4, <1>5 DEF HolderLocks
<1>8. OwnerNamesServer'
  BY <1>1, <1>4, <1>5 DEF OwnerNamesServer, Server, Holds, Holding
<1> QED
  BY <1>6, <1>7, <1>8 DEF LockInv

\* One more process, that has not asked for the lock.
LEMMA BirthKeeps ==
  ASSUME LockInv, NEW child \in Record, child.pc \notin Holding, UNCHANGED <<lock, owner, installed>>,
         proc' \in [Started \cup {Cardinality(Started) + 1} -> Record],
         proc'[Cardinality(Started) + 1] = child,
         \A q \in Started : proc'[q] = proc[q] \/ ~Holds(q)'
  PROVE  LockInv'
<1>1. Started' = Started \cup {Cardinality(Started) + 1}
  BY DEF Started
<1>2. TypedLock'
  BY <1>1, Numbering DEF LockInv, TypedLock
<1>3. \A q \in Started' : \/ q \in Started /\ proc'[q] = proc[q]
                         \/ proc'[q].pc \notin Holding
  BY <1>1 DEF Holds
<1>4. HolderLocks'
  BY <1>3 DEF LockInv, HolderLocks, Holds
<1>5. OwnerNamesServer'
  BY <1>3 DEF LockInv, OwnerNamesServer, Server, Holding
<1> QED
  BY <1>2, <1>4, <1>5 DEF LockInv

\* A command is given.
LEMMA LaunchKeeps ==
  ASSUME LockInv, NEW kind \in Kind, NEW force \in BOOLEAN, Launch(kind, force)
  PROVE  LockInv'
<1> DEFINE new == Cardinality(Started) + 1
           child == New(kind, force)
<1>1. child \in Record /\ child.pc \notin Holding
  BY NewTyped DEF LockInv
<1> HIDE DEF child
<1>2. proc' = [p \in Started \cup {new} |-> IF p \in Started THEN proc[p] ELSE child]
  BY DEF Launch, child
<1>3. new \notin Started /\ UNCHANGED <<lock, owner, installed>>
  BY Numbering DEF LockInv, Launch
<1> HIDE DEF new
<1>4. proc' \in [Started \cup {new} -> Record] /\ proc'[new] = child /\ \A q \in Started : proc'[q] = proc[q]
  BY <1>1, <1>2, <1>3 DEF LockInv, TypedLock
<1> QED
  BY <1>1, <1>3, <1>4, BirthKeeps DEF new

\* A process starts a child.
LEMMA SpawnKeeps ==
  ASSUME LockInv, NEW p \in Started, Spawn(p)
  PROVE  LockInv'
<1> DEFINE new == Cardinality(Started) + 1
           child == New(IF proc[p].pc = "start_server" THEN "serve" ELSE "croncheck", FALSE)
           parent == IF proc[p].kind = "managed_restart" THEN Ended(proc[p])
                     ELSE [proc[p] EXCEPT !.pc = "await"]
<1>1. child \in Record /\ child.pc \notin Holding
  BY NewTyped DEF LockInv, Kind
<1>2. parent \in Record /\ parent.pc \notin Holding
  <2>1. proc[p] \in Record
    BY DEF LockInv, TypedLock
  <2>2. [proc[p] EXCEPT !.pc = "await"] \in Record /\ [proc[p] EXCEPT !.pc = "await"].pc = "await"
    BY <2>1 DEF Record, Pc
  <2> QED
    BY <2>1, <2>2, EndedTyped DEF Holding
<1> HIDE DEF child, parent
<1>3. proc' = [q \in Started \cup {new} |->
                  IF q = p THEN parent ELSE IF q \in Started THEN proc[q] ELSE child]
  BY DEF Spawn, child, parent
<1>4. new \notin Started /\ UNCHANGED <<lock, owner, installed>>
  BY Numbering DEF LockInv, Spawn
<1> HIDE DEF new
<1>5. /\ proc' \in [Started \cup {new} -> Record] /\ proc'[new] = child /\ proc'[p] = parent
      /\ \A q \in Started \ {p} : proc'[q] = proc[q]
  BY <1>1, <1>2, <1>3, <1>4 DEF LockInv, TypedLock
<1>6. \A q \in Started : proc'[q] = proc[q] \/ ~Holds(q)'
  BY <1>2, <1>5 DEF Holds
<1> QED
  BY <1>1, <1>4, <1>5, <1>6, BirthKeeps DEF new

\* The other steps hand the lock to nobody and make no server.
LEMMA StepsQuiet ==
  ASSUME LockInv, NEW p \in Started,
         \/ Drop(p) \/ Busy(p) \/ Signal(p) \/ WaitEnds(p) \/ ComesUp(p) \/ Drained(p)
         \/ CronLock(p) \/ Health(p) \/ Replace(p) \/ AwaitEnds(p) \/ Fails(p)
  PROVE  Quiet
<1>1. CASE Drop(p)
  <2>1. owner' = owner /\ installed' \in {"old", "new"} /\ lock = p
    BY <1>1 DEF Drop, LockInv, TypedLock, HolderLocks, Holds, Holding
  <2>2. CASE Try(p, "serve")
    BY <2>1, <2>2, TryQuiet DEF Purpose
  <2>3. CASE Go(p, "start_cron") /\ lock' = NoPid
    BY <2>1, <2>3, GoQuiet DEF Pc, Holding
  <2>4. CASE StopSucceeded(p)
    BY <2>1, <2>4, StopSucceededQuiet
  <2>5. CASE End(p)
    BY <2>1, <2>5, EndQuiet
  <2> QED
    BY <1>1, <2>2, <2>3, <2>4, <2>5 DEF Drop
<1>2. CASE Busy(p)
  <2>1. owner' = owner /\ installed' \in {"old", "new"} /\ owner \in Nat /\ proc[p].pc = "busy"
    BY <1>2 DEF Busy, LockInv, TypedLock
  <2>2. CASE End(p)
    BY <2>1, <2>2, EndQuiet
  <2>3. CASE StopSucceeded(p)
    BY <2>1, <2>3, StopSucceededQuiet
  <2>4. CASE Try(p, IF owner = NoPid THEN "serve" ELSE "stop") /\ UNCHANGED lock
    BY <2>1, <2>4, TryQuiet DEF Purpose
  <2>5. CASE Try(p, "stop") /\ UNCHANGED lock
    BY <2>1, <2>5, TryQuiet DEF Purpose
  <2>6. CASE proc' = [proc EXCEPT ![p].pc = "check", ![p].target = owner] /\ UNCHANGED lock
    <3> DEFINE last == [proc[p] EXCEPT !.pc = "check", !.target = owner]
    <3>1. last \in Record /\ last.pc = "check" /\ proc' = [proc EXCEPT ![p] = last]
      BY <2>1, <2>6 DEF LockInv, TypedLock, Record, Pc
    <3>2. proc' \in [Started -> Record] /\ proc'[p].pc = "check" /\ \A q \in Started \ {p} : proc'[q] = proc[q]
      BY <3>1 DEF LockInv, TypedLock
    <3> QED
      BY <2>1, <2>6, <3>2 DEF Quiet, Holds, Holding, Server
  <2> QED
    BY <1>2, <2>2, <2>3, <2>4, <2>5, <2>6 DEF Busy
<1>3. CASE Signal(p)
  <2>1. owner' = owner /\ installed' \in {"old", "new"} /\ proc[p].pc = "check"
    BY <1>3 DEF Signal, LockInv, TypedLock
  <2>2. CASE Living(proc[p].target) /\ Terminate(proc[p].target, p)
    BY <2>1, <2>2, TerminateQuiet DEF Living
  <2>3. CASE End(p)
    BY <2>1, <2>3, EndQuiet
  <2> QED
    BY <1>3, <2>2, <2>3 DEF Signal
<1>4. CASE WaitEnds(p)
  BY <1>4, WaitEndsQuiet
<1>5. CASE ComesUp(p)
  <2>1. Go(p, "serving") /\ Server(p) /\ UNCHANGED <<lock, owner, installed>>
    BY <1>5 DEF ComesUp, Server
  <2> QED
    BY <2>1, GoQuiet DEF Pc, LockInv, TypedLock
<1>6. CASE Drained(p) \/ AwaitEnds(p) \/ Fails(p)
  BY <1>6, EndQuiet DEF Drained, AwaitEnds, Fails, LockInv, TypedLock
<1>7. CASE CronLock(p)
  <2>1. End(p) \/ (Go(p, "health") /\ lock' = lock)
    BY <1>7, Zenon DEF CronLock
  <2>2. UNCHANGED <<owner, installed>>
    BY <1>7 DEF CronLock
  <2> QED
    BY <2>1, <2>2, EndQuiet, GoQuiet DEF Pc, Holding, LockInv, TypedLock
<1>8. CASE Health(p)
  <2>1. UNCHANGED <<owner, installed>> /\ owner \in Nat
    BY <1>8 DEF Health, LockInv, TypedLock
  <2>2. CASE End(p) \/ (Go(p, "start_server") /\ UNCHANGED lock)
    BY <2>1, <2>2, EndQuiet, GoQuiet DEF Pc, Holding, LockInv, TypedLock
  <2>3. CASE /\ proc' = [proc EXCEPT ![p].pc = "replace", ![p].target = IF Living(owner) THEN owner ELSE NoPid]
             /\ UNCHANGED lock
    <3> DEFINE t == IF Living(owner) THEN owner ELSE NoPid
               last == [proc[p] EXCEPT !.pc = "replace", !.target = t]
    <3>1. t \in Nat
      BY <2>1 DEF NoPid
    <3>2. proc' = [proc EXCEPT ![p] = last]
      BY <2>3 DEF LockInv, TypedLock
    <3> HIDE DEF t
    <3>3. last \in Record /\ last.pc = "replace"
      BY <3>1 DEF LockInv, TypedLock, Record, Pc
    <3>4. proc' \in [Started -> Record] /\ proc'[p].pc = "replace" /\ \A q \in Started \ {p} : proc'[q] = proc[q]
      BY <3>2, <3>3 DEF LockInv, TypedLock
    <3> QED
      BY <2>1, <2>3, <3>4 DEF Quiet, Holds, Holding, Server, LockInv, TypedLock
  <2> QED
    BY <1>8, <2>2, <2>3 DEF Health
<1>9. CASE Replace(p)
  <2>1. End(p) \/ (Try(p, "stop") /\ lock' = lock)
    BY <1>9, Zenon DEF Replace
  <2>2. owner' = owner /\ installed' \in {"old", "new"}
    BY <1>9 DEF Replace
  <2> QED
    BY <2>1, <2>2, EndQuiet, TryQuiet DEF Purpose
<1> QED
  BY <1>1, <1>2, <1>3, <1>4, <1>5, <1>6, <1>7, <1>8, <1>9

\* main.rs, server_lock.rs: the record names the process that serves, whatever
\* commands probe the lock, stop, restart and update servers meanwhile.
THEOREM RecordNamesServer == ServerSpec => []OwnerNamesServer
<1>1. ServerInit => LockInv
  <2> SUFFICES ASSUME ServerInit PROVE LockInv
    OBVIOUS
  <2>1. CASE proc = [p \in {} |-> 0]
    <3>1. Started = 1..0
      BY <2>1 DEF Started
    <3> QED
      BY <2>1, <3>1 DEF ServerInit, LockInv, TypedLock, HolderLocks, OwnerNamesServer, NoPid
  <2>2. CASE /\ proc = [p \in {1} |-> [kind |-> "serve", pc |-> "serving", purpose |-> "serve",
                                       target |-> NoPid, force |-> FALSE, exe |-> "old"]]
             /\ lock = 1 /\ owner = 1
    <3>1. Started = 1..1
      BY <2>2 DEF Started
    <3> QED
      BY <2>2, <3>1 DEF ServerInit, LockInv, TypedLock, HolderLocks, OwnerNamesServer, NoPid, Record, Kind, Pc, Purpose
  <2> QED
    BY <2>1, <2>2 DEF ServerInit
<1>2. LockInv /\ [ServerNext]_serverVars => LockInv'
  <2> SUFFICES ASSUME LockInv, [ServerNext]_serverVars PROVE LockInv'
    OBVIOUS
  <2>1. CASE UNCHANGED serverVars
    BY <2>1 DEF serverVars, LockInv, TypedLock, HolderLocks, Holds, OwnerNamesServer, Server, Started
  <2>2. ASSUME NEW kind \in Kind, NEW force \in BOOLEAN, Launch(kind, force) PROVE LockInv'
    BY <2>2, LaunchKeeps
  <2>3. ASSUME NEW p \in Started, ProcessStep(p) \/ Fails(p) PROVE LockInv'
    BY <2>3, AcquireKeeps, PublishKeeps, SpawnKeeps, StepsQuiet, QuietKeeps DEF ProcessStep
  <2> QED
    BY <2>1, <2>2, <2>3 DEF ServerNext
<1>3. LockInv => OwnerNamesServer
  BY DEF LockInv
<1> QED
  BY <1>1, <1>2, <1>3, PTL DEF ServerSpec
---------------------------------------------------------------------------
(* The start *)

\* A start has come past the statements S.
Migrating == {"keys", "visible", "bind", "serving"}
Past == {"unique"} \cup Migrating

TypedStart ==
    /\ config \in Config /\ columns \subseteq {"visible_at", "sequence"}
    /\ \E n \in Nat : table \in [Row -> [updated : 1..2, seq : 0..n]]
    /\ users \in [Owner -> StoredKey]
    /\ counter \in Nat /\ indexed \in BOOLEAN /\ pushed \in Nat
    /\ serving \in [at : Statement, last : Nat, why : Statement \cup {"", "config"}]

\* The sequences are in the order of the times.
Ordered == \A q, r \in Row : table[q].updated < table[r].updated => table[q].seq < table[r].seq

\* An older database has no sequences, and a start that died before it numbered
\* the rows has left them all at zero.
Unnumbered == \A r \in Row : table[r].seq = 0
Numbered ==
    /\ indexed => Distinct /\ (pushed = 0 => Ordered)
    /\ ~indexed => pushed = 0 /\ (Unnumbered \/ Ordered)
    /\ "sequence" \notin columns => ~indexed /\ serving.at \in {"down", "open", "index", "sequence"}
    /\ serving.at = "backfill" => ~indexed
    /\ serving.at \in Migrating => indexed
    /\ serving.at \in Past => \A r \in Row : table[r].seq <= counter

\* Of each user, the key is as it was given or migrated, and migrated where the
\* start has been.
Original == {Hashed, [stored |-> "plain", prefix |-> "none"], [stored |-> "hash", prefix |-> "none"]}
KeysKept ==
    /\ given \in [Owner -> Original]
    /\ \A u \in Owner : /\ users[u] \in {given[u], Migrated(given[u])}
                        /\ u <= serving.last => users[u] = Migrated(given[u])
    /\ serving.at \in {"visible", "bind", "serving"} => serving.last >= Users

Configured == serving.at # "down" => ConfigLoads /\ TransportAllowed

StartInv == TypedStart /\ Numbered /\ KeysKept /\ Configured

\* A bounded set of numbers has a greatest one.
LEMMA MaxOfBounded ==
  ASSUME NEW S \in SUBSET Nat, S # {}, NEW n \in Nat, \A y \in S : y <= n
  PROVE  Max(S) \in S /\ \A y \in S : Max(S) >= y
<1> DEFINE T == {m \in Nat : \A y \in S : y <= m}
<1>1. n \in T /\ T \in SUBSET Nat /\ T # {}
  <2>1. n \in T
    OBVIOUS
  <2> QED
    BY <2>1
<1>2. PICK t \in T : \A m \in T : t <= m
  <2> HIDE DEF T
  <2>1. PICK t \in T : \A m \in T : ~(<<m, t>> \in OpToRel(<, Nat))
    BY <1>1, NatLessThanWellFounded, WFMin
  <2>2. ASSUME NEW m \in T PROVE t <= m
    <3>1. m \in Nat /\ t \in Nat
      BY <1>1
    <3>2. ~(m < t)
      BY <2>1, <3>1 DEF OpToRel
    <3> QED
      BY <3>1, <3>2
  <2> QED
    BY <2>2
<1>3. t \in S
  <2> SUFFICES ASSUME t \notin S PROVE FALSE
    OBVIOUS
  <2>1. PICK y \in S : TRUE
    OBVIOUS
  <2>2. \A x \in S : x \in Nat /\ x <= t /\ x # t
    BY <1>2
  <2>3. t \in Nat /\ t # 0
    BY <1>2, <2>1, <2>2
  <2>4. t - 1 \in Nat /\ \A x \in S : x <= t - 1
    BY <2>2, <2>3
  <2>5. t - 1 \in T
    BY <2>4
  <2> QED
    BY <1>2, <2>3, <2>5
<1>4. \E x \in S : \A y \in S : x >= y
  BY <1>2, <1>3
<1> QED
  BY <1>4 DEF Max

\* A row is numbered after those before it.
LEMMA Ranks ==
  ASSUME TypedStart
  PROVE  /\ \A r \in Row : Rank(r) \in 0..Rows
         /\ \A q, r \in Row : Rank(q) = Rank(r) => q = r
         /\ \A q, r \in Row : table[q].updated < table[r].updated => Rank(q) < Rank(r)
<1> DEFINE upTo(r) == {q \in Row : \/ table[q].updated < table[r].updated
                                   \/ table[q].updated = table[r].updated /\ q <= r}
<1>1. Rows \in Nat /\ IsFiniteSet(Row) /\ Cardinality(Row) = Rows
  <2>1. Rows \in Nat /\ 1 \in Int /\ Rows \in Int
    BY StartupAssumption
  <2>2. IsFiniteSet(1..Rows) /\ Cardinality(1..Rows) = IF 1 > Rows THEN 0 ELSE Rows - 1 + 1
    BY <2>1, FS_Interval
  <2>3. Cardinality(1..Rows) = Rows
    BY <2>1, <2>2
  <2> QED
    BY <2>1, <2>2, <2>3 DEF Row
<1>2. \A r \in Row : r \in Nat /\ table[r].updated \in Nat
  <2>1. PICK n \in Nat : table \in [Row -> [updated : 1..2, seq : 0..n]]
    BY DEF TypedStart
  <2>2. \A r \in Row : table[r].updated \in 1..2 /\ r \in 1..Rows /\ Rows \in Nat
    BY <2>1, StartupAssumption DEF Row
  <2> QED
    BY <2>2
<1>3. ASSUME NEW r \in Row
      PROVE  /\ IsFiniteSet(upTo(r)) /\ Cardinality(upTo(r)) \in Nat
             /\ Cardinality(upTo(r)) <= Rows /\ Rank(r) = Cardinality(upTo(r))
  <2>1. upTo(r) \in SUBSET Row
    OBVIOUS
  <2>2. IsFiniteSet(upTo(r)) /\ Cardinality(upTo(r)) <= Cardinality(Row)
    BY <1>1, <2>1, FS_Subset
  <2> QED
    BY <1>1, <2>2, FS_CardinalityType DEF Rank
<1>4. ASSUME NEW q \in Row, NEW r \in Row,
             table[q].updated < table[r].updated
               \/ (table[q].updated = table[r].updated /\ q < r)
      PROVE  Rank(q) < Rank(r)
  <2>1. /\ table[q].updated \in Nat /\ table[r].updated \in Nat /\ q \in Nat /\ r \in Nat
    BY <1>2
  <2>2. upTo(q) \subseteq upTo(r)
    <3> SUFFICES ASSUME NEW s \in upTo(q) PROVE s \in upTo(r)
      OBVIOUS
    <3>1. s \in Row /\ s \in Nat /\ table[s].updated \in Nat
      BY <1>2
    <3> QED
      BY <1>4, <2>1, <3>1
  <2>3. r \in upTo(r) /\ r \notin upTo(q)
    BY <1>4, <2>1
  <2>4. /\ upTo(q) \in SUBSET upTo(r) /\ upTo(q) # upTo(r)
    BY <2>2, <2>3
  <2>5. Cardinality(upTo(q)) <= Cardinality(upTo(r)) /\ Cardinality(upTo(q)) # Cardinality(upTo(r))
    BY <1>3, <2>4, FS_Subset
  <2> HIDE DEF upTo
  <2> QED
    BY <1>3, <2>5
<1>5. ASSUME NEW r \in Row PROVE Rank(r) \in 0..Rows
  <2>1. Rank(r) \in Nat /\ Rank(r) <= Rows
    BY <1>3
  <2> QED
    BY <1>1, <2>1
<1>6. ASSUME NEW q \in Row, NEW r \in Row, Rank(q) = Rank(r) PROVE q = r
  <2>1. Rank(q) \in Nat /\ Rank(r) \in Nat /\ q \in Nat /\ r \in Nat
        /\ table[q].updated \in Nat /\ table[r].updated \in Nat
    BY <1>2, <1>3
  <2>2. ~(Rank(q) < Rank(r)) /\ ~(Rank(r) < Rank(q))
    BY <1>6, <2>1
  <2>3. ~(table[q].updated < table[r].updated \/ (table[q].updated = table[r].updated /\ q < r))
    BY <1>4, <2>2
  <2>4. ~(table[r].updated < table[q].updated \/ (table[r].updated = table[q].updated /\ r < q))
    BY <1>4, <2>2
  <2> QED
    BY <2>1, <2>3, <2>4
<1> QED
  BY <1>4, <1>5, <1>6

\* Users are numbered from 1.
LEMMA Owners == \A u \in Owner : u \in Nat /\ ~(u <= 0) /\ u <= Users
<1>1. Users \in Nat
  BY StartupAssumption
<1>2. ASSUME NEW u \in 1..Users PROVE u \in Nat /\ ~(u <= 0) /\ u <= Users
  BY <1>1
<1> QED
  BY <1>2 DEF Owner

\* A key is migrated once.
LEMMA MigratedOnce ==
  ASSUME NEW key \in Original
  PROVE  /\ Migrated(key) \in StoredKey /\ key \in StoredKey
         /\ Migrated(Migrated(key)) = Migrated(key)
         /\ Usable(key) => Migrated(key) = Hashed
<1>1. CASE key = Hashed
  <2>1. key.stored = "hash" /\ key.prefix = "of key" /\ Hashed \in StoredKey
    BY <1>1 DEF Hashed, StoredKey
  <2>2. Migrated(key) = Hashed
    BY <2>1 DEF Migrated, Hashed
  <2> QED
    BY <1>1, <2>1, <2>2
<1>2. CASE key = [stored |-> "plain", prefix |-> "none"]
  <2>1. key.stored = "plain" /\ key.prefix = "none" /\ key \in StoredKey
    BY <1>2 DEF StoredKey
  <2>2. Migrated(key) = Hashed
    BY <2>1 DEF Migrated, Hashed
  <2>3. Hashed.prefix = "of key" /\ Hashed \in StoredKey
    BY DEF Hashed, StoredKey
  <2>4. Migrated(Hashed) = Hashed
    BY <2>3 DEF Migrated, Hashed
  <2> QED
    BY <2>1, <2>2, <2>3, <2>4
<1>3. CASE key = [stored |-> "hash", prefix |-> "none"]
  <2>1. key.stored = "hash" /\ key.prefix = "none" /\ key \in StoredKey
    BY <1>3 DEF StoredKey
  <2>2. Migrated(key) = [stored |-> "hash", prefix |-> "of hash"]
    BY <2>1 DEF Migrated
  <2>3. /\ [stored |-> "hash", prefix |-> "of hash"] \in StoredKey
        /\ [stored |-> "hash", prefix |-> "of hash"].prefix = "of hash"
    BY DEF StoredKey
  <2>4. Migrated(Migrated(key)) = Migrated(key)
    BY <2>2, <2>3 DEF Migrated
  <2>5. Hashed.prefix = "of key"
    BY DEF Hashed
  <2>6. ~Usable(key)
    BY <2>1, <2>5 DEF Usable
  <2> QED
    BY <2>1, <2>2, <2>3, <2>4, <2>6
<1> QED
  BY <1>1, <1>2, <1>3 DEF Original

\* What the control of the start is after a step.
LEMMA Moves ==
  ASSUME TypedStart, NEW to \in Statement
  PROVE  /\ At(to) \in [at : Statement, last : Nat, why : Statement \cup {"", "config"}]
         /\ At(to).at = to /\ At(to).last = serving.last
         /\ \A why \in {"", "config", "index", "unique", "bind"} :
              /\ Down(why) \in [at : Statement, last : Nat, why : Statement \cup {"", "config"}]
              /\ Down(why).at = "down" /\ Down(why).last = 0
<1>1. At(to) \in [at : Statement, last : Nat, why : Statement \cup {"", "config"}]
      /\ At(to).at = to /\ At(to).last = serving.last
  BY DEF At, TypedStart
<1>2. 0 \in Nat /\ {"", "config", "index", "unique", "bind"} \subseteq Statement \cup {"", "config"}
      /\ "down" \in Statement
  BY DEF Statement
<1> QED
  BY <1>1, <1>2 DEF Down

\* A start that goes on has read a configuration that loads.
LEMMA LoadStep ==
  ASSUME StartInv, Load
  PROVE  StartInv'
<1>1. /\ UNCHANGED <<columns, table, users, given, counter, indexed, pushed>>
      /\ serving.at = "down"
  BY DEF Load
<1>2. /\ serving' \in [at : Statement, last : Nat, why : Statement \cup {"", "config"}]
      /\ serving'.last = 0 /\ serving'.at \in {"down", "open"}
      /\ serving'.at = "open" => /\ ConfigLoads /\ TransportAllowed
                                 /\ config' = [config EXCEPT !.file = ConfigFile]
  <2>1. Down("config") \in [at : Statement, last : Nat, why : Statement \cup {"", "config"}]
        /\ Down("config").at = "down" /\ Down("config").last = 0
    BY Moves DEF StartInv, Statement
  <2>2. /\ [Down("") EXCEPT !.at = "open"].at = "open" /\ [Down("") EXCEPT !.at = "open"].last = 0
        /\ [Down("") EXCEPT !.at = "open"]
              \in [at : Statement, last : Nat, why : Statement \cup {"", "config"}]
    <3>1. "open" \in Statement /\ 0 \in Nat
      BY DEF Statement
    <3> QED
      BY <3>1 DEF Down
  <2>4. CASE serving' = Down("config")
    BY <2>1, <2>4
  <2>5. CASE /\ config' = [config EXCEPT !.file = ConfigFile]
             /\ ConfigLoads /\ TransportAllowed /\ serving' = [Down("") EXCEPT !.at = "open"]
    BY <2>2, <2>5
  <2> QED
    BY <2>4, <2>5 DEF Load
<1>3. config' \in Config
  <2>1. config' = config \/ config' = [config EXCEPT !.file = ConfigFile]
    BY DEF Load
  <2>2. ConfigFile \in {"absent", "broken", "zero", "set"} /\ config \in Config
    BY DEF ConfigFile, StartInv, TypedStart, Config
  <2> QED
    BY <2>1, <2>2 DEF Config
<1>4. TypedStart'
  BY <1>1, <1>2, <1>3 DEF StartInv, TypedStart
<1>5. Numbered'
  BY <1>1, <1>2 DEF StartInv, Numbered, Distinct, Ordered, Unnumbered, Migrating, Past
<1>6. KeysKept'
  <2>1. \A u \in Owner : ~(u <= serving'.last)
    BY <1>2, Owners
  <2>2. \A u \in Owner : users[u] \in {given[u], Migrated(given[u])}
    BY DEF StartInv, KeysKept
  <2> QED
    BY <1>1, <1>2, <2>1, <2>2 DEF StartInv, KeysKept
<1>7. Configured'
  <2> SUFFICES ASSUME serving'.at # "down" PROVE ConfigLoads' /\ TransportAllowed'
    BY DEF Configured
  <2>1. ConfigLoads /\ TransportAllowed /\ config' = [config EXCEPT !.file = ConfigFile]
    BY <1>2
  <2>2. config \in Config
    BY DEF StartInv, TypedStart
  <2>3. config'.file = ConfigFile /\ config'.env = config.env /\ config'.tls = config.tls
        /\ config'.http = config.http /\ config'.loopback = config.loopback
    BY <2>1, <2>2 DEF Config
  <2>4. ConfigFile # "absent"
    BY DEF ConfigFile
  <2>5. ConfigFile' = ConfigFile
    BY <2>3, <2>4 DEF ConfigFile
  <2> QED
    BY <2>1, <2>3, <2>5 DEF ConfigLoads, TransportAllowed, Parses, Value
<1> QED
  BY <1>4, <1>5, <1>6, <1>7 DEF StartInv

\* A statement that leaves the rows, the keys and the configuration alone.
LEMMA QuietStep ==
  ASSUME StartInv, NEW to \in {"index", "sequence", "seed", "serving", "bind", "down"},
         serving' = At(to) \/ (to = "down" /\ \E why \in {"", "index", "bind"} : serving' = Down(why)),
         UNCHANGED <<config, table, users, given, counter, indexed, pushed>>,
         columns' \subseteq {"visible_at", "sequence"}, columns \subseteq columns',
         to = "seed" => "sequence" \in columns',
         to \in {"serving", "bind"} => serving.at \in {"visible", "bind"},
         serving.at # "down"
  PROVE  StartInv'
<1>1. /\ serving' \in [at : Statement, last : Nat, why : Statement \cup {"", "config"}]
      /\ serving'.at = to /\ serving'.last \in {0, serving.last}
      /\ to # "down" => serving'.last = serving.last
  <2>1. to \in Statement /\ TypedStart
    BY DEF Statement, StartInv
  <2>2. CASE serving' = At(to)
    BY <2>1, <2>2, Moves
  <2>3. ASSUME to = "down", NEW why \in {"", "index", "bind"}, serving' = Down(why)
        PROVE  /\ serving' \in [at : Statement, last : Nat, why : Statement \cup {"", "config"}]
               /\ serving'.at = to /\ serving'.last = 0
    BY <2>1, <2>3, Moves
  <2> QED
    BY <2>2, <2>3
<1>2. TypedStart'
  BY <1>1 DEF StartInv, TypedStart
<1>3. Numbered'
  <2>1. Distinct' = Distinct /\ Ordered' = Ordered /\ Unnumbered' = Unnumbered
    BY DEF Distinct, Ordered, Unnumbered
  <2>2. "sequence" \notin columns' => to \in {"down", "index", "sequence"}
    BY <2>1 DEF StartInv, Numbered, Migrating
  <2>3. to \in Past => serving.at \in {"visible", "bind"}
    BY DEF Past, Migrating
  <2> QED
    BY <1>1, <2>1, <2>2, <2>3 DEF StartInv, Numbered, Migrating, Past
<1>4. KeysKept'
  <2>1. \A u \in Owner : u <= serving'.last => u <= serving.last
    BY <1>1, Owners
  <2>2. to \in {"visible", "bind", "serving"} => serving'.last >= Users
    BY <1>1 DEF StartInv, KeysKept
  <2> QED
    BY <1>1, <2>1, <2>2 DEF StartInv, KeysKept
<1>5. Configured'
  BY <1>1 DEF StartInv, Configured, ConfigLoads, TransportAllowed, Parses, Value, ConfigFile
<1> QED
  BY <1>2, <1>3, <1>4, <1>5 DEF StartInv

\* Statements that touch neither the rows nor the keys.
LEMMA QuietSteps ==
  ASSUME StartInv, \/ OpenTables \/ IndexVisible \/ MigrateVisible \/ Bind \/ Crash
                   \/ AddSequence /\ "sequence" \in columns
  PROVE  StartInv'
<1>1. columns \subseteq {"visible_at", "sequence"}
  BY DEF StartInv, TypedStart
<1>2. CASE OpenTables
  BY <1>1, <1>2, QuietStep DEF OpenTables
<1>3. CASE IndexVisible
  <2>1. CASE "visible_at" \in columns
    BY <1>1, <1>3, <2>1, QuietStep DEF IndexVisible
  <2>2. CASE "visible_at" \notin columns
    BY <1>1, <1>3, <2>2, QuietStep DEF IndexVisible
  <2> QED
    BY <2>1, <2>2
<1>4. CASE MigrateVisible
  BY <1>1, <1>4, QuietStep DEF MigrateVisible
<1>5. CASE Bind
  BY <1>1, <1>5, QuietStep DEF Bind
<1>6. CASE Crash
  BY <1>1, <1>6, QuietStep DEF Crash
<1>7. CASE AddSequence /\ "sequence" \in columns
  <2>1. columns' = columns /\ serving' = At("seed") /\ serving.at = "sequence"
    BY <1>7 DEF AddSequence
  <2> QED
    BY <1>1, <1>7, <2>1, QuietStep DEF AddSequence
<1> QED
  BY <1>2, <1>3, <1>4, <1>5, <1>6, <1>7

\* A step of the rows' migration, which leaves keys and configuration alone.
LEMMA RowStep ==
  ASSUME StartInv, NEW to \in Statement \ {"down"}, serving' = At(to), serving.at # "down",
         UNCHANGED <<config, users, given>>, Numbered',
         columns' \subseteq {"visible_at", "sequence"}, counter' \in Nat, indexed' \in BOOLEAN,
         pushed' \in Nat, \E n \in Nat : table' \in [Row -> [updated : 1..2, seq : 0..n]],
         to \notin {"visible", "bind", "serving"}
  PROVE  StartInv'
<1>1. /\ serving' \in [at : Statement, last : Nat, why : Statement \cup {"", "config"}]
      /\ serving'.at = to /\ serving'.last = serving.last
  BY Moves DEF StartInv
<1>2. TypedStart'
  BY <1>1 DEF StartInv, TypedStart
<1>3. KeysKept'
  BY <1>1 DEF StartInv, KeysKept
<1>4. Configured'
  BY <1>1 DEF StartInv, Configured, ConfigLoads, TransportAllowed, Parses, Value, ConfigFile
<1> QED
  BY <1>2, <1>3, <1>4 DEF StartInv

\* The column is added before anything is numbered.
LEMMA AddSequenceStep ==
  ASSUME StartInv, AddSequence, "sequence" \notin columns
  PROVE  StartInv'
<1>1. /\ serving' = At("backfill") /\ serving.at = "sequence" /\ "sequence" \in columns'
      /\ columns' \subseteq {"visible_at", "sequence"}
      /\ UNCHANGED <<config, table, users, given, counter, indexed, pushed>>
  BY DEF AddSequence, StartInv, TypedStart
<1>2. "backfill" \in Statement /\ "backfill" \notin Past /\ "backfill" \notin Migrating
  BY DEF Statement, Past, Migrating
<1>3. serving'.at = "backfill"
  BY <1>1, <1>2, Moves DEF StartInv
<1>4. Numbered'
  BY <1>1, <1>2, <1>3 DEF StartInv, Numbered, Distinct, Ordered, Unnumbered
<1> QED
  BY <1>1, <1>2, <1>4, RowStep DEF StartInv, TypedStart

\* The rows are numbered in the order of their times, in one transaction.
LEMMA BackfillStep ==
  ASSUME StartInv, Backfill
  PROVE  StartInv'
<1>1. /\ serving' = At("seed") /\ serving.at = "backfill"
      /\ table' = [r \in Row |-> [table[r] EXCEPT !.seq = Rank(r)]]
      /\ UNCHANGED <<config, columns, users, given, counter, indexed, pushed>>
  BY DEF Backfill
<1>2. "seed" \in Statement /\ "seed" \notin Past /\ "seed" \notin Migrating /\ "backfill" \notin
         {"down", "open", "index", "sequence"}
  BY DEF Statement, Past, Migrating
<1>3. serving'.at = "seed"
  BY <1>1, <1>2, Moves DEF StartInv
<1>4. /\ \A r \in Row : Rank(r) \in 0..Rows
      /\ \A q, r \in Row : table[q].updated < table[r].updated => Rank(q) < Rank(r)
  BY Ranks DEF StartInv
<1>5. PICK n \in Nat : table \in [Row -> [updated : 1..2, seq : 0..n]]
  BY DEF StartInv, TypedStart
<1>6. ASSUME NEW r \in Row
      PROVE  /\ table'[r] \in [updated : 1..2, seq : 0..Rows]
             /\ table'[r].updated = table[r].updated /\ table'[r].seq = Rank(r)
  <2>1. table[r] \in [updated : 1..2, seq : 0..n] /\ table'[r] = [table[r] EXCEPT !.seq = Rank(r)]
    BY <1>1, <1>5
  <2> QED
    BY <1>4, <2>1
<1>7. Ordered'
  BY <1>4, <1>6 DEF Ordered
<1>8. Numbered'
  BY <1>1, <1>2, <1>3, <1>7 DEF StartInv, Numbered
<1>9. Rows \in Nat /\ table' \in [Row -> [updated : 1..2, seq : 0..Rows]]
  BY <1>1, <1>6, StartupAssumption
<1> QED
  BY <1>1, <1>2, <1>8, <1>9, RowStep DEF StartInv, TypedStart

\* The counter starts behind the greatest number.
LEMMA SeedStep ==
  ASSUME StartInv, Seed
  PROVE  StartInv'
<1>1. /\ serving' = At("unique") /\ serving.at = "seed"
      /\ counter' = Max({counter} \cup Sequences)
      /\ UNCHANGED <<config, columns, table, users, given, indexed, pushed>>
  BY DEF Seed
<1>2. "unique" \in Statement /\ "unique" \notin Migrating /\ "seed" \notin
         {"down", "open", "index", "sequence"}
  BY DEF Statement, Migrating
<1>3. serving'.at = "unique"
  BY <1>1, <1>2, Moves DEF StartInv
<1>4. PICK n \in Nat : table \in [Row -> [updated : 1..2, seq : 0..n]]
  BY DEF StartInv, TypedStart
<1>5. PICK S \in SUBSET Nat : S = {counter} \cup Sequences
  <2>1. counter \in Nat /\ \A r \in Row : table[r].seq \in 0..n
    BY <1>4 DEF StartInv, TypedStart
  <2>2. 0..n \subseteq Nat
    OBVIOUS
  <2> QED
    BY <2>1, <2>2 DEF Sequences
<1>6. counter \in S /\ (\A r \in Row : table[r].seq \in S) /\ n + counter \in Nat
      /\ \A y \in S : y <= n + counter
  <2>1. counter \in Nat /\ \A r \in Row : table[r].seq \in 0..n
    BY <1>4 DEF StartInv, TypedStart
  <2>2. counter \in S /\ \A r \in Row : table[r].seq \in S
    BY <1>5 DEF Sequences
  <2>3. ASSUME NEW y \in S PROVE y <= n + counter
    <3>1. y = counter \/ y \in 0..n
      BY <1>5, <2>1 DEF Sequences
    <3> QED
      BY <2>1, <3>1
  <2> QED
    BY <2>1, <2>2, <2>3
<1>7. counter' \in Nat /\ \A y \in S : counter' >= y
  BY <1>1, <1>5, <1>6, MaxOfBounded
<1>8. \A r \in Row : table[r].seq <= counter'
  BY <1>6, <1>7
<1>9. Numbered'
  BY <1>1, <1>2, <1>3, <1>8 DEF StartInv, Numbered, Distinct, Ordered, Unnumbered
<1> QED
  BY <1>1, <1>2, <1>7, <1>9, RowStep DEF StartInv, TypedStart

\* The index is made of rows that are distinct by then.
LEMMA UniqueIndexStep ==
  ASSUME StartInv, UniqueIndex
  PROVE  StartInv'
<1>1. /\ serving.at = "unique" /\ indexed' = (indexed \/ Distinct)
      /\ serving' = IF indexed' THEN At("keys") ELSE Down("unique")
      /\ UNCHANGED <<config, columns, table, users, given, counter, pushed>>
  BY DEF UniqueIndex
<1>2. /\ "keys" \in Statement /\ "unique" \in Past /\ "unique" \notin
         {"down", "open", "index", "sequence"}
  BY DEF Statement, Past, Migrating
<1>3. Distinct' = Distinct /\ Ordered' = Ordered /\ Unnumbered' = Unnumbered
  BY <1>1 DEF Distinct, Ordered, Unnumbered
<1>4. ASSUME Distinct, Unnumbered PROVE Ordered
  <2>1. \A q, r \in Row : q = r
    BY <1>4 DEF Distinct, Unnumbered
  <2>2. \A r \in Row : ~(table[r].updated < table[r].updated)
    <3>1. PICK n \in Nat : table \in [Row -> [updated : 1..2, seq : 0..n]]
      BY DEF StartInv, TypedStart
    <3>2. \A r \in Row : table[r].updated \in 1..2
      BY <3>1
    <3> QED
      BY <3>2
  <2> QED
    BY <2>1, <2>2 DEF Ordered
<1>5. indexed' => Distinct /\ (pushed = 0 => Ordered)
  BY <1>1, <1>4 DEF StartInv, Numbered
<1>6. indexed' \in BOOLEAN /\ (~indexed' => ~indexed)
  BY <1>1 DEF StartInv, TypedStart
<1>7. CASE indexed'
  <2>1. serving' = At("keys") /\ serving'.at = "keys"
    BY <1>1, <1>2, <1>7, Moves DEF StartInv
  <2>2. Numbered'
    BY <1>1, <1>2, <1>3, <1>5, <1>7, <2>1 DEF StartInv, Numbered
  <2> QED
    BY <1>1, <1>2, <1>6, <2>1, <2>2, RowStep DEF StartInv, TypedStart
<1>8. CASE ~indexed'
  <2>1. /\ serving' \in [at : Statement, last : Nat, why : Statement \cup {"", "config"}]
        /\ serving'.at = "down" /\ serving'.last = 0
    BY <1>1, <1>2, <1>8, Moves DEF StartInv
  <2>2. TypedStart'
    BY <1>1, <1>6, <2>1 DEF StartInv, TypedStart
  <2>3. "down" \notin Past /\ "down" \notin Migrating
    BY DEF Past, Migrating
  <2>4. Numbered'
    BY <1>1, <1>2, <1>3, <1>6, <1>8, <2>1, <2>3 DEF StartInv, Numbered
  <2>5. KeysKept'
    BY <1>1, <2>1, Owners DEF StartInv, KeysKept
  <2> QED
    BY <2>1, <2>2, <2>4, <2>5 DEF StartInv, Configured
<1> QED
  BY <1>7, <1>8

\* The keys are migrated one user after the other.
LEMMA MigrateKeysStep ==
  ASSUME StartInv, MigrateKeys
  PROVE  StartInv'
<1>1. /\ serving.at = "keys"
      /\ users' = [u \in Owner |-> IF u \in serving.last + 1 .. serving.last + Batch
                                  THEN Migrated(users[u]) ELSE users[u]]
      /\ serving' = IF serving.last >= Users THEN At("visible")
                    ELSE [serving EXCEPT !.last = @ + Batch]
      /\ UNCHANGED <<config, columns, table, given, counter, indexed, pushed>>
  BY DEF MigrateKeys
<1>0. serving.last \in Nat /\ Batch \in Nat /\ Users \in Nat
  BY StartupAssumption DEF StartInv, TypedStart
<1>2. /\ serving \in [at : Statement, last : Nat, why : Statement \cup {"", "config"}]
      /\ serving.last \in Nat /\ Batch \in Nat \ {0} /\ Users \in Nat
  BY StartupAssumption DEF StartInv, TypedStart
<1>3. /\ serving' \in [at : Statement, last : Nat, why : Statement \cup {"", "config"}]
      /\ serving'.at \in {"keys", "visible"}
      /\ serving'.last \in {serving.last, serving.last + Batch}
      /\ serving'.at = "visible" => serving'.last >= Users
  <2>1. CASE serving.last >= Users
    <3>1. "visible" \in Statement /\ serving' = At("visible")
      BY <1>1, <2>1 DEF Statement
    <3> QED
      BY <2>1, <3>1, Moves DEF StartInv
  <2>2. CASE ~(serving.last >= Users)
    <3>1. serving' = [serving EXCEPT !.last = serving.last + Batch]
      BY <1>1, <2>2
    <3>2. serving.last + Batch \in Nat
      BY <1>0
    <3> QED
      BY <1>1, <1>2, <3>1, <3>2
  <2> QED
    BY <2>1, <2>2
<1>4. ASSUME NEW u \in Owner
      PROVE  /\ users'[u] \in StoredKey /\ users'[u] \in {given[u], Migrated(given[u])}
             /\ u <= serving'.last => users'[u] = Migrated(given[u])
  <2>1. /\ given[u] \in Original /\ users[u] \in {given[u], Migrated(given[u])}
        /\ u <= serving.last => users[u] = Migrated(given[u])
    BY DEF StartInv, KeysKept
  <2>2. /\ Migrated(given[u]) \in StoredKey /\ given[u] \in StoredKey
        /\ Migrated(users[u]) = Migrated(given[u])
    BY <2>1, MigratedOnce
  <2>3. CASE u \in serving.last + 1 .. serving.last + Batch
    BY <1>1, <2>1, <2>2, <2>3
  <2>4. CASE u \notin serving.last + 1 .. serving.last + Batch
    <3>1. users'[u] = users[u]
      BY <1>1, <2>4
    <3>2. u \in Nat
      BY Owners
    <3>3. u <= serving'.last => u <= serving.last
      <4>1. PICK last \in Nat : last = serving.last
        BY <1>0
      <4>2. u \notin last + 1 .. last + Batch
        BY <2>4, <4>1
      <4>3. u <= last + Batch => u <= last
        BY <1>0, <3>2, <4>2
      <4> QED
        BY <1>3, <4>1, <4>3
    <3> QED
      BY <2>1, <2>2, <3>1, <3>3
  <2> QED
    BY <2>3, <2>4
<1>5. TypedStart'
  <2>1. users' \in [Owner -> StoredKey]
    BY <1>1, <1>4
  <2> QED
    BY <1>1, <1>3, <2>1 DEF StartInv, TypedStart
<1>6. Numbered'
  <2>1. {"keys", "visible"} \subseteq Migrating /\ {"keys", "visible"} \subseteq Past
        /\ "keys" \notin {"down", "open", "index", "sequence"}
    BY DEF Migrating, Past
  <2> QED
    BY <1>1, <1>3, <2>1 DEF StartInv, Numbered, Distinct, Ordered, Unnumbered
<1>7. KeysKept'
  BY <1>1, <1>3, <1>4 DEF StartInv, KeysKept
<1>8. Configured'
  BY <1>1 DEF StartInv, Configured, ConfigLoads, TransportAllowed, Parses, Value, ConfigFile
<1> QED
  BY <1>5, <1>6, <1>7, <1>8 DEF StartInv

\* A row pushed to a running server gets a number that no other has.
LEMMA PushRowStep ==
  ASSUME StartInv, NEW r \in Row, NEW time \in 1..2, PushRow(r, time)
  PROVE  StartInv'
<1>1. /\ serving.at = "serving" /\ pushed' = pushed + 1 /\ counter' = counter + 1
      /\ \/ table' = [table EXCEPT ![r] = [updated |-> time, seq |-> counter + 1]]
         \/ table' = table
      /\ UNCHANGED <<config, columns, users, given, indexed, serving>>
  BY DEF PushRow
<1>2. PICK n \in Nat : table \in [Row -> [updated : 1..2, seq : 0..n]]
  BY DEF StartInv, TypedStart
<1>3. counter \in Nat /\ pushed \in Nat /\ indexed \in BOOLEAN
  BY DEF StartInv, TypedStart
<1>4. indexed /\ Distinct /\ \A q \in Row : table[q].seq <= counter
  BY <1>1 DEF StartInv, Numbered, Migrating, Past
<1>5. \A q \in Row : table[q].seq \in 0..n /\ table[q].updated \in 1..2
  BY <1>2
<1>6. /\ table'[r].seq = counter + 1 \/ table'[r] = table[r]
      /\ \A q \in Row \ {r} : table'[q] = table[q]
  BY <1>1, <1>2
<1>7. \A q \in Row : table'[q].seq <= counter'
  BY <1>1, <1>3, <1>4, <1>5, <1>6
<1>8. Distinct'
  <2> SUFFICES ASSUME NEW q \in Row, NEW s \in Row, table'[q].seq = table'[s].seq PROVE q = s
    BY DEF Distinct
  <2>1. \A t \in Row : table[t].seq # counter + 1
    BY <1>3, <1>4, <1>5
  <2> QED
    BY <1>4, <1>6, <2>1 DEF Distinct
<1>9. Numbered'
  BY <1>1, <1>3, <1>4, <1>7, <1>8 DEF StartInv, Numbered
<1>10. TypedStart'
  <2>1. n + counter + 1 \in Nat /\ 0..n \subseteq 0..(n + counter + 1)
        /\ counter + 1 \in 0..(n + counter + 1)
    BY <1>3
  <2>2. table' \in [Row -> [updated : 1..2, seq : 0..(n + counter + 1)]]
    <3>1. \A q \in Row : table[q] \in [updated : 1..2, seq : 0..(n + counter + 1)]
      BY <1>2, <2>1
    <3>2. [updated |-> time, seq |-> counter + 1] \in [updated : 1..2, seq : 0..(n + counter + 1)]
      BY <2>1
    <3> QED
      BY <1>1, <1>2, <3>1, <3>2
  <2>3. counter' \in Nat /\ pushed' \in Nat
    BY <1>1, <1>3
  <2> QED
    BY <1>1, <2>1, <2>2, <2>3 DEF StartInv, TypedStart
<1>11. KeysKept'
  BY <1>1 DEF StartInv, KeysKept
<1>12. Configured'
  BY <1>1 DEF StartInv, Configured, ConfigLoads, TransportAllowed, Parses, Value, ConfigFile
<1> QED
  BY <1>9, <1>10, <1>11, <1>12 DEF StartInv

\* Any database an earlier version may have left has the invariant.
LEMMA StartsWell ==
  ASSUME StartupInit
  PROVE  StartInv
<1>1. /\ serving \in [at : Statement, last : Nat, why : Statement \cup {"", "config"}]
      /\ serving.at = "down" /\ serving.last = 0
  <2>1. "down" \in Statement
    BY DEF Statement
  <2> QED
    BY <2>1 DEF StartupInit, Down
<1>2. given \in [Owner -> Original] /\ users = given
  <2>1. users \in [Owner -> Original] /\ given = users
    BY DEF StartupInit, Original
  <2> QED
    BY <2>1
<1>3. users \in [Owner -> StoredKey]
  BY <1>2, MigratedOnce
<1>4. KeysKept
  BY <1>1, <1>2, Owners DEF KeysKept
<1>5. Rows \in Nat /\ \A r \in Row : r \in Nat /\ r \in 0..Rows
  <2>1. Rows \in Nat
    BY StartupAssumption
  <2>2. ASSUME NEW r \in 1..Rows PROVE r \in Nat /\ r \in 0..Rows
    BY <2>1
  <2> QED
    BY <2>1, <2>2 DEF Row
<1>6. CASE "sequence" \in columns
  <2>1. table = [r \in Row |-> [updated |-> 1, seq |-> r]] /\ counter = Rows /\ indexed = TRUE
    BY <1>6 DEF StartupInit
  <2>2. Distinct /\ Ordered
    BY <2>1 DEF Distinct, Ordered
  <2>3. table \in [Row -> [updated : 1..2, seq : 0..Rows]]
    BY <1>5, <2>1
  <2>4. TypedStart
    BY <1>1, <1>3, <1>5, <2>1, <2>3 DEF StartupInit, TypedStart
  <2>5. Numbered
    BY <1>1, <1>6, <2>1, <2>2 DEF Numbered, Migrating, Past
  <2> QED
    BY <1>1, <1>4, <2>4, <2>5 DEF StartInv, Configured
<1>7. CASE "sequence" \notin columns
  <2>1. /\ table \in [Row -> [updated : 1..2, seq : {0}]] /\ counter = 0 /\ indexed = FALSE
        /\ pushed = 0
    BY <1>7 DEF StartupInit
  <2>2. {0} \subseteq 0..0
    OBVIOUS
  <2>3. table \in [Row -> [updated : 1..2, seq : 0..0]]
    BY <2>1, <2>2
  <2>4. TypedStart
    BY <1>1, <1>3, <2>1, <2>3 DEF StartupInit, TypedStart
  <2>5. Unnumbered
    BY <2>1 DEF Unnumbered
  <2>6. Numbered
    BY <1>1, <2>1, <2>5 DEF Numbered, Migrating, Past
  <2> QED
    BY <1>1, <1>4, <2>4, <2>6 DEF StartInv, Configured
<1> QED
  BY <1>6, <1>7

\* The invariant is inductive, for starts that die at any statement.
LEMMA StartupInvariance == StartupSpec => []StartInv
<1>1. StartupInit => StartInv
  BY StartsWell
<1>2. StartInv /\ [StartupNext]_startupVars => StartInv'
  <2> SUFFICES ASSUME StartInv, [StartupNext]_startupVars PROVE StartInv'
    OBVIOUS
  <2>1. CASE Load
    BY <2>1, LoadStep
  <2>2. CASE OpenTables \/ IndexVisible \/ MigrateVisible \/ Bind \/ Crash
    BY <2>2, QuietSteps
  <2>3. CASE AddSequence
    BY <2>3, AddSequenceStep, QuietSteps
  <2>4. CASE Backfill
    BY <2>4, BackfillStep
  <2>5. CASE Seed
    BY <2>5, SeedStep
  <2>6. CASE UniqueIndex
    BY <2>6, UniqueIndexStep
  <2>7. CASE MigrateKeys
    BY <2>7, MigrateKeysStep
  <2>8. ASSUME NEW r \in Row, NEW time \in 1..2, PushRow(r, time) PROVE StartInv'
    BY <2>8, PushRowStep
  <2>9. CASE UNCHANGED startupVars
    <3>1. UNCHANGED <<config, columns, table, users, given, counter, indexed, pushed, serving>>
      BY <2>9 DEF startupVars
    <3>2. TypedStart' /\ KeysKept'
      BY <3>1 DEF StartInv, TypedStart, KeysKept
    <3>3. Numbered'
      BY <3>1 DEF StartInv, Numbered, Distinct, Ordered, Unnumbered
    <3>4. Configured'
      BY <3>1 DEF StartInv, Configured, ConfigLoads, TransportAllowed, Parses, Value, ConfigFile
    <3> QED
      BY <3>2, <3>3, <3>4 DEF StartInv
  <2> QED
    BY <2>1, <2>2, <2>3, <2>4, <2>5, <2>6, <2>7, <2>8, <2>9 DEF StartupNext
<1> QED
  BY <1>1, <1>2, PTL DEF StartupSpec

\* However often earlier starts died, a server that serves has what it relies on.
THEOREM EveryServerWhole == StartupSpec => []ServedWhole
<1>1. ASSUME StartInv, serving.at = "serving"
      PROVE  /\ \A u \in Owner : Usable(given[u]) => Authenticates(u)
             /\ Distinct /\ \A s \in Sequences : s <= counter
             /\ pushed = 0 => Ordered
             /\ (config.loopback \/ config.tls) /\ Value # "zero"
  <2>1. indexed /\ \A r \in Row : table[r].seq <= counter
    BY <1>1 DEF StartInv, Numbered, Migrating, Past
  <2>2. Distinct /\ (pushed = 0 => Ordered)
    BY <1>1, <2>1 DEF StartInv, Numbered
  <2>3. ConfigLoads /\ TransportAllowed
    BY <1>1 DEF StartInv, Configured
  <2>4. ASSUME NEW u \in Owner, Usable(given[u]) PROVE Authenticates(u)
    <3>1. u <= serving.last
      <4>1. u \in Nat /\ u <= Users /\ serving.last >= Users /\ serving.last \in Nat
            /\ Users \in Nat
        BY <1>1, Owners, StartupAssumption DEF StartInv, KeysKept, TypedStart
      <4> QED
        BY <4>1
    <3>2. users[u] = Migrated(given[u]) /\ given[u] \in Original
      BY <1>1, <3>1 DEF StartInv, KeysKept
    <3> QED
      BY <2>4, <3>2, MigratedOnce DEF Authenticates
  <2> QED
    BY <2>1, <2>2, <2>3, <2>4 DEF Sequences, ConfigLoads, TransportAllowed
<1>2. StartInv => ServedWhole
  BY <1>1 DEF ServedWhole, Ordered
<1> QED
  BY <1>2, StartupInvariance, PTL
---------------------------------------------------------------------------
(* The requests *)

\* What a request is while it is handled.
Handling == [op : Op, key : User, target : 0..MaxLibraries, items : Batches \cup {NoItems},
             at : {"unsent", "resolve", "act", "done", "refused"}, lib : 0..MaxLibraries,
             ids : SUBSET Id, wrote : SUBSET Id, offset : Nat]
StoredNow == [owner : User, lib : DOMAIN libraries, time : 1..Latest, tie : Nat,
              deleted : BOOLEAN]
TypedRequests == /\ \E n \in 0..MaxLibraries : libraries \in [1..n -> Library]
                 /\ DOMAIN snippets \subseteq Id
                 /\ \A i \in DOMAIN snippets : snippets[i] \in StoredNow
                 /\ handler \in [Handler -> Handling]
                 /\ quiet \in [Handler -> BOOLEAN]

\* A user has one library of a name, and a default one, which is never deleted.
OneOfAName == \A l, m \in DOMAIN libraries :
                 libraries[l].owner = libraries[m].owner /\ libraries[l].name = libraries[m].name
                    => l = m
DefaultLives == \A l \in DOMAIN libraries : libraries[l].name = 0 => ~libraries[l].deleted
DefaultExists == \A u \in User : Account(u) =>
                    \E l \in DOMAIN libraries : libraries[l].owner = u /\ libraries[l].name = 0

\* What a request has resolved stays resolved.
Owned(q) == q.lib \in DOMAIN libraries /\ libraries[q.lib].owner = q.key
Settled(q) == IF q.target = 0 THEN libraries[q.lib].name = 0 ELSE q.lib = q.target

\* A download is a part of the list that begins at its head.
Leads(P, S) == P \subseteq S /\ \A i \in P, j \in S : Ahead(j, i) => j \in P
Downloads(q, still) ==
    /\ q.lib = 0 => q.ids = {} /\ q.offset = 0
    /\ q.lib # 0 => Owned(q) /\ Settled(q)
    /\ \A i \in q.ids : i \in DOMAIN snippets /\ Scope(i) = <<q.key, q.lib>>
    /\ still => /\ Leads(q.ids, InLibrary(q.key, q.lib)) /\ q.offset = Cardinality(q.ids)
                /\ q.at = "done" => q.ids = InLibrary(q.key, q.lib)
Uploaded(q) ==
    \A i \in q.ids : /\ i \in DOMAIN q.items /\ i \in DOMAIN snippets
                     /\ Scope(i) = <<q.key, q.lib>>
                     /\ ~Wins(q.items[i], snippets[i])
                     /\ i \in q.wrote => Upheld(snippets[i], q.items[i])
Sound(q, still) ==
    /\ q.at = "resolve" => Account(q.key)
    /\ q.at = "act" => Owned(q)
    /\ q.op = "push" /\ q.at = "done" => Uploaded(q)
    /\ q.op = "get" => Downloads(q, still)

Handled == \A r \in Handler : Sound(handler[r], quiet[r])
RequestsInv == /\ TypedRequests /\ OneOfAName /\ DefaultLives /\ DefaultExists /\ Scoped /\ Handled

\* The order of a page is a strict linear order.
LEMMA AheadOrders ==
  ASSUME TypedRequests
  PROVE  \A i, j, k \in DOMAIN snippets :
            /\ ~Ahead(i, i)
            /\ Ahead(i, j) /\ Ahead(j, k) => Ahead(i, k)
            /\ i # j => Ahead(i, j) \/ Ahead(j, i)
<1> SUFFICES ASSUME NEW i \in DOMAIN snippets, NEW j \in DOMAIN snippets,
                    NEW k \in DOMAIN snippets
             PROVE  /\ ~Ahead(i, i)
                    /\ Ahead(i, j) /\ Ahead(j, k) => Ahead(i, k)
                    /\ i # j => Ahead(i, j) \/ Ahead(j, i)
  OBVIOUS
<1>1. /\ i \in Nat /\ j \in Nat /\ k \in Nat
      /\ snippets[i].time \in Nat /\ snippets[j].time \in Nat /\ snippets[k].time \in Nat
  <2>1. \A m \in DOMAIN snippets : m \in Id /\ snippets[m].time \in 1..Latest
    BY DEF TypedRequests, StoredNow
  <2>2. Id \subseteq Nat /\ Latest \in Nat /\ 1..Latest \subseteq Nat
    BY RequestsAssumption
  <2>3. \A m \in DOMAIN snippets : m \in Nat /\ snippets[m].time \in Nat
    BY <2>1, <2>2
  <2> QED
    BY <2>3
<1> QED
  BY <1>1 DEF Ahead

\* Rows of a library are finitely many.
LEMMA Finitely ==
  ASSUME TypedRequests, NEW S, S \subseteq DOMAIN snippets
  PROVE  IsFiniteSet(S) /\ \A T \in SUBSET S : IsFiniteSet(T)
<1>1. S \subseteq Id
  BY DEF TypedRequests
<1> QED
  BY <1>1, RequestsAssumption, FS_Subset

\* Who is ahead of a row is at a smaller place.
LEMMA PlacesGrow ==
  ASSUME TypedRequests, NEW S, S \subseteq DOMAIN snippets, NEW i \in S, NEW j \in S, Ahead(j, i)
  PROVE  Place(i, S) \in Nat /\ Place(j, S) \in Nat /\ Place(j, S) < Place(i, S)
<1> DEFINE before(k) == {m \in S : Ahead(m, k)}
<1>1. IsFiniteSet(before(i)) /\ IsFiniteSet(before(j))
  BY Finitely
<1>2. before(j) \subseteq before(i)
  BY AheadOrders
<1>3. j \in before(i) /\ j \notin before(j)
  BY AheadOrders
<1>4. Cardinality(before(j)) <= Cardinality(before(i)) /\ Cardinality(before(j)) # Cardinality(before(i))
  BY <1>1, <1>2, <1>3, FS_Subset
<1>5. Cardinality(before(j)) \in Nat /\ Cardinality(before(i)) \in Nat
  BY <1>1, FS_CardinalityType
<1> HIDE DEF before
<1>6. Cardinality(before(j)) < Cardinality(before(i))
  BY <1>4, <1>5
<1> QED
  BY <1>5, <1>6 DEF Place, before

\* The head of a list has the first places, and only it.
LEMMA LeadersPlaces ==
  ASSUME TypedRequests, NEW S, S \subseteq DOMAIN snippets, NEW P, Leads(P, S), NEW i \in S
  PROVE  /\ Place(i, S) \in Nat /\ Cardinality(P) \in Nat
         /\ i \in P <=> Place(i, S) < Cardinality(P)
<1> DEFINE before == {m \in S : Ahead(m, i)}
<1>1. IsFiniteSet(before) /\ IsFiniteSet(P)
  BY Finitely DEF Leads
<1>2. Cardinality(before) \in Nat /\ Cardinality(P) \in Nat
  BY <1>1, FS_CardinalityType
<1>3. CASE i \in P
  <2>1. before \subseteq P \ {i}
    BY <1>3, AheadOrders DEF Leads
  <2>2. IsFiniteSet(P \ {i}) /\ Cardinality(P \ {i}) = Cardinality(P) - 1
    BY <1>1, <1>3, FS_RemoveElement
  <2>3. Cardinality(before) <= Cardinality(P \ {i})
    BY <2>1, <2>2, FS_Subset
  <2> HIDE DEF before
  <2>4. Cardinality(before) < Cardinality(P)
    BY <1>2, <2>2, <2>3
  <2> QED
    BY <1>2, <1>3, <2>4 DEF Place, before
<1>4. CASE i \notin P
  <2>1. P \subseteq before
    <3> SUFFICES ASSUME NEW p \in P PROVE p \in before
      OBVIOUS
    <3>1. p \in S /\ p # i
      BY <1>4 DEF Leads
    <3>2. ~Ahead(i, p)
      BY <1>4 DEF Leads
    <3> QED
      BY <3>1, <3>2, AheadOrders
  <2>2. Cardinality(P) <= Cardinality(before)
    BY <1>1, <2>1, FS_Subset
  <2> HIDE DEF before
  <2>3. ~(Cardinality(before) < Cardinality(P))
    BY <1>2, <2>2
  <2> QED
    BY <1>2, <1>4, <2>3 DEF Place, before
<1> QED
  BY <1>3, <1>4

\* A page added to the head of a list is a longer head, and new: whatever
\* place it is cut at for its bytes.
LEMMA PageLeads ==
  ASSUME TypedRequests, NEW S, S \subseteq DOMAIN snippets, NEW P, Leads(P, S)
  PROVE  LET sent == Sent(Page(S, Cardinality(P)))
         IN  /\ Leads(P \cup sent, S)
             /\ Cardinality(P \cup sent) = Cardinality(P) + Cardinality(sent)
             /\ Cardinality(P) + Cardinality(sent) >= Cardinality(S) => P \cup sent = S
<1> DEFINE page == Page(S, Cardinality(P))
           sent == Sent(page)
<1>1. page \subseteq S /\ sent \subseteq page
  BY DEF Page, Sent
<1>2. P \subseteq S
  BY DEF Leads
<1>3. /\ IsFiniteSet(S) /\ IsFiniteSet(P) /\ IsFiniteSet(sent) /\ IsFiniteSet(P \cup sent)
  BY <1>1, <1>2, Finitely, FS_Union
<1>4. /\ Cardinality(S) \in Nat /\ Cardinality(P) \in Nat /\ Cardinality(sent) \in Nat
      /\ Cardinality(P \cup sent) \in Nat
  BY <1>3, FS_CardinalityType
<1>5. P \cap sent = {}
  <2> SUFFICES ASSUME NEW i \in P, i \in page PROVE FALSE
    BY <1>1
  <2>1. Place(i, S) \in Cardinality(P) .. Cardinality(P) + PageLimit - 1
    BY DEF Page
  <2>2. i \in S /\ Place(i, S) < Cardinality(P) /\ Place(i, S) \in Nat
    BY <1>2, LeadersPlaces
  <2> QED
    BY <1>4, <2>1, <2>2, RequestsAssumption
<1>6. Leads(P \cup sent, S)
  <2> SUFFICES ASSUME NEW i \in P \cup sent, NEW j \in S, Ahead(j, i), j \notin P
               PROVE  j \in sent
    BY <1>1, <1>2 DEF Leads
  <2>1. i \in sent /\ i \in page /\ i \in S
    BY <1>1 DEF Leads
  <2>2. Place(j, S) \in Nat /\ Place(i, S) \in Nat /\ Place(j, S) < Place(i, S)
    BY <2>1, PlacesGrow
  <2>3. Place(i, S) \in Cardinality(P) .. Cardinality(P) + PageLimit - 1
    BY <2>1 DEF Page
  <2>4. ~(Place(j, S) < Cardinality(P))
    BY LeadersPlaces
  <2>5. Place(j, S) \in Cardinality(P) .. Cardinality(P) + PageLimit - 1
    BY <1>4, <2>2, <2>3, <2>4, RequestsAssumption
  <2>6. j \in page
    BY <2>5 DEF Page
  <2>7. {m \in page : Ahead(m, j)} \cup {j} \subseteq {m \in page : Ahead(m, i)}
    BY <1>1, <2>1, <2>6, AheadOrders
  <2>8. Fits(i, page)
    BY <2>1 DEF Sent
  <2>9. Fits(j, page)
    BY <2>7, <2>8 DEF Fits
  <2> QED
    BY <2>6, <2>9 DEF Sent
<1>7. Cardinality(P \cup sent) = Cardinality(P) + Cardinality(sent)
  <2> HIDE DEF sent
  <2>1. Cardinality(P \cup sent) = Cardinality(P) + Cardinality(sent) - Cardinality(P \cap sent)
    BY <1>3, FS_Union
  <2>2. Cardinality(P \cap sent) = 0
    BY <1>5, FS_EmptySet
  <2> QED
    BY <1>4, <2>1, <2>2
<1>8. ASSUME Cardinality(P) + Cardinality(sent) >= Cardinality(S) PROVE P \cup sent = S
  <2>1. P \cup sent \in SUBSET S
    BY <1>1, <1>2
  <2>2. Cardinality(P \cup sent) <= Cardinality(S)
    BY <1>3, <2>1, FS_Subset
  <2> HIDE DEF sent
  <2>3. Cardinality(P \cup sent) = Cardinality(S)
    BY <1>4, <1>7, <1>8, <2>2
  <2> QED
    BY <1>3, <2>1, <2>3, FS_Subset
<1> QED
  BY <1>6, <1>7, <1>8

\* Versions are in a linear order of their times and ties.
LEMMA VersionsOrdered ==
  ASSUME NEW a, NEW b, NEW c, a.time \in Nat, a.tie \in Nat, b.time \in Nat, b.tie \in Nat,
         c.time \in Nat, c.tie \in Nat
  PROVE  /\ ~Wins(a, a)
         /\ Wins(a, b) => ~Wins(b, a)
         /\ Wins(a, b) /\ ~Wins(c, b) => Wins(a, c)
         /\ ~Wins(b, a) /\ Wins(b, c) => Wins(a, c)
<1> PICK t, u, v, x, y, z : /\ t = a.time /\ u = b.time /\ v = c.time
                            /\ x = a.tie /\ y = b.tie /\ z = c.tie
  OBVIOUS
<1>1. t \in Nat /\ u \in Nat /\ v \in Nat /\ x \in Nat /\ y \in Nat /\ z \in Nat
  OBVIOUS
<1>2. /\ ~(t > t \/ (t = t /\ x > x))
      /\ (t > u \/ (t = u /\ x > y)) => ~(u > t \/ (u = t /\ y > x))
      /\ (t > u \/ (t = u /\ x > y)) /\ ~(v > u \/ (v = u /\ z > y)) => (t > v \/ (t = v /\ x > z))
      /\ ~(u > t \/ (u = t /\ y > x)) /\ (u > v \/ (u = v /\ y > z)) => (t > v \/ (t = v /\ x > z))
  BY <1>1
<1> QED
  BY <1>2 DEF Wins

\* A row stays in its scope; it is replaced by strictly later versions only, and
\* deleted or brought back otherwise than by these with its library only.
Succeeds(i) ==
    /\ i \in DOMAIN snippets'
    /\ snippets'[i].owner = snippets[i].owner
    /\ snippets'[i].lib = snippets[i].lib
    /\ ~Wins(snippets[i], snippets'[i])
    /\ \/ snippets'[i].deleted = snippets[i].deleted
       \/ Wins(snippets'[i], snippets[i])
       \/ snippets'[i].deleted /\ libraries'[snippets[i].lib].deleted
\* Libraries and rows stay whose they are, and no row gets older.
Grows ==
    /\ \A l \in DOMAIN libraries : /\ l \in DOMAIN libraries'
                                   /\ libraries'[l].owner = libraries[l].owner
                                   /\ libraries'[l].name = libraries[l].name
                                   /\ libraries[l].deleted => libraries'[l].deleted
    /\ \A i \in DOMAIN snippets : Succeeds(i)

\* A table that is left alone.
LEMMA RowsAlike ==
  ASSUME TypedRequests, snippets' = snippets
  PROVE  \A i \in DOMAIN snippets : Succeeds(i)
<1> SUFFICES ASSUME NEW i \in DOMAIN snippets PROVE Succeeds(i)
  OBVIOUS
<1>1. snippets[i] \in StoredNow /\ 1..Latest \subseteq Nat
  BY RequestsAssumption DEF TypedRequests
<1>2. snippets[i].time \in Nat /\ snippets[i].tie \in Nat
  BY <1>1 DEF StoredNow
<1>3. ~Wins(snippets[i], snippets[i])
  BY <1>2, VersionsOrdered
<1> QED
  BY <1>3 DEF Succeeds

\* A version and its time and tie.
LEMMA ItemOfBatch ==
  ASSUME NEW items \in Batches \cup {NoItems}, NEW i \in DOMAIN items
  PROVE  items[i] \in Item /\ i \in Id
<1>1. items # NoItems
  BY DEF NoItems
<1> QED
  BY <1>1, RequestsAssumption

\* The order of the rows is that of the rows alone.
LEMMA ListsAlike ==
  ASSUME snippets' = snippets, NEW q \in Handling
  PROVE  /\ InLibrary(q.key, q.lib)' = InLibrary(q.key, q.lib)
         /\ Leads(q.ids, InLibrary(q.key, q.lib)) => Leads(q.ids, InLibrary(q.key, q.lib))'
<1>1. InLibrary(q.key, q.lib)' = InLibrary(q.key, q.lib)
  BY DEF InLibrary, Scope
<1>2. \A i, j : Ahead(i, j)' <=> Ahead(i, j)
  BY DEF Ahead
<1> QED
  BY <1>1, <1>2 DEF Leads

\* What is true of a request stays true while others act.
LEMMA OtherKept ==
  ASSUME TypedRequests, TypedRequests', Grows, NEW w \in Handler, handler'[w] = handler[w],
         quiet'[w] => quiet[w] /\ snippets' = snippets, Sound(handler[w], quiet[w])
  PROVE  Sound(handler[w], quiet[w])'
<1>1. PICK q \in Handling : q = handler[w] /\ q = handler'[w]
  BY DEF TypedRequests
<1>0. Sound(q, quiet[w])
  BY <1>1
<1>2. q.at = "resolve" => Account(q.key)'
  BY <1>1 DEF Sound, Account, Grows
<1>3. Owned(q) => Owned(q)'
  BY <1>1 DEF Owned, Grows
<1>4. Owned(q) /\ Settled(q) => Settled(q)'
  BY <1>1 DEF Owned, Settled, Grows
<1>5. Uploaded(q) => Uploaded(q)'
  <2> SUFFICES ASSUME Uploaded(q), NEW i \in q.ids
               PROVE  /\ i \in DOMAIN q.items /\ i \in DOMAIN snippets'
                      /\ Scope(i)' = <<q.key, q.lib>> /\ ~Wins(q.items[i], snippets'[i])
                      /\ i \in q.wrote => Upheld(snippets[i], q.items[i])'
    BY DEF Uploaded
  <2>1. /\ i \in DOMAIN q.items /\ i \in DOMAIN snippets /\ Scope(i) = <<q.key, q.lib>>
        /\ ~Wins(q.items[i], snippets[i])
        /\ i \in q.wrote => Upheld(snippets[i], q.items[i])
    BY DEF Uploaded
  <2>2. Succeeds(i)
    BY <2>1 DEF Grows
  <2>3. /\ snippets[i].time \in Nat /\ snippets[i].tie \in Nat
        /\ snippets'[i].time \in Nat /\ snippets'[i].tie \in Nat
    <3>1. Latest \in Nat /\ 1..Latest \subseteq Nat
      BY RequestsAssumption
    <3>2. snippets[i] \in StoredNow /\ snippets'[i] \in StoredNow'
      BY <2>1, <2>2 DEF TypedRequests, Succeeds
    <3> QED
      BY <3>1, <3>2 DEF StoredNow
  <2>4. q.items[i].time \in Nat /\ q.items[i].tie \in Nat
    BY <2>1, ItemOfBatch DEF Handling, Item
  <2>5. ~Wins(q.items[i], snippets'[i])
    BY <2>1, <2>2, <2>3, <2>4, VersionsOrdered DEF Succeeds
  <2>6. ASSUME i \in q.wrote PROVE Upheld(snippets[i], q.items[i])'
    <3>1. \/ snippets[i].deleted = q.items[i].deleted \/ Wins(snippets[i], q.items[i])
          \/ snippets[i].deleted /\ libraries[snippets[i].lib].deleted
      BY <2>1, <2>6 DEF Upheld
    <3>2. /\ Wins(snippets[i], q.items[i]) => Wins(snippets'[i], q.items[i])
          /\ Wins(snippets'[i], snippets[i]) => Wins(snippets'[i], q.items[i])
      BY <2>1, <2>2, <2>3, <2>4, VersionsOrdered DEF Succeeds
    <3>3. libraries[snippets[i].lib].deleted => libraries'[snippets'[i].lib].deleted
      BY <2>1, <2>2 DEF Succeeds, Grows, TypedRequests, StoredNow
    <3>4. \/ snippets'[i].deleted = snippets[i].deleted \/ Wins(snippets'[i], snippets[i])
          \/ snippets'[i].deleted /\ libraries'[snippets'[i].lib].deleted
      BY <2>2 DEF Succeeds
    <3>5. \/ snippets'[i].deleted = q.items[i].deleted \/ Wins(snippets'[i], q.items[i])
          \/ snippets'[i].deleted /\ libraries'[snippets'[i].lib].deleted
      BY <3>1, <3>2, <3>3, <3>4
    <3> QED
      BY <3>5 DEF Upheld
  <2>7. Scope(i)' = <<q.key, q.lib>> /\ i \in DOMAIN snippets'
    BY <2>1, <2>2 DEF Succeeds, Scope
  <2> QED
    BY <2>1, <2>5, <2>6, <2>7
<1>6. ASSUME Downloads(q, quiet[w]) PROVE Downloads(q, quiet[w])'
  <2>1. \A i \in q.ids : i \in DOMAIN snippets' /\ Scope(i)' = <<q.key, q.lib>>
    BY <1>6 DEF Downloads, Grows, Succeeds, Scope
  <2>2. ASSUME quiet'[w]
        PROVE  /\ Leads(q.ids, InLibrary(q.key, q.lib))' /\ q.offset = Cardinality(q.ids)
               /\ q.at = "done" => q.ids = InLibrary(q.key, q.lib)'
    BY <1>1, <1>6, <2>2, ListsAlike DEF Downloads
  <2> QED
    BY <1>3, <1>4, <1>6, <2>1, <2>2 DEF Downloads
<1>7. Sound(q, quiet[w])'
  BY <1>0, <1>2, <1>3, <1>5, <1>6 DEF Sound
<1> QED
  BY <1>1, <1>7 DEF Sound

\* An answer of which only the fact is kept.
LEMMA UnsentSound ==
  ASSUME NEW at \in {"unsent", "done", "refused"}
  PROVE  [Unsent EXCEPT !.at = at] \in Handling
<1>1. (CHOOSE u \in User : TRUE) \in User
  BY RequestsAssumption
<1>2. 0 \in 0..MaxLibraries /\ 0 \in Nat
  BY RequestsAssumption
<1> QED
  BY <1>1, <1>2 DEF Unsent, Handling, Op

\* An answer that fits what it was asked is a sound end of a request.
LEMMA AnswerSound ==
  ASSUME TypedRequests', NEW r \in Handler, NEW at \in {"unsent", "done", "refused"},
         handler'[r] = [Unsent EXCEPT !.at = at]
  PROVE  Sound(handler[r], quiet[r])'
<1>1. PICK q : q = handler'[r] /\ q = [Unsent EXCEPT !.at = at]
  OBVIOUS
<1>6. q.op = "get" /\ q.lib = 0 /\ q.ids = {} /\ q.offset = 0 /\ q.at = at
  BY <1>1 DEF Unsent
<1>2. InLibrary(q.key, q.lib)' = {}
  <2>1. 0 \notin DOMAIN libraries'
    BY DEF TypedRequests
  <2>2. \A i \in DOMAIN snippets' : snippets'[i].lib # 0
    BY <2>1 DEF TypedRequests, StoredNow
  <2> QED
    BY <1>6, <2>2 DEF InLibrary, Scope
<1>3. Leads({}, {})'
  BY DEF Leads
<1>4. Downloads(q, quiet[r])'
  BY <1>2, <1>3, <1>6, FS_EmptySet DEF Downloads
<1>5. Sound(q, quiet[r])'
  BY <1>4, <1>6 DEF Sound
<1> QED
  BY <1>1, <1>5

\* A step of one request that writes nothing.
LEMMA ReadingStep ==
  ASSUME RequestsInv, UNCHANGED <<libraries, snippets>>, NEW r \in Handler,
         handler' \in [Handler -> Handling], quiet' \in [Handler -> BOOLEAN],
         \A w \in Handler \ {r} : handler'[w] = handler[w] /\ quiet'[w] = quiet[w],
         TypedRequests' => Sound(handler[r], quiet[r])'
  PROVE  RequestsInv'
<1>1. TypedRequests'
  BY DEF RequestsInv, TypedRequests, StoredNow
<1>2. OneOfAName' /\ DefaultLives' /\ Scoped'
  BY DEF RequestsInv, OneOfAName, DefaultLives, Scoped
<1>3. DefaultExists'
  BY DEF RequestsInv, DefaultExists, Account
<1>4. Grows
  BY RowsAlike DEF RequestsInv, Grows
<1>5. Handled'
  <2> SUFFICES ASSUME NEW w \in Handler PROVE Sound(handler[w], quiet[w])'
    BY DEF Handled
  <2>1. CASE w = r
    BY <1>1, <2>1
  <2>2. CASE w # r
    BY <1>1, <1>4, <2>2, OtherKept DEF RequestsInv, Handled
  <2> QED
    BY <2>1, <2>2
<1> QED
  BY <1>1, <1>2, <1>3, <1>5 DEF RequestsInv

\* A request is answered from what it has read, and nothing else changes.
LEMMA Answering ==
  ASSUME RequestsInv, UNCHANGED <<libraries, snippets>>, NEW r \in Handler,
         NEW at \in {"done", "refused"}, Answer(r, at), UNCHANGED quiet
  PROVE  RequestsInv'
<1>1. [Unsent EXCEPT !.at = at] \in Handling
  BY UnsentSound
<1>2. /\ handler' \in [Handler -> Handling] /\ quiet' \in [Handler -> BOOLEAN]
      /\ handler'[r] = [Unsent EXCEPT !.at = at]
      /\ \A w \in Handler \ {r} : handler'[w] = handler[w] /\ quiet'[w] = quiet[w]
  BY <1>1 DEF RequestsInv, TypedRequests, Answer
<1>3. TypedRequests' => Sound(handler[r], quiet[r])'
  BY <1>2, AnswerSound
<1> QED
  BY <1>2, <1>3, ReadingStep

\* The key of a request is taken for the user it names.
LEMMA AuthenticateStep ==
  ASSUME RequestsInv, NEW r \in Handler, NEW op \in Op, NEW key \in User,
         NEW target \in 0..MaxLibraries, NEW items \in Batches \cup {NoItems},
         Authenticate(r, op, key, target, items)
  PROVE  RequestsInv'
<1>1. CASE ~Account(key)
  BY <1>1, Answering DEF Authenticate
<1>2. CASE Account(key)
  <2>1. PICK q : q = [Unsent EXCEPT !.op = op, !.key = key, !.target = target, !.items = items,
                                    !.at = "resolve"]
    OBVIOUS
  <2>2. /\ q.op = op /\ q.key = key /\ q.lib = 0 /\ q.ids = {} /\ q.offset = 0
        /\ q.at = "resolve"
    BY <2>1 DEF Unsent
  <2>3. q \in Handling
    <3>1. 0 \in 0..MaxLibraries /\ 0 \in Nat
      BY RequestsAssumption
    <3> QED
      BY <2>1, <3>1 DEF Unsent, Handling
  <2>4. handler' = [handler EXCEPT ![r] = q] /\ quiet' = [quiet EXCEPT ![r] = TRUE]
    BY <1>2, <2>1 DEF Authenticate
  <2>5. /\ handler' \in [Handler -> Handling] /\ quiet' \in [Handler -> BOOLEAN]
        /\ handler'[r] = q
        /\ \A w \in Handler \ {r} : handler'[w] = handler[w] /\ quiet'[w] = quiet[w]
    BY <2>3, <2>4 DEF RequestsInv, TypedRequests
  <2>6. UNCHANGED <<libraries, snippets>> /\ Account(key)'
    BY <1>2 DEF Authenticate, Account
  <2>7. Leads({}, InLibrary(q.key, q.lib))'
    BY DEF Leads
  <2>8. Downloads(q, quiet[r])'
    BY <2>2, <2>7, FS_EmptySet DEF Downloads
  <2>9. Sound(q, quiet[r])'
    BY <2>2, <2>6, <2>8 DEF Sound
  <2> QED
    BY <2>5, <2>6, <2>9, ReadingStep
<1> QED
  BY <1>1, <1>2

\* What a page or a write resolves is what the request resolved before.
LEMMA ResolvedAlike ==
  ASSUME RequestsInv, NEW q \in Handling, NEW l \in Resolved(q.key, q.target)
  PROVE  /\ l \in DOMAIN libraries /\ l # 0 /\ l \in 0..MaxLibraries
         /\ libraries[l].owner = q.key
         /\ IF q.target = 0 THEN libraries[l].name = 0 ELSE l = q.target
         /\ Owned(q) /\ Settled(q) => l = q.lib
<1>1. PICK n \in 0..MaxLibraries : libraries \in [1..n -> Library]
  BY DEF RequestsInv, TypedRequests
<1>2. l \in DOMAIN libraries /\ libraries[l].owner = q.key
  BY DEF Resolved, Defaults, Own
<1>3. IF q.target = 0 THEN libraries[l].name = 0 ELSE l = q.target
  BY DEF Resolved, Defaults, Own
<1>4. l # 0 /\ l \in 0..MaxLibraries
  BY <1>1, <1>2, RequestsAssumption
<1>5. Owned(q) /\ Settled(q) => l = q.lib
  BY <1>2, <1>3 DEF Owned, Settled, RequestsInv, OneOfAName
<1> QED
  BY <1>2, <1>3, <1>4, <1>5

\* A page or a batch is given its library: the one asked for or the default one.
LEMMA ResolveStep ==
  ASSUME RequestsInv, NEW r \in Handler, Resolve(r)
  PROVE  RequestsInv'
<1>1. PICK q \in Handling : q = handler[r]
  BY DEF RequestsInv, TypedRequests
<1>2. q.at = "resolve" /\ q.op \in {"push", "get"} /\ UNCHANGED <<libraries, snippets, quiet>>
  BY <1>1 DEF Resolve
<1>3. CASE Answer(r, "refused")
  BY <1>2, <1>3, Answering
<1>4. ASSUME NEW l \in Resolved(q.key, q.target),
             handler' = [handler EXCEPT ![r].at = "act", ![r].lib = l]
      PROVE  RequestsInv'
  <2>1. /\ l \in DOMAIN libraries /\ l # 0 /\ l \in 0..MaxLibraries
        /\ libraries[l].owner = q.key
        /\ IF q.target = 0 THEN libraries[l].name = 0 ELSE l = q.target
        /\ Owned(q) /\ Settled(q) => l = q.lib
    BY ResolvedAlike
  <2>2. PICK p : p = [q EXCEPT !.at = "act", !.lib = l]
    OBVIOUS
  <2>3. p \in Handling
    BY <2>1, <2>2 DEF Handling
  <2>4. /\ p.op = q.op /\ p.key = q.key /\ p.target = q.target /\ p.ids = q.ids
        /\ p.offset = q.offset /\ p.at = "act" /\ p.lib = l
    BY <2>2 DEF Handling
  <2>5. handler' = [handler EXCEPT ![r] = p]
    BY <1>1, <1>4, <2>2 DEF RequestsInv, TypedRequests
  <2>6. /\ handler' \in [Handler -> Handling] /\ quiet' \in [Handler -> BOOLEAN]
        /\ handler'[r] = p
        /\ \A w \in Handler \ {r} : handler'[w] = handler[w] /\ quiet'[w] = quiet[w]
    BY <1>2, <2>3, <2>5 DEF RequestsInv, TypedRequests
  <2>7. Owned(p) /\ Settled(p) /\ (Owned(p) /\ Settled(p))'
    BY <1>2, <2>1, <2>4 DEF Owned, Settled
  <2>8. ASSUME p.op = "get" PROVE Downloads(p, quiet[r])'
    <3>1. Downloads(q, quiet[r])
      BY <1>1, <2>4, <2>8 DEF RequestsInv, Handled, Sound
    <3>2. CASE q.lib = 0
      <4>1. p.ids = {} /\ p.offset = 0
        BY <2>4, <3>1, <3>2 DEF Downloads
      <4>2. Leads(p.ids, InLibrary(p.key, p.lib))'
        BY <4>1 DEF Leads
      <4> QED
        BY <2>1, <2>4, <2>7, <4>1, <4>2, FS_EmptySet DEF Downloads
    <3>3. CASE q.lib # 0
      <4>1. l = q.lib
        BY <2>1, <3>1, <3>3 DEF Downloads
      <4>2. \A i \in p.ids : i \in DOMAIN snippets' /\ Scope(i)' = <<p.key, p.lib>>
        BY <1>2, <2>4, <3>1, <4>1 DEF Downloads, Scope
      <4>3. quiet'[r] => /\ Leads(p.ids, InLibrary(p.key, p.lib))'
                         /\ p.offset = Cardinality(p.ids)
        BY <1>2, <2>3, <2>4, <3>1, <4>1, ListsAlike DEF Downloads
      <4> QED
        BY <2>1, <2>4, <2>7, <4>2, <4>3 DEF Downloads
    <3> QED
      BY <3>2, <3>3
  <2>9. Sound(p, quiet[r])'
    BY <1>2, <2>4, <2>7, <2>8 DEF Sound
  <2> QED
    BY <1>2, <2>6, <2>9, ReadingStep
<1> QED
  BY <1>1, <1>3, <1>4 DEF Resolve

\* A page is cut where the one before it ended.
LEMMA GetStep ==
  ASSUME RequestsInv, NEW r \in Handler, Get(r)
  PROVE  RequestsInv'
<1>1. PICK q \in Handling : q = handler[r]
  BY DEF RequestsInv, TypedRequests
<1> DEFINE S == InLibrary(q.key, q.lib)
           sent == Sent(Page(S, q.offset))
           more == q.offset + Cardinality(sent) < Cardinality(S)
<1>2. PICK p : p = [q EXCEPT !.ids = @ \cup sent, !.offset = @ + Cardinality(sent),
                             !.at = IF more THEN "resolve" ELSE "done"]
  OBVIOUS
<1>3. /\ q.at = "act" /\ q.op = "get" /\ UNCHANGED <<libraries, snippets, quiet>>
      /\ handler' = [handler EXCEPT ![r] = p]
  BY <1>1, <1>2 DEF Get, RequestsInv, TypedRequests
<1>4. S \subseteq DOMAIN snippets /\ sent \subseteq S /\ \A i \in S : Scope(i) = <<q.key, q.lib>>
  BY DEF InLibrary, Sent, Page
<1>5. /\ IsFiniteSet(S) /\ IsFiniteSet(sent) /\ Cardinality(S) \in Nat
      /\ Cardinality(sent) \in Nat
  BY <1>4, Finitely, FS_CardinalityType DEF RequestsInv
<1>6. Owned(q) /\ Downloads(q, quiet[r])
  BY <1>1, <1>3 DEF RequestsInv, Handled, Sound
<1> HIDE DEF S, sent, more
<1>7. /\ p.op = "get" /\ p.key = q.key /\ p.lib = q.lib /\ p.target = q.target
      /\ p.ids = q.ids \cup sent /\ p.offset = q.offset + Cardinality(sent)
      /\ p.at = IF more THEN "resolve" ELSE "done"
  BY <1>2, <1>3 DEF Handling
<1>8. p \in Handling
  <2>1. q.ids \cup sent \in SUBSET Id /\ q.offset + Cardinality(sent) \in Nat
    BY <1>4, <1>5 DEF RequestsInv, TypedRequests, Handling
  <2> QED
    BY <1>2, <2>1 DEF Handling
<1>9. q.lib # 0 /\ Owned(p)' /\ Settled(p)'
  <2>1. q.lib # 0
    BY <1>6 DEF Owned, RequestsInv, TypedRequests
  <2> QED
    BY <1>3, <1>6, <1>7, <2>1 DEF Owned, Settled, Downloads
<1>10. Account(p.key)'
  BY <1>9 DEF Owned, Account
<1>11. \A i \in p.ids : i \in DOMAIN snippets' /\ Scope(i)' = <<p.key, p.lib>>
  BY <1>3, <1>4, <1>6, <1>7 DEF Downloads, Scope
<1>12. ASSUME quiet'[r]
       PROVE  /\ Leads(p.ids, InLibrary(p.key, p.lib))' /\ p.offset = Cardinality(p.ids)
              /\ p.at = "done" => p.ids = InLibrary(p.key, p.lib)'
  <2>1. Leads(q.ids, S) /\ q.offset = Cardinality(q.ids)
    BY <1>3, <1>6, <1>12 DEF Downloads, S
  <2>2. /\ Leads(q.ids \cup sent, S)
        /\ Cardinality(q.ids \cup sent) = Cardinality(q.ids) + Cardinality(sent)
        /\ Cardinality(q.ids) + Cardinality(sent) >= Cardinality(S) => q.ids \cup sent = S
    <3>1. TypedRequests /\ sent = Sent(Page(S, Cardinality(q.ids)))
      BY <2>1 DEF RequestsInv, sent
    <3> QED
      BY <1>4, <2>1, <3>1, PageLeads
  <2>3. q.offset \in Nat
    BY DEF Handling
  <2>4. p.at = "done" => p.ids = S
    BY <1>5, <1>7, <2>1, <2>2, <2>3 DEF more
  <2>5. InLibrary(p.key, p.lib)' = InLibrary(p.key, p.lib) /\ S = InLibrary(p.key, p.lib)
        /\ (Leads(p.ids, S) => Leads(p.ids, InLibrary(p.key, p.lib))')
    BY <1>3, <1>7, <1>8, ListsAlike DEF S
  <2> QED
    BY <1>7, <2>1, <2>2, <2>4, <2>5
<1>13. Downloads(p, quiet[r])'
  BY <1>7, <1>9, <1>11, <1>12 DEF Downloads
<1>14. Sound(p, quiet[r])'
  BY <1>7, <1>10, <1>13 DEF Sound
<1>15. /\ handler' \in [Handler -> Handling] /\ quiet' \in [Handler -> BOOLEAN]
       /\ handler'[r] = p
       /\ \A w \in Handler \ {r} : handler'[w] = handler[w] /\ quiet'[w] = quiet[w]
  BY <1>3, <1>8 DEF RequestsInv, TypedRequests
<1> QED
  BY <1>3, <1>14, <1>15, ReadingStep

\* A step of one request that writes.
LEMMA WritingStep ==
  ASSUME RequestsInv, TypedRequests', Grows, OneOfAName', DefaultLives', DefaultExists', Scoped',
         NEW r \in Handler, Sound(handler[r], quiet[r])',
         \A w \in Handler \ {r} : /\ handler'[w] = handler[w]
                                  /\ quiet'[w] => quiet[w] /\ snippets' = snippets
  PROVE  RequestsInv'
<1>1. Handled'
  <2> SUFFICES ASSUME NEW w \in Handler PROVE Sound(handler[w], quiet[w])'
    BY DEF Handled
  <2>1. CASE w # r
    BY <2>1, OtherKept DEF RequestsInv, Handled
  <2> QED
    BY <2>1
<1> QED
  BY <1>1 DEF RequestsInv

\* A later version takes the row's place in its scope.
LEMMA UpdatedRow ==
  ASSUME NEW row \in StoredNow, NEW item \in Item, item.time \in 1..Latest
  PROVE  /\ Updated(row, item) \in StoredNow
         /\ Updated(row, item).owner = row.owner /\ Updated(row, item).lib = row.lib
         /\ Updated(row, item).time = item.time /\ Updated(row, item).tie = item.tie
         /\ Updated(row, item).deleted = item.deleted
<1>1. PICK next : next = Updated(row, item)
  OBVIOUS
<1>2. next = [owner |-> row.owner, lib |-> row.lib, time |-> item.time, tie |-> item.tie,
              deleted |-> item.deleted]
  BY <1>1 DEF Updated, StoredNow
<1>3. /\ row.owner \in User /\ row.lib \in DOMAIN libraries
      /\ item.tie \in Nat /\ item.deleted \in BOOLEAN
  BY DEF StoredNow, Item
<1>4. next \in StoredNow
  BY <1>2, <1>3 DEF StoredNow
<1>5. /\ next.owner = row.owner /\ next.lib = row.lib /\ next.time = item.time
      /\ next.tie = item.tie /\ next.deleted = item.deleted
  BY <1>2
<1> QED
  BY <1>1, <1>4, <1>5

\* What a batch leaves of a table.
LEMMA WrittenRows ==
  ASSUME TypedRequests, NEW items \in Batches \cup {NoItems}, NEW u \in User,
         NEW l \in DOMAIN libraries, snippets' = Written(items, u, l)
  PROVE  /\ Kept(items, u, l) \subseteq DOMAIN items \cap Id
         /\ Taken(items, u, l) \subseteq Kept(items, u, l)
         /\ DOMAIN snippets' \subseteq Id
         /\ \A i \in DOMAIN snippets : Succeeds(i)
         /\ \A i \in DOMAIN snippets' : snippets'[i] \in StoredNow
         /\ \A i \in DOMAIN snippets' \ DOMAIN snippets :
               snippets'[i].owner = u /\ snippets'[i].lib = l
         /\ \A i \in Kept(items, u, l) :
               /\ i \in DOMAIN snippets' /\ Scope(i)' = <<u, l>>
               /\ ~Wins(items[i], snippets'[i])
               /\ i \in Taken(items, u, l) => snippets'[i].deleted = items[i].deleted
<1> DEFINE kept == Kept(items, u, l)
           taken == Taken(items, u, l)
<1>1. /\ DOMAIN snippets' = DOMAIN snippets \cup taken
      /\ taken \subseteq kept
      /\ \A i \in kept \ taken : i \in DOMAIN snippets /\ ~Wins(items[i], snippets[i])
      /\ \A i \in taken \cap DOMAIN snippets : Wins(items[i], snippets[i])
  BY DEF Written, Taken
<1>2. /\ kept \subseteq DOMAIN items
      /\ \A i \in kept : items[i] \in Item /\ i \in Id /\ items[i].time \in 1..Latest
  BY ItemOfBatch DEF Kept, Valid
<1>3. \A i \in kept \cap DOMAIN snippets : Scope(i) = <<u, l>>
  BY <1>2 DEF Kept, Foreign
<1>4. \A i \in DOMAIN snippets :
         /\ i \in Id /\ snippets[i] \in StoredNow
         /\ snippets[i].time \in Nat /\ snippets[i].tie \in Nat
  <2>1. 1..Latest \subseteq Nat
    BY RequestsAssumption
  <2> QED
    BY <2>1 DEF TypedRequests, StoredNow
<1>5. \A i \in kept : items[i].time \in Nat /\ items[i].tie \in Nat /\ items[i].deleted \in BOOLEAN
  BY <1>2 DEF Item
<1> HIDE DEF kept
<1>6. \A i \in DOMAIN snippets' :
         snippets'[i] = IF i \notin taken THEN snippets[i]
                        ELSE IF i \in DOMAIN snippets THEN Updated(snippets[i], items[i])
                        ELSE [owner |-> u, lib |-> l, time |-> items[i].time,
                              tie |-> items[i].tie, deleted |-> items[i].deleted]
  BY DEF Written
<1> HIDE DEF taken
\* A row that is left alone.
<1>7. ASSUME NEW i \in DOMAIN snippets, i \notin taken
      PROVE  snippets'[i] = snippets[i] /\ Succeeds(i)
  <2>1. snippets'[i] = snippets[i] /\ i \in DOMAIN snippets'
    BY <1>1, <1>6, <1>7
  <2>2. ~Wins(snippets[i], snippets[i])
    BY <1>4, VersionsOrdered
  <2> QED
    BY <2>1, <2>2 DEF Succeeds
\* A row that is new.
<1>8. ASSUME NEW i \in taken, i \notin DOMAIN snippets
      PROVE  /\ i \in DOMAIN snippets' /\ snippets'[i] \in StoredNow
             /\ snippets'[i].owner = u /\ snippets'[i].lib = l
             /\ snippets'[i].deleted = items[i].deleted /\ ~Wins(items[i], snippets'[i])
  <2>1. /\ i \in DOMAIN snippets'
        /\ snippets'[i] = [owner |-> u, lib |-> l, time |-> items[i].time,
                           tie |-> items[i].tie, deleted |-> items[i].deleted]
    BY <1>1, <1>6, <1>8
  <2>2. /\ items[i].time \in 1..Latest /\ items[i].time \in Nat /\ items[i].tie \in Nat
        /\ items[i].deleted \in BOOLEAN
    BY <1>1, <1>2, <1>5
  <2>3. snippets'[i] \in StoredNow
    BY <2>1, <2>2 DEF StoredNow
  <2>4. /\ snippets'[i].owner = u /\ snippets'[i].lib = l
        /\ snippets'[i].time = items[i].time /\ snippets'[i].tie = items[i].tie
        /\ snippets'[i].deleted = items[i].deleted
    BY <2>1
  <2>5. ~Wins(items[i], snippets'[i])
    BY <2>2, <2>4 DEF Wins
  <2> QED
    BY <2>1, <2>3, <2>4, <2>5
\* A row that is replaced.
<1>9. ASSUME NEW i \in taken, i \in DOMAIN snippets
      PROVE  /\ snippets'[i] \in StoredNow /\ Succeeds(i)
             /\ snippets'[i].deleted = items[i].deleted /\ ~Wins(items[i], snippets'[i])
  <2>1. /\ i \in DOMAIN snippets' /\ i \in kept
        /\ snippets'[i] = Updated(snippets[i], items[i])
    BY <1>1, <1>6, <1>9
  <2>2. /\ snippets'[i] \in StoredNow
        /\ snippets'[i].owner = snippets[i].owner /\ snippets'[i].lib = snippets[i].lib
        /\ snippets'[i].time = items[i].time /\ snippets'[i].tie = items[i].tie
        /\ snippets'[i].deleted = items[i].deleted
    BY <1>2, <1>4, <1>9, <2>1, UpdatedRow
  <2>3. Wins(items[i], snippets[i]) /\ items[i].time \in Nat /\ items[i].tie \in Nat
    BY <1>1, <1>5, <1>9, <2>1
  <2>4. Wins(snippets'[i], snippets[i])
    BY <2>2, <2>3 DEF Wins
  <2>5. ~Wins(snippets[i], snippets'[i])
    BY <1>4, <1>9, <2>2, <2>3, <2>4, VersionsOrdered
  <2>6. ~Wins(items[i], snippets'[i])
    BY <2>2, <2>3 DEF Wins
  <2> QED
    BY <2>1, <2>2, <2>4, <2>5, <2>6 DEF Succeeds
<1>10. \A i \in DOMAIN snippets : Succeeds(i)
  BY <1>7, <1>9
<1>11. \A i \in DOMAIN snippets' : snippets'[i] \in StoredNow
  <2> SUFFICES ASSUME NEW i \in DOMAIN snippets' PROVE snippets'[i] \in StoredNow
    OBVIOUS
  <2>1. CASE i \notin taken
    BY <1>1, <1>4, <1>7, <2>1
  <2>2. CASE i \in taken /\ i \notin DOMAIN snippets
    BY <1>8, <2>2
  <2>3. CASE i \in taken /\ i \in DOMAIN snippets
    BY <1>9, <2>3
  <2> QED
    BY <2>1, <2>2, <2>3
<1>12. \A i \in DOMAIN snippets' \ DOMAIN snippets :
          snippets'[i].owner = u /\ snippets'[i].lib = l
  BY <1>1, <1>8
<1>13. ASSUME NEW i \in kept
       PROVE  /\ i \in DOMAIN snippets' /\ Scope(i)' = <<u, l>>
              /\ ~Wins(items[i], snippets'[i])
              /\ i \in taken => snippets'[i].deleted = items[i].deleted
  <2>1. CASE i \notin taken
    <3>1. i \in DOMAIN snippets /\ ~Wins(items[i], snippets[i]) /\ Scope(i) = <<u, l>>
      BY <1>1, <1>3, <1>13, <2>1
    <3>2. snippets'[i] = snippets[i]
      BY <1>7, <2>1, <3>1
    <3> QED
      BY <1>1, <2>1, <3>1, <3>2 DEF Scope
  <2>2. CASE i \in taken /\ i \notin DOMAIN snippets
    BY <1>8, <2>2 DEF Scope
  <2>3. CASE i \in taken /\ i \in DOMAIN snippets
    <3>1. Scope(i) = <<u, l>>
      BY <1>3, <1>13, <2>3
    <3> QED
      BY <1>9, <2>3, <3>1 DEF Scope, Succeeds
  <2> QED
    BY <2>1, <2>2, <2>3
<1>14. kept \subseteq DOMAIN items \cap Id /\ DOMAIN snippets' \subseteq Id
  BY <1>1, <1>2, <1>4
<1> QED
  BY <1>1, <1>10, <1>11, <1>12, <1>13, <1>14 DEF kept, taken

\* A batch is written at one moment, whatever overlaps it.
LEMMA PushStep ==
  ASSUME RequestsInv, NEW r \in Handler, Push(r)
  PROVE  RequestsInv'
<1>1. PICK q \in Handling : q = handler[r]
  BY DEF RequestsInv, TypedRequests
<1>2. q.at = "act" /\ q.op = "push" /\ UNCHANGED libraries
  BY <1>1 DEF Push
<1>3. Owned(q)
  BY <1>1, <1>2 DEF RequestsInv, Handled, Sound
<1>4. CASE Answer(r, "refused") /\ UNCHANGED <<snippets, quiet>>
  BY <1>2, <1>4, Answering
<1>5. CASE /\ snippets' = Written(q.items, q.key, q.lib)
           /\ handler' = [handler EXCEPT ![r].at = "done",
                                         ![r].ids = Kept(q.items, q.key, q.lib),
                                         ![r].wrote = Taken(q.items, q.key, q.lib)]
           /\ Disturb
  <2> DEFINE kept == Kept(q.items, q.key, q.lib)
             taken == Taken(q.items, q.key, q.lib)
  <2>1. q.lib \in DOMAIN libraries /\ q.items \in Batches \cup {NoItems} /\ q.key \in User
    BY <1>3 DEF Owned, Handling
  <2>2. /\ kept \subseteq DOMAIN q.items \cap Id /\ taken \subseteq kept
        /\ DOMAIN snippets' \subseteq Id
        /\ \A i \in DOMAIN snippets : Succeeds(i)
        /\ \A i \in DOMAIN snippets' : snippets'[i] \in StoredNow
        /\ \A i \in DOMAIN snippets' \ DOMAIN snippets :
              snippets'[i].owner = q.key /\ snippets'[i].lib = q.lib
        /\ \A i \in kept : /\ i \in DOMAIN snippets' /\ Scope(i)' = <<q.key, q.lib>>
                           /\ ~Wins(q.items[i], snippets'[i])
                           /\ i \in taken => snippets'[i].deleted = q.items[i].deleted
    BY <1>5, <2>1, WrittenRows DEF RequestsInv
  <2> HIDE DEF kept, taken
  <2>3. PICK p : p = [q EXCEPT !.at = "done", !.ids = kept, !.wrote = taken]
    OBVIOUS
  <2>4. p \in Handling
    BY <2>2, <2>3 DEF Handling
  <2>5. /\ p.op = "push" /\ p.key = q.key /\ p.lib = q.lib /\ p.ids = kept /\ p.at = "done"
        /\ p.items = q.items /\ p.wrote = taken
    BY <1>2, <2>3 DEF Handling
  <2>6. handler' = [handler EXCEPT ![r] = p]
    BY <1>1, <1>5, <2>3 DEF RequestsInv, TypedRequests, kept, taken
  <2>7. /\ handler' \in [Handler -> Handling]
        /\ handler'[r] = p
        /\ \A w \in Handler \ {r} : handler'[w] = handler[w]
    BY <2>4, <2>6 DEF RequestsInv, TypedRequests
  <2>8. quiet' \in [Handler -> BOOLEAN] /\ \A w \in Handler : ~quiet'[w]
    BY <1>5 DEF Disturb
  <2>9. TypedRequests'
    BY <1>2, <2>2, <2>7, <2>8 DEF RequestsInv, TypedRequests, StoredNow
  <2>10. OneOfAName' /\ DefaultLives' /\ DefaultExists'
    BY <1>2 DEF RequestsInv, OneOfAName, DefaultLives, DefaultExists, Account
  <2>11. Scoped'
    BY <1>2, <1>3, <2>2 DEF RequestsInv, Scoped, Owned, Succeeds
  <2>12. Grows
    BY <1>2, <2>2 DEF Grows
  <2>13. Uploaded(p)'
    <3> SUFFICES ASSUME NEW i \in kept
                 PROVE  /\ i \in DOMAIN q.items /\ i \in DOMAIN snippets'
                        /\ Scope(i)' = <<q.key, q.lib>> /\ ~Wins(q.items[i], snippets'[i])
                        /\ i \in taken => Upheld(snippets[i], q.items[i])'
      BY <2>5 DEF Uploaded
    <3>1. snippets'[i].deleted = q.items[i].deleted => Upheld(snippets[i], q.items[i])'
      BY Zenon DEF Upheld
    <3> QED
      BY <2>2, <3>1
  <2>14. Sound(p, quiet[r])'
    BY <2>5, <2>13 DEF Sound
  <2> QED
    BY <2>7, <2>8, <2>9, <2>10, <2>11, <2>12, <2>14, WritingStep
<1> QED
  BY <1>1, <1>4, <1>5 DEF Push

\* A library that is added is another one of its owner, at the next number.
LEMMA AddedLibrary ==
  ASSUME RequestsInv, NEW u \in User, NEW name \in Name, NEW r \in Handler,
         \A l \in DOMAIN libraries : ~(libraries[l].owner = u /\ libraries[l].name = name),
         Account(u) \/ name = 0,
         Cardinality(DOMAIN libraries) < MaxLibraries, libraries' = Added(u, name),
         Answer(r, "done"), UNCHANGED <<snippets, quiet>>
  PROVE  RequestsInv'
<1>1. PICK n \in 0..MaxLibraries : libraries \in [1..n -> Library]
  BY DEF RequestsInv, TypedRequests
<1>2. Cardinality(DOMAIN libraries) = n /\ n + 1 \in 0..MaxLibraries /\ n \in Nat
  <2>1. n \in Nat /\ n \in Int /\ DOMAIN libraries = 1..n /\ MaxLibraries \in Nat
    BY <1>1, RequestsAssumption
  <2>2. Cardinality(1..n) = n
    BY <2>1, FS_Interval
  <2> QED
    BY <2>1, <2>2
<1> DEFINE new == [owner |-> u, name |-> name, deleted |-> FALSE]
<1>3. /\ DOMAIN libraries' = 1..(n + 1) /\ DOMAIN libraries = 1..n
      /\ \A l \in 1..n : libraries'[l] = libraries[l]
      /\ libraries'[n + 1] = new
      /\ libraries' \in [1..(n + 1) -> Library]
  <2>1. new \in Library
    BY DEF Library
  <2>2. libraries' = [l \in 1..(n + 1) |-> IF l \in 1..n THEN libraries[l] ELSE new]
    BY <1>1, <1>2 DEF Added
  <2> HIDE DEF new
  <2>3. 1..n \subseteq 1..(n + 1) /\ n + 1 \in 1..(n + 1) /\ n + 1 \notin 1..n
        /\ DOMAIN libraries = 1..n
    BY <1>1, <1>2
  <2>4. DOMAIN libraries' = 1..(n + 1) /\ \A l \in 1..n : libraries'[l] = libraries[l]
    BY <2>2, <2>3
  <2>5. libraries'[n + 1] = new
    BY <2>2, <2>3
  <2>6. \A l \in 1..n : libraries[l] \in Library
    BY <1>1
  <2>7. libraries' \in [1..(n + 1) -> Library]
    BY <2>1, <2>2, <2>6
  <2> QED
    BY <2>3, <2>4, <2>5, <2>7
<1>4. DOMAIN libraries' = DOMAIN libraries \cup {n + 1} /\ n + 1 \notin DOMAIN libraries
  BY <1>2, <1>3
<1>5. /\ \A l \in DOMAIN libraries : libraries'[l] = libraries[l]
      /\ libraries'[n + 1].owner = u /\ libraries'[n + 1].name = name
      /\ ~libraries'[n + 1].deleted
  BY <1>3
<1> HIDE DEF new
<1>6. [Unsent EXCEPT !.at = "done"] \in Handling
  BY UnsentSound
<1>7. /\ handler' \in [Handler -> Handling]
      /\ handler'[r] = [Unsent EXCEPT !.at = "done"]
      /\ \A w \in Handler \ {r} : handler'[w] = handler[w]
  BY <1>6 DEF RequestsInv, TypedRequests, Answer
<1>8. TypedRequests'
  <2>1. \A i \in DOMAIN snippets' : snippets'[i] \in StoredNow'
    BY <1>4 DEF RequestsInv, TypedRequests, StoredNow
  <2> QED
    BY <1>2, <1>3, <1>7, <2>1 DEF RequestsInv, TypedRequests
<1>9. Grows
  <2>1. \A i \in DOMAIN snippets : Succeeds(i)
    BY RowsAlike DEF RequestsInv
  <2> QED
    BY <1>4, <1>5, <2>1 DEF Grows
<1>10. OneOfAName'
  BY <1>4, <1>5 DEF RequestsInv, OneOfAName
<1>11. DefaultLives'
  BY <1>4, <1>5 DEF RequestsInv, DefaultLives
<1>12. DefaultExists'
  <2> SUFFICES ASSUME NEW v \in User, Account(v)'
               PROVE  \E l \in DOMAIN libraries' : libraries'[l].owner = v /\ libraries'[l].name = 0
    BY DEF DefaultExists
  <2>1. CASE Account(v)
    BY <1>4, <1>5, <2>1 DEF RequestsInv, DefaultExists
  <2>2. CASE ~Account(v)
    BY <1>4, <1>5, <2>2 DEF Account
  <2> QED
    BY <2>1, <2>2
<1>13. Scoped'
  BY <1>5 DEF RequestsInv, Scoped, TypedRequests, StoredNow
<1>14. Sound(handler[r], quiet[r])'
  BY <1>7, <1>8, AnswerSound
<1> QED
  BY <1>7, <1>8, <1>9, <1>10, <1>11, <1>12, <1>13, <1>14, WritingStep

\* An account comes with its default library.
LEMMA CreateUserStep ==
  ASSUME RequestsInv, NEW r \in Handler, NEW u \in User, CreateUser(r, u)
  PROVE  RequestsInv'
<1>1. CASE Answer(r, "refused") /\ UNCHANGED libraries
  BY <1>1, Answering DEF CreateUser
<1>2. CASE /\ ~Account(u) /\ Cardinality(DOMAIN libraries) < MaxLibraries
           /\ libraries' = Added(u, 0) /\ Answer(r, "done")
  BY <1>2, AddedLibrary DEF CreateUser, Account, Name
<1> QED
  BY <1>1, <1>2 DEF CreateUser

\* A library is created once of its name.
LEMMA CreateStep ==
  ASSUME RequestsInv, NEW r \in Handler, NEW name \in Name, Create(r, name)
  PROVE  RequestsInv'
<1>1. PICK q \in Handling : q = handler[r]
  BY DEF RequestsInv, TypedRequests
<1>2. CASE Answer(r, "refused") /\ UNCHANGED libraries
  BY <1>2, Answering DEF Create
<1>3. CASE ~(Answer(r, "refused") /\ UNCHANGED libraries)
  <2>1. q.key \in User /\ Account(q.key)
    BY <1>1 DEF Create, RequestsInv, Handled, Sound, Handling
  <2>2. /\ \A l \in DOMAIN libraries : ~(libraries[l].owner = q.key /\ libraries[l].name = name)
        /\ Cardinality(DOMAIN libraries) < MaxLibraries
        /\ libraries' = Added(q.key, name) /\ Answer(r, "done")
        /\ UNCHANGED <<snippets, quiet>>
    BY <1>1, <1>3 DEF Create
  <2> QED
    BY <2>1, <2>2, AddedLibrary
<1> QED
  BY <1>2, <1>3

\* The later of two times.
LEMMA MaxOfTwo ==
  ASSUME NEW a \in Int, NEW b \in Int
  PROVE  Max({a, b}) \in {a, b} /\ Max({a, b}) >= a /\ Max({a, b}) >= b
<1>1. \E x \in {a, b} : \A y \in {a, b} : x >= y
  OBVIOUS
<1>2. Max({a, b}) \in {a, b} /\ \A y \in {a, b} : Max({a, b}) >= y
  BY <1>1 DEF Max
<1> QED
  BY <1>2

\* A library is deleted with its rows, and never the default one.
LEMMA DeleteStep ==
  ASSUME RequestsInv, NEW r \in Handler, Delete(r)
  PROVE  RequestsInv'
<1>1. PICK q \in Handling : q = handler[r]
  BY DEF RequestsInv, TypedRequests
<1>2. CASE Answer(r, "refused") /\ UNCHANGED <<libraries, snippets, quiet>>
  BY <1>2, Answering
<1>3. ASSUME NEW l \in Deletable(q.key, q.target),
             libraries' = [libraries EXCEPT ![l].deleted = TRUE],
             snippets' = [i \in DOMAIN snippets |->
                            IF snippets[i].lib = l /\ ~snippets[i].deleted
                            THEN [snippets[i] EXCEPT !.deleted = TRUE,
                                                     !.time = Max({@, Latest - 1})]
                            ELSE snippets[i]],
             Answer(r, "done"), Disturb
      PROVE  RequestsInv'
  <2>1. PICK n \in 0..MaxLibraries : libraries \in [1..n -> Library]
    BY DEF RequestsInv, TypedRequests
  <2>2. l \in DOMAIN libraries /\ libraries[l].name # 0
    BY DEF Deletable, Own, Defaults
  <2>3. /\ libraries' \in [1..n -> Library] /\ DOMAIN libraries' = DOMAIN libraries
        /\ \A m \in DOMAIN libraries : /\ libraries'[m].owner = libraries[m].owner
                                       /\ libraries'[m].name = libraries[m].name
                                       /\ m # l => libraries'[m] = libraries[m]
        /\ libraries'[l].deleted
    BY <1>3, <2>1, <2>2 DEF Library
  <2>4. ASSUME NEW i \in DOMAIN snippets
        PROVE  /\ snippets'[i] \in StoredNow
               /\ snippets'[i].owner = snippets[i].owner
               /\ snippets'[i].lib = snippets[i].lib
               /\ Succeeds(i)
    <3>1. snippets[i] \in StoredNow
      BY DEF RequestsInv, TypedRequests
    <3>2. snippets[i].time \in 1..Latest /\ Latest \in Nat /\ snippets[i].time \in Int
          /\ Latest - 1 \in Int /\ snippets[i].tie \in Nat
      BY <3>1, RequestsAssumption DEF StoredNow
    <3> DEFINE t == Max({snippets[i].time, Latest - 1})
    <3>3. t \in {snippets[i].time, Latest - 1} /\ t >= snippets[i].time
      BY <3>2, MaxOfTwo
    <3> HIDE DEF t
    <3>4. t \in 1..Latest
      BY <3>2, <3>3
    <3>5. snippets'[i] = IF snippets[i].lib = l /\ ~snippets[i].deleted
                         THEN [snippets[i] EXCEPT !.deleted = TRUE, !.time = t]
                         ELSE snippets[i]
      BY <1>3 DEF t
    <3>6. CASE snippets[i].lib = l /\ ~snippets[i].deleted
      <4>1. snippets'[i] = [owner |-> snippets[i].owner, lib |-> snippets[i].lib,
                            time |-> t, tie |-> snippets[i].tie, deleted |-> TRUE]
        BY <3>1, <3>5, <3>6 DEF StoredNow
      <4>2. snippets[i].owner \in User /\ snippets[i].lib \in DOMAIN libraries
        BY <3>1 DEF StoredNow
      <4>3. /\ snippets'[i].owner = snippets[i].owner /\ snippets'[i].lib = snippets[i].lib
            /\ snippets'[i].time = t /\ snippets'[i].tie = snippets[i].tie
            /\ snippets'[i].deleted
        BY <4>1
      <4>4. snippets'[i] \in StoredNow
        BY <3>2, <3>4, <4>1, <4>2 DEF StoredNow
      <4>5. ~Wins(snippets[i], snippets'[i])
        <5>1. t \in Int /\ ~(snippets[i].time > t) /\ ~(snippets[i].tie > snippets[i].tie)
          BY <3>2, <3>3
        <5> QED
          BY <4>3, <5>1 DEF Wins
      <4>6. Succeeds(i)
        BY <1>3, <2>3, <3>6, <4>3, <4>5 DEF Succeeds
      <4> QED
        BY <4>3, <4>4, <4>6
    <3>7. CASE ~(snippets[i].lib = l /\ ~snippets[i].deleted)
      <4>1. snippets'[i] = snippets[i]
        BY <3>5, <3>7
      <4>2. ~Wins(snippets[i], snippets[i])
        BY <3>2 DEF Wins
      <4>3. Succeeds(i)
        BY <1>3, <4>1, <4>2 DEF Succeeds
      <4> QED
        BY <3>1, <4>1, <4>3
    <3> QED
      BY <3>6, <3>7
  <2>5. DOMAIN snippets' = DOMAIN snippets
    BY <1>3
  <2>6. [Unsent EXCEPT !.at = "done"] \in Handling
    BY UnsentSound
  <2>7. /\ handler' \in [Handler -> Handling]
        /\ handler'[r] = [Unsent EXCEPT !.at = "done"]
        /\ \A w \in Handler \ {r} : handler'[w] = handler[w]
    BY <1>3, <2>6 DEF RequestsInv, TypedRequests, Answer
  <2>8. quiet' \in [Handler -> BOOLEAN] /\ \A w \in Handler : ~quiet'[w]
    BY <1>3 DEF Disturb
  <2>9. TypedRequests'
    <3>1. StoredNow' = StoredNow
      BY <2>3 DEF StoredNow
    <3> QED
      BY <2>3, <2>4, <2>5, <2>7, <2>8, <3>1 DEF RequestsInv, TypedRequests
  <2>10. Grows
    BY <2>3, <2>4, <2>5 DEF Grows
  <2>11. OneOfAName' /\ DefaultLives'
    BY <2>2, <2>3 DEF RequestsInv, OneOfAName, DefaultLives
  <2>12. DefaultExists'
    BY <2>3 DEF RequestsInv, DefaultExists, Account
  <2>13. Scoped'
    BY <2>3, <2>4, <2>5 DEF RequestsInv, Scoped, TypedRequests, StoredNow
  <2>14. Sound(handler[r], quiet[r])'
    BY <2>7, <2>9, AnswerSound
  <2> QED
    BY <2>7, <2>8, <2>9, <2>10, <2>11, <2>12, <2>13, <2>14, WritingStep
<1> QED
  BY <1>1, <1>2, <1>3 DEF Delete

\* A database of before, with the rows it may hold, has the invariant.
LEMMA Initially ==
  ASSUME RequestsInit
  PROVE  RequestsInv
<1>1. Unsent.key \in User
  BY RequestsAssumption DEF Unsent
<1>2. /\ libraries \in [1..2 -> Library] /\ 2 \in 0..MaxLibraries
      /\ libraries[1].owner = Unsent.key /\ libraries[2].owner = Unsent.key
      /\ libraries[1].name = 0 /\ libraries[2].name = 1
      /\ ~libraries[1].deleted /\ ~libraries[2].deleted
  BY <1>1, RequestsAssumption DEF RequestsInit, Library, Name
<1>3. /\ DOMAIN snippets \subseteq Id /\ DOMAIN libraries = {1, 2}
      /\ \A i \in DOMAIN snippets : /\ snippets[i] \in StoredNow
                                    /\ snippets[i].owner = Unsent.key
  <2>1. PICK B \in SUBSET Id : snippets \in [B -> {[owner |-> Unsent.key, lib |-> l, time |-> 1,
                                                    tie |-> 1, deleted |-> FALSE] : l \in 1..2}]
    BY DEF RequestsInit
  <2>2. DOMAIN libraries = 1..2 /\ 1..2 = {1, 2}
    BY DEF RequestsInit
  <2>3. 1 \in 1..Latest
    BY RequestsAssumption
  <2>4. ASSUME NEW i \in B
        PROVE  snippets[i] \in StoredNow /\ snippets[i].owner = Unsent.key
    <3>1. PICK l \in 1..2 : snippets[i] = [owner |-> Unsent.key, lib |-> l, time |-> 1,
                                           tie |-> 1, deleted |-> FALSE]
      BY <2>1
    <3> QED
      BY <1>1, <2>2, <2>3, <3>1 DEF StoredNow
  <2>5. DOMAIN snippets = B
    BY <2>1
  <2> QED
    BY <2>2, <2>4, <2>5
<1>4. Unsent = [Unsent EXCEPT !.at = "unsent"]
  BY DEF Unsent
<1>5. Unsent \in Handling
  BY <1>4, UnsentSound
<1>6. TypedRequests
  BY <1>2, <1>3, <1>5 DEF RequestsInit, TypedRequests
<1>7. OneOfAName /\ DefaultLives /\ DefaultExists
  BY <1>2, <1>3 DEF OneOfAName, DefaultLives, DefaultExists, Account
<1>8. Scoped
  BY <1>2, <1>3 DEF Scoped, StoredNow
<1>9. ASSUME NEW r \in Handler PROVE Sound(handler[r], quiet[r])
  <2>1. PICK q : q = handler[r] /\ q = Unsent
    BY DEF RequestsInit
  <2>2. q.op = "get" /\ q.lib = 0 /\ q.ids = {} /\ q.offset = 0 /\ q.at = "unsent"
    BY <2>1 DEF Unsent
  <2>3. Leads({}, InLibrary(q.key, q.lib))
    BY DEF Leads
  <2>4. Downloads(q, quiet[r])
    BY <2>2, <2>3, FS_EmptySet DEF Downloads
  <2> QED
    BY <2>1, <2>2, <2>4 DEF Sound
<1> QED
  BY <1>6, <1>7, <1>8, <1>9 DEF RequestsInv, Handled

\* The invariant is inductive: one step of one request at a time.
LEMMA RequestsInvariance == RequestsSpec => []RequestsInv
<1>1. RequestsInit => RequestsInv
  BY Initially
<1>2. RequestsInv /\ [RequestsNext]_requestVars => RequestsInv'
  <2> SUFFICES ASSUME RequestsInv, [RequestsNext]_requestVars PROVE RequestsInv'
    OBVIOUS
  <2>1. ASSUME NEW r \in Handler, NEW op \in Op, NEW key \in User, NEW target \in 0..MaxLibraries,
               NEW items \in Batches \cup {NoItems}, Authenticate(r, op, key, target, items)
        PROVE  RequestsInv'
    BY <2>1, AuthenticateStep
  <2>2. ASSUME NEW r \in Handler, Resolve(r) PROVE RequestsInv'
    BY <2>2, ResolveStep
  <2>3. ASSUME NEW r \in Handler, Push(r) PROVE RequestsInv'
    BY <2>3, PushStep
  <2>4. ASSUME NEW r \in Handler, Get(r) PROVE RequestsInv'
    BY <2>4, GetStep
  <2>5. ASSUME NEW r \in Handler, Delete(r) PROVE RequestsInv'
    BY <2>5, DeleteStep
  <2>6. ASSUME NEW r \in Handler, NEW u \in User, CreateUser(r, u) PROVE RequestsInv'
    BY <2>6, CreateUserStep
  <2>7. ASSUME NEW r \in Handler, NEW name \in Name, Create(r, name) PROVE RequestsInv'
    BY <2>7, CreateStep
  <2>8. CASE UNCHANGED requestVars
    <3>1. UNCHANGED <<libraries, snippets, handler, quiet>>
      BY <2>8 DEF requestVars
    <3>2. TypedRequests' /\ OneOfAName' /\ DefaultLives' /\ DefaultExists' /\ Scoped'
      BY <3>1 DEF RequestsInv, TypedRequests, StoredNow, OneOfAName, DefaultLives, DefaultExists, Account, Scoped
    <3>3. Grows
      <4>1. \A i \in DOMAIN snippets : Succeeds(i)
        BY <3>1, RowsAlike DEF RequestsInv
      <4> QED
        BY <3>1, <4>1 DEF Grows
    <3>4. ASSUME NEW w \in Handler PROVE Sound(handler[w], quiet[w])'
      BY <3>1, <3>2, <3>3, OtherKept DEF RequestsInv, Handled
    <3> QED
      BY <3>2, <3>4 DEF RequestsInv, Handled
  <2> QED
    BY <2>1, <2>2, <2>3, <2>4, <2>5, <2>6, <2>7, <2>8 DEF RequestsNext
<1> QED
  BY <1>1, <1>2, PTL DEF RequestsSpec

\* What the invariant says of a request that is answered is the property.
LEMMA InvariantAnswers ==
  ASSUME RequestsInv
  PROVE  AnswersTrue
<1>1. ASSUME NEW r \in Handler PROVE AcceptedIsStored(r) /\ DownloadIsWhole(r)
  <2>1. PICK q \in Handling : q = handler[r]
    BY DEF RequestsInv, TypedRequests
  <2>2. Sound(q, quiet[r])
    BY <2>1 DEF RequestsInv, Handled
  <2>3. AcceptedIsStored(r)
    BY <2>1, <2>2 DEF AcceptedIsStored, Sound, Uploaded
  <2>4. DownloadIsWhole(r)
    BY <2>1, <2>2 DEF DownloadIsWhole, Sound, Downloads, Scope
  <2> QED
    BY <2>3, <2>4
<1>2. DefaultStays
  <2> SUFFICES ASSUME NEW u \in User, Account(u) PROVE Cardinality(Defaults(u)) = 1
    BY DEF DefaultStays
  <2>1. PICK l \in DOMAIN libraries : libraries[l].owner = u /\ libraries[l].name = 0
    BY DEF RequestsInv, DefaultExists
  <2>2. Defaults(u) = {l}
    BY <2>1 DEF RequestsInv, DefaultLives, OneOfAName, Defaults, Own
  <2> QED
    BY <2>2, FS_Singleton
<1> QED
  BY <1>1, <1>2 DEF AnswersTrue, RequestsInv

\* push_snippets, get_snippets, list_libraries: whatever requests overlap, no
\* download shows a row of another user, and it has all rows of its library if
\* nothing was written meanwhile; an accepted upload is stored in its version or a
\* later one, and what it wrote, a deletion included, is undone only by a strictly
\* later version or the deletion of the library.  For any number of handlers,
\* users, libraries and rows.
THEOREM EveryAnswerTrue == RequestsSpec => []AnswersTrue
<1>1. RequestsInv => AnswersTrue
  BY InvariantAnswers
<1> QED
  BY <1>1, RequestsInvariance, PTL
=============================================================================
