-------------------------- MODULE ServerLifecycle --------------------------
(***************************************************************************)
(* Processes of the snip-sync binary on one host: servers, and the stop,   *)
(* restart, croncheck and update commands that start and signal them       *)
(* (src/snip-sync/src/main.rs, server_lock.rs, startup.rs, update.rs).     *)
(* The kernel lock has one holder; the record beside it that names the     *)
(* holder is written after the lock was taken, and commands find out       *)
(* whether a server runs by taking the lock themselves.  Unix; a process   *)
(* id stands for the pid and start token of one process.                   *)
(***************************************************************************)
EXTENDS Integers, FiniteSets

CONSTANTS MaxCommands,  \* commands given
          MaxFailures   \* servers that fail to start, or crash

VARIABLES lock,      \* the process with the flock
          owner,     \* the published identity
          cron,      \* the process with croncheck.lock
          installed, \* the executable on disk
          proc,      \* the processes, in the order they started
          commands, failures,
          excused    \* history: something happened after which no server
                     \* need run (see ServerReturns)

serverVars == <<lock, owner, cron, installed, proc, commands, failures, excused>>

NoPid == 0
\* The first server, and a command that starts a croncheck that starts a
\* server.
Pid == 1..(1 + 3 * MaxCommands)
Kind == {"serve", "stop", "restart", "managed_restart", "croncheck", "update"}

\* What a process wants the lock for: to serve; to see whether restart has
\* something to stop; to find the server to stop; to see it gone; to see
\* whether a managed server runs.
Purpose == {"serve", "inspect", "stop", "confirm", "running"}
Pc == {"try", "busy", "publish", "drop", "check", "wait", "starting", "serving",
       "draining", "cron", "health", "await", "replace", "start_server", "start_cron", "gone"}
ProcessState == [kind : Kind, pc : Pc, purpose : Purpose, target : Pid \cup {NoPid},
                 force : BOOLEAN, exe : {"old", "new"}]

Started == DOMAIN proc
Server(p) == proc[p].pc \in {"starting", "serving", "draining"}
Living(p) == p \in Started /\ proc[p].pc # "gone"
Healthy == \E p \in Started : proc[p].pc = "serving"

ServerTypeOK ==
    /\ {lock, owner, cron} \subseteq Pid \cup {NoPid} /\ installed \in {"old", "new"}
    /\ Started = 1..Cardinality(Started) /\ proc \in [Started -> ProcessState]
    /\ commands \in 0..MaxCommands /\ failures \in 0..MaxFailures /\ excused \in BOOLEAN

FirstPc == [serve |-> "try", stop |-> "try", restart |-> "try", managed_restart |-> "try",
            croncheck |-> "cron", update |-> "health"]
FirstPurpose == [serve |-> "serve", stop |-> "stop", restart |-> "inspect",
                 managed_restart |-> "running", croncheck |-> "serve", update |-> "stop"]

New(kind, force) == [kind |-> kind, pc |-> FirstPc[kind], purpose |-> FirstPurpose[kind],
                     target |-> NoPid, force |-> force, exe |-> installed]

\* Nothing has run, or a server has been running for a while.
ServerInit == /\ \E running \in BOOLEAN :
                   IF running
                   THEN /\ proc = [p \in {1} |-> [kind |-> "serve", pc |-> "serving",
                                                  purpose |-> "serve", target |-> NoPid,
                                                  force |-> FALSE, exe |-> "old"]]
                        /\ lock = 1 /\ owner = 1
                   ELSE proc = [p \in {} |-> 0] /\ lock = NoPid /\ owner = NoPid
              /\ cron = NoPid /\ installed = "old"
              /\ commands = 0 /\ failures = 0 /\ excused = FALSE
---------------------------------------------------------------------------
Go(p, pc) == proc' = [proc EXCEPT ![p].pc = pc]
Try(p, purpose) == proc' = [proc EXCEPT ![p].pc = "try", ![p].purpose = purpose]
Ended(process) == [process EXCEPT !.pc = "gone", !.purpose = FirstPurpose[process.kind],
                                  !.target = NoPid, !.force = FALSE, !.exe = "old"]
Gone(ps) == [p \in Started |-> IF p \in ps THEN Ended(proc[p]) ELSE proc[p]]

\* The kernel frees the locks of a process that ends.
FreedBy(ps) == /\ lock' = IF lock \in ps THEN NoPid ELSE lock
               /\ cron' = IF cron \in ps THEN NoPid ELSE cron
End(p) == FreedBy({p}) /\ proc' = Gone({p})

\* A command is given, by a user or by cron.  Updates are given once.
Launch(kind, force) ==
    /\ commands < MaxCommands /\ commands' = commands + 1
    /\ force => kind \in {"stop", "restart", "managed_restart"}
    /\ kind = "update" => \A p \in Started : proc[p].kind # "update"
    /\ proc' = [p \in Started \cup {Cardinality(Started) + 1} |->
                  IF p \in Started THEN proc[p] ELSE New(kind, force)]
    /\ excused' = (excused \/ kind = "stop")
    /\ UNCHANGED <<lock, owner, cron, installed, failures>>

\* ServerLock::try_acquire, until the kernel answers.
TakeLock(p) ==
    /\ proc[p].pc = "try"
    /\ IF lock = NoPid
       THEN lock' = p /\ Go(p, "publish") /\ UNCHANGED excused
       ELSE /\ Go(p, "busy") /\ UNCHANGED lock
            /\ excused' = (excused \/ ~Server(lock))
    /\ UNCHANGED <<owner, cron, installed, commands, failures>>

\* Mutant of Publish: the probes of commands publish nothing, and a server
\* neither.
PublishNothing(p) ==
    /\ proc[p].pc = "publish"
    /\ Go(p, IF proc[p].purpose = "serve" THEN "starting" ELSE "drop")
    /\ UNCHANGED <<lock, owner, cron, installed, commands, failures, excused>>

\* publish_identity; a command then drops the guard.
Publish(p) ==
    /\ proc[p].pc = "publish"
    /\ owner' = p
    /\ Go(p, IF proc[p].purpose = "serve" THEN "starting" ELSE "drop")
    /\ UNCHANGED <<lock, cron, installed, commands, failures, excused>>

\* The stop has done its work: restart serves, the others go on.
StopSucceeded(p) ==
    CASE proc[p].kind = "stop" -> End(p)
      [] proc[p].kind = "restart" -> Try(p, "serve") /\ FreedBy({p})
      [] proc[p].kind = "update" ->
           (Go(p, "start_server") \/ Go(p, "start_cron")) /\ FreedBy({p})
      [] OTHER -> Go(p, "start_cron") /\ FreedBy({p})

\* The lock was free: nothing to stop.  stop reports that there is no
\* server (no PID file is left by current servers).
Drop(p) ==
    /\ proc[p].pc = "drop"
    /\ CASE proc[p].purpose = "inspect" -> Try(p, "serve") /\ lock' = NoPid /\ UNCHANGED cron
         [] proc[p].purpose = "running" -> Go(p, "start_cron") /\ lock' = NoPid /\ UNCHANGED cron
         [] proc[p].purpose = "confirm" -> StopSucceeded(p)
         [] OTHER -> End(p)
    /\ excused' = (excused \/ proc[p].purpose = "stop")
    /\ UNCHANGED <<owner, installed, commands, failures>>

\* The lock was taken: by whom, the record says, or the command gives up.
Busy(p) ==
    /\ proc[p].pc = "busy"
    /\ CASE proc[p].purpose = "serve" -> End(p)
         [] proc[p].purpose = "confirm" -> StopSucceeded(p)
         [] proc[p].purpose = "inspect" ->
              Try(p, IF owner = NoPid THEN "serve" ELSE "stop") /\ UNCHANGED <<lock, cron>>
         [] proc[p].purpose = "running" -> Try(p, "stop") /\ UNCHANGED <<lock, cron>>
         [] OTHER -> IF owner = NoPid THEN End(p)
                     ELSE /\ proc' = [proc EXCEPT ![p].pc = "check", ![p].target = owner]
                          /\ UNCHANGED <<lock, cron>>
    /\ UNCHANGED <<owner, installed, commands, failures, excused>>

\* SIGTERM: a server drains; a command, or a server that is not up yet, dies.
Terminate(t, p) ==
    LET next == [proc EXCEPT ![p].pc = "wait"]
    IN CASE proc[t].pc = "serving" ->
              proc' = [next EXCEPT ![t].pc = "draining"] /\ UNCHANGED <<lock, cron>>
         [] proc[t].pc = "draining" -> proc' = next /\ UNCHANGED <<lock, cron>>
         [] OTHER -> proc' = [next EXCEPT ![t] = Ended(proc[t])] /\ FreedBy({t})

\* stop_owner: a recorded owner that is gone is an error.
Signal(p) ==
    /\ proc[p].pc = "check"
    /\ IF Living(proc[p].target) THEN Terminate(proc[p].target, p) ELSE End(p)
    /\ excused' = (excused \/ ~Living(proc[p].target))
    /\ UNCHANGED <<owner, installed, commands, failures>>

\* Mutant of WaitEnds: the replacement is started while the server drains.
WaitNot(p) ==
    /\ proc[p].pc = "wait"
    /\ Try(p, IF proc[p].kind = "restart" THEN "serve" ELSE "confirm")
    /\ UNCHANGED <<lock, cron, owner, installed, commands, failures, excused>>

\* wait_for_exit, and what follows a timeout.
WaitEnds(p) ==
    /\ proc[p].pc = "wait"
    /\ LET t == proc[p].target
       IN \/ ~Living(t) /\ Try(p, "confirm") /\ UNCHANGED <<lock, cron, excused>>
          \/ Living(t) /\ ~proc[p].force /\ End(p) /\ excused' = TRUE
          \/ /\ Living(t) /\ proc[p].force /\ FreedBy({t})
             /\ proc' = [proc EXCEPT ![t] = Ended(proc[t]), ![p].pc = "try",
                                     ![p].purpose = "confirm"]
             /\ UNCHANGED excused
    /\ UNCHANGED <<owner, installed, commands, failures>>

\* serve_inner: the database, the listeners, the signal handlers.
ComesUp(p) == /\ proc[p].pc = "starting" /\ Go(p, "serving")
              /\ UNCHANGED <<lock, owner, cron, installed, commands, failures, excused>>

Fails(p) == /\ failures < MaxFailures /\ failures' = failures + 1
            /\ excused' = TRUE
            /\ Server(p) /\ End(p)
            /\ UNCHANGED <<owner, installed, commands>>

\* The drain is bounded, then the process ends.
Drained(p) == /\ proc[p].pc = "draining" /\ End(p)
              /\ UNCHANGED <<owner, installed, commands, failures, excused>>
---------------------------------------------------------------------------
(* croncheck, and the commands that start a server through it *)

CronLock(p) == /\ proc[p].pc = "cron"
               /\ IF cron = NoPid THEN cron' = p /\ Go(p, "health") /\ UNCHANGED lock
                  ELSE End(p)
               /\ excused' = (excused \/ cron # NoPid)
               /\ UNCHANGED <<owner, installed, commands, failures>>

\* update first asks whether a server runs: read only, from the record.
Health(p) ==
    /\ proc[p].pc = "health"
    /\ IF proc[p].kind = "update"
       THEN /\ proc' = [proc EXCEPT ![p].pc = "replace",
                                    ![p].target = IF Living(owner) THEN owner ELSE NoPid]
            /\ UNCHANGED <<lock, cron>>
       ELSE IF Healthy THEN End(p)
       ELSE Go(p, "start_server") /\ UNCHANGED <<lock, cron>>
    /\ UNCHANGED <<owner, installed, commands, failures, excused>>

\* replace_installed_executable (a rename), then restart_after_update: a
\* server that ran is stopped.
Replace(p) ==
    /\ proc[p].pc = "replace"
    /\ installed' = "new"
    /\ IF proc[p].target = NoPid THEN End(p)
       ELSE Try(p, "stop") /\ UNCHANGED <<lock, cron>>
    /\ UNCHANGED <<owner, commands, failures, excused>>

\* The process starts a child: a server, or a croncheck that starts one.
Spawn(p) ==
    /\ proc[p].pc \in {"start_server", "start_cron"}
    /\ LET child == New(IF proc[p].pc = "start_server" THEN "serve" ELSE "croncheck", FALSE)
           parent == IF proc[p].kind = "managed_restart" THEN Ended(proc[p])
                     ELSE [proc[p] EXCEPT !.pc = "await"]
       IN proc' = [q \in Started \cup {Cardinality(Started) + 1} |->
                     IF q = p THEN parent ELSE IF q \in Started THEN proc[q] ELSE child]
    /\ UNCHANGED <<lock, owner, cron, installed, commands, failures, excused>>

\* The health checks succeed, or the time is up.
AwaitEnds(p) == /\ proc[p].pc = "await" /\ End(p)
                /\ UNCHANGED <<owner, installed, commands, failures, excused>>

ProcessStep(p) == \/ TakeLock(p) \/ Publish(p) \/ Drop(p) \/ Busy(p) \/ Signal(p) \/ WaitEnds(p)
                  \/ ComesUp(p) \/ Drained(p) \/ CronLock(p) \/ Health(p) \/ Replace(p)
                  \/ Spawn(p) \/ AwaitEnds(p)

ServerNext == \/ \E kind \in Kind, force \in BOOLEAN : Launch(kind, force)
              \/ \E p \in Started : ProcessStep(p) \/ Fails(p)

\* Every process that can go on does: its waits are bounded.
ServerFairness == \A p \in Pid : WF_serverVars(p \in Started /\ ProcessStep(p))

ServerSpec == ServerInit /\ [][ServerNext]_serverVars /\ ServerFairness
---------------------------------------------------------------------------
(* Properties *)

\* The record names the server while it serves: no command's probe, and no
\* server that was refused, has overwritten it.
OwnerNamesServer == \A p \in Started : Server(p) => lock = p /\ owner = p

\* Once commands are over, a server runs if one was started, restarted,
\* looked after by cron or updated: whatever the order in which the
\* commands met, unless one of the excuses below happened.  A stop or a
\* failure is an excuse; so is a croncheck that another one kept out, a
\* command that holds the lock only to look at it when a server wants it, a
\* wait for the old server that is given up, and a server that ended by
\* itself between the looks of one command.
Wanted == \E p \in Started : proc[p].kind # "stop" /\ proc[p].kind # "update"
ServerReturns == <>[](Wanted /\ ~excused => Healthy)
=============================================================================
