----------------------------- MODULE MCProgress -----------------------------
(***************************************************************************)
(* Small instances for TLC of three machines that share nothing: the       *)
(* owned-record lock, the processes of a server's host, and the library    *)
(* links of a device.  A behaviour picks one of them at its start and runs *)
(* it alone, from each of its initial states; the others rest.  One run    *)
(* checks the safety of all three and that each gets where it should.      *)
(***************************************************************************)
EXTENDS RecordLock, ServerLifecycle, LibraryLinks

VARIABLE machine  \* the one that runs

allVars == <<machine, vars, serverVars, linksVars>>

LockRests == file = NoFile /\ policy = "FailFast"
ServerRests == proc = <<>>
LinksRest == index[Default].link = None /\ Len(remote) = 1

MachinesInit ==
    /\ machine \in {"lock", "server", "links"}
    /\ Init /\ (machine # "lock" => LockRests)
    /\ ServerInit /\ (machine # "server" => ServerRests)
    /\ LinksInit /\ (machine # "links" => LinksRest)

RunsLock == machine = "lock" /\ UNCHANGED <<machine, serverVars, linksVars>>
RunsServer == machine = "server" /\ UNCHANGED <<machine, vars, linksVars>>
RunsLinks == machine = "links" /\ UNCHANGED <<machine, vars, serverVars>>

MachinesNext == \/ RunsLock /\ Next
                \/ RunsServer /\ ServerNext
                \/ RunsLinks /\ LinksNext

\* The fairness of each machine (RecordLock, ServerLifecycle, LibraryLinks).
MachinesFair ==
    /\ \A p \in Process : /\ WF_allVars(RunsLock /\ Acquire(p))
                          /\ WF_allVars(RunsLock /\ Release(p))
                          /\ WF_allVars(RunsLock /\ Deadline(p))
    /\ \A p \in Pid : WF_allVars(RunsServer /\ p \in Started /\ ProcessStep(p))
    /\ WF_allVars(RunsLinks /\ RunStep)
    /\ WF_allVars(RunsLinks /\ Start)

MachinesSpec == MachinesInit /\ [][MachinesNext]_allVars /\ MachinesFair
---------------------------------------------------------------------------
(* Properties that hold of the machine that runs *)

\* Every variable of the machine that runs keeps to its type.
Types == /\ machine = "lock" => TypeOK
         /\ machine = "server" => ServerTypeOK
         /\ machine = "links" => LinksTypeOK

\* record_lock.rs: whoever starts to take the lock gets it, fails, or dies.
EveryAcquisitionEnds == machine = "lock" => AcquisitionsEnd

\* sync_commands.rs: every library the protocol can recover ends linked.
EveryLibrarySettles == machine = "links" => LibrariesSettle
=============================================================================
