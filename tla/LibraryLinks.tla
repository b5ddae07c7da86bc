---------------------------- MODULE LibraryLinks ----------------------------
(***************************************************************************)
(* The library index of one device (libraries.toml, library/manager.rs),   *)
(* the sync run that links its libraries to libraries of the server and    *)
(* re-creates the ones the server does not know (sync_commands.rs), and    *)
(* the commands that edit the index meanwhile.  Rows and cursor values are *)
(* left to LibrarySync; here a cursor is the library it was learned from.  *)
(***************************************************************************)
EXTENDS Integers, Sequences, FiniteSets

CONSTANTS Library,      \* names of libraries
          Default,      \* the one every account has and nobody can delete
          MaxAccounts,  \* accounts the client registers, one after the other
          MaxTrouble    \* library commands on this device, changes by the
                        \* account's others, crashes, failed writes and calls

\* There is always the default library, and an account.
ConstantsFit == IsFiniteSet(Library) /\ Default \in Library /\ MaxAccounts \in Nat \ {0}
                /\ MaxTrouble \in Nat
ASSUME LinksAssumption == ConstantsFit

VARIABLES remote,        \* server: all libraries ever created; the id is the position
          account,       \* the account the client's API key belongs to
          index,         \* libraries.toml
          libraryFile,   \* which libraries have a file
          marker,        \* the <library>.sync_recovery files
          run,           \* the sync run (one: it holds the execution lock)
          cmd,           \* a library command
          accepted,      \* history: libraries that took every row of a retry
          trouble
linksVars == <<remote, account, index, libraryFile, marker, run, cmd, accepted,
               trouble>>
server == <<remote, account>>
disk == <<index, libraryFile, marker>>

None == 0
Id == 0..(Cardinality(Library) * MaxAccounts)
Remote == [name : Library, account : 1..MaxAccounts, live : BOOLEAN]

\* LibraryMeta: library_id and server_id are written together (`link`);
\* `cursor` is the library whose sequence cursor is recorded, None the
\* cursor kind Unknown, with which a pulling sync starts over.
Entry == [known : BOOLEAN, primary : BOOLEAN, link : Id, cursor : Id]
Absent == [known |-> FALSE, primary |-> FALSE, link |-> None, cursor |-> None]
Index == [Library -> Entry]

Phase == {"none", "creating", "remote_created", "linked"}
Marker == [phase : Phase, local : Id, server : Id]
NoMarker == [phase |-> "none", local |-> None, server |-> None]

Known(i) == {l \in Library : i[l].known}
Rows(key, l) == {r \in DOMAIN remote : remote[r].account = key /\ remote[r].name = l}
Live(key, l) == {r \in Rows(key, l) : remote[r].live}
Reachable(key, r) == r \in DOMAIN remote /\ remote[r].account = key /\ remote[r].live

Idle == [pc |-> "idle", key |-> 1, mem |-> [l \in Library |-> Absent],
         import |-> {}, pre |-> {}, scan |-> {}, todo |-> {},
         lib |-> Default, got |-> None, back |-> "pre", relinked |-> FALSE]
NoCommand == [pc |-> "idle", op |-> "create", lib |-> Default,
              mem |-> [l \in Library |-> Absent]]

RunPc == {"idle", "import", "pre", "create", "find", "link", "scan", "open", "locate",
          "made", "relink", "mark", "retry", "cursors", "unmark", "main", "merge"}
Loops == {"pre", "scan", "main"}
Op == {"create", "delete", "set_primary"}

LinksTypeOK ==
    /\ remote \in Seq(Remote)
    /\ account \in 1..MaxAccounts
    /\ index \in Index /\ libraryFile \in [Library -> BOOLEAN] /\ marker \in [Library -> Marker]
    /\ run \in [pc : RunPc, key : 1..MaxAccounts, mem : Index, import : SUBSET Id,
                pre : SUBSET Library, scan : SUBSET Library, todo : SUBSET Library,
                lib : Library, got : Id, back : Loops, relinked : BOOLEAN]
    /\ cmd \in [pc : {"idle", "loaded", "register", "unlink"}, op : Op, lib : Library,
                mem : Index]
    /\ accepted \in SUBSET Id
    /\ trouble \in 0..MaxTrouble

\* Something goes wrong, or somebody else acts.
Trouble == trouble < MaxTrouble /\ trouble' = trouble + 1

\* The account has its default library and possibly another; this device
\* has the same ones, linked and synced, or not yet linked.
LinksInit ==
    /\ account = 1
    /\ \E second \in SUBSET (Library \ {Default}) :
         /\ Cardinality(second) <= 1
         /\ remote = [r \in 1..(1 + Cardinality(second)) |->
                        [name |-> IF r = 1 THEN Default ELSE CHOOSE l \in second : TRUE,
                         account |-> 1, live |-> TRUE]]
    /\ \E linked \in BOOLEAN :
         index = [l \in Library |->
                    IF \A r \in DOMAIN remote : remote[r].name # l THEN Absent
                    ELSE LET id == IF ~linked THEN None
                                   ELSE CHOOSE r \in DOMAIN remote : remote[r].name = l
                         IN [known |-> TRUE, primary |-> l = Default,
                             link |-> id, cursor |-> id]]
    /\ libraryFile = [l \in Library |-> index[l].known]
    /\ marker = [l \in Library |-> NoMarker]
    /\ run = Idle /\ cmd = NoCommand /\ accepted = {}
    /\ trouble = 0
---------------------------------------------------------------------------
(* The server's other clients, and a registration of this one *)

\* create_library: INSERT OR IGNORE under UNIQUE(user_id, name).
Insert(key, l) ==
    /\ Rows(key, l) = {}
    /\ remote' = Append(remote, [name |-> l, account |-> key, live |-> TRUE])

OtherCreates(l) == /\ Trouble /\ Insert(account, l)
                   /\ UNCHANGED <<account, disk, run, cmd, accepted>>

\* delete_library sets deleted_at: the row keeps its name.
OtherDeletes(r) ==
    /\ Trouble /\ Reachable(account, r) /\ remote[r].name # Default
    /\ remote' = [remote EXCEPT ![r].live = FALSE]
    /\ UNCHANGED <<account, disk, run, cmd, accepted>>

\* A new registration, or a server with a new database: create_user makes
\* the account and its default library; no library of the old one is found.
Register ==
    /\ account < MaxAccounts
    /\ account' = account + 1
    /\ remote' = Append(remote, [name |-> Default, account |-> account + 1, live |-> TRUE])
    /\ UNCHANGED <<disk, run, cmd, accepted, trouble>>
---------------------------------------------------------------------------
(* The sync run: libraries of the server are imported, libraries without a *)
(* link get one, marked recoveries are resumed, then each library syncs.   *)

\* The run goes on at `pc`; in the loops no library is in hand.
Run(pc, fields) ==
    run' = [f \in DOMAIN run |->
              CASE f = "pc" -> pc
                [] f \in DOMAIN fields -> fields[f]
                [] pc \in Loops /\ f \in {"lib", "got", "back", "relinked"} -> Idle[f]
                [] OTHER -> run[f]]
RunTo(pc) == Run(pc, <<>>)

\* The loops take the libraries in the order of the index.
First(libs) == IF Default \in libs THEN Default ELSE CHOOSE l \in libs : TRUE

\* A mutator of the run's LibraryManager: the entry changes in the copy the
\* manager loaded, and the whole copy is saved.
RunSaves(l, entry, pc) ==
    LET mem == [run.mem EXCEPT ![l] = entry]
    IN Run(pc, [mem |-> mem]) /\ index' = mem

\* The save fails after the copy was changed.
RunCannotSave(l, entry, pc) ==
    /\ Trouble
    /\ Run(pc, [mem |-> [run.mem EXCEPT ![l] = entry]]) /\ UNCHANGED index

\* A worker starts with its libraries; `snp sync` first lists the server's.
Start == /\ run.pc = "idle"
         /\ \E import \in {{}, {r \in DOMAIN remote : Reachable(account, r)}} :
              run' = [Idle EXCEPT !.pc = "import", !.key = account, !.mem = index,
                                  !.import = import]
         /\ UNCHANGED <<server, disk, cmd, accepted, trouble>>

\* link_server_library: an entry without a link takes this one, unless the
\* user keeps the local version; add_server_library where there is no entry.
Import(r) ==
    LET l == remote[r].name
        e == run.mem[l]
        linked == [e EXCEPT !.link = r]
        added == [known |-> TRUE, primary |-> Known(run.mem) = {}, link |-> r, cursor |-> None]
    IN /\ run.pc = "import" /\ r \in run.import
       /\ \/ /\ e.known
             /\ Run("import", [import |-> run.import \ {r}])
             /\ UNCHANGED <<index, libraryFile>>
          \/ /\ e.known /\ e.link = None
             /\ LET mem == [run.mem EXCEPT ![l] = linked]
                IN /\ Run("import", [mem |-> mem, import |-> run.import \ {r}])
                   /\ index' = mem
             /\ UNCHANGED libraryFile
          \/ /\ ~e.known
             /\ libraryFile' = [libraryFile EXCEPT ![l] = TRUE]
             /\ LET mem == [run.mem EXCEPT ![l] = added]
                IN /\ Run("import", [mem |-> mem, import |-> run.import \ {r}])
                   /\ index' = mem
       /\ UNCHANGED <<server, marker, cmd, accepted, trouble>>

\* run_sync loads the index again; without libraries it ends.
Begin == /\ run.pc = "import" /\ run.import = {}
         /\ IF Known(index) = {} THEN run' = Idle
            ELSE Run("pre", [mem |-> index, pre |-> Known(index), todo |-> Known(index)])
         /\ UNCHANGED <<server, disk, cmd, accepted, trouble>>

Preflight(l) ==
    /\ run.pc = "pre" /\ run.pre # {} /\ l = First(run.pre)
    /\ IF libraryFile[l] /\ run.mem[l].link = None
       THEN Run("create", [lib |-> l, back |-> "pre", pre |-> run.pre \ {l}])
       ELSE Run("pre", [pre |-> run.pre \ {l}])
    /\ UNCHANGED <<server, disk, cmd, accepted, trouble>>

\* The library is reported as failed and not synced further in this run.
GiveUp == Run(run.back, [todo |-> run.todo \ {run.lib}])
Got(r) == Run(IF run.back = "pre" THEN "link" ELSE "made", [got |-> r])

CreateRemote ==
    /\ run.pc = "create"
    /\ \/ Insert(run.key, run.lib) /\ Got(Len(remote) + 1)
       \/ Rows(run.key, run.lib) # {} /\ RunTo("find") /\ UNCHANGED remote
    /\ UNCHANGED <<account, disk, cmd, accepted, trouble>>

\* The name is taken: adopt the library that has it.
Find == /\ run.pc = "find"
        /\ IF Live(run.key, run.lib) = {} THEN GiveUp
           ELSE \E r \in Live(run.key, run.lib) : Got(r)
        /\ UNCHANGED <<server, disk, cmd, accepted, trouble>>

\* link_server_library of the manager: the cursor stays.
Link == LET e == [run.mem[run.lib] EXCEPT !.link = run.got]
        IN /\ run.pc = "link"
           /\ \/ RunSaves(run.lib, e, "pre") /\ UNCHANGED trouble
              \/ /\ Trouble
                 /\ Run("pre", [mem |-> [run.mem EXCEPT ![run.lib] = e],
                                todo |-> run.todo \ {run.lib}])
                 /\ UNCHANGED index
           /\ UNCHANGED <<server, libraryFile, marker, cmd, accepted>>

Marked == {l \in Library : marker[l].phase # "none"}

ScanMarkers == /\ run.pc = "pre" /\ run.pre = {}
               /\ Run("scan", [scan |-> Marked])
               /\ UNCHANGED <<server, disk, cmd, accepted, trouble>>

\* check_and_complete_recovery_markers, one marker.
Resume(l) ==
    /\ run.pc = "scan" /\ l \in run.scan
    /\ IF libraryFile[l]
       THEN Run("open", [lib |-> l, back |-> "scan", scan |-> run.scan \ {l},
                         todo |-> run.todo \ {l}])
       ELSE Run("scan", [scan |-> run.scan \ {l}])
    /\ UNCHANGED <<server, disk, cmd, accepted, trouble>>

EndScan == /\ run.pc = "scan" /\ run.scan = {}
           /\ RunTo("main")
           /\ UNCHANGED <<server, disk, cmd, accepted, trouble>>

\* One library of the main loop: a linked one asks the server for a sync,
\* and one the server does not know is recovered.
SyncLibrary(l) ==
    /\ run.pc = "main" /\ run.todo # {} /\ l = First(run.todo)
    /\ LET link == run.mem[l].link
           rest == run.todo \ {l}
       IN IF ~libraryFile[l] \/ link = None THEN Run("main", [todo |-> rest])
          ELSE IF Reachable(run.key, link)
          THEN Run("merge", [lib |-> l, todo |-> rest])
          ELSE Run("open", [lib |-> l, back |-> "main", todo |-> rest])
    /\ UNCHANGED <<server, disk, cmd, accepted, trouble>>

\* The answer is merged into the file; a pulling sync without skipped rows
\* then records the cursor it was given.
Merge ==
    LET e == run.mem[run.lib]
        pulled == [e EXCEPT !.cursor = e.link]
    IN /\ run.pc = "merge"
       /\ libraryFile' = [libraryFile EXCEPT ![run.lib] = TRUE]
       /\ \/ RunSaves(run.lib, pulled, "main") /\ UNCHANGED trouble
          \/ RunSaves(run.lib, e, "main") /\ UNCHANGED trouble
          \/ RunCannotSave(run.lib, pulled, "main")
       /\ UNCHANGED <<server, marker, cmd, accepted>>

Finish == /\ run.pc = "main" /\ run.todo = {}
          /\ run' = Idle
          /\ UNCHANGED <<server, disk, cmd, accepted, trouble>>
---------------------------------------------------------------------------
(* handle_library_not_found *)

\* Mutant of Fits: a marker written before the relink does not fit after it.
FitsBeforeRelink(m, link) == m.local \in {None, link}

Fits(m, link) == \/ m.local \in {None, link}
                 \/ m.server # None /\ m.server = link

\* The marker is bound to the entry, checked against it and written before
\* anything is created.
Open ==
    LET l == run.lib
        link == run.mem[l].link
        m == IF marker[l].phase = "none"
             THEN [phase |-> "creating", local |-> link, server |-> None] ELSE marker[l]
        refused == \/ ~run.mem[l].known \/ ~libraryFile[l] \/ ~Fits(m, link)
                   \/ m.phase = "linked" /\ m.server # link
    IN /\ run.pc = "open"
       /\ IF refused THEN GiveUp /\ UNCHANGED marker
          ELSE /\ marker' = [marker EXCEPT ![l] = [m EXCEPT !.local = link]]
               /\ Run(IF m.server = None THEN "locate" ELSE "made",
                      [got |-> m.server, relinked |-> m.phase = "linked"])
       /\ UNCHANGED <<server, index, libraryFile, cmd, accepted, trouble>>

Locate == /\ run.pc = "locate"
          /\ IF Live(run.key, run.lib) = {} THEN RunTo("create")
             ELSE \E r \in Live(run.key, run.lib) : Got(r)
          /\ UNCHANGED <<server, disk, cmd, accepted, trouble>>

RecordRemote ==
    /\ run.pc = "made"
    /\ marker' = [marker EXCEPT ![run.lib].server = run.got, ![run.lib].phase = "remote_created"]
    /\ RunTo(IF run.relinked THEN "retry" ELSE "relink")
    /\ UNCHANGED <<server, index, libraryFile, cmd, accepted, trouble>>

\* Mutant of Relinked: the cursor of the lost library is kept.
RelinkedKeepingCursor == [run.mem[run.lib] EXCEPT !.link = run.got]

Relinked == [run.mem[run.lib] EXCEPT !.link = run.got, !.cursor = None]

Relink == /\ run.pc = "relink"
          /\ \/ RunSaves(run.lib, Relinked, "mark") /\ UNCHANGED trouble
             \/ /\ Trouble
                /\ Run(run.back, [mem |-> [run.mem EXCEPT ![run.lib] = Relinked]])
                /\ UNCHANGED index
          /\ UNCHANGED <<server, libraryFile, marker, cmd, accepted>>

RecordLink ==
    /\ run.pc = "mark"
    /\ marker' = [marker EXCEPT ![run.lib].local = run.mem[run.lib].link,
                                ![run.lib].phase = "linked"]
    /\ RunTo("retry")
    /\ UNCHANGED <<server, index, libraryFile, cmd, accepted, trouble>>

\* Mutant of Retry: rows the server skipped are not looked at.
RetryIgnoringSkipped ==
    /\ run.pc = "retry"
    /\ IF ~Reachable(run.key, run.got) THEN GiveUp /\ UNCHANGED <<libraryFile, accepted, trouble>>
       ELSE /\ libraryFile' = [libraryFile EXCEPT ![run.lib] = TRUE]
            /\ RunTo("cursors")
            /\ \/ accepted' = accepted \cup {run.got} /\ UNCHANGED trouble
               \/ Trouble /\ UNCHANGED accepted
    /\ UNCHANGED <<server, index, marker, cmd>>

\* The full upload, and the merge of its answer.  Rows the server skipped
\* leave the marker in place.
Retry ==
    /\ run.pc = "retry"
    /\ IF ~Reachable(run.key, run.got) THEN GiveUp /\ UNCHANGED <<libraryFile, accepted, trouble>>
       ELSE /\ libraryFile' = [libraryFile EXCEPT ![run.lib] = TRUE]
            /\ \/ /\ accepted' = accepted \cup {run.got}
                  /\ RunTo("cursors") /\ UNCHANGED trouble
               \/ /\ Trouble
                  /\ GiveUp /\ UNCHANGED accepted
    /\ UNCHANGED <<server, index, marker, cmd>>

ResetCursors ==
    LET e == [run.mem[run.lib] EXCEPT !.cursor = None]
    IN /\ run.pc = "cursors"
       /\ \/ RunSaves(run.lib, e, "unmark") /\ UNCHANGED trouble
          \/ RunCannotSave(run.lib, e, run.back)
       /\ UNCHANGED <<server, libraryFile, marker, cmd, accepted>>

Unmark == /\ run.pc = "unmark"
          /\ marker' = [marker EXCEPT ![run.lib] = NoMarker]
          /\ RunTo(run.back)
          /\ UNCHANGED <<server, index, libraryFile, cmd, accepted, trouble>>

\* A call fails or its answer is lost, or a marker cannot be written.
CallFails ==
    /\ Trouble
    /\ run.pc \in {"create", "find", "locate", "open", "made", "mark", "retry", "unmark"}
    /\ \/ UNCHANGED remote
       \/ run.pc = "create" /\ Insert(run.key, run.lib)
    /\ GiveUp
    /\ UNCHANGED <<account, disk, cmd, accepted>>

SyncFails == /\ Trouble
             /\ run.pc = "merge" /\ RunTo("main")
             /\ UNCHANGED <<server, disk, cmd, accepted>>
---------------------------------------------------------------------------
(* Library commands.  Each loads the index, may wait for the user or the  *)
(* lock, and saves its copy.                                               *)

Load(op, l) ==
    /\ cmd.pc = "idle" /\ Trouble
    /\ cmd' = [pc |-> "loaded", op |-> op, lib |-> l, mem |-> index]
    /\ UNCHANGED <<server, disk, run, accepted>>

Refused == CASE cmd.op = "create" -> libraryFile[cmd.lib] \/ cmd.mem[cmd.lib].known
             [] OTHER -> ~cmd.mem[cmd.lib].known

Refuse == /\ cmd.pc = "loaded" /\ Refused
          /\ cmd' = NoCommand
          /\ UNCHANGED <<server, disk, run, accepted, trouble>>

\* create_library: the file, then the entry.
WriteFile == /\ cmd.pc = "loaded" /\ cmd.op = "create" /\ ~Refused
             /\ libraryFile' = [libraryFile EXCEPT ![cmd.lib] = TRUE]
             /\ cmd' = [cmd EXCEPT !.pc = "register"]
             /\ UNCHANGED <<server, index, marker, run, accepted, trouble>>

CreateEntry ==
    /\ cmd.pc = "register"
    /\ index' = [cmd.mem EXCEPT ![cmd.lib] =
                   [Absent EXCEPT !.known = TRUE, !.primary = Known(cmd.mem) = {}]]
    /\ cmd' = NoCommand
    /\ UNCHANGED <<server, libraryFile, marker, run, accepted, trouble>>

\* The library that takes over from a deleted primary: a linked one if the
\* deleted one was linked, else any (the index's first).
Promoted(i, l) ==
    LET rest == Known(i) \ {l}
        linked == {k \in rest : i[k].link # None}
    IN IF ~i[l].primary THEN {} ELSE IF i[l].link # None /\ linked # {} THEN linked ELSE rest

\* The indexes a deletion may leave.
Deleted(i, l) ==
    IF Promoted(i, l) = {} THEN {[i EXCEPT ![l] = Absent]}
    ELSE {[i EXCEPT ![l] = Absent, ![k].primary = TRUE] : k \in Promoted(i, l)}

\* delete_library: the entry, then the file; if the file stays, the index
\* as loaded is saved back.
DeleteEntry ==
    /\ cmd.pc = "loaded" /\ cmd.op = "delete" /\ ~Refused
    /\ index' \in Deleted(cmd.mem, cmd.lib)
    /\ cmd' = [cmd EXCEPT !.pc = "unlink"]
    /\ UNCHANGED <<server, libraryFile, marker, run, accepted, trouble>>

DeleteFile ==
    /\ cmd.pc = "unlink" /\ cmd' = NoCommand
    /\ \/ /\ libraryFile' = [libraryFile EXCEPT ![cmd.lib] = FALSE]
          /\ UNCHANGED <<index, trouble>>
       \/ /\ Trouble
          /\ libraryFile[cmd.lib] /\ index' = cmd.mem /\ UNCHANGED libraryFile
    /\ UNCHANGED <<server, marker, run, accepted>>

SetPrimary ==
    /\ cmd.pc = "loaded" /\ cmd.op = "set_primary" /\ ~Refused
    /\ index' = [l \in Library |-> [cmd.mem[l] EXCEPT !.primary = l = cmd.lib]]
    /\ cmd' = NoCommand
    /\ UNCHANGED <<server, libraryFile, marker, run, accepted, trouble>>

CrashRun == /\ Trouble
            /\ run.pc # "idle" /\ run' = Idle
            /\ UNCHANGED <<server, disk, cmd, accepted>>

CrashCommand == /\ Trouble
                /\ cmd.pc # "idle" /\ cmd' = NoCommand
                /\ UNCHANGED <<server, disk, run, accepted>>
---------------------------------------------------------------------------
RunStep == \/ Begin \/ CreateRemote \/ Find \/ Link \/ ScanMarkers \/ EndScan \/ Merge
           \/ Finish \/ Open \/ Locate \/ RecordRemote \/ Relink \/ RecordLink \/ Retry
           \/ ResetCursors \/ Unmark
           \/ \E l \in Library : Preflight(l) \/ Resume(l) \/ SyncLibrary(l)
           \/ \E r \in run.import : Import(r)

LinksNext == \/ Start \/ RunStep \/ CallFails \/ SyncFails \/ CrashRun \/ CrashCommand
             \/ Refuse \/ WriteFile \/ CreateEntry \/ DeleteEntry \/ DeleteFile \/ SetPrimary
             \/ Register
             \/ \E l \in Library : OtherCreates(l) \/ \E op \in Op : Load(op, l)
             \/ \E r \in DOMAIN remote : OtherDeletes(r)

\* A sync that failed is tried again: by the auto-sync worker's retries, or
\* the user.
LinksFairness == WF_linksVars(RunStep) /\ WF_linksVars(Start)

LinksSpec == LinksInit /\ [][LinksNext]_linksVars /\ LinksFairness
---------------------------------------------------------------------------
(* Properties *)

\* A recorded cursor was learned from the library the entry is linked to, on
\* disk and in the copy a sync asks with: a cursor of another library's
\* sequence would hide rows for good.  An index with libraries has exactly
\* one primary.  Both whoever saved the index last, and from whatever copy.
IndexSound ==
    /\ \A l \in Library : /\ index[l].cursor \in {None, index[l].link}
                          /\ run.mem[l].cursor \in {None, run.mem[l].link}
    /\ Known(index) # {} => Cardinality({l \in Library : index[l].primary}) = 1

\* A recovery marker goes only after its library took every local row; while
\* rows were skipped the marker is the only trace of them.
MarkersOutlastRecovery ==
    [][\A l \in Library : marker[l].phase # "none" /\ marker'[l].phase = "none"
                            => marker[l].server \in accepted]_linksVars

\* What this protocol does not recover from: the name belongs to a deleted
\* library; the marker names a library that is gone too; the marker does not
\* fit the entry (a command saved an older copy of the index, or deleted the
\* library and made it again).
Stranded(l) ==
    LET m == marker[l]
    IN \/ Live(account, l) = {} /\ Rows(account, l) # {}
       \/ m.server # None /\ ~Reachable(account, m.server)
       \/ m.phase # "none" /\ m.local \notin {None, index[l].link}
            /\ m.server # index[l].link
       \/ m.phase = "linked" /\ m.server # index[l].link

Settled(l) == index[l].known /\ libraryFile[l] =>
                Reachable(account, index[l].link) /\ marker[l].phase = "none"

\* Once faults, commands and the account's other devices rest, every library
\* the protocol can recover is linked to a library the server knows, and its
\* marker is gone.
LibrariesSettle == <>[](\A l \in Library : Settled(l) \/ Stranded(l))

\* The comment in sync.rs: a conflict is the trace of a lost answer or
\* another device, so a library with the name is there to adopt.
ConflictMeansLive ==
    [][run.pc = "create" /\ run'.pc = "find" => Live(run.key, run.lib) # {}]_linksVars

\* architecture/persistence.md: the lock spans read, change and write, so no
\* process undoes the registration of another.
RegistrationsKept ==
    [][\A l \in Library : index[l].known /\ ~index'[l].known
                            => cmd.op = "delete" /\ cmd.lib = l]_linksVars
=============================================================================
