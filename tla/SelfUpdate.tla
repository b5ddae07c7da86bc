----------------------------- MODULE SelfUpdate -----------------------------
(***************************************************************************)
(* `snp update` and `snip-sync update` (src/src/update.rs,                 *)
(* src/snip-sync/src/update.rs): several updaters replace the executable   *)
(* they were started from, on a host that may lose power.  No lock keeps   *)
(* updaters apart: the only protection is that the executable is replaced  *)
(* by renaming a synced copy over it.  The release server and Windows are  *)
(* external.                                                               *)
(***************************************************************************)
EXTENDS Integers

CONSTANTS Updater,     \* processes that update
          MaxVersion,  \* versions 0..MaxVersion are published
          MaxRuns,     \* updates started
          MaxLosses    \* power losses, and updaters killed

ASSUME UpdateAssumption == MaxVersion \in Nat /\ MaxRuns \in Nat /\ MaxLosses \in Nat

VARIABLES program,   \* "snp" or "snip-sync"
          platform,  \* "unix" or "windows"
          method,    \* how it was installed: detect_install_method
          latest,    \* max_version of crates.io
          installed, \* the executable on disk: an Image
          synced,    \* its bytes are on disk
          onDisk,    \* the executable a power loss leaves, if it loses the rename
          up,        \* updater -> what it does
          reported,  \* history: the last replacement was reported as a success
          overlap,   \* history: two updaters have run at a time, or brew
          runs, losses

updateVars == <<program, platform, method, latest, installed, synced, onDisk, up, reported, overlap,
          runs, losses>>

Version == 0..MaxVersion
\* What the bytes of an executable say of their version; whole unless bytes
\* were lost or changed.
Image == [version : Version, whole : BOOLEAN]
Pc == {"idle", "writable", "fetch", "checksum", "cargo", "validate", "brew", "copy", "sync",
       "rename", "sync_dir", "schedule", "leave"}
\* own: the version that runs; want: the one it updates to; candidate: the
\* staged executable, exists: still there; helper: the Windows process that
\* moves it.
Run == [pc : Pc, own : Version, want : Version, candidate : Image, exists : BOOLEAN,
        helper : {"none", "moving", "failed"}]
NoRun == [pc |-> "idle", own |-> 0, want |-> 0, candidate |-> [version |-> 0, whole |-> FALSE],
         exists |-> FALSE, helper |-> "none"]

UpdateTypeOK ==
    /\ program \in {"snp", "snip-sync"} /\ platform \in {"unix", "windows"}
    /\ method \in {"direct", "homebrew"}
    /\ latest \in Version /\ installed \in Image /\ onDisk \in Image
    /\ synced \in BOOLEAN /\ reported \in BOOLEAN /\ overlap \in BOOLEAN
    /\ up \in [Updater -> Run]
    /\ runs \in 0..MaxRuns /\ losses \in 0..MaxLosses

UpdateInit ==
    /\ program \in {"snp", "snip-sync"} /\ platform \in {"unix", "windows"}
    /\ method \in {"direct", "homebrew"} /\ (program = "snip-sync" => method = "direct")
    /\ latest = 0
    /\ installed = [version |-> 0, whole |-> TRUE] /\ onDisk = installed /\ synced = TRUE
    /\ up = [u \in Updater |-> NoRun]
    /\ reported = FALSE /\ overlap = FALSE /\ runs = 0 /\ losses = 0

executables == <<installed, synced, onDisk>>
installation == <<program, platform, method>>
outcomes == <<reported, overlap>>
---------------------------------------------------------------------------
Enter(u, pc) == up' = [up EXCEPT ![u].pc = pc]
Give(u, image, pc) == up' = [up EXCEPT ![u].pc = pc, ![u].candidate = image, ![u].exists = TRUE]
\* The process ends: the working directory goes with it, except that the
\* helper that runs from it on Windows may keep the candidate in place.
Stop(u) == up' = [up EXCEPT ![u] = [NoRun EXCEPT !.helper = up[u].helper,
                                                !.candidate = up[u].candidate,
                                                !.exists = up[u].exists /\ up[u].helper = "moving"]]
Finish(u) == up' = [up EXCEPT ![u] = NoRun]

\* A release, or a yank.
Publish == /\ latest' \in Version \ {latest}
           /\ UNCHANGED <<installation, executables, up, outcomes, runs, losses>>

\* `latest <= current` is up to date.
Newer(current) == latest > current

\* run: the version of the executable that was started, and the latest one.
\* An executable that was mangled cannot be started.
Compare(u) ==
    /\ up[u].pc = "idle" /\ up[u].helper # "moving"
    /\ installed.whole /\ runs < MaxRuns
    /\ runs' = runs + 1
    /\ Newer(installed.version)
    /\ up' = [up EXCEPT ![u] = [NoRun EXCEPT !.own = installed.version, !.want = latest,
                                   !.pc = IF method = "homebrew" THEN "brew" ELSE "writable"]]
    /\ overlap' = (overlap \/ \E w \in Updater \ {u} : up[w].pc # "idle" \/ up[w].helper = "moving")
    /\ UNCHANGED <<installation, latest, executables, reported, losses>>

\* ensure_destination_writable: a probe beside the executable.
Writable(u) == /\ up[u].pc = "writable"
               /\ \/ \E pc \in {"fetch", "cargo"} : Enter(u, pc)  \* host_target
                  \/ Finish(u)
               /\ UNCHANGED <<installation, latest, executables, outcomes, runs, losses>>

\* fetch_file: 404 falls back to Cargo, every other failure ends the update
\* and removes the partial file.  What arrives may be damaged, or another
\* version than the tag says.
Fetch(u) ==
    /\ up[u].pc = "fetch"
    /\ \/ \E whole \in BOOLEAN, v \in Version :
             Give(u, [version |-> v, whole |-> whole], "checksum")
       \/ Enter(u, "cargo")
       \/ Finish(u)
    /\ UNCHANGED <<installation, latest, executables, outcomes, runs, losses>>

\* The sidecar is fetched and compared.  Any failure ends the update.
Checksum(u) ==
    /\ up[u].pc = "checksum"
    /\ (up[u].candidate.whole /\ Enter(u, "validate")) \/ Finish(u)
    /\ UNCHANGED <<installation, latest, executables, outcomes, runs, losses>>

\* cargo install, of exactly this version.
Cargo(u) ==
    /\ up[u].pc = "cargo"
    /\ Give(u, [version |-> up[u].want, whole |-> TRUE], "validate") \/ Finish(u)
    /\ UNCHANGED <<installation, latest, executables, outcomes, runs, losses>>

\* The candidate is run and asks for its version: anything but the wanted
\* one, a failure and a timeout end the update.
Validate(u) ==
    /\ up[u].pc = "validate"
    /\ \/ /\ up[u].candidate.version = up[u].want
          /\ Enter(u, IF platform = "unix" THEN "copy" ELSE "schedule")
       \/ Finish(u)
    /\ UNCHANGED <<installation, latest, executables, outcomes, runs, losses>>

\* update_with_homebrew: brew replaces the executable by its own means.
Brew(u) ==
    /\ up[u].pc = "brew"
    /\ \/ /\ installed' = [version |-> latest, whole |-> TRUE]
          /\ onDisk' = installed' /\ synced' = TRUE
          /\ overlap' = TRUE
       \/ UNCHANGED <<executables, overlap>>
    /\ Finish(u)
    /\ UNCHANGED <<installation, latest, reported, runs, losses>>
---------------------------------------------------------------------------
(* replace_installed_executable, Unix *)

\* A copy beside the executable, with its permissions; a failure removes it.
CopyStaged(u) ==
    /\ up[u].pc = "copy"
    /\ Enter(u, "sync") \/ Finish(u)
    /\ UNCHANGED <<installation, latest, executables, outcomes, runs, losses>>

SyncStaged(u) ==
    /\ up[u].pc = "sync"
    /\ Enter(u, "rename") \/ Finish(u)
    /\ UNCHANGED <<installation, latest, executables, outcomes, runs, losses>>

\* Mutant of Rename: by an updater that has not synced the copy.
RenameUnsynced(u) ==
    /\ up[u].pc \in {"sync", "rename"}
    /\ installed' = up[u].candidate
    /\ synced' = (up[u].pc = "rename") /\ UNCHANGED onDisk
    /\ IF program = "snip-sync" THEN Enter(u, "sync_dir") /\ reported' = FALSE
       ELSE Finish(u) /\ reported' = TRUE
    /\ UNCHANGED <<installation, latest, overlap, runs, losses>>

\* The staged file takes the place of the executable.  snp is done;
\* snip-sync still has to make the rename durable.
Rename(u) ==
    /\ up[u].pc = "rename"
    /\ \/ /\ installed' = up[u].candidate /\ synced' = TRUE /\ UNCHANGED onDisk
          /\ IF program = "snip-sync" THEN Enter(u, "sync_dir") /\ reported' = FALSE
             ELSE Finish(u) /\ reported' = TRUE
       \/ Finish(u) /\ UNCHANGED <<executables, reported>>
    /\ UNCHANGED <<installation, latest, overlap, runs, losses>>

\* sync_parent_dir_durable (snip-sync): a failure is an error.
SyncDirectory(u) ==
    /\ up[u].pc = "sync_dir"
    /\ \/ onDisk' = installed /\ reported' = TRUE
       \/ UNCHANGED <<onDisk, reported>>
    /\ Finish(u)
    /\ UNCHANGED <<installation, latest, installed, synced, overlap, runs, losses>>
---------------------------------------------------------------------------
(* schedule_windows_self_replace *)

\* The helper is copied and started; the updater says that the replacement
\* will complete.
Schedule(u) ==
    /\ up[u].pc = "schedule"
    /\ up' = [up EXCEPT ![u].pc = "leave", ![u].helper = "moving"] \/ Finish(u)
    /\ UNCHANGED <<installation, latest, executables, outcomes, runs, losses>>

\* run returns: the working directory is removed, as far as Windows lets it,
\* and the process ends.
Leave(u) ==
    /\ up[u].pc = "leave"
    /\ \/ Stop(u)
       \/ up' = [up EXCEPT ![u].pc = "idle", ![u].exists = FALSE]
    /\ UNCHANGED <<installation, latest, executables, outcomes, runs, losses>>

\* run_self_replace_helper moves the candidate at once.  Windows refuses
\* while a process runs the executable.
InUse == \E w \in Updater : up[w].pc # "idle"
Move(u) ==
    /\ up[u].helper = "moving"
    /\ IF up[u].exists /\ ~InUse
       THEN /\ installed' = up[u].candidate /\ onDisk' = up[u].candidate /\ synced' = TRUE
            /\ reported' = TRUE
            /\ up' = [up EXCEPT ![u].helper = "none", ![u].exists = FALSE]
       ELSE up' = [up EXCEPT ![u].helper = "failed"] /\ UNCHANGED <<executables, reported>>
    /\ UNCHANGED <<installation, latest, overlap, runs, losses>>
---------------------------------------------------------------------------
\* An updater is killed.
Kill(u) == /\ up[u].pc # "idle" /\ losses < MaxLosses /\ losses' = losses + 1
           /\ Stop(u)
           /\ UNCHANGED <<installation, latest, executables, outcomes, runs>>

\* Power is lost: the rename may be, and the bytes of an executable that was
\* not synced are.
PowerLoss ==
    /\ losses < MaxLosses /\ losses' = losses + 1
    /\ \/ installed' = onDisk
       \/ installed' = [installed EXCEPT !.whole = @ /\ synced]
    /\ onDisk' = installed' /\ synced' = TRUE
    /\ up' = [u \in Updater |-> NoRun]
    /\ UNCHANGED <<installation, latest, outcomes, runs>>

Step(u) == \/ Writable(u) \/ Fetch(u) \/ Checksum(u) \/ Cargo(u) \/ Validate(u) \/ Brew(u)
           \/ CopyStaged(u) \/ SyncStaged(u) \/ Rename(u) \/ SyncDirectory(u)
           \/ Schedule(u) \/ Leave(u) \/ Move(u)

UpdateNext == Publish \/ PowerLoss \/ \E u \in Updater : Compare(u) \/ Kill(u) \/ Step(u)

UpdateSpec == UpdateInit /\ [][UpdateNext]_updateVars
---------------------------------------------------------------------------
(* Properties *)

\* Whatever fails, is killed or loses power, and however updaters overlap,
\* the installed program is a whole executable, and so is the one a power
\* loss would leave; a snip-sync update that was reported as done is not
\* undone by one.
SurvivesPowerLoss == /\ installed.whole /\ onDisk.whole
                     /\ program = "snip-sync" /\ reported => onDisk = installed

\* The executable is never replaced by one that is older, or the same, unless
\* updaters overlapped or power was lost.
OnlyForward ==
    [][installed' # installed =>
         overlap' \/ losses' # losses \/ installed'.version > installed.version]_updateVars

\* What Windows updates print: the replacement completes once the updater
\* has ended.
WindowsReplacementCompletes == \A u \in Updater : up[u].helper # "failed"
=============================================================================
