----------------------------- MODULE ClientProofs -----------------------------
(*****************************************************************************)
(* What a client guarantees besides its syncs, for any number of processes,  *)
(* files, keys and steps: the executable survives an update, a payload opens *)
(* with its own key, a read of a file is one content of it, a sync has the   *)
(* credentials of one account, a call keeps its deadline, and a restore      *)
(* leaves nothing that neither the data nor its manifest had.                *)
(*****************************************************************************)
EXTENDS SelfUpdate, PayloadKeys, FileCache, ClientSettings, SyncClient, Backups,
        FiniteSetTheorems, SequenceTheorems, TLAPS

---------------------------------------------------------------------------
(* The self-update *)

\* What an updater has staged is whole from its checksum on, or Cargo's build.
Staged == {"validate", "copy", "sync", "rename", "schedule", "leave"}
StagedWhole(run) ==
    /\ run.pc \in Staged \/ run.helper = "moving" => run.candidate.whole
    /\ run.helper = "moving" => run.pc \in {"idle", "leave"}

UpdateTyped ==
    /\ latest \in Version /\ installed \in Image /\ onDisk \in Image
    /\ up \in [Updater -> Run]
UpdateInv ==
    /\ UpdateTyped /\ synced /\ SurvivesPowerLoss
    /\ \A u \in Updater : StagedWhole(up[u])

\* The version installed first is one, and no run has staged nothing.
LEMMA VersionZero == 0 \in Version /\ NoRun \in Run /\ StagedWhole(NoRun)
<1>1. 0 \in Version
  BY UpdateAssumption DEF Version
<1>2. NoRun \in Run
  BY <1>1 DEF NoRun, Run, Image, Pc
<1>3. StagedWhole(NoRun)
  BY DEF NoRun, StagedWhole, Staged
<1> QED
  BY <1>1, <1>2, <1>3

\* An updater that goes on without touching the executable.
LEMMA UpdaterGoesOn ==
  ASSUME UpdateInv, NEW u \in Updater, NEW run \in Run, StagedWhole(run),
         up' = [up EXCEPT ![u] = run], UNCHANGED <<executables, installation, reported>>,
         latest' \in Version
  PROVE  UpdateInv'
<1>1. up' \in [Updater -> Run] /\ \A w \in Updater : StagedWhole(up'[w])
  BY DEF UpdateInv, UpdateTyped
<1>2. (\A w \in Updater : StagedWhole(up[w]))'
  BY <1>1 DEF StagedWhole
<1> QED
  BY <1>1, <1>2 DEF UpdateInv, UpdateTyped, SurvivesPowerLoss, executables, installation

\* What a run is after a step of its own.
LEMMA RunFields ==
  ASSUME UpdateInv, NEW u \in Updater
  PROVE  /\ up[u] \in Run /\ StagedWhole(up[u])
         /\ \A pc \in Pc : /\ [up[u] EXCEPT !.pc = pc] \in Run
                           /\ /\ up[u].pc \notin {"idle", "leave"}
                              /\ pc \in Staged => up[u].candidate.whole
                              => StagedWhole([up[u] EXCEPT !.pc = pc])
<1>1. up[u] \in Run /\ StagedWhole(up[u])
  BY DEF UpdateInv, UpdateTyped
<1>2. ASSUME NEW pc \in Pc
      PROVE  /\ [up[u] EXCEPT !.pc = pc] \in Run
             /\ /\ up[u].pc \notin {"idle", "leave"}
                /\ pc \in Staged => up[u].candidate.whole
                => StagedWhole([up[u] EXCEPT !.pc = pc])
  <2>1. [up[u] EXCEPT !.pc = pc] \in Run
    BY <1>1 DEF Run
  <2>2. /\ [up[u] EXCEPT !.pc = pc].pc = pc
        /\ [up[u] EXCEPT !.pc = pc].helper = up[u].helper
        /\ [up[u] EXCEPT !.pc = pc].candidate = up[u].candidate
    BY <1>1 DEF Run
  <2> QED
    BY <1>1, <2>1, <2>2 DEF StagedWhole
<1> QED
  BY <1>1, <1>2

\* A run starts.
LEMMA EnterKeeps ==
  ASSUME UpdateInv, NEW u \in Updater, NEW pc \in Pc, Enter(u, pc),
         up[u].pc \notin {"idle", "leave"}, pc \in Staged => up[u].candidate.whole,
         UNCHANGED <<executables, installation, reported>>, latest' \in Version
  PROVE  UpdateInv'
<1>1. PICK run \in Run : run = [up[u] EXCEPT !.pc = pc] /\ StagedWhole(run)
  BY RunFields
<1>2. up' = [up EXCEPT ![u] = run]
  BY <1>1 DEF Enter
<1> QED
  BY <1>1, <1>2, UpdaterGoesOn

\* A run ends and leaves what it leaves.
LEMMA GiveKeeps ==
  ASSUME UpdateInv, NEW u \in Updater, NEW pc \in Pc, NEW image \in Image, Give(u, image, pc),
         up[u].pc \in {"fetch", "cargo"},
         pc \in Staged => image.whole,
         UNCHANGED <<executables, installation, reported>>, latest' \in Version
  PROVE  UpdateInv'
<1>1. up[u] \in Run
  BY RunFields
<1>2. PICK run : run = [up[u] EXCEPT !.pc = pc, !.candidate = image, !.exists = TRUE]
  OBVIOUS
<1>3. /\ run \in Run /\ run.pc = pc /\ run.candidate = image /\ run.helper = up[u].helper
  BY <1>1, <1>2 DEF Run
<1>4. StagedWhole(run)
  BY <1>3, RunFields DEF StagedWhole
<1>5. up' = [up EXCEPT ![u] = run]
  BY <1>2 DEF Give
<1> QED
  BY <1>3, <1>4, <1>5, UpdaterGoesOn

\* A command ends.
LEMMA FinishKeeps ==
  ASSUME UpdateInv, NEW u \in Updater, Finish(u),
         UNCHANGED <<executables, installation, reported>>, latest' \in Version
  PROVE  UpdateInv'
BY VersionZero, UpdaterGoesOn DEF Finish

\* The steps that touch no executable.
LEMMA RunSteps ==
  ASSUME UpdateInv, NEW u \in Updater,
         \/ Compare(u) \/ Writable(u) \/ Fetch(u) \/ Checksum(u) \/ Cargo(u) \/ Validate(u)
         \/ CopyStaged(u) \/ SyncStaged(u) \/ Schedule(u) \/ Leave(u) \/ Kill(u)
  PROVE  UpdateInv'
<1>1. up[u] \in Run /\ StagedWhole(up[u]) /\ latest \in Version /\ installed \in Image
  BY RunFields DEF UpdateInv, UpdateTyped
<1>2. {"idle", "writable", "fetch", "checksum", "cargo", "validate", "brew", "copy", "sync",
       "rename", "sync_dir", "schedule", "leave"} = Pc
  BY DEF Pc
<1>3. up[u].pc \in Staged => up[u].candidate.whole
  BY <1>1 DEF StagedWhole
<1>4. CASE Compare(u)
  <2>1. PICK run : run = [NoRun EXCEPT !.own = installed.version, !.want = latest,
                            !.pc = IF method = "homebrew" THEN "brew" ELSE "writable"]
    OBVIOUS
  <2>2. installed.version \in Version
    BY <1>1 DEF Image
  <2>3. run \in Run /\ run.pc \in {"brew", "writable"} /\ run.helper = "none"
    BY <1>1, <1>2, <2>1, <2>2, VersionZero DEF Run, NoRun
  <2>4. StagedWhole(run)
    BY <2>3 DEF StagedWhole, Staged
  <2>5. /\ up' = [up EXCEPT ![u] = run]
        /\ UNCHANGED <<executables, installation, reported>> /\ latest' = latest
    BY <1>4, <2>1 DEF Compare
  <2> QED
    BY <1>1, <2>3, <2>4, <2>5, UpdaterGoesOn
<1>5. CASE Writable(u)
  <2>1. /\ UNCHANGED <<executables, installation, reported>> /\ latest' = latest
        /\ up[u].pc = "writable"
    BY <1>5 DEF Writable, outcomes
  <2>2. ASSUME NEW pc \in {"fetch", "cargo"}, Enter(u, pc) PROVE UpdateInv'
    BY <1>1, <1>2, <2>1, <2>2, EnterKeeps DEF Staged
  <2> QED
    BY <1>1, <1>5, <2>1, <2>2, FinishKeeps DEF Writable
<1>6. CASE Fetch(u)
  <2>1. /\ UNCHANGED <<executables, installation, reported>> /\ latest' = latest
        /\ up[u].pc = "fetch"
    BY <1>6 DEF Fetch, outcomes
  <2>2. ASSUME NEW whole \in BOOLEAN, NEW v \in Version,
               Give(u, [version |-> v, whole |-> whole], "checksum")
        PROVE  UpdateInv'
    <3>1. [version |-> v, whole |-> whole] \in Image
      BY DEF Image
    <3> QED
      BY <1>1, <1>2, <2>1, <2>2, <3>1, GiveKeeps DEF Staged
  <2>3. CASE Enter(u, "cargo")
    BY <1>1, <1>2, <2>1, <2>3, EnterKeeps DEF Staged
  <2> QED
    BY <1>1, <1>6, <2>1, <2>2, <2>3, FinishKeeps DEF Fetch
<1>7. CASE Checksum(u)
  <2>1. /\ UNCHANGED <<executables, installation, reported>> /\ latest' = latest
        /\ up[u].pc = "checksum"
    BY <1>7 DEF Checksum, outcomes
  <2>2. CASE up[u].candidate.whole /\ Enter(u, "validate")
    BY <1>1, <1>2, <2>1, <2>2, EnterKeeps
  <2> QED
    BY <1>1, <1>7, <2>1, <2>2, FinishKeeps DEF Checksum
<1>8. CASE Cargo(u)
  <2>1. /\ UNCHANGED <<executables, installation, reported>> /\ latest' = latest
        /\ up[u].pc = "cargo"
    BY <1>8 DEF Cargo, outcomes
  <2>2. CASE Give(u, [version |-> up[u].want, whole |-> TRUE], "validate")
    <3>1. PICK image : image = [version |-> up[u].want, whole |-> TRUE]
      OBVIOUS
    <3>2. image \in Image /\ image.whole
      BY <1>1, <3>1 DEF Run, Image
    <3> QED
      BY <1>1, <1>2, <2>1, <2>2, <3>1, <3>2, GiveKeeps
  <2> QED
    BY <1>1, <1>8, <2>1, <2>2, FinishKeeps DEF Cargo
<1>9. CASE Validate(u)
  <2>1. /\ UNCHANGED <<executables, installation, reported>> /\ latest' = latest
        /\ up[u].pc = "validate" /\ up[u].candidate.whole
    BY <1>3, <1>9 DEF Validate, outcomes, Staged
  <2>2. ASSUME NEW pc \in {"copy", "schedule"}, Enter(u, pc) PROVE UpdateInv'
    BY <1>1, <1>2, <2>1, <2>2, EnterKeeps
  <2> QED
    BY <1>1, <1>9, <2>1, <2>2, FinishKeeps DEF Validate
<1>10. CASE CopyStaged(u)
  <2>1. /\ UNCHANGED <<executables, installation, reported>> /\ latest' = latest
        /\ up[u].pc = "copy" /\ up[u].candidate.whole
    BY <1>3, <1>10 DEF CopyStaged, outcomes, Staged
  <2>2. CASE Enter(u, "sync")
    BY <1>1, <1>2, <2>1, <2>2, EnterKeeps
  <2> QED
    BY <1>1, <1>10, <2>1, <2>2, FinishKeeps DEF CopyStaged
<1>11. CASE SyncStaged(u)
  <2>1. /\ UNCHANGED <<executables, installation, reported>> /\ latest' = latest
        /\ up[u].pc = "sync" /\ up[u].candidate.whole
    BY <1>3, <1>11 DEF SyncStaged, outcomes, Staged
  <2>2. CASE Enter(u, "rename")
    BY <1>1, <1>2, <2>1, <2>2, EnterKeeps
  <2> QED
    BY <1>1, <1>11, <2>1, <2>2, FinishKeeps DEF SyncStaged
<1>12. CASE Schedule(u)
  <2>1. /\ UNCHANGED <<executables, installation, reported>> /\ latest' = latest
        /\ up[u].pc = "schedule" /\ up[u].candidate.whole
    BY <1>3, <1>12 DEF Schedule, outcomes, Staged
  <2>2. CASE up' = [up EXCEPT ![u].pc = "leave", ![u].helper = "moving"]
    <3>1. PICK run : run = [up[u] EXCEPT !.pc = "leave", !.helper = "moving"]
      OBVIOUS
    <3>2. run \in Run /\ run.pc = "leave" /\ run.candidate = up[u].candidate
      BY <1>1, <1>2, <3>1 DEF Run
    <3>3. StagedWhole(run)
      BY <2>1, <3>2 DEF StagedWhole
    <3>4. up' = [up EXCEPT ![u] = run]
      BY <2>2, <3>1
    <3> QED
      BY <1>1, <2>1, <3>2, <3>3, <3>4, UpdaterGoesOn
  <2> QED
    BY <1>1, <1>12, <2>1, <2>2, FinishKeeps DEF Schedule
<1>13. ASSUME Stop(u), UNCHANGED <<executables, installation, reported>>, latest' = latest
       PROVE  UpdateInv'
  <2>1. PICK run : run = [NoRun EXCEPT !.helper = up[u].helper, !.candidate = up[u].candidate,
                                       !.exists = up[u].exists /\ up[u].helper = "moving"]
    OBVIOUS
  <2>2. run \in Run /\ run.pc = "idle" /\ run.candidate = up[u].candidate /\ run.helper = up[u].helper
    BY <1>1, <1>2, <2>1, VersionZero DEF Run, NoRun
  <2>3. StagedWhole(run)
    BY <1>1, <2>2 DEF StagedWhole, Staged
  <2>4. up' = [up EXCEPT ![u] = run]
    BY <1>13, <2>1 DEF Stop
  <2> QED
    BY <1>1, <1>13, <2>2, <2>3, <2>4, UpdaterGoesOn
<1>14. CASE Leave(u)
  <2>1. /\ UNCHANGED <<executables, installation, reported>> /\ latest' = latest
        /\ up[u].pc = "leave"
    BY <1>14 DEF Leave, outcomes
  <2>2. CASE up' = [up EXCEPT ![u].pc = "idle", ![u].exists = FALSE]
    <3>1. PICK run : run = [up[u] EXCEPT !.pc = "idle", !.exists = FALSE]
      OBVIOUS
    <3>2. run \in Run /\ run.pc = "idle" /\ run.candidate = up[u].candidate
          /\ run.helper = up[u].helper
      BY <1>1, <1>2, <3>1 DEF Run
    <3>3. StagedWhole(run)
      BY <1>1, <2>1, <3>2 DEF StagedWhole, Staged
    <3>4. up' = [up EXCEPT ![u] = run]
      BY <2>2, <3>1
    <3> QED
      BY <1>1, <2>1, <3>2, <3>3, <3>4, UpdaterGoesOn
  <2> QED
    BY <1>13, <1>14, <2>1, <2>2 DEF Leave
<1>15. CASE Kill(u)
  BY <1>13, <1>15 DEF Kill, outcomes
<1> QED
  BY <1>4, <1>5, <1>6, <1>7, <1>8, <1>9, <1>10, <1>11, <1>12, <1>14, <1>15

\* The steps that replace an executable, and the loss of power.
LEMMA ReplacingSteps ==
  ASSUME UpdateInv, NEW u \in Updater, Rename(u) \/ SyncDirectory(u) \/ Brew(u) \/ Move(u)
  PROVE  UpdateInv'
<1>1. /\ up[u] \in Run /\ StagedWhole(up[u]) /\ latest \in Version /\ installed \in Image
      /\ onDisk \in Image /\ up[u].candidate \in Image /\ installed.whole /\ onDisk.whole
  BY RunFields DEF UpdateInv, UpdateTyped, SurvivesPowerLoss, Run
<1>2. {"idle", "writable", "fetch", "checksum", "cargo", "validate", "brew", "copy", "sync",
       "rename", "sync_dir", "schedule", "leave"} = Pc
  BY DEF Pc
<1>3. ASSUME NEW run \in Run, StagedWhole(run), up' = [up EXCEPT ![u] = run], latest' = latest,
             installed' \in Image, onDisk' \in Image, installed'.whole, onDisk'.whole, synced',
             UNCHANGED installation, program = "snip-sync" /\ reported' => onDisk' = installed'
      PROVE  UpdateInv'
  <2>1. up' \in [Updater -> Run] /\ \A w \in Updater : StagedWhole(up'[w])
    BY <1>3 DEF UpdateInv, UpdateTyped
  <2>2. (\A w \in Updater : StagedWhole(up[w]))'
    BY <2>1 DEF StagedWhole
  <2>3. program' = program
    BY <1>3 DEF installation
  <2> QED
    BY <1>1, <1>3, <2>1, <2>2, <2>3 DEF UpdateInv, UpdateTyped, SurvivesPowerLoss
<1>4. program = "snip-sync" /\ reported => onDisk = installed
  BY DEF UpdateInv, SurvivesPowerLoss
<1>5. synced
  BY DEF UpdateInv
<1>6. CASE Rename(u)
  <2>1. /\ UNCHANGED installation /\ latest' = latest
        /\ up[u].pc = "rename" /\ up[u].candidate.whole
    BY <1>1, <1>6 DEF Rename, StagedWhole, Staged
  <2>2. CASE Finish(u) /\ UNCHANGED <<executables, reported>>
    BY <1>1, <2>1, <2>2, FinishKeeps
  <2>3. CASE /\ installed' = up[u].candidate /\ synced' = TRUE /\ UNCHANGED onDisk
             /\ IF program = "snip-sync" THEN Enter(u, "sync_dir") /\ reported' = FALSE
                ELSE Finish(u) /\ reported' = TRUE
    <3>1. PICK run : run = IF program = "snip-sync" THEN [up[u] EXCEPT !.pc = "sync_dir"] ELSE NoRun
      OBVIOUS
    <3>2. run \in Run /\ StagedWhole(run)
      <4>1. [up[u] EXCEPT !.pc = "sync_dir"] \in Run /\ StagedWhole([up[u] EXCEPT !.pc = "sync_dir"])
        BY <1>2, <2>1, RunFields
      <4> QED
        BY <3>1, <4>1, VersionZero
    <3>3. up' = [up EXCEPT ![u] = run]
      BY <2>3, <3>1 DEF Enter, Finish
    <3> QED
      BY <1>1, <1>3, <2>1, <2>3, <3>2, <3>3
  <2> QED
    BY <1>6, <2>2, <2>3 DEF Rename
<1>7. CASE SyncDirectory(u)
  <2>1. /\ UNCHANGED <<installation, installed, synced>> /\ latest' = latest
        /\ up' = [up EXCEPT ![u] = NoRun]
        /\ (onDisk' = installed \/ UNCHANGED <<onDisk, reported>>)
    BY <1>7 DEF SyncDirectory, Finish
  <2>2. /\ onDisk' \in Image /\ onDisk'.whole /\ installed' \in Image /\ installed'.whole
        /\ synced' /\ latest' = latest /\ UNCHANGED installation
    BY <1>1, <1>5, <2>1
  <2>3. program = "snip-sync" /\ reported' => onDisk' = installed'
    BY <1>4, <2>1
  <2> QED
    BY <1>3, <2>1, <2>2, <2>3, VersionZero
<1>8. CASE Brew(u)
  <2>1. /\ UNCHANGED <<installation, reported>> /\ latest' = latest
        /\ up' = [up EXCEPT ![u] = NoRun]
    BY <1>8 DEF Brew, Finish
  <2>2. CASE UNCHANGED <<executables, overlap>>
    <3>1. UNCHANGED <<installed, onDisk, synced>>
      BY <2>2 DEF executables
    <3> QED
      BY <1>1, <1>3, <1>4, <1>5, <2>1, <3>1, VersionZero
  <2>3. CASE installed' = [version |-> latest, whole |-> TRUE] /\ onDisk' = installed' /\ synced' = TRUE
    <3>1. installed' \in Image /\ installed'.whole
      BY <1>1, <2>3 DEF Image
    <3> QED
      BY <1>3, <2>1, <2>3, <3>1, VersionZero
  <2> QED
    BY <1>8, <2>2, <2>3 DEF Brew
<1>9. CASE Move(u)
  <2>1. /\ UNCHANGED installation /\ latest' = latest
        /\ up[u].helper = "moving" /\ up[u].candidate.whole
    BY <1>1, <1>9 DEF Move, StagedWhole
  <2>2. CASE /\ installed' = up[u].candidate /\ onDisk' = up[u].candidate /\ synced' = TRUE
             /\ up' = [up EXCEPT ![u].helper = "none", ![u].exists = FALSE]
    <3>1. PICK run : run = [up[u] EXCEPT !.helper = "none", !.exists = FALSE]
      OBVIOUS
    <3>2. run \in Run /\ run.helper = "none" /\ run.candidate = up[u].candidate
      BY <1>1, <3>1 DEF Run
    <3>3. StagedWhole(run)
      BY <2>1, <3>2 DEF StagedWhole
    <3>4. up' = [up EXCEPT ![u] = run]
      BY <2>2, <3>1
    <3> QED
      BY <1>1, <1>3, <2>1, <2>2, <3>2, <3>3, <3>4
  <2>3. CASE up' = [up EXCEPT ![u].helper = "failed"] /\ UNCHANGED <<executables, reported>>
    <3>1. PICK run : run = [up[u] EXCEPT !.helper = "failed"]
      OBVIOUS
    <3>2. run \in Run /\ run.helper = "failed" /\ run.candidate = up[u].candidate
      BY <1>1, <3>1 DEF Run
    <3>3. StagedWhole(run)
      BY <2>1, <3>2 DEF StagedWhole
    <3>4. up' = [up EXCEPT ![u] = run]
      BY <2>3, <3>1
    <3> QED
      BY <1>1, <2>1, <2>3, <3>2, <3>3, <3>4, UpdaterGoesOn
  <2> QED
    BY <1>9, <2>2, <2>3 DEF Move
<1> QED
  BY <1>6, <1>7, <1>8, <1>9

\* The invariant is inductive, with crashes and power losses at any step.
LEMMA UpdateInvariance == UpdateSpec => []UpdateInv
<1>1. UpdateInit => UpdateInv
  <2> SUFFICES ASSUME UpdateInit PROVE UpdateInv
    OBVIOUS
  <2>1. latest \in Version /\ \A u \in Updater : up[u] = NoRun
    BY VersionZero DEF UpdateInit
  <2>2. installed \in Image /\ onDisk = installed /\ installed.whole
    BY VersionZero DEF UpdateInit, Image
  <2>3. up \in [Updater -> Run]
    BY VersionZero DEF UpdateInit
  <2> QED
    BY <2>1, <2>2, <2>3, VersionZero DEF UpdateInit, UpdateInv, UpdateTyped, SurvivesPowerLoss
<1>2. UpdateInv /\ [UpdateNext]_updateVars => UpdateInv'
  <2> SUFFICES ASSUME UpdateInv, [UpdateNext]_updateVars PROVE UpdateInv'
    OBVIOUS
  <2>1. ASSUME UNCHANGED <<executables, installation, up, reported>>, latest' \in Version
        PROVE  UpdateInv'
    <3>1. (\A w \in Updater : StagedWhole(up[w]))'
      BY <2>1 DEF UpdateInv, StagedWhole
    <3> QED
      BY <2>1, <3>1 DEF UpdateInv, UpdateTyped, SurvivesPowerLoss, executables, installation
  <2>2. CASE Publish
    BY <2>1, <2>2 DEF Publish, outcomes
  <2>3. CASE PowerLoss
    <3>1. /\ installed \in Image /\ onDisk \in Image /\ installed.whole /\ onDisk.whole /\ synced
          /\ latest \in Version
      BY DEF UpdateInv, UpdateTyped, SurvivesPowerLoss
    <3>2. /\ installed' = onDisk \/ installed' = [installed EXCEPT !.whole = @ /\ synced]
          /\ onDisk' = installed' /\ synced' = TRUE /\ latest' = latest
          /\ up' = [u \in Updater |-> NoRun]
      BY <2>3 DEF PowerLoss
    <3>3. [installed EXCEPT !.whole = @ /\ synced] \in Image
          /\ [installed EXCEPT !.whole = @ /\ synced].whole
      BY <3>1 DEF Image
    <3>4. installed' \in Image /\ installed'.whole
      BY <3>1, <3>2, <3>3
    <3>5. up' \in [Updater -> Run] /\ \A w \in Updater : up'[w] = NoRun
      BY <3>2, VersionZero
    <3>6. (\A w \in Updater : StagedWhole(up[w]))'
      BY <3>5, VersionZero DEF StagedWhole
    <3> QED
      BY <3>1, <3>2, <3>4, <3>5, <3>6 DEF UpdateInv, UpdateTyped, SurvivesPowerLoss
  <2>4. ASSUME NEW u \in Updater, Compare(u) \/ Kill(u) PROVE UpdateInv'
    BY <2>4, RunSteps
  <2>5. ASSUME NEW u \in Updater, Step(u) PROVE UpdateInv'
    BY <2>5, RunSteps, ReplacingSteps DEF Step
  <2>6. CASE UNCHANGED updateVars
    BY <2>1, <2>6 DEF updateVars, executables, installation, UpdateInv, UpdateTyped
  <2> QED
    BY <2>2, <2>3, <2>4, <2>5, <2>6 DEF UpdateNext
<1> QED
  BY <1>1, <1>2, PTL DEF UpdateSpec

\* The program that is installed, and the one a loss of power would leave, is
\* whole, and an update of snip-sync that was reported is not undone.
THEOREM ExecutablesSurvive == UpdateSpec => []SurvivesPowerLoss
<1>1. UpdateInv => SurvivesPowerLoss
  BY DEF UpdateInv
<1> QED
  BY <1>1, UpdateInvariance, PTL
---------------------------------------------------------------------------
(* The keys of the payloads *)

\* Every derived key is that of its slot, and every payload was sealed with the
\* key it names.
Derivation(k) == <<k[1], k[2], Params(k[3])>>
KeysInv ==
    /\ apiKey \in ApiKey /\ payloads \subseteq Payload /\ Given \subseteq payloads
    /\ batch \in Salt \cup {0} /\ (syncing => batch \in Salt)
    /\ DOMAIN derived \subseteq ApiKey \X Salt \X Supported
    /\ \A k \in DOMAIN derived : derived[k] = Derivation(k)
    /\ \A p \in payloads : p.intact => p.sealed = <<p.sealed[1], p.salt, Params(p.version)>>
    /\ OpensOwn

\* The key is the one of its API key, salt and version, cached or not.
LEMMA KeyOfSlot ==
  ASSUME KeysInv, NEW salt \in Salt, NEW version \in Supported
  PROVE  /\ KeyFor(salt, version) = <<apiKey, salt, Params(version)>>
         /\ CacheKey(salt, version) \in ApiKey \X Salt \X Supported
         /\ Derivation(CacheKey(salt, version)) = <<apiKey, salt, Params(version)>>
<1>1. apiKey \in ApiKey /\ CacheKey(salt, version) = <<apiKey, salt, version>>
  BY DEF KeysInv, CacheKey
<1>2. Derivation(CacheKey(salt, version)) = <<apiKey, salt, Params(version)>>
  BY <1>1 DEF Derivation
<1>3. KeyFor(salt, version) = <<apiKey, salt, Params(version)>>
  BY <1>2 DEF KeyFor, KeysInv
<1> QED
  BY <1>1, <1>2, <1>3

\* The cache stays right, whatever it evicts.
LEMMA CacheKept ==
  ASSUME KeysInv, NEW salt \in Salt, NEW version \in Supported, Cached(salt, version)
  PROVE  /\ DOMAIN derived' \subseteq ApiKey \X Salt \X Supported
         /\ \A k \in DOMAIN derived' : derived'[k] = Derivation(k)
<1> DEFINE slot == CacheKey(salt, version)
<1>1. /\ KeyFor(salt, version) = Derivation(slot) /\ slot \in ApiKey \X Salt \X Supported
  BY KeyOfSlot
<1>2. /\ DOMAIN derived \subseteq ApiKey \X Salt \X Supported
      /\ \A k \in DOMAIN derived : derived[k] = Derivation(k)
  BY DEF KeysInv
<1>3. CASE UNCHANGED derived
  BY <1>2, <1>3
<1>4. ASSUME NEW E, derived' = [j \in (DOMAIN derived \ E) \cup {slot} |->
                                  IF j = slot THEN KeyFor(salt, version) ELSE derived[j]]
      PROVE  /\ DOMAIN derived' \subseteq ApiKey \X Salt \X Supported
             /\ \A k \in DOMAIN derived' : derived'[k] = Derivation(k)
  <2> HIDE DEF slot
  <2> QED
    BY <1>1, <1>2, <1>4
<1> QED
  BY <1>3, <1>4 DEF Cached

\* A payload is sealed with the key of the sync's salt.
LEMMA EncryptStep ==
  ASSUME KeysInv, Encrypt
  PROVE  KeysInv'
<1>1. batch \in Salt /\ 1 \in Supported /\ apiKey \in ApiKey
  BY DEF KeysInv, Encrypt, Supported
<1>2. PICK p : p = [version |-> 1, salt |-> batch, sealed |-> KeyFor(batch, 1), long |-> TRUE,
                    intact |-> TRUE]
  OBVIOUS
<1>3. KeyFor(batch, 1) = <<apiKey, batch, Params(1)>>
  BY <1>1, KeyOfSlot
<1>4. /\ p.sealed = <<apiKey, batch, Params(1)>> /\ p.salt = batch /\ p.version = 1
      /\ p.sealed = <<p.sealed[1], p.salt, Params(p.version)>>
  BY <1>2, <1>3
<1>5. p \in Payload
  <2>1. Params(1) = "current"
    BY DEF Params, Supported
  <2> QED
    BY <1>1, <1>2, <1>3, <2>1 DEF Payload
<1>6. payloads' = payloads \cup {p} /\ UNCHANGED <<apiKey, syncing, batch, opened>>
  BY <1>2 DEF Encrypt
<1>7. /\ DOMAIN derived' \subseteq ApiKey \X Salt \X Supported
      /\ \A k \in DOMAIN derived' : derived'[k] = Derivation(k)
  BY <1>1, CacheKept DEF Encrypt
<1>8. \A q \in payloads' : q.intact => q.sealed = <<q.sealed[1], q.salt, Params(q.version)>>
  BY <1>4, <1>6 DEF KeysInv
<1>9. OpensOwn'
  BY <1>4, <1>6 DEF KeysInv, OpensOwn
<1> QED
  BY <1>5, <1>6, <1>7, <1>8, <1>9 DEF KeysInv

\* A payload is opened with the key that its header names, cached or derived.
LEMMA DecryptStep ==
  ASSUME KeysInv, NEW p \in payloads, Decrypt(p)
  PROVE  KeysInv'
<1>1. p \in Payload /\ apiKey \in ApiKey /\ p.salt \in Salt
  BY DEF KeysInv, Payload
<1>2. UNCHANGED <<apiKey, payloads, syncing, batch>>
  BY DEF Decrypt
<1>3. \A q \in payloads \ Given : q.sealed = <<q.sealed[1], q.salt, Params(q.version)>>
  BY DEF KeysInv, OpensOwn
<1>4. CASE /\ p.version \notin Supported \/ ~p.long
           /\ opened' = [api |-> apiKey, payload |-> p, result |-> "refused"]
           /\ UNCHANGED derived
  <2>1. opened'.result = "refused" /\ opened'.payload = p
    BY <1>4
  <2>2. OpensOwn'
    BY <1>2, <1>3, <1>4, <2>1 DEF OpensOwn
  <2> QED
    BY <1>2, <1>4, <2>2 DEF KeysInv
<1>5. CASE /\ p.version \in Supported /\ p.long
           /\ opened' = [api |-> apiKey, payload |-> p,
                         result |-> IF p.intact /\ KeyFor(p.salt, p.version) = p.sealed
                                    THEN "text" ELSE "failed"]
           /\ Cached(p.salt, p.version)
  <2>1. KeyFor(p.salt, p.version) = <<apiKey, p.salt, Params(p.version)>>
    BY <1>1, <1>5, KeyOfSlot
  <2>2. p.intact => p.sealed = <<p.sealed[1], p.salt, Params(p.version)>>
    BY DEF KeysInv
  <2>3. /\ opened'.api = apiKey /\ opened'.payload = p
        /\ opened'.result = "text" <=> p.intact /\ KeyFor(p.salt, p.version) = p.sealed
    BY <1>5
  <2>4. p.intact => (KeyFor(p.salt, p.version) = p.sealed <=> p.sealed[1] = apiKey)
    BY <2>1, <2>2
  <2>5. OpensOwn'
    BY <1>2, <1>3, <1>5, <2>3, <2>4 DEF OpensOwn
  <2>6. /\ DOMAIN derived' \subseteq ApiKey \X Salt \X Supported
        /\ \A k \in DOMAIN derived' : derived'[k] = Derivation(k)
    BY <1>1, <1>5, CacheKept
  <2> QED
    BY <1>2, <2>5, <2>6 DEF KeysInv
<1> QED
  BY <1>4, <1>5 DEF Decrypt

\* The invariant is inductive, whatever the cache forgets.
LEMMA KeysInvariance == KeysSpec => []KeysInv
<1>1. KeysInit => KeysInv
  <2> SUFFICES ASSUME KeysInit PROVE KeysInv
    OBVIOUS
  <2>1. \A p \in Given : p \in Payload /\ (p.intact => p.sealed = <<p.sealed[1], p.salt, Params(p.version)>>)
    <3> SUFFICES ASSUME NEW p \in Given, p.intact
                 PROVE  p.sealed = <<p.sealed[1], p.salt, Params(p.version)>>
      BY KeysAssumption
    <3>1. p.sealed \in ApiKey \X Salt \X {"current", "unknown"}
      BY KeysAssumption DEF Payload
    <3>2. p.sealed[2] = p.salt /\ p.sealed[3] = Params(p.version)
      BY KeysAssumption
    <3> QED
      BY <3>1, <3>2
  <2>2. OpensOwn
    BY DEF KeysInit, OpensOwn, NotOpened
  <2> QED
    BY <2>1, <2>2, KeysAssumption DEF KeysInit, KeysInv
<1>2. KeysInv /\ [KeysNext]_keyVars => KeysInv'
  <2> SUFFICES ASSUME KeysInv, [KeysNext]_keyVars PROVE KeysInv'
    OBVIOUS
  <2>1. CASE StartSync
    BY <2>1 DEF KeysInv, StartSync, OpensOwn
  <2>2. CASE Encrypt
    BY <2>2, EncryptStep
  <2>3. CASE EndSync
    BY <2>3 DEF KeysInv, EndSync, OpensOwn
  <2>4. CASE NewKey
    BY <2>4 DEF KeysInv, NewKey, OpensOwn
  <2>5. ASSUME NEW p \in payloads, Decrypt(p) PROVE KeysInv'
    BY <2>5, DecryptStep
  <2>6. CASE UNCHANGED keyVars
    BY <2>6 DEF KeysInv, keyVars, OpensOwn
  <2> QED
    BY <2>1, <2>2, <2>3, <2>4, <2>5, <2>6 DEF KeysNext
<1> QED
  BY <1>1, <1>2, PTL DEF KeysSpec

\* A payload opens exactly if it is whole, of a version that is read, and sealed
\* with the API key, however full the cache of keys was.
THEOREM EveryPayloadOpens == KeysSpec => []OpensOwn
<1>1. KeysInv => OpensOwn
  BY DEF KeysInv
<1> QED
  BY <1>1, KeysInvariance, PTL
---------------------------------------------------------------------------
(* The cache of files *)

Stage == {"idle", "open", "read", "check", "done", "failed"}
ReadState == [at : Stage, path : Path, tries : 0..2, file : (Path \X Nat) \cup {<<>>},
              stamp : Nat, pieces : Seq(Nat), current : SUBSET Nat]

\* Files only get newer, and no two paths share one.
FilesKept == /\ DOMAIN inodes \subseteq Path \X Nat /\ writes \in Nat
             /\ \A f \in DOMAIN inodes : inodes[f] \in 0..writes
             /\ names \in [Path -> DOMAIN inodes] /\ \A p \in Path : names[p][1] = p

\* What is cached was one content of its file.
EntriesWhole == \A p \in DOMAIN cached : /\ cached[p].stamp \in Nat
                                         /\ cached[p].content = <<cached[p].stamp, cached[p].stamp>>

\* What was read so far lies between what the file held when it was opened and
\* what it holds now.
Between(read, n) == n \in Nat /\ read.stamp <= n /\ n <= inodes[read.file]
ReadSound(read) ==
    /\ read.at \in {"open", "read", "check"} => inodes[names[read.path]] \in read.current
    /\ read.at \in {"read", "check"} =>
         read.file \in DOMAIN inodes /\ read.stamp \in read.current
           /\ read.stamp <= inodes[read.file]
    /\ read.at = "read" =>
         read.pieces = <<>> \/ \E a \in Nat : read.pieces = <<a>> /\ Between(read, a)
    /\ read.at = "check" =>
         \E a, b \in Nat : read.pieces = <<a, b>> /\ Between(read, a) /\ Between(read, b)
    /\ read.at = "done" => \E n \in read.current : read.pieces = <<n, n>>

CacheInv == /\ FilesKept /\ EntriesWhole /\ reads \in [Reader -> ReadState]
            /\ \A r \in Reader : ReadSound(reads[r])

\* A second piece after the first.
LEMMA OneAndOne == ASSUME NEW a \in Nat, NEW n \in Nat PROVE Append(<<a>>, n) = <<a, n>>
<1>1. <<a>> \in Seq(Nat) /\ Len(<<a>>) = 1 /\ <<a>>[1] = a
  OBVIOUS
<1>2. <<a, n>> \in Seq(Nat) /\ Len(<<a, n>>) = 2 /\ <<a, n>>[1] = a /\ <<a, n>>[2] = n
  OBVIOUS
<1> DEFINE one == <<a>>
           two == <<a, n>>
<1> HIDE DEF one, two
<1>3. /\ Append(one, n) \in Seq(Nat) /\ Len(Append(one, n)) = Len(one) + 1
      /\ \A i \in 1..Len(one) : Append(one, n)[i] = one[i]
      /\ Append(one, n)[Len(one) + 1] = n
  BY <1>1, AppendProperties DEF one
<1>4. Len(one) = 1 /\ one[1] = a /\ two \in Seq(Nat) /\ Len(two) = 2 /\ two[1] = a /\ two[2] = n
  BY <1>1, <1>2 DEF one, two
<1>5. Append(one, n)[1] = a /\ Append(one, n)[2] = n /\ Len(Append(one, n)) = 2
  BY <1>3, <1>4
<1>6. \A i \in 1..2 : i = 1 \/ i = 2
  OBVIOUS
<1>7. Append(one, n) = two
  BY <1>3, <1>4, <1>5, <1>6, SeqEqual
<1> QED
  BY <1>7 DEF one, two

\* A call that does not run is one that may run.
LEMMA NoReadTyped == NoRead \in ReadState /\ NoRead.at = "idle"
<1>1. (CHOOSE p \in Path : TRUE) \in Path
  BY CacheAssumption
<1>2. <<>> \in Seq(Nat)
  OBVIOUS
<1> QED
  BY <1>1, <1>2 DEF NoRead, ReadState, Stage

\* The files as they are first, with nothing cached.
LEMMA CacheStart == CacheInit => CacheInv
<1> SUFFICES ASSUME CacheInit PROVE CacheInv
  OBVIOUS
<1>1. FilesKept
  BY DEF CacheInit, FilesKept
<1>2. EntriesWhole
  BY DEF CacheInit, EntriesWhole
<1>3. reads \in [Reader -> ReadState] /\ \A r \in Reader : reads[r].at = "idle"
  BY NoReadTyped DEF CacheInit
<1> QED
  BY <1>1, <1>2, <1>3 DEF CacheInv, ReadSound

\* One call goes on, in files that stay as they are.
LEMMA OneReads ==
  ASSUME CacheInv, NEW r \in Reader, NEW read \in ReadState, UNCHANGED <<inodes, names, writes>>,
         reads' = [reads EXCEPT ![r] = read], ReadSound(read), EntriesWhole'
  PROVE  CacheInv'
<1>1. reads' \in [Reader -> ReadState]
  BY DEF CacheInv
<1>2. \A s \in Reader : ReadSound(reads'[s])
  BY DEF CacheInv
<1>3. \A s \in Reader : ReadSound(reads[s])'
  BY <1>2 DEF ReadSound, Between
<1> QED
  BY <1>1, <1>3 DEF CacheInv, FilesKept

\* A call takes what is cached, if it is what the path holds now, or opens the file.
LEMMA CallKept ==
  ASSUME CacheInv, NEW r \in Reader, NEW p \in Path, Call(r, p)
  PROVE  CacheInv'
<1>1. PICK now : now = [NoRead EXCEPT !.path = p, !.tries = 2, !.current = {inodes[names[p]]}]
  OBVIOUS
<1>2. inodes[names[p]] \in Nat
  BY DEF CacheInv, FilesKept
<1>3. now \in ReadState /\ now.path = p /\ now.current = {inodes[names[p]]}
  <2>1. PICK none : none = NoRead /\ none \in ReadState
    BY NoReadTyped
  <2>2. PICK current : current = {inodes[names[p]]} /\ current \in SUBSET Nat
    BY <1>2
  <2>3. now = [none EXCEPT !.path = p, !.tries = 2, !.current = current]
    BY <1>1, <2>1, <2>2
  <2>4. DOMAIN none = {"at", "path", "tries", "file", "stamp", "pieces", "current"}
    BY <2>1 DEF ReadState
  <2>5. now.path = p /\ now.current = current
    BY <2>3, <2>4
  <2>6. now \in ReadState
    <3>1. 2 \in 0..2
      OBVIOUS
    <3> QED
      BY <2>1, <2>2, <2>3, <3>1 DEF ReadState
  <2> QED
    BY <2>2, <2>5, <2>6
<1>4. EntriesWhole' /\ UNCHANGED <<inodes, names, writes>>
  BY DEF Call, CacheInv, EntriesWhole
<1>5. CASE Hit(p)
  <2>1. PICK read : read = [now EXCEPT !.at = "done", !.pieces = cached[p].content]
    OBVIOUS
  <2>2. reads' = [reads EXCEPT ![r] = read]
    BY <1>1, <1>5, <2>1 DEF Call
  <2>3. cached[p].content = <<inodes[names[p]], inodes[names[p]]>>
    BY <1>5 DEF Hit, CacheInv, EntriesWhole
  <2>4. read.at = "done" /\ read.pieces = cached[p].content /\ read.current = {inodes[names[p]]}
    BY <1>3, <2>1 DEF ReadState
  <2>5. read \in ReadState
    <3>1. cached[p].content \in Seq(Nat) /\ "done" \in Stage
      BY <1>2, <2>3 DEF Stage
    <3> QED
      BY <1>3, <2>1, <3>1 DEF ReadState
  <2>6. ReadSound(read)
    BY <2>3, <2>4 DEF ReadSound
  <2> QED
    BY <1>4, <2>2, <2>5, <2>6, OneReads
<1>6. CASE ~Hit(p)
  <2>1. PICK read : read = [now EXCEPT !.at = "open"]
    OBVIOUS
  <2>2. reads' = [reads EXCEPT ![r] = read]
    BY <1>1, <1>6, <2>1 DEF Call
  <2>3. read \in ReadState /\ read.at = "open" /\ read.path = p /\ read.current = now.current
    BY <1>3, <2>1 DEF ReadState, Stage
  <2>4. ReadSound(read)
    BY <1>3, <2>3 DEF ReadSound
  <2> QED
    BY <1>4, <2>2, <2>3, <2>4, OneReads
<1> QED
  BY <1>5, <1>6

\* The file that is opened is the one the path names at that moment.
LEMMA OpenKept == ASSUME CacheInv, NEW r \in Reader, OpenFile(r) PROVE CacheInv'
<1>1. PICK old : old = reads[r]
  OBVIOUS
<1>2. old \in ReadState /\ ReadSound(old) /\ old.at = "open"
  BY <1>1 DEF CacheInv, OpenFile
<1>3. EntriesWhole' /\ UNCHANGED <<inodes, names, writes>> /\ reads \in [Reader -> ReadState]
  BY DEF OpenFile, CacheInv, EntriesWhole
<1>4. /\ names[old.path] \in DOMAIN inodes /\ names[old.path] \in Path \X Nat
      /\ inodes[names[old.path]] \in Nat /\ inodes[names[old.path]] \in old.current
  BY <1>2 DEF CacheInv, FilesKept, ReadState, ReadSound
<1>5. CASE old.tries = 0
  <2>1. PICK read : read = [old EXCEPT !.at = "failed"]
    OBVIOUS
  <2>2. reads' = [reads EXCEPT ![r] = read]
    BY <1>1, <1>3, <1>5, <2>1 DEF OpenFile
  <2>3. read \in ReadState /\ ReadSound(read)
    BY <1>2, <2>1 DEF ReadState, ReadSound, Stage
  <2> QED
    BY <1>3, <2>2, <2>3, OneReads
<1>6. CASE old.tries # 0
  <2>1. PICK read : read = [old EXCEPT !.at = "read", !.tries = @ - 1, !.pieces = <<>>,
                                       !.file = names[old.path],
                                       !.stamp = inodes[names[old.path]]]
    OBVIOUS
  <2>2. reads' = [reads EXCEPT ![r] = read]
    <3>1. reads' = [reads EXCEPT ![r] =
                      [reads[r] EXCEPT !.at = "read", !.tries = @ - 1, !.pieces = <<>>,
                                       !.file = names[reads[r].path],
                                       !.stamp = inodes[names[reads[r].path]]]]
      BY <1>1, <1>6 DEF OpenFile
    <3> QED
      BY <1>1, <2>1, <3>1
  <2>3. /\ read.at = "read" /\ read.pieces = <<>> /\ read.file = names[old.path]
        /\ read.path = old.path /\ read.stamp = inodes[names[old.path]]
        /\ read.current = old.current
    BY <1>2, <2>1 DEF ReadState
  <2>4. read \in ReadState
    <3>1. old.tries - 1 \in 0..2 /\ <<>> \in Seq(Nat) /\ "read" \in Stage
      BY <1>2, <1>6 DEF ReadState, Stage
    <3> QED
      BY <1>2, <1>4, <2>1, <3>1 DEF ReadState
  <2>5. ReadSound(read)
    BY <1>4, <2>3 DEF ReadSound
  <2> QED
    BY <1>3, <2>2, <2>4, <2>5, OneReads
<1> QED
  BY <1>5, <1>6

\* A piece is what the open file holds now: nothing older than its time at the open.
LEMMA PieceKept == ASSUME CacheInv, NEW r \in Reader, ReadPiece(r) PROVE CacheInv'
<1>1. PICK old : old = reads[r]
  OBVIOUS
<1>2. old \in ReadState /\ ReadSound(old) /\ old.at = "read"
  BY <1>1 DEF CacheInv, ReadPiece
<1>3. EntriesWhole' /\ UNCHANGED <<inodes, names, writes>> /\ reads \in [Reader -> ReadState]
  BY DEF ReadPiece, CacheInv, EntriesWhole
<1>4. PICK read : read = [old EXCEPT !.pieces = Append(@, inodes[old.file]),
                                     !.at = IF Len(old.pieces) = 1 THEN "check" ELSE "read"]
  OBVIOUS
<1>5. reads' = [reads EXCEPT ![r] = read]
  BY <1>1, <1>3, <1>4 DEF ReadPiece
<1>6. inodes[old.file] \in Nat /\ old.file \in DOMAIN inodes /\ old.stamp <= inodes[old.file]
  BY <1>2 DEF CacheInv, FilesKept, ReadSound
<1>7. read \in ReadState
  <2>1. old.pieces \in Seq(Nat) /\ Append(old.pieces, inodes[old.file]) \in Seq(Nat)
    BY <1>2, <1>6 DEF ReadState
  <2> QED
    BY <1>2, <1>4, <2>1 DEF ReadState, Stage
<1>8. /\ read.path = old.path /\ read.file = old.file /\ read.stamp = old.stamp
      /\ read.current = old.current /\ read.pieces = Append(old.pieces, inodes[old.file])
      /\ read.at = IF Len(old.pieces) = 1 THEN "check" ELSE "read"
  BY <1>2, <1>4 DEF ReadState
<1>9. ReadSound(read)
  <2>1. CASE old.pieces = <<>>
    <3>1. read.at = "read" /\ read.pieces = <<inodes[old.file]>>
      BY <1>8, <2>1
    <3>2. Between(read, inodes[old.file])
      BY <1>6, <1>8 DEF Between
    <3> QED
      BY <1>2, <1>6, <1>8, <3>1, <3>2 DEF ReadSound
  <2>2. ASSUME NEW a \in Nat, old.pieces = <<a>>, Between(old, a)
        PROVE  ReadSound(read)
    <3>1. read.at = "check" /\ read.pieces = <<a, inodes[old.file]>>
      <4>1. Len(old.pieces) = 1
        BY <2>2
      <4>2. PICK n \in Nat : n = inodes[old.file]
        BY <1>6
      <4>3. Append(<<a>>, n) = <<a, n>>
        BY OneAndOne
      <4> QED
        BY <1>8, <2>2, <4>1, <4>2, <4>3
    <3>2. Between(read, inodes[old.file]) /\ Between(read, a)
      BY <1>6, <1>8, <2>2 DEF Between
    <3> QED
      BY <1>2, <1>6, <1>8, <3>1, <3>2 DEF ReadSound
  <2> QED
    BY <1>2, <2>1, <2>2 DEF ReadSound
<1> QED
  BY <1>3, <1>5, <1>7, <1>9, OneReads

\* If the time has not moved, neither has what was read: both pieces are of it.
LEMMA CheckKept == ASSUME CacheInv, NEW r \in Reader, CheckStamp(r) PROVE CacheInv'
<1>1. PICK old : old = reads[r]
  OBVIOUS
<1>2. old \in ReadState /\ ReadSound(old) /\ old.at = "check"
  BY <1>1 DEF CacheInv, CheckStamp
<1>3. UNCHANGED <<inodes, names, writes>> /\ reads \in [Reader -> ReadState]
  BY DEF CheckStamp, CacheInv
<1>4. CASE inodes[old.file] = old.stamp
  <2>1. PICK a \in Nat, b \in Nat : old.pieces = <<a, b>> /\ Between(old, a) /\ Between(old, b)
    BY <1>2 DEF ReadSound
  <2>2. a = old.stamp /\ b = old.stamp /\ old.stamp \in Nat
    BY <1>2, <1>4, <2>1 DEF Between, ReadState
  <2>3. old.pieces = <<old.stamp, old.stamp>> /\ old.stamp \in old.current
    BY <1>2, <2>1, <2>2 DEF ReadSound
  <2>4. PICK read : read = [old EXCEPT !.at = "done"]
    OBVIOUS
  <2>5. reads' = [reads EXCEPT ![r] = read]
    <3>1. Return(r, old.pieces)
      BY <1>1, <1>4 DEF CheckStamp
    <3> QED
      BY <1>1, <1>2, <1>3, <2>4, <3>1 DEF Return, ReadState
  <2>6. read \in ReadState /\ ReadSound(read)
    BY <1>2, <2>3, <2>4 DEF ReadState, ReadSound, Stage
  <2>7. EntriesWhole'
    <3>1. Store(old)
      BY <1>1, <1>4 DEF CheckStamp
    <3>2. PICK kept : /\ kept \subseteq DOMAIN cached
                      /\ cached' = [q \in kept \cup {old.path} |->
                                      IF q = old.path
                                      THEN [file |-> old.file, stamp |-> old.stamp,
                                            content |-> old.pieces]
                                      ELSE cached[q]]
      BY <3>1 DEF Store
    <3>3. SUFFICES ASSUME NEW q \in DOMAIN cached'
                   PROVE  /\ cached'[q].stamp \in Nat
                          /\ cached'[q].content = <<cached'[q].stamp, cached'[q].stamp>>
      BY DEF EntriesWhole
    <3>4. CASE q = old.path
      <4>1. cached'[q] = [file |-> old.file, stamp |-> old.stamp, content |-> old.pieces]
        BY <3>2, <3>4
      <4> QED
        BY <2>2, <2>3, <4>1
    <3>5. CASE q # old.path
      <4>1. cached'[q] = cached[q] /\ q \in DOMAIN cached
        BY <3>2, <3>5
      <4> QED
        BY <4>1 DEF CacheInv, EntriesWhole
    <3> QED
      BY <3>4, <3>5
  <2> QED
    BY <1>3, <2>5, <2>6, <2>7, OneReads
<1>5. CASE inodes[old.file] # old.stamp
  <2>1. PICK read : read = [old EXCEPT !.at = "open"]
    OBVIOUS
  <2>2. reads' = [reads EXCEPT ![r] = read] /\ EntriesWhole'
    BY <1>1, <1>3, <1>5, <2>1 DEF CheckStamp, CacheInv, EntriesWhole
  <2>3. read \in ReadState /\ ReadSound(read)
    BY <1>2, <2>1 DEF ReadState, ReadSound, Stage
  <2> QED
    BY <1>3, <2>2, <2>3, OneReads
<1> QED
  BY <1>4, <1>5

\* A call is given back to its caller.
LEMMA ForgetKept == ASSUME CacheInv, NEW r \in Reader, Forget(r) PROVE CacheInv'
<1>1. reads' = [reads EXCEPT ![r] = NoRead] /\ UNCHANGED <<inodes, names, writes>>
  BY DEF Forget
<1>2. EntriesWhole'
  BY DEF Forget, CacheInv, EntriesWhole
<1>3. ReadSound(NoRead)
  BY NoReadTyped DEF ReadSound
<1> QED
  BY <1>1, <1>2, <1>3, NoReadTyped, OneReads

\* A write, in place or to a new file: what a call has read stays between, and
\* a call of that path may give what it leaves.
LEMMA AnyWriteKept ==
  ASSUME CacheInv, NEW p \in Path, writes' = writes + 1, UNCHANGED cached, Witnessed(p),
         DOMAIN inodes \subseteq DOMAIN inodes', FilesKept',
         \A f \in DOMAIN inodes : inodes'[f] \in {inodes[f], writes'},
         inodes'[names'[p]] = writes',
         \A q \in Path \ {p} : names'[q] = names[q] /\ inodes'[names[q]] = inodes[names[q]]
  PROVE  CacheInv'
<1>1. writes \in Nat /\ writes' \in Nat /\ writes' = writes + 1
  BY DEF CacheInv, FilesKept
<1>2. \A f \in DOMAIN inodes : /\ inodes[f] \in Nat /\ inodes'[f] \in Nat
                               /\ inodes[f] <= inodes'[f]
  <2> SUFFICES ASSUME NEW f \in DOMAIN inodes
               PROVE  inodes[f] \in Nat /\ inodes'[f] \in Nat /\ inodes[f] <= inodes'[f]
    OBVIOUS
  <2>1. inodes[f] \in 0..writes /\ (inodes'[f] = inodes[f] \/ inodes'[f] = writes')
    BY DEF CacheInv, FilesKept
  <2> QED
    BY <1>1, <2>1
<1>3. EntriesWhole'
  BY DEF CacheInv, EntriesWhole
<1>4. ASSUME NEW r \in Reader PROVE reads'[r] \in ReadState /\ ReadSound(reads[r])'
  <2>1. PICK old : old = reads[r]
    OBVIOUS
  <2>2. old \in ReadState /\ ReadSound(old)
    BY <2>1 DEF CacheInv
  <2>3. PICK read : read = reads'[r]
    OBVIOUS
  <2>4. read = IF old.at \in {"open", "read", "check"} /\ old.path = p
               THEN [old EXCEPT !.current = @ \cup {writes'}] ELSE old
    BY <2>1, <2>3 DEF Witnessed
  <2>5. /\ read.at = old.at /\ read.path = old.path /\ read.file = old.file
        /\ read.stamp = old.stamp /\ read.pieces = old.pieces
        /\ old.current \subseteq read.current /\ read \in ReadState
        /\ old.at \in {"open", "read", "check"} /\ old.path = p => writes' \in read.current
    BY <1>1, <2>2, <2>4 DEF ReadState
  <2>6. old.at \in {"open", "read", "check"} => inodes'[names'[read.path]] \in read.current
    BY <2>2, <2>5 DEF ReadSound, ReadState
  <2>7. ASSUME NEW n \in Nat, old.file \in DOMAIN inodes, Between(old, n)
        PROVE  n <= inodes'[read.file] /\ read.stamp <= n
    <3>1. old.stamp <= n /\ n <= inodes[old.file] /\ read.file = old.file /\ read.stamp = old.stamp
      BY <2>5, <2>7 DEF Between
    <3>2. inodes[old.file] <= inodes'[old.file] /\ inodes[old.file] \in Nat /\ inodes'[old.file] \in Nat
      BY <1>2, <2>7
    <3> QED
      BY <3>1, <3>2
  <2>8. old.at \in {"read", "check"} =>
          /\ read.file \in DOMAIN inodes' /\ read.stamp \in read.current
          /\ read.stamp <= inodes'[read.file]
    <3> SUFFICES ASSUME old.at \in {"read", "check"}
                 PROVE  /\ read.file \in DOMAIN inodes' /\ read.stamp \in read.current
                        /\ read.stamp <= inodes'[read.file]
      OBVIOUS
    <3>1. old.file \in DOMAIN inodes /\ old.stamp \in old.current /\ old.stamp <= inodes[old.file]
      BY <2>2 DEF ReadSound
    <3>2. inodes[old.file] <= inodes'[old.file] /\ inodes[old.file] \in Nat /\ inodes'[old.file] \in Nat
          /\ old.stamp \in Nat
      BY <1>2, <2>2, <3>1 DEF ReadState
    <3>3. old.stamp <= inodes'[old.file]
      BY <3>1, <3>2
    <3> QED
      BY <2>5, <3>1, <3>3
  <2>9. old.at = "read" =>
          \/ read.pieces = <<>>
          \/ \E a \in Nat : read.pieces = <<a>> /\ a <= inodes'[read.file] /\ read.stamp <= a
    BY <2>2, <2>5, <2>7 DEF ReadSound
  <2>10. old.at = "check" =>
          \E a, b \in Nat : /\ read.pieces = <<a, b>>
                            /\ a <= inodes'[read.file] /\ read.stamp <= a
                            /\ b <= inodes'[read.file] /\ read.stamp <= b
    BY <2>2, <2>5, <2>7 DEF ReadSound
  <2>11. ReadSound(read)'
    BY <2>2, <2>5, <2>6, <2>8, <2>9, <2>10 DEF ReadSound, Between
  <2> QED
    BY <2>3, <2>5, <2>11
<1>5. reads' \in [Reader -> ReadState]
  <2>1. DOMAIN reads' = Reader /\ reads' = [r \in Reader |-> reads'[r]]
    BY DEF Witnessed
  <2> QED
    BY <1>4, <2>1
<1> QED
  BY <1>3, <1>4, <1>5 DEF CacheInv

\* A new file takes the name; the one before it stays open where it is.
LEMMA ReplaceKept == ASSUME CacheInv, NEW p \in Path, Replace(p) PROVE CacheInv'
<1>1. PICK new : new = <<p, writes'>>
  OBVIOUS
<1>2. writes \in Nat /\ writes' = writes + 1 /\ writes' \in Nat
  BY DEF CacheInv, FilesKept, Replace
<1>3. new \in Path \X Nat /\ new[1] = p
  BY <1>1, <1>2
<1>4. /\ inodes' = [f \in DOMAIN inodes \cup {new} |-> IF f = new THEN writes' ELSE inodes[f]]
      /\ names' = [names EXCEPT ![p] = new] /\ Witnessed(p) /\ UNCHANGED cached
  BY <1>1 DEF Replace
<1>5. /\ DOMAIN inodes \subseteq Path \X Nat /\ \A f \in DOMAIN inodes : inodes[f] \in 0..writes
      /\ names \in [Path -> DOMAIN inodes] /\ \A q \in Path : names[q][1] = q
  BY DEF CacheInv, FilesKept
<1>6. /\ DOMAIN inodes' = DOMAIN inodes \cup {new} /\ inodes'[new] = writes'
      /\ \A f \in DOMAIN inodes : inodes'[f] \in {inodes[f], writes'}
      /\ \A f \in DOMAIN inodes \ {new} : inodes'[f] = inodes[f]
  BY <1>4
<1>7. FilesKept'
  <2>1. \A f \in DOMAIN inodes' : inodes'[f] \in 0..writes'
    BY <1>2, <1>5, <1>6
  <2>2. names' \in [Path -> DOMAIN inodes'] /\ \A q \in Path : names'[q][1] = q
    BY <1>3, <1>4, <1>5, <1>6
  <2> QED
    BY <1>2, <1>3, <1>5, <1>6, <2>1, <2>2 DEF FilesKept
<1>8. \A q \in Path \ {p} : names'[q] = names[q] /\ inodes'[names[q]] = inodes[names[q]]
  <2>1. \A q \in Path \ {p} : names'[q] = names[q] /\ names[q] \in DOMAIN inodes /\ names[q][1] # p
    BY <1>4, <1>5
  <2> QED
    BY <1>3, <1>6, <2>1
<1>9. inodes'[names'[p]] = writes'
  BY <1>4, <1>5, <1>6
<1> QED
  BY <1>2, <1>4, <1>6, <1>7, <1>8, <1>9, AnyWriteKept

\* A file is rewritten where it is; no other path names it.
LEMMA RewriteKept == ASSUME CacheInv, NEW p \in Path, Rewrite(p) PROVE CacheInv'
<1>1. writes \in Nat /\ writes' = writes + 1 /\ writes' \in Nat
  BY DEF CacheInv, FilesKept, Rewrite
<1>2. /\ inodes' = [inodes EXCEPT ![names[p]] = writes'] /\ Witnessed(p)
      /\ UNCHANGED <<names, cached>>
  BY DEF Rewrite
<1>3. /\ DOMAIN inodes \subseteq Path \X Nat /\ \A f \in DOMAIN inodes : inodes[f] \in 0..writes
      /\ names \in [Path -> DOMAIN inodes] /\ \A q \in Path : names[q][1] = q
  BY DEF CacheInv, FilesKept
<1>4. /\ DOMAIN inodes' = DOMAIN inodes /\ inodes'[names[p]] = writes'
      /\ \A f \in DOMAIN inodes : inodes'[f] \in {inodes[f], writes'}
      /\ \A f \in DOMAIN inodes \ {names[p]} : inodes'[f] = inodes[f]
  BY <1>2, <1>3
<1>5. FilesKept'
  <2>1. \A f \in DOMAIN inodes' : inodes'[f] \in 0..writes'
    BY <1>1, <1>3, <1>4
  <2> QED
    BY <1>1, <1>2, <1>3, <1>4, <2>1 DEF FilesKept
<1>6. \A q \in Path \ {p} : names'[q] = names[q] /\ inodes'[names[q]] = inodes[names[q]]
  <2>1. \A q \in Path \ {p} : names[q] \in DOMAIN inodes /\ names[q] # names[p]
    BY <1>3
  <2> QED
    BY <1>2, <1>4, <2>1
<1> QED
  BY <1>1, <1>2, <1>4, <1>5, <1>6, AnyWriteKept

\* An entry is dropped: what stays in the cache was there before.
LEMMA InvalidateKept == ASSUME CacheInv, NEW p \in Path, Invalidate(p) PROVE CacheInv'
<1>1. EntriesWhole'
  BY DEF Invalidate, Forgotten, CacheInv, EntriesWhole
<1> QED
  BY <1>1 DEF CacheInv, FilesKept, Invalidate, ReadSound, Between

\* The invariant is inductive, however many calls and writers there are.
LEMMA CacheInvariance == CacheSpec => []CacheInv
<1>1. CacheInv /\ [CacheNext]_cacheVars => CacheInv'
  <2> SUFFICES ASSUME CacheInv, [CacheNext]_cacheVars PROVE CacheInv'
    OBVIOUS
  <2>1. CASE UNCHANGED cacheVars
    BY <2>1 DEF cacheVars, CacheInv, FilesKept, EntriesWhole, ReadSound, Between
  <2> QED
    BY <2>1, CallKept, OpenKept, PieceKept, CheckKept, ForgetKept, ReplaceKept, RewriteKept,
       InvalidateKept DEF CacheNext
<1> QED
  BY <1>1, CacheStart, PTL DEF CacheSpec

\* read_toml_cached: what any call returns, out of the cache or not, is in one
\* piece what its path held at a moment of the call, for any number of calls,
\* paths, cache slots and writes.
THEOREM EveryReadCurrent == CacheSpec => []ReadsWereCurrent
<1>1. CacheInv => ReadsWereCurrent
  BY DEF CacheInv, ReadSound, ReadsWereCurrent
<1> QED
  BY <1>1, CacheInvariance, PTL
---------------------------------------------------------------------------
(* The settings and the key *)

Held == [key : Nat, device : Nat, revision : Nat, auto : BOOLEAN]
Stages == {"idle", "store", "mark", "load", "rpc", "save", "marking", "writing"}
Task == [at : Stages, op : {"none", "register", "config", "sync"}, force : BOOLEAN, seen : Held]
Used == [key : Nat, device : Nat, revision : Nat]

TypedSettings ==
    /\ syncToml \in [is : {"absent", "legacy", "whole", "corrupt"}, holds : Held]
    /\ keychain \in [up : BOOLEAN, key : Nat] /\ writer \subseteq Shell
    /\ tasks \in [Shell -> Task]
    /\ \A c \in Shell : tasks[c].op = "none" <=> tasks[c].at = "idle"
    /\ accounts \in 0..MaxAccounts /\ uses \subseteq Used
    /\ torn \in BOOLEAN /\ blind \in BOOLEAN

\* A registration runs alone.
Alone == \A c, d \in Shell : tasks[c].op = "register" /\ c # d => tasks[d].op = "none"

\* The key of a new account is stored and the file not yet written.
Swaps(task) == task.op = "register" /\ task.at = "writing"
Swapping == \E c \in Shell : Swaps(tasks[c])

\* Settings of the account a at the revision rev, whole or without a key; or
\* with the marker, once the keychain has the key.
Agree(s, a, rev) == /\ s.key \in {None, a, Marker}
                    /\ s.key # None => s.device = a /\ s.revision = rev
                    /\ s.key = Marker => a # None /\ (keychain.key = a \/ Swapping)

\* Who writes settings that it has loaded.
WritesBack(task) == \/ task.at \in {"store", "mark", "marking"}
                    \/ task.op = "config" /\ task.at \in {"save", "writing"}

UsesOf(a, rev) ==
    /\ \A u \in uses : u.key = u.device
    /\ ~blind => /\ \A u \in uses : u.revision <= rev /\ (u.revision = rev => u.key = a)
                 /\ \A u, v \in uses : u.key # v.key => u.revision # v.revision

\* How a registration stands.
Registering(task) ==
    /\ task.at = "rpc" /\ ~blind => \A u \in uses : u.revision <= task.seen.revision
    /\ task.at \in {"save", "writing"} =>
         /\ task.seen.key \in 1..accounts /\ task.seen.device = task.seen.key
         /\ ~blind => \A u \in uses : u.revision < task.seen.revision

TaskOf(task, a, rev) ==
    /\ WritesBack(task) => Agree(task.seen, a, rev)
    /\ task.at = "store" => task.seen.key = a /\ a # None
    /\ task.at \in {"mark", "marking"} => task.seen.key = Marker
    /\ task.op = "config" => task.at \in {"save", "writing"} /\ task.seen.key # Marker
    /\ task.at = "writing" /\ task.seen.key # None => keychain.key = task.seen.key
    /\ task.at \in {"rpc", "save", "writing"} => task.op \in {"register", "config"}
    /\ task.op = "register" => Registering(task)

AgreedOn(a, rev) ==
    /\ Agree(syncToml.holds, a, rev) /\ UsesOf(a, rev)
    /\ keychain.key \in {None, a} \/ Swapping
    /\ \A c \in Shell : TaskOf(tasks[c], a, rev)

Together == Alone /\ \E a \in 0..accounts, rev \in Nat : AgreedOn(a, rev)

SettingsInv == /\ TypedSettings
               /\ syncToml.is = "whole" => syncToml.holds.key \in {None, Marker}
               /\ ~torn => Together

\* The marker is no account and no empty key.
LEMMA Reserved == Marker \in Nat /\ None \in Nat /\ Marker # None /\ \A a \in 0..MaxAccounts : a # Marker
BY SettingsAssumption DEF Marker, None

\* A shell without a command is one that may start.
LEMMA NoTaskTyped == /\ NoTask \in Task /\ NoTask.op = "none" /\ NoTask.at = "idle"
                     /\ Default \in Held /\ Default.key = None /\ Default.revision = 0
BY DEF NoTask, Task, Default, Held, Stages, None

\* Nothing yet, or the file of before, agrees with itself.
LEMMA SettingsStart == SettingsInit => SettingsInv
<1> SUFFICES ASSUME SettingsInit PROVE SettingsInv
  OBVIOUS
<1>1. accounts \in 0..1 /\ accounts \in Nat
  BY DEF SettingsInit
<1>2. tasks \in [Shell -> Task] /\ \A c \in Shell : tasks[c] = NoTask
  BY NoTaskTyped DEF SettingsInit
<1>3. keychain.key = None /\ keychain \in [up : BOOLEAN, key : Nat] /\ uses = {}
  BY DEF SettingsInit, None
<1>4. PICK legacy : legacy = [Default EXCEPT !.key = 1, !.device = 1]
  OBVIOUS
<1>5. legacy \in Held /\ legacy.key = 1 /\ legacy.device = 1 /\ legacy.revision = 0
  BY <1>4, NoTaskTyped DEF Held
<1>6. \/ accounts = 0 /\ syncToml = [is |-> "absent", holds |-> Default]
      \/ accounts = 1 /\ syncToml = [is |-> "legacy", holds |-> legacy]
  BY <1>1, <1>4 DEF SettingsInit
<1>7. TypedSettings
  <2>1. accounts \in 0..MaxAccounts
    BY <1>1, SettingsAssumption
  <2>2. \A c \in Shell : tasks[c].op = "none" /\ tasks[c].at = "idle"
    BY <1>2, NoTaskTyped
  <2>3. syncToml \in [is : {"absent", "legacy", "whole", "corrupt"}, holds : Held]
    BY <1>5, <1>6, NoTaskTyped
  <2> QED
    BY <1>2, <1>3, <2>1, <2>2, <2>3 DEF TypedSettings, SettingsInit
<1>8. Together
  <2>1. \A c \in Shell : tasks[c].op = "none" /\ tasks[c].at = "idle"
    BY <1>2, NoTaskTyped
  <2>2. Alone
    BY <2>1 DEF Alone
  <2>3. accounts \in 0..accounts /\ 0 \in Nat
    BY <1>1
  <2>4. syncToml.holds.key # Marker
    BY <1>1, <1>5, <1>6, NoTaskTyped, Reserved, SettingsAssumption
  <2>5. Agree(syncToml.holds, accounts, 0)
    BY <1>5, <1>6, <2>4, NoTaskTyped DEF Agree, None
  <2>6. UsesOf(accounts, 0)
    BY <1>3 DEF UsesOf
  <2>7. \A c \in Shell : TaskOf(tasks[c], accounts, 0)
    BY <2>1 DEF TaskOf, WritesBack
  <2>8. AgreedOn(accounts, 0)
    BY <1>3, <2>5, <2>6, <2>7 DEF AgreedOn
  <2> QED
    BY <2>2, <2>3, <2>8 DEF Together
<1> QED
  BY <1>6, <1>7, <1>8 DEF SettingsInv

\* The command that goes on is not the registration that writes its key, before
\* nor after: whoever writes stays who writes.
LEMMA SwappingStays ==
  ASSUME TypedSettings, NEW c \in Shell, NEW task \in Task, tasks' = [tasks EXCEPT ![c] = task],
         ~Swaps(tasks[c]), ~Swaps(task)
  PROVE  Swapping' <=> Swapping
<1>1. \A d \in Shell : Swaps(tasks'[d]) <=> Swaps(tasks[d])
  BY DEF TypedSettings
<1> QED
  BY <1>1 DEF Swapping, Swaps

\* Settings that agree do so after a step that leaves the key, or stores that
\* of the account.
LEMMA AgreeStays ==
  ASSUME NEW s, NEW a, NEW rev, Agree(s, a, rev), Swapping' <=> Swapping,
         keychain'.key = keychain.key \/ keychain'.key = a
  PROVE  Agree(s, a, rev)'
BY DEF Agree

\* One command goes on and the others stay, with the account and the revision
\* of before: enough is that its own task, the file and the uses fit them.
LEMMA OneSteps ==
  ASSUME SettingsInv, NEW c \in Shell, NEW task \in Task, tasks' = [tasks EXCEPT ![c] = task],
         task.op = "none" <=> task.at = "idle", uses' \subseteq Used,
         syncToml' \in [is : {"absent", "legacy", "whole", "corrupt"}, holds : Held],
         syncToml'.is = "whole" => syncToml'.holds.key \in {None, Marker},
         torn' \/ uses' = uses \/ \A d \in Shell \ {c} : tasks[d].op # "register",
         keychain' \in [up : BOOLEAN, key : Nat], writer' \subseteq Shell,
         accounts' \in 0..MaxAccounts, accounts <= accounts',
         torn' \in BOOLEAN, blind' \in BOOLEAN, blind => blind',
         ~torn' =>
           /\ ~torn /\ ~Swaps(tasks[c]) /\ ~Swaps(task) /\ Alone'
           /\ \A a \in 0..accounts, rev \in Nat : AgreedOn(a, rev) =>
                /\ keychain'.key = keychain.key \/ (keychain'.key = a /\ ~Swapping)
                /\ TaskOf(task, a, rev)' /\ Agree(syncToml.holds, a, rev)' /\ UsesOf(a, rev)'
  PROVE  SettingsInv'
<1>1. TypedSettings'
  <2>1. tasks' \in [Shell -> Task]
    BY DEF SettingsInv, TypedSettings
  <2>2. \A d \in Shell : tasks'[d].op = "none" <=> tasks'[d].at = "idle"
    BY DEF SettingsInv, TypedSettings
  <2> QED
    BY <2>1, <2>2 DEF SettingsInv, TypedSettings
<1>2. ASSUME ~torn' PROVE Together'
  <2>1. PICK a \in 0..accounts, rev \in Nat : AgreedOn(a, rev)
    BY <1>2 DEF SettingsInv, Together
  <2>2. /\ keychain'.key = keychain.key \/ (keychain'.key = a /\ ~Swapping)
        /\ TaskOf(task, a, rev)' /\ Alone' /\ ~Swaps(tasks[c]) /\ ~Swaps(task)
        /\ Agree(syncToml.holds, a, rev)' /\ UsesOf(a, rev)'
    BY <1>2, <2>1
  <2>3. Swapping' <=> Swapping
    BY <2>2, SwappingStays DEF SettingsInv
  <2>4. a \in 0..accounts' /\ accounts \in Nat /\ accounts' \in Nat
    BY <1>1, SettingsAssumption DEF SettingsInv, TypedSettings
  <2>7. keychain'.key \in {None, a} \/ Swapping'
    BY <2>1, <2>2, <2>3 DEF AgreedOn
  <2>8. ASSUME NEW d \in Shell PROVE TaskOf(tasks[d], a, rev)'
    <3>1. CASE d = c
      <4>1. tasks'[d] = task
        BY <3>1 DEF SettingsInv, TypedSettings
      <4> QED
        BY <2>2, <4>1 DEF TaskOf, WritesBack, Agree, Registering
    <3>2. CASE d # c
      <4>1. PICK old : old = tasks[d]
        OBVIOUS
      <4>2. old = tasks'[d] /\ TaskOf(old, a, rev)
        BY <2>1, <3>2, <4>1 DEF SettingsInv, TypedSettings, AgreedOn
      <4>3. WritesBack(old) => Agree(old.seen, a, rev)'
        <5>1. PICK s : s = old.seen
          OBVIOUS
        <5> QED
          BY <2>2, <2>3, <4>2, <5>1, AgreeStays DEF TaskOf
      <4>4. old.at = "writing" /\ old.seen.key # None => keychain'.key = old.seen.key
        <5> SUFFICES ASSUME old.at = "writing", old.seen.key # None
                     PROVE  keychain'.key = old.seen.key
          OBVIOUS
        <5>1. keychain.key = old.seen.key
          BY <4>2 DEF TaskOf
        <5>2. CASE keychain'.key = keychain.key
          BY <5>1, <5>2
        <5>3. CASE keychain'.key = a /\ ~Swapping
          <6>1. old.op = "config"
            BY <4>1, <4>2, <5>3 DEF TaskOf, Swapping, Swaps
          <6>2. Agree(old.seen, a, rev) /\ old.seen.key # Marker
            BY <4>2, <6>1 DEF TaskOf, WritesBack
          <6> QED
            BY <5>3, <6>2 DEF Agree
        <5> QED
          BY <2>2, <5>2, <5>3
      <4>5. old.op = "register" => Registering(old)'
        <5>1. old.op = "register" => Registering(old) /\ uses' = uses
          BY <1>2, <3>2, <4>1, <4>2 DEF TaskOf
        <5>2. \A k : k \in 1..accounts => k \in 1..accounts'
          BY <2>4
        <5> QED
          BY <5>1, <5>2 DEF Registering
      <4>6. TaskOf(old, a, rev)'
        BY <4>2, <4>3, <4>4, <4>5 DEF TaskOf, WritesBack
      <4> QED
        BY <4>2, <4>6 DEF TaskOf, WritesBack, Agree, Registering
    <3> QED
      BY <3>1, <3>2
  <2>9. AgreedOn(a, rev)'
    BY <2>2, <2>7, <2>8 DEF AgreedOn
  <2> QED
    BY <2>2, <2>4, <2>9 DEF Together
<1> QED
  BY <1>1, <1>2 DEF SettingsInv

\* ... and that its task does, if it leaves the file and the uses.
LEMMA OneMoves ==
  ASSUME SettingsInv, NEW c \in Shell, NEW task \in Task, tasks' = [tasks EXCEPT ![c] = task],
         task.op = "none" <=> task.at = "idle", UNCHANGED <<syncToml, uses>>,
         keychain' \in [up : BOOLEAN, key : Nat], writer' \subseteq Shell,
         accounts' \in 0..MaxAccounts, accounts <= accounts',
         torn' \in BOOLEAN, blind' \in BOOLEAN, blind => blind',
         ~torn' =>
           /\ ~torn /\ ~Swaps(tasks[c]) /\ ~Swaps(task) /\ Alone'
           /\ \A a \in 0..accounts, rev \in Nat : AgreedOn(a, rev) =>
                /\ keychain'.key = keychain.key \/ (keychain'.key = a /\ ~Swapping)
                /\ TaskOf(task, a, rev)'
  PROVE  SettingsInv'
<1>1. ASSUME ~torn', NEW a \in 0..accounts, NEW rev \in Nat, AgreedOn(a, rev)
      PROVE  Agree(syncToml.holds, a, rev)' /\ UsesOf(a, rev)'
  <2>1. Swapping' <=> Swapping
    BY <1>1, SwappingStays DEF SettingsInv
  <2>2. PICK s : s = syncToml.holds
    OBVIOUS
  <2>3. Agree(s, a, rev)'
    BY <1>1, <2>1, <2>2, AgreeStays DEF AgreedOn
  <2>4. UsesOf(a, rev)'
    BY <1>1 DEF AgreedOn, UsesOf
  <2> QED
    BY <2>2, <2>3, <2>4 DEF Agree
<1>2. /\ uses' \subseteq Used /\ syncToml' \in [is : {"absent", "legacy", "whole", "corrupt"}, holds : Held]
      /\ syncToml'.is = "whole" => syncToml'.holds.key \in {None, Marker}
  BY DEF SettingsInv, TypedSettings
<1>3. ~torn' =>
        /\ ~torn /\ ~Swaps(tasks[c]) /\ ~Swaps(task) /\ Alone'
        /\ \A a \in 0..accounts, rev \in Nat : AgreedOn(a, rev) =>
             /\ keychain'.key = keychain.key \/ (keychain'.key = a /\ ~Swapping)
             /\ TaskOf(task, a, rev)' /\ Agree(syncToml.holds, a, rev)' /\ UsesOf(a, rev)'
  BY <1>1
<1>4. uses' = uses
  OBVIOUS
<1> QED
  BY <1>2, <1>3, <1>4, OneSteps

\* A command that goes on or ends overlaps nobody it did not.
LEMMA AloneStays ==
  ASSUME TypedSettings, Alone, NEW c \in Shell, NEW task \in Task,
         tasks' = [tasks EXCEPT ![c] = task], task.op = tasks[c].op \/ task.op = "none"
  PROVE  Alone'
<1>1. \A d \in Shell : tasks'[d].op = tasks[d].op \/ tasks'[d].op = "none"
  BY DEF TypedSettings
<1> QED
  BY <1>1 DEF Alone

\* A command ends; not a registration between its key and its file.
LEMMA EndsTask ==
  ASSUME SettingsInv, NEW c \in Shell, EndTask(c), UNCHANGED <<syncToml, uses, keychain, blind>>,
         writer' \subseteq Shell, accounts' \in 0..MaxAccounts, accounts <= accounts',
         torn' \in BOOLEAN, torn => torn', ~torn' => ~Swaps(tasks[c])
  PROVE  SettingsInv'
<1>1. tasks' = [tasks EXCEPT ![c] = NoTask]
  BY DEF EndTask
<1>2. keychain' \in [up : BOOLEAN, key : Nat] /\ blind' \in BOOLEAN
  BY DEF SettingsInv, TypedSettings
<1>3. ~Swaps(NoTask)
  BY NoTaskTyped DEF Swaps
<1>4. ~torn' => Alone'
  BY <1>1, NoTaskTyped, AloneStays DEF SettingsInv, Together
<1>5. \A a, rev : TaskOf(NoTask, a, rev)'
  BY NoTaskTyped DEF TaskOf, WritesBack
<1>6. ~torn' =>
           /\ ~torn /\ ~Swaps(tasks[c]) /\ ~Swaps(NoTask) /\ Alone'
           /\ \A a \in 0..accounts, rev \in Nat : AgreedOn(a, rev) =>
                /\ keychain'.key = keychain.key \/ (keychain'.key = a /\ ~Swapping)
                /\ TaskOf(NoTask, a, rev)'
  <2>1. keychain'.key = keychain.key
    OBVIOUS
  <2>2. ~torn' => ~torn /\ ~Swaps(tasks[c]) /\ ~Swaps(NoTask) /\ Alone'
    BY <1>3, <1>4
  <2> QED
    BY <1>5, <2>1, <2>2
<1>7. /\ NoTask \in Task /\ (NoTask.op = "none" <=> NoTask.at = "idle")
      /\ UNCHANGED <<syncToml, uses>> /\ (blind => blind')
  BY NoTaskTyped
<1> QED
  BY <1>1, <1>2, <1>6, <1>7, OneMoves

\* A command that is done with the old key loads again.
LEMMA LoadsNext ==
  ASSUME SettingsInv, NEW c \in Shell, GoLoad(c), tasks[c].at \in {"store", "mark", "marking"},
         UNCHANGED <<syncToml, uses, keychain, blind, accounts, torn>>, writer' \subseteq Shell
  PROVE  SettingsInv'
<1>1. PICK old : old = tasks[c]
  OBVIOUS
<1>2. old \in Task /\ old.at \in {"store", "mark", "marking"} /\ (old.op # "none")
  BY <1>1 DEF SettingsInv, TypedSettings
<1>3. PICK task : task = [old EXCEPT !.at = "load", !.seen = Default]
  OBVIOUS
<1>4. task \in Task /\ task.at = "load" /\ task.op = old.op
  BY <1>2, <1>3, NoTaskTyped DEF Task, Stages
<1>5. tasks' = [tasks EXCEPT ![c] = task]
  <2>1. tasks \in [Shell -> Task]
    BY DEF SettingsInv, TypedSettings
  <2> QED
    BY <1>1, <1>2, <1>3, <2>1 DEF GoLoad
<1>6. ~Swaps(task) /\ ~Swaps(old)
  BY <1>2, <1>4 DEF Swaps
<1>7. ~torn' => Alone'
  BY <1>1, <1>4, <1>5, AloneStays DEF SettingsInv, Together
<1>8. ASSUME NEW a, NEW rev, AgreedOn(a, rev) PROVE TaskOf(task, a, rev)'
  <2>1. TaskOf(old, a, rev)
    BY <1>1, <1>8 DEF AgreedOn
  <2>2. old.op # "config"
    BY <1>2, <2>1 DEF TaskOf
  <2> QED
    BY <1>4, <2>2 DEF TaskOf, WritesBack, Registering
<1>9. /\ keychain' \in [up : BOOLEAN, key : Nat] /\ blind' \in BOOLEAN /\ torn' \in BOOLEAN
      /\ accounts' \in 0..MaxAccounts /\ accounts <= accounts'
  BY SettingsAssumption DEF SettingsInv, TypedSettings
<1>10. ~torn' =>
           /\ ~torn /\ ~Swaps(tasks[c]) /\ ~Swaps(task) /\ Alone'
           /\ \A a \in 0..accounts, rev \in Nat : AgreedOn(a, rev) =>
                /\ keychain'.key = keychain.key \/ (keychain'.key = a /\ ~Swapping)
                /\ TaskOf(task, a, rev)'
  <2>1. keychain'.key = keychain.key /\ torn' = torn
    OBVIOUS
  <2>2. ~torn' => ~torn /\ ~Swaps(tasks[c]) /\ ~Swaps(task) /\ Alone'
    BY <1>1, <1>6, <1>7, <2>1
  <2> QED
    BY <1>8, <2>1, <2>2
<1>11. /\ task.op = "none" <=> task.at = "idle"
       /\ UNCHANGED <<syncToml, uses>> /\ (blind => blind')
  BY <1>2, <1>4
<1> QED
  BY <1>4, <1>5, <1>9, <1>10, <1>11, OneMoves
---------------------------------------------------------------------------
(* Loading *)

\* What a command loads is the account's, with its key or without one.
LEMMA LoadsTogether ==
  ASSUME SettingsInv, Loads, NEW a \in 0..accounts, NEW rev \in Nat, AgreedOn(a, rev), ~Swapping
  PROVE  /\ Loaded.key \in {None, a} /\ Loaded.key # Marker
         /\ Loaded.key # None => Loaded.device = a /\ Loaded.revision = rev
         /\ Agree(Loaded, a, rev)
<1>1. PICK s : s = syncToml.holds
  OBVIOUS
<1>2. s \in Held /\ Agree(s, a, rev) /\ a # Marker /\ keychain.key \in {None, a}
  BY <1>1, Reserved, SettingsAssumption DEF AgreedOn, SettingsInv, TypedSettings
<1>3. CASE s.key = Marker
  <2>1. Loaded = [s EXCEPT !.key = keychain.key] /\ keychain.key = a /\ a # None
    BY <1>1, <1>2, <1>3 DEF Loaded, Loads, Agree
  <2>2. Loaded.key = a /\ Loaded.device = s.device /\ Loaded.revision = s.revision
    BY <1>2, <2>1 DEF Held
  <2> QED
    BY <1>2, <1>3, <2>1, <2>2, Reserved DEF Agree
<1>4. CASE s.key # Marker
  <2>1. Loaded = s
    BY <1>1, <1>4 DEF Loaded
  <2> QED
    BY <1>2, <1>4, <2>1 DEF Agree
<1> QED
  BY <1>3, <1>4

\* What is loaded are settings.
LEMMA LoadedTyped == ASSUME SettingsInv PROVE Loaded \in Held
<1>1. PICK s : s = syncToml.holds /\ s \in Held
  BY DEF SettingsInv, TypedSettings
<1>2. keychain.key \in Nat
  BY DEF SettingsInv, TypedSettings
<1> QED
  BY <1>1, <1>2 DEF Loaded, Held

\* A command starts: if that tears nothing, no registration runs, and a
\* registration finds nobody.
LEMMA StartsAlone ==
  ASSUME SettingsInv, NEW c \in Shell, NEW op \in {"register", "config", "sync"}, Start(c, op),
         NEW task \in Task, tasks' = [tasks EXCEPT ![c] = task], task.op = op, ~torn'
  PROVE  ~torn /\ ~Swaps(tasks[c]) /\ ~Swapping /\ Alone'
<1>1. /\ tasks[c].at = "idle" /\ tasks[c].op = "none" /\ ~torn
  BY DEF Start, SettingsInv, TypedSettings
<1>2. \A d \in Shell : tasks[d].op # "none" => d \in Busy
  BY DEF Busy, SettingsInv, TypedSettings
<1>3. op = "register" => Busy = {}
  BY DEF Start
<1>4. \A d \in Shell : tasks[d].op # "register"
  BY <1>2 DEF Start
<1>5. \A d \in Shell : d # c => tasks'[d] = tasks[d]
  BY DEF SettingsInv, TypedSettings
<1>6. tasks'[c] = task
  BY DEF SettingsInv, TypedSettings
<1>7. Alone'
  BY <1>2, <1>3, <1>4, <1>5, <1>6 DEF Alone
<1> QED
  BY <1>1, <1>4, <1>7 DEF Swaps, Swapping

\* migrate_plaintext_api_key_to_keychain begins with what it loads.
LEMMA MigrateKept ==
  ASSUME SettingsInv, NEW c \in Shell, NEW op \in {"register", "sync"}, Migrate(c, op)
  PROVE  SettingsInv'
<1>1. PICK force \in BOOLEAN :
        tasks' = [tasks EXCEPT ![c] =
                        IF Loads /\ Loaded.key # None
                        THEN [at |-> "store", op |-> op, force |-> force, seen |-> Loaded]
                        ELSE [NoTask EXCEPT !.at = "load", !.op = op, !.force = force]]
  BY DEF Migrate
<1>2. /\ Start(c, op) /\ op \in {"register", "config", "sync"}
      /\ UNCHANGED <<syncToml, uses, keychain, blind, accounts, writer>>
  BY DEF Migrate, Start
<1>3. /\ keychain' \in [up : BOOLEAN, key : Nat] /\ blind' \in BOOLEAN /\ torn' \in BOOLEAN
      /\ accounts' \in 0..MaxAccounts /\ accounts <= accounts' /\ writer' \subseteq Shell
  BY <1>2, SettingsAssumption DEF SettingsInv, TypedSettings, Start
<1>4. CASE Loads /\ Loaded.key # None
  <2>1. PICK seen : seen = Loaded /\ seen \in Held
    BY LoadedTyped
  <2>2. PICK task : task = [at |-> "store", op |-> op, force |-> force, seen |-> seen]
    OBVIOUS
  <2>3. /\ task \in Task /\ task.at = "store" /\ task.op = op /\ task.seen = seen
        /\ tasks' = [tasks EXCEPT ![c] = task] /\ ~Swaps(task)
    BY <1>1, <1>4, <2>1, <2>2 DEF Task, Stages, Swaps
  <2>4. ~torn' => ~torn /\ ~Swaps(tasks[c]) /\ ~Swapping /\ Alone'
    BY <1>2, <2>3, StartsAlone
  <2>5. ASSUME ~torn', NEW a \in 0..accounts, NEW rev \in Nat, AgreedOn(a, rev)
        PROVE  TaskOf(task, a, rev)'
    <3>1. seen.key = a /\ a # None /\ Agree(seen, a, rev)
      BY <1>4, <2>1, <2>4, <2>5, LoadsTogether
    <3>2. Swapping' <=> Swapping
      BY <2>3, <2>4, <2>5, SwappingStays DEF SettingsInv
    <3>3. Agree(seen, a, rev)'
      BY <1>2, <3>1, <3>2, AgreeStays
    <3> QED
      BY <1>2, <2>3, <3>1, <3>3 DEF TaskOf, WritesBack, Registering
  <2> QED
    BY <1>2, <1>3, <2>3, <2>4, <2>5, OneMoves
<1>5. CASE ~(Loads /\ Loaded.key # None)
  <2>1. PICK task : task = [NoTask EXCEPT !.at = "load", !.op = op, !.force = force]
    OBVIOUS
  <2>2. /\ task \in Task /\ task.at = "load" /\ task.op = op
        /\ tasks' = [tasks EXCEPT ![c] = task] /\ ~Swaps(task)
    <3>1. op \in {"none", "register", "config", "sync"} /\ "load" \in Stages
      BY DEF Stages
    <3>2. PICK none : none = NoTask /\ none \in Task
      BY NoTaskTyped
    <3>3. task = [none EXCEPT !.at = "load", !.op = op, !.force = force]
      BY <2>1, <3>2
    <3>4. task \in Task /\ task.at = "load" /\ task.op = op
      BY <3>1, <3>2, <3>3 DEF Task
    <3> QED
      BY <1>1, <1>5, <2>1, <3>4 DEF Swaps
  <2>3. ~torn' => ~torn /\ ~Swaps(tasks[c]) /\ ~Swapping /\ Alone'
    BY <1>2, <2>2, StartsAlone
  <2>4. \A a, rev : TaskOf(task, a, rev)'
    BY <2>2 DEF TaskOf, WritesBack, Registering
  <2> QED
    BY <1>2, <1>3, <2>2, <2>3, <2>4, OneMoves
<1> QED
  BY <1>4, <1>5

\* run_config: a change of what was loaded.
LEMMA ChangeKept == ASSUME SettingsInv, NEW c \in Shell, Change(c) PROVE SettingsInv'
<1>1. PICK old : old = Loaded /\ old \in Held
  BY LoadedTyped
<1>2. PICK seen : seen = [old EXCEPT !.auto = ~@]
  OBVIOUS
<1>3. seen \in Held /\ seen.key = old.key /\ seen.device = old.device /\ seen.revision = old.revision
  BY <1>1, <1>2 DEF Held
<1>4. PICK task : task = [at |-> "save", op |-> "config", force |-> FALSE, seen |-> seen]
  OBVIOUS
<1>5. /\ task \in Task /\ task.at = "save" /\ task.op = "config" /\ task.seen = seen
      /\ tasks' = [tasks EXCEPT ![c] = task] /\ ~Swaps(task)
  <2>1. tasks' = [tasks EXCEPT ![c] = task]
    BY <1>1, <1>2, <1>4 DEF Change
  <2> QED
    BY <1>3, <1>4, <2>1 DEF Task, Stages, Swaps
<1>6. /\ Start(c, "config") /\ Loads /\ UNCHANGED <<syncToml, uses, keychain, blind, accounts, writer>>
  BY DEF Change, Start
<1>7. /\ keychain' \in [up : BOOLEAN, key : Nat] /\ blind' \in BOOLEAN /\ torn' \in BOOLEAN
      /\ accounts' \in 0..MaxAccounts /\ accounts <= accounts' /\ writer' \subseteq Shell
  BY <1>6, SettingsAssumption DEF SettingsInv, TypedSettings, Start
<1>8. ~torn' => ~torn /\ ~Swaps(tasks[c]) /\ ~Swapping /\ Alone'
  BY <1>5, <1>6, StartsAlone
<1>9. ASSUME ~torn', NEW a \in 0..accounts, NEW rev \in Nat, AgreedOn(a, rev)
      PROVE  TaskOf(task, a, rev)'
  <2>1. old.key # Marker /\ Agree(old, a, rev)
    BY <1>1, <1>6, <1>8, <1>9, LoadsTogether
  <2>2. seen.key # Marker /\ Agree(seen, a, rev)
    BY <1>3, <2>1 DEF Agree
  <2>3. Swapping' <=> Swapping
    BY <1>5, <1>8, <1>9, SwappingStays DEF SettingsInv
  <2>4. Agree(seen, a, rev)'
    BY <1>6, <2>2, <2>3, AgreeStays
  <2> QED
    BY <1>5, <2>2, <2>4 DEF TaskOf, WritesBack
<1> QED
  BY <1>5, <1>6, <1>7, <1>8, <1>9, OneMoves
---------------------------------------------------------------------------
(* Keys and files *)

\* While a command runs that is not a registration about to write, none is.
LEMMA QuietBeside ==
  ASSUME Alone, NEW c \in Shell, tasks[c].op # "none", ~Swaps(tasks[c])
  PROVE  ~Swapping
BY DEF Alone, Swapping, Swaps

\* The migration stores the account's key, which the keychain has or gets.
LEMMA StoreKept == ASSUME SettingsInv, NEW c \in Shell, StoreKey(c) PROVE SettingsInv'
<1>1. /\ tasks[c].at = "store" /\ UNCHANGED <<syncToml, writer, accounts, uses, torn, blind>>
  BY DEF StoreKey
<1>2. CASE ~keychain.up
  BY <1>1, <1>2, LoadsNext DEF StoreKey, SettingsInv, TypedSettings
<1>3. CASE keychain.up
  <2>1. PICK old : old = tasks[c]
    OBVIOUS
  <2>2. old \in Task /\ old.at = "store" /\ old.op # "none" /\ tasks \in [Shell -> Task]
    BY <1>1, <2>1 DEF SettingsInv, TypedSettings
  <2>3. PICK task : task = [old EXCEPT !.at = "mark", !.seen.key = Marker]
    OBVIOUS
  <2>4. PICK seen : seen = [old.seen EXCEPT !.key = Marker]
    OBVIOUS
  <2>5. /\ seen \in Held /\ seen.key = Marker /\ seen.device = old.seen.device
        /\ seen.revision = old.seen.revision
    BY <2>2, <2>4, Reserved DEF Task, Held
  <2>6. task = [old EXCEPT !.at = "mark", !.seen = seen]
    BY <2>2, <2>3, <2>4 DEF Task
  <2>7. task \in Task /\ task.at = "mark" /\ task.op = old.op /\ task.seen = seen
    BY <2>2, <2>5, <2>6 DEF Task, Stages
  <2>8. tasks' = [tasks EXCEPT ![c] = task] /\ keychain' = [keychain EXCEPT !.key = old.seen.key]
    BY <1>3, <2>1, <2>2, <2>3 DEF StoreKey
  <2>9. /\ keychain' \in [up : BOOLEAN, key : Nat] /\ keychain'.key = old.seen.key
    BY <2>2, <2>8 DEF SettingsInv, TypedSettings, Task, Held
  <2>10. ~Swaps(old) /\ ~Swaps(task)
    BY <2>2, <2>7 DEF Swaps
  <2>11. ~torn' => ~torn /\ Alone' /\ ~Swapping
    <3>1. ~torn => Alone' /\ ~Swapping
      BY <2>1, <2>2, <2>7, <2>8, <2>10, AloneStays, QuietBeside DEF SettingsInv, Together
    <3> QED
      BY <1>1, <3>1
  <2>12. ASSUME ~torn', NEW a \in 0..accounts, NEW rev \in Nat, AgreedOn(a, rev)
         PROVE  keychain'.key = a /\ TaskOf(task, a, rev)'
    <3>1. TaskOf(old, a, rev)
      BY <2>1, <2>12 DEF AgreedOn
    <3>2. old.seen.key = a /\ a # None /\ Agree(old.seen, a, rev) /\ old.op # "config"
      BY <2>2, <3>1 DEF TaskOf, WritesBack
    <3>3. old.seen.device = a /\ old.seen.revision = rev
      BY <3>2 DEF Agree
    <3>4. Agree(seen, a, rev)'
      BY <2>5, <2>9, <3>2, <3>3 DEF Agree
    <3> QED
      BY <2>5, <2>7, <2>9, <3>2, <3>4 DEF TaskOf, WritesBack, Registering
  <2>13. /\ accounts' \in 0..MaxAccounts /\ accounts <= accounts' /\ writer' \subseteq Shell
         /\ torn' \in BOOLEAN /\ blind' \in BOOLEAN /\ (blind => blind')
    BY <1>1, SettingsAssumption DEF SettingsInv, TypedSettings
  <2>14. ~torn' =>
           /\ ~torn /\ ~Swaps(tasks[c]) /\ ~Swaps(task) /\ Alone'
           /\ \A a \in 0..accounts, rev \in Nat : AgreedOn(a, rev) =>
                /\ keychain'.key = keychain.key \/ (keychain'.key = a /\ ~Swapping)
                /\ TaskOf(task, a, rev)'
    BY <2>1, <2>10, <2>11, <2>12
  <2>15. (task.op = "none" <=> task.at = "idle") /\ UNCHANGED <<syncToml, uses>>
    BY <1>1, <2>2, <2>7
  <2> QED
    BY <2>7, <2>8, <2>9, <2>13, <2>14, <2>15, OneMoves
<1> QED
  BY <1>2, <1>3

\* GoOn, for the proof.
LEMMA GoOnTask ==
  ASSUME TypedSettings, NEW c \in Shell, NEW at \in Stages, GoOn(c, at)
  PROVE  \E task \in Task : /\ tasks' = [tasks EXCEPT ![c] = task] /\ task.at = at
                            /\ task.op = tasks[c].op /\ task.seen = tasks[c].seen
<1>1. PICK old : old = tasks[c] /\ old \in Task
  BY DEF TypedSettings
<1>2. PICK task : task = [old EXCEPT !.at = at]
  OBVIOUS
<1>3. task \in Task /\ task.at = at /\ task.op = old.op /\ task.seen = old.seen
  BY <1>1, <1>2 DEF Task
<1>4. tasks' = [tasks EXCEPT ![c] = task]
  BY <1>1, <1>2 DEF GoOn, TypedSettings
<1> QED
  BY <1>1, <1>3, <1>4

\* A registration about to write its file: its key is stored, and nobody else
\* is there to see it.
LEMMA SwapStarts ==
  ASSUME SettingsInv, NEW c \in Shell, NEW task \in Task, tasks' = [tasks EXCEPT ![c] = task],
         tasks[c].op = "register", tasks[c].at = "save", Swaps(task), task.seen = tasks[c].seen,
         UNCHANGED <<syncToml, uses, accounts, blind, torn>>, writer' \subseteq Shell,
         keychain' \in [up : BOOLEAN, key : Nat],
         task.seen.key \notin {None, Marker} => keychain'.key = task.seen.key
  PROVE  SettingsInv'
<1>1. TypedSettings'
  <2>1. tasks' \in [Shell -> Task]
    BY DEF SettingsInv, TypedSettings
  <2>2. \A d \in Shell : tasks'[d].op = "none" <=> tasks'[d].at = "idle"
    BY DEF SettingsInv, TypedSettings, Swaps
  <2> QED
    BY <2>1, <2>2 DEF SettingsInv, TypedSettings
<1>2. ASSUME ~torn PROVE Together'
  <2>1. PICK a \in 0..accounts, rev \in Nat : AgreedOn(a, rev)
    BY <1>2 DEF SettingsInv, Together
  <2>2. \A d \in Shell : d # c => tasks'[d] = tasks[d]
    BY DEF SettingsInv, TypedSettings
  <2>3. tasks'[c] = task /\ task.op = "register" /\ task.at = "writing"
    BY DEF SettingsInv, TypedSettings, Swaps
  <2>4. \A d \in Shell : d # c => tasks[d].op = "none" /\ tasks[d].at = "idle"
    BY <1>2 DEF SettingsInv, Together, Alone, TypedSettings
  <2>5. Alone'
    BY <2>2, <2>3, <2>4 DEF Alone
  <2>6. Swapping'
    BY <2>3 DEF Swapping, Swaps
  <2>7. ~Swaps(tasks[c])
    BY DEF Swaps
  <2>8. Agree(syncToml.holds, a, rev)'
    BY <2>1, <2>6 DEF AgreedOn, Agree
  <2>9. UsesOf(a, rev)'
    BY <2>1 DEF AgreedOn, UsesOf
  <2>10. TaskOf(task, a, rev)'
    <3>1. Registering(tasks[c])
      BY <2>1 DEF AgreedOn, TaskOf
    <3>2. Registering(task)'
      BY <2>3, <3>1 DEF Registering
    <3>3. accounts \in 0..MaxAccounts /\ task.seen.key \in 1..accounts
      BY <3>1 DEF SettingsInv, TypedSettings, Registering
    <3>4. task.seen.key # Marker /\ task.seen.key # None
      BY <3>3, SettingsAssumption DEF Marker, None
    <3> QED
      BY <2>3, <3>2, <3>4 DEF TaskOf, WritesBack
  <2>11. ASSUME NEW d \in Shell PROVE TaskOf(tasks[d], a, rev)'
    <3>1. CASE d = c
      BY <2>3, <2>10, <3>1 DEF TaskOf, WritesBack, Agree, Registering
    <3>2. CASE d # c
      <4>1. tasks'[d].op = "none" /\ tasks'[d].at = "idle"
        BY <2>2, <2>4, <3>2
      <4> QED
        BY <4>1 DEF TaskOf, WritesBack
    <3> QED
      BY <3>1, <3>2
  <2>12. AgreedOn(a, rev)'
    BY <2>6, <2>8, <2>9, <2>11 DEF AgreedOn
  <2> QED
    BY <2>1, <2>5, <2>12 DEF Together
<1>3. syncToml'.is = "whole" => syncToml'.holds.key \in {None, Marker}
  BY DEF SettingsInv
<1> QED
  BY <1>1, <1>2, <1>3 DEF SettingsInv

\* save_sync_settings takes the lock and stores a key that is not stored yet; a
\* registration opens a gap between its key and its file.
LEMMA SerializeKept == ASSUME SettingsInv, NEW c \in Shell, Serialize(c) PROVE SettingsInv'
<1>1. PICK old : old = tasks[c]
  OBVIOUS
<1>2. /\ old \in Task /\ old.at \in {"mark", "save"} /\ old.op # "none"
      /\ UNCHANGED <<syncToml, accounts, uses, torn, blind>>
  BY <1>1 DEF SettingsInv, TypedSettings, Serialize
<1>3. ~Swaps(old)
  BY <1>2 DEF Swaps
<1>4. /\ accounts' \in 0..MaxAccounts /\ accounts <= accounts' /\ (torn => torn')
      /\ torn' \in BOOLEAN /\ blind' \in BOOLEAN /\ (blind => blind')
  BY <1>2, SettingsAssumption DEF SettingsInv, TypedSettings
<1>5. CASE /\ IF old.at = "mark" THEN GoLoad(c) ELSE EndTask(c)
           /\ UNCHANGED <<writer, keychain>>
  <2>1. writer' \subseteq Shell
    BY <1>5 DEF SettingsInv, TypedSettings
  <2>2. CASE old.at = "mark"
    BY <1>1, <1>2, <1>5, <2>1, <2>2, LoadsNext
  <2>3. CASE old.at # "mark"
    BY <1>1, <1>2, <1>3, <1>4, <1>5, <2>1, <2>3, EndsTask
  <2> QED
    BY <2>2, <2>3
<1>6. CASE /\ writer' = {c}
           /\ keychain' = IF old.seen.key \notin {None, Marker}
                          THEN [keychain EXCEPT !.key = old.seen.key] ELSE keychain
           /\ GoOn(c, IF old.at = "mark" THEN "marking" ELSE "writing")
  <2>1. writer' \subseteq Shell
    BY <1>6
  <2>2. /\ keychain' \in [up : BOOLEAN, key : Nat]
        /\ keychain'.key = IF old.seen.key \notin {None, Marker} THEN old.seen.key ELSE keychain.key
    BY <1>2, <1>6 DEF SettingsInv, TypedSettings, Task, Held
  <2>3. PICK task \in Task : /\ tasks' = [tasks EXCEPT ![c] = task]
                             /\ task.at = IF old.at = "mark" THEN "marking" ELSE "writing"
                             /\ task.op = old.op /\ task.seen = old.seen
    <3>1. (IF old.at = "mark" THEN "marking" ELSE "writing") \in Stages
      BY DEF Stages
    <3> QED
      BY <1>1, <1>6, <3>1, GoOnTask DEF SettingsInv
  <2>4. CASE old.op = "register" /\ old.at = "save"
    <3>1. Swaps(task)
      BY <2>3, <2>4 DEF Swaps
    <3>2. task.seen.key \notin {None, Marker} => keychain'.key = task.seen.key
      BY <2>2, <2>3
    <3> QED
      BY <1>1, <1>2, <2>1, <2>2, <2>3, <2>4, <3>1, <3>2, SwapStarts
  <2>5. CASE ~(old.op = "register" /\ old.at = "save")
    <3>1. ~Swaps(task)
      BY <1>2, <2>3, <2>5 DEF Swaps
    <3>2. ~torn => Alone' /\ ~Swapping
      BY <1>1, <1>2, <1>3, <2>3, AloneStays, QuietBeside DEF SettingsInv, Together
    <3>3. ~torn' => ~torn /\ Alone' /\ ~Swapping
      BY <1>2, <3>2
    <3>4. ASSUME ~torn', NEW a \in 0..accounts, NEW rev \in Nat, AgreedOn(a, rev)
          PROVE  /\ keychain'.key = keychain.key \/ keychain'.key = a
                 /\ TaskOf(task, a, rev)'
      <4>1. TaskOf(old, a, rev)
        BY <1>1, <3>4 DEF AgreedOn
      <4>2. Agree(old.seen, a, rev)
        BY <1>2, <2>5, <4>1 DEF TaskOf, WritesBack
      <4>3. keychain'.key = keychain.key \/ keychain'.key = a
        BY <2>2, <4>2 DEF Agree
      <4>4. Swapping' <=> Swapping
        BY <1>1, <1>3, <2>3, <3>1, SwappingStays DEF SettingsInv
      <4>5. PICK seen : seen = old.seen
        OBVIOUS
      <4>6. Agree(seen, a, rev)'
        BY <4>2, <4>3, <4>4, <4>5, AgreeStays
      <4>7. CASE old.at = "mark"
        <5>1. old.op # "config" /\ seen.key = Marker
          BY <4>1, <4>5, <4>7 DEF TaskOf
        <5>2. TaskOf(task, a, rev)'
          BY <2>3, <4>5, <4>6, <4>7, <5>1 DEF TaskOf, WritesBack, Registering
        <5> QED
          BY <4>3, <5>2
      <4>8. CASE old.at = "save"
        <5>1. old.op = "config" /\ seen.key # Marker
          BY <2>5, <4>1, <4>5, <4>8 DEF TaskOf
        <5>2. seen.key # None => keychain'.key = seen.key
          BY <2>2, <4>5, <5>1
        <5>3. TaskOf(task, a, rev)'
          BY <2>3, <4>5, <4>6, <4>8, <5>1, <5>2 DEF TaskOf, WritesBack
        <5> QED
          BY <4>3, <5>3
      <4> QED
        BY <1>2, <4>7, <4>8
    <3>5. ~torn' =>
            /\ ~torn /\ ~Swaps(tasks[c]) /\ ~Swaps(task) /\ Alone'
            /\ \A a \in 0..accounts, rev \in Nat : AgreedOn(a, rev) =>
                 /\ keychain'.key = keychain.key \/ (keychain'.key = a /\ ~Swapping)
                 /\ TaskOf(task, a, rev)'
      BY <1>1, <1>3, <3>1, <3>3, <3>4
    <3>6. (task.op = "none" <=> task.at = "idle") /\ UNCHANGED <<syncToml, uses>>
      BY <1>2, <2>3
    <3> QED
      BY <1>4, <2>1, <2>2, <2>3, <3>5, <3>6, OneMoves
  <2> QED
    BY <2>4, <2>5
<1> QED
  BY <1>1, <1>5, <1>6 DEF Serialize

\* What a save puts into the file: settings without a key, or with the marker.
LEMMA WrittenHeld ==
  ASSUME NEW seen \in Held
  PROVE  \E h \in Held : /\ h = [seen EXCEPT !.key = KeyInFile(seen.key)]
                         /\ h.key = IF seen.key = None THEN None ELSE Marker
                         /\ h.device = seen.device /\ h.revision = seen.revision
<1>1. PICK key : key = KeyInFile(seen.key)
  OBVIOUS
<1>2. key = (IF seen.key = None THEN None ELSE Marker) /\ key \in Nat
  BY <1>1, Reserved DEF KeyInFile
<1>3. PICK h : h = [seen EXCEPT !.key = key]
  OBVIOUS
<1>4. h \in Held /\ h.key = key /\ h.device = seen.device /\ h.revision = seen.revision
  BY <1>2, <1>3 DEF Held
<1> QED
  BY <1>1, <1>2, <1>3, <1>4

\* A registration writes its file: from here the account and the revision are
\* the new ones, and nothing of the old is left under way.
LEMMA SwapEnds ==
  ASSUME SettingsInv, NEW c \in Shell, EndTask(c), Swaps(tasks[c]),
         NEW h \in Held, syncToml' = [is |-> "whole", holds |-> h],
         h.key = IF tasks[c].seen.key = None THEN None ELSE Marker,
         h.device = tasks[c].seen.device, h.revision = tasks[c].seen.revision,
         writer' = {}, UNCHANGED <<keychain, accounts, uses, blind, torn>>
  PROVE  SettingsInv'
<1>1. tasks' = [tasks EXCEPT ![c] = NoTask] /\ tasks \in [Shell -> Task]
  BY DEF EndTask, SettingsInv, TypedSettings
<1>2. TypedSettings'
  <2>1. tasks' \in [Shell -> Task]
    BY <1>1, NoTaskTyped
  <2>2. \A d \in Shell : tasks'[d].op = "none" <=> tasks'[d].at = "idle"
    BY <1>1, NoTaskTyped DEF SettingsInv, TypedSettings
  <2>3. syncToml' \in [is : {"absent", "legacy", "whole", "corrupt"}, holds : Held]
    OBVIOUS
  <2> QED
    BY <2>1, <2>2, <2>3 DEF SettingsInv, TypedSettings
<1>3. syncToml'.holds = h
  OBVIOUS
<1>4. ASSUME ~torn PROVE Together'
  <2>1. PICK b \in 0..accounts, r \in Nat : AgreedOn(b, r)
    BY <1>4 DEF SettingsInv, Together
  <2>2. PICK seen : seen = tasks[c].seen /\ seen \in Held
    BY <1>1 DEF Task
  <2>3. TaskOf(tasks[c], b, r) /\ Registering(tasks[c])
    BY <2>1 DEF AgreedOn, TaskOf, Swaps
  <2>4. /\ seen.key \in 1..accounts /\ seen.device = seen.key
        /\ ~blind => \A u \in uses : u.revision < seen.revision
    BY <2>2, <2>3 DEF Registering, Swaps
  <2>5. seen.key # None /\ seen.key \in 0..accounts /\ seen.revision \in Nat
    BY <2>2, <2>4 DEF None, Held, SettingsInv, TypedSettings
  <2>6. keychain.key = seen.key
    BY <2>2, <2>3, <2>5 DEF TaskOf, Swaps
  <2>7. \A d \in Shell : d # c => tasks[d].op = "none"
    BY <1>4 DEF SettingsInv, Together, Alone, Swaps
  <2>8. \A d \in Shell : tasks'[d].op = "none" /\ tasks'[d].at = "idle"
    BY <1>1, <2>7, NoTaskTyped DEF SettingsInv, TypedSettings
  <2>9. Alone'
    BY <2>8 DEF Alone
  <2>10. Agree(syncToml.holds, seen.key, seen.revision)'
    <3>1. Agree(h, seen.key, seen.revision)'
      BY <2>2, <2>4, <2>5, <2>6 DEF Agree
    <3> QED
      BY <1>3, <3>1 DEF Agree
  <2>11. UsesOf(seen.key, seen.revision)'
    <3>1. UsesOf(b, r)
      BY <2>1 DEF AgreedOn
    <3>2. ~blind => \A u \in uses : u.revision <= seen.revision /\ u.revision # seen.revision
      BY <2>4, <2>5 DEF SettingsInv, TypedSettings, Used
    <3> QED
      BY <3>1, <3>2 DEF UsesOf
  <2>12. \A d \in Shell : TaskOf(tasks[d], seen.key, seen.revision)'
    BY <2>8 DEF TaskOf, WritesBack
  <2>13. AgreedOn(seen.key, seen.revision)'
    BY <2>6, <2>10, <2>11, <2>12 DEF AgreedOn
  <2> QED
    BY <2>5, <2>9, <2>13 DEF Together
<1> QED
  BY <1>2, <1>3, <1>4 DEF SettingsInv

\* The file is written, or the save fails and leaves it.
LEMMA WriteKept == ASSUME SettingsInv, NEW c \in Shell, Write(c) PROVE SettingsInv'
<1>1. PICK old : old = tasks[c]
  OBVIOUS
<1>2. /\ old \in Task /\ old.at \in {"marking", "writing"} /\ old.op # "none" /\ writer' = {}
      /\ UNCHANGED <<keychain, accounts, uses, blind>> /\ tasks \in [Shell -> Task]
      /\ IF old.at = "marking" THEN GoLoad(c) ELSE EndTask(c)
  BY <1>1 DEF SettingsInv, TypedSettings, Write
<1>3. /\ accounts' \in 0..MaxAccounts /\ accounts <= accounts' /\ writer' \subseteq Shell
      /\ blind' \in BOOLEAN /\ (blind => blind') /\ keychain' \in [up : BOOLEAN, key : Nat]
      /\ torn \in BOOLEAN
  BY <1>2, SettingsAssumption DEF SettingsInv, TypedSettings
<1>4. CASE torn' = (torn \/ Swaps(old)) /\ UNCHANGED syncToml
  <2>1. CASE old.at = "marking"
    <3>1. torn' = torn
      BY <1>3, <1>4, <2>1 DEF Swaps
    <3> QED
      BY <1>1, <1>2, <1>3, <1>4, <2>1, <3>1, LoadsNext
  <2>2. CASE old.at = "writing"
    <3>1. torn' \in BOOLEAN /\ (torn => torn') /\ (~torn' => ~Swaps(old))
      BY <1>3, <1>4
    <3> QED
      BY <1>1, <1>2, <1>3, <1>4, <2>2, <3>1, EndsTask
  <2> QED
    BY <1>2, <2>1, <2>2
<1>5. CASE /\ syncToml' = [is |-> "whole", holds |-> [old.seen EXCEPT !.key = KeyInFile(old.seen.key)]]
           /\ UNCHANGED torn
  <2>1. PICK seen \in Held : seen = old.seen
    BY <1>2 DEF Task
  <2>2. PICK h \in Held : /\ h = [seen EXCEPT !.key = KeyInFile(seen.key)]
                          /\ h.key = IF seen.key = None THEN None ELSE Marker
                          /\ h.device = seen.device /\ h.revision = seen.revision
    BY WrittenHeld
  <2>3. syncToml' = [is |-> "whole", holds |-> h]
    BY <1>5, <2>1, <2>2
  <2>4. CASE Swaps(old)
    BY <1>1, <1>2, <1>5, <2>1, <2>2, <2>3, <2>4, SwapEnds DEF Swaps
  <2>5. CASE ~Swaps(old)
    <3>1. PICK task \in Task : /\ tasks' = [tasks EXCEPT ![c] = task]
                               /\ task = NoTask \/ (task.at = "load" /\ old.at = "marking"
                                                     /\ task.op = old.op)
      <4>1. CASE old.at = "marking"
        <5>1. PICK task : task = [old EXCEPT !.at = "load", !.seen = Default]
          OBVIOUS
        <5>2. task \in Task /\ task.at = "load" /\ task.op = old.op
          BY <1>2, <5>1, NoTaskTyped DEF Task, Stages
        <5>3. tasks' = [tasks EXCEPT ![c] = task]
          BY <1>1, <1>2, <4>1, <5>1 DEF GoLoad
        <5> QED
          BY <4>1, <5>2, <5>3
      <4>2. CASE old.at = "writing"
        BY <1>2, <4>2, NoTaskTyped DEF EndTask
      <4> QED
        BY <1>2, <4>1, <4>2
    <3>2. /\ ~Swaps(task) /\ (task.op = "none" <=> task.at = "idle")
          /\ task.op = old.op \/ task.op = "none"
      BY <1>2, <3>1, NoTaskTyped DEF Swaps
    <3>3. ~torn => Alone' /\ ~Swapping
      BY <1>1, <1>2, <2>5, <3>1, <3>2, AloneStays, QuietBeside DEF SettingsInv, Together
    <3>4. ASSUME ~torn', NEW a \in 0..accounts, NEW rev \in Nat, AgreedOn(a, rev)
          PROVE  TaskOf(task, a, rev)' /\ Agree(syncToml.holds, a, rev)' /\ UsesOf(a, rev)'
      <4>1. TaskOf(old, a, rev)
        BY <1>1, <3>4 DEF AgreedOn
      <4>2. TaskOf(task, a, rev)'
        BY <3>1, <4>1, NoTaskTyped DEF TaskOf, WritesBack, Registering
      <4>3. UsesOf(a, rev)'
        BY <1>2, <3>4 DEF AgreedOn, UsesOf
      <4>4. Agree(seen, a, rev)
        BY <1>2, <2>1, <2>5, <4>1 DEF TaskOf, WritesBack, Swaps
      <4>5. ~Swapping
        BY <1>5, <3>3, <3>4
      <4>6. seen.key = None \/ (a # None /\ keychain.key = a /\ seen.device = a /\ seen.revision = rev)
        <5>1. seen.key = Marker => keychain.key = a /\ a # None
          BY <4>4, <4>5 DEF Agree
        <5>2. seen.key \notin {None, Marker} => keychain.key = a /\ a # None
          <6>1. seen.key \notin {None, Marker} => seen.key = a /\ old.at = "writing"
            BY <1>2, <2>1, <4>1, <4>4 DEF Agree, TaskOf
          <6> QED
            BY <2>1, <4>1, <6>1 DEF TaskOf
        <5> QED
          BY <4>4, <5>1, <5>2 DEF Agree
      <4>7. Agree(h, a, rev)'
        BY <1>2, <2>2, <4>6, Reserved DEF Agree
      <4>8. Agree(syncToml.holds, a, rev)'
        <5>1. syncToml'.holds = h
          BY <2>3
        <5> QED
          BY <4>7, <5>1 DEF Agree
      <4> QED
        BY <4>2, <4>3, <4>8
    <3>5. ~torn' =>
           /\ ~torn /\ ~Swaps(tasks[c]) /\ ~Swaps(task) /\ Alone'
           /\ \A a \in 0..accounts, rev \in Nat : AgreedOn(a, rev) =>
                /\ keychain'.key = keychain.key \/ (keychain'.key = a /\ ~Swapping)
                /\ TaskOf(task, a, rev)' /\ Agree(syncToml.holds, a, rev)' /\ UsesOf(a, rev)'
      <4>1. keychain'.key = keychain.key /\ torn' = torn
        BY <1>2, <1>5
      <4>2. ~torn' => ~torn /\ ~Swaps(tasks[c]) /\ ~Swaps(task) /\ Alone'
        BY <1>1, <2>5, <3>2, <3>3, <4>1
      <4> QED
        BY <3>4, <4>1, <4>2
    <3>6. /\ uses' \subseteq Used /\ uses' = uses /\ torn' \in BOOLEAN
      BY <1>2, <1>3, <1>5 DEF SettingsInv, TypedSettings
    <3>7. /\ syncToml' \in [is : {"absent", "legacy", "whole", "corrupt"}, holds : Held]
          /\ syncToml'.is = "whole" => syncToml'.holds.key \in {None, Marker}
      BY <2>2, <2>3
    <3> QED
      BY <1>3, <3>1, <3>2, <3>5, <3>6, <3>7, OneSteps
  <2> QED
    BY <2>4, <2>5
<1> QED
  BY <1>1, <1>4, <1>5 DEF Write, Swaps
---------------------------------------------------------------------------
(* The commands *)

\* A sync uses one account's key and device, at the revision of the file.
LEMMA SyncKept == ASSUME SettingsInv, NEW c \in Shell, LoadToSync(c) PROVE SettingsInv'
<1>1. /\ tasks[c].at = "load" /\ tasks[c].op = "sync" /\ tasks' = [tasks EXCEPT ![c] = NoTask]
      /\ UNCHANGED <<syncToml, keychain, writer, accounts, torn, blind>>
  BY DEF LoadToSync, EndTask
<1>2. PICK loaded \in Held : loaded = Loaded
  BY LoadedTyped
<1>3. PICK use : use = [key |-> loaded.key, device |-> loaded.device, revision |-> loaded.revision]
  OBVIOUS
<1>4. /\ use \in Used /\ use.key = loaded.key /\ use.device = loaded.device
      /\ use.revision = loaded.revision
  BY <1>2, <1>3 DEF Used, Held
<1>5. \/ uses' = uses
      \/ uses' = uses \cup {use} /\ Loads /\ loaded.key # None
  BY <1>2, <1>3 DEF LoadToSync
<1>6. ~Swaps(tasks[c]) /\ ~Swaps(NoTask)
  BY <1>1, NoTaskTyped DEF Swaps
<1>7. ~torn => Alone' /\ ~Swapping
  BY <1>1, <1>6, NoTaskTyped, AloneStays, QuietBeside DEF SettingsInv, Together
<1>8. ASSUME ~torn', NEW a \in 0..accounts, NEW rev \in Nat, AgreedOn(a, rev)
      PROVE  TaskOf(NoTask, a, rev)' /\ Agree(syncToml.holds, a, rev)' /\ UsesOf(a, rev)'
  <2>1. Swapping' <=> Swapping
    BY <1>1, <1>6, NoTaskTyped, SwappingStays DEF SettingsInv
  <2>2. PICK s : s = syncToml.holds
    OBVIOUS
  <2>3. Agree(s, a, rev)'
    BY <1>1, <1>8, <2>1, <2>2, AgreeStays DEF AgreedOn
  <2>4. Agree(syncToml.holds, a, rev)'
    BY <1>1, <2>2, <2>3 DEF Agree
  <2>5. UsesOf(a, rev)
    BY <1>8 DEF AgreedOn
  <2>6. UsesOf(a, rev)'
    <3>1. CASE uses' = uses
      BY <1>1, <2>5, <3>1 DEF UsesOf
    <3>2. CASE uses' = uses \cup {use} /\ Loads /\ loaded.key # None
      <4>1. loaded.key = a /\ loaded.device = a /\ loaded.revision = rev
        BY <1>1, <1>2, <1>7, <1>8, <3>2, LoadsTogether
      <4>2. use.key = a /\ use.device = a /\ use.revision = rev
        BY <1>4, <4>1
      <4> QED
        BY <1>1, <2>5, <3>2, <4>2 DEF UsesOf
    <3> QED
      BY <1>5, <3>1, <3>2
  <2> QED
    BY <2>4, <2>6, NoTaskTyped DEF TaskOf, WritesBack
<1>9. /\ accounts' \in 0..MaxAccounts /\ accounts <= accounts' /\ writer' \subseteq Shell
      /\ torn' \in BOOLEAN /\ blind' \in BOOLEAN /\ (blind => blind')
      /\ keychain' \in [up : BOOLEAN, key : Nat]
  BY <1>1, SettingsAssumption DEF SettingsInv, TypedSettings
<1>10. /\ uses' \subseteq Used
       /\ syncToml' \in [is : {"absent", "legacy", "whole", "corrupt"}, holds : Held]
       /\ syncToml'.is = "whole" => syncToml'.holds.key \in {None, Marker}
  BY <1>1, <1>4, <1>5 DEF SettingsInv, TypedSettings
<1>11. torn' \/ uses' = uses \/ \A d \in Shell \ {c} : tasks[d].op # "register"
  <2>1. torn \/ \A d \in Shell \ {c} : tasks[d].op # "register"
    BY <1>1 DEF SettingsInv, Together, Alone
  <2> QED
    BY <1>1, <2>1
<1>12. ~torn' =>
         /\ ~torn /\ ~Swaps(tasks[c]) /\ ~Swaps(NoTask) /\ Alone'
         /\ \A a \in 0..accounts, rev \in Nat : AgreedOn(a, rev) =>
              /\ keychain'.key = keychain.key \/ (keychain'.key = a /\ ~Swapping)
              /\ TaskOf(NoTask, a, rev)' /\ Agree(syncToml.holds, a, rev)' /\ UsesOf(a, rev)'
  BY <1>1, <1>6, <1>7, <1>8
<1> QED
  BY <1>1, <1>9, <1>10, <1>11, <1>12, NoTaskTyped, OneSteps

\* A registration goes on from the revision it has loaded, or from none.
LEMMA RegisterKept == ASSUME SettingsInv, NEW c \in Shell, LoadToRegister(c) PROVE SettingsInv'
<1>1. PICK old : old = tasks[c]
  OBVIOUS
<1>2. /\ old \in Task /\ old.at = "load" /\ old.op = "register" /\ tasks \in [Shell -> Task]
      /\ UNCHANGED <<syncToml, keychain, writer, accounts, uses, torn>>
  BY <1>1 DEF LoadToRegister, SettingsInv, TypedSettings
<1>3. ~Swaps(old)
  BY <1>2 DEF Swaps
<1>4. /\ accounts' \in 0..MaxAccounts /\ accounts <= accounts' /\ writer' \subseteq Shell
      /\ torn' \in BOOLEAN /\ keychain' \in [up : BOOLEAN, key : Nat] /\ blind \in BOOLEAN
  BY <1>2, SettingsAssumption DEF SettingsInv, TypedSettings
<1>5. CASE EndTask(c) /\ UNCHANGED blind
  BY <1>1, <1>2, <1>3, <1>4, <1>5, EndsTask
<1>6. CASE /\ tasks' = [tasks EXCEPT ![c].at = "rpc", ![c].force = FALSE,
                                     ![c].seen.revision = IF Loads THEN Loaded.revision ELSE 0]
           /\ blind' = (blind \/ \E u \in uses : u.revision > tasks'[c].seen.revision)
  <2>1. PICK revision \in Nat : revision = IF Loads THEN Loaded.revision ELSE 0
    <3>1. Loaded.revision \in Nat
      BY LoadedTyped DEF Held
    <3> QED
      BY <3>1
  <2>2. PICK seen : seen = [old.seen EXCEPT !.revision = revision]
    OBVIOUS
  <2>3. seen \in Held /\ seen.revision = revision
    BY <1>2, <2>2 DEF Held, Task
  <2>4. PICK task : task = [old EXCEPT !.at = "rpc", !.force = FALSE, !.seen = seen]
    OBVIOUS
  <2>5. task \in Task /\ task.at = "rpc" /\ task.op = "register" /\ task.seen = seen
    BY <1>2, <2>3, <2>4 DEF Task, Stages
  <2>6. tasks' = [tasks EXCEPT ![c] = task]
    <3>1. tasks' = [tasks EXCEPT ![c].at = "rpc", ![c].force = FALSE,
                                 ![c].seen.revision = revision]
      BY <1>6, <2>1
    <3> QED
      BY <1>1, <1>2, <2>2, <2>4, <3>1 DEF Task, Held
  <2>7. tasks'[c].seen.revision = revision
    BY <1>2, <2>3, <2>5, <2>6
  <2>8. blind' \in BOOLEAN /\ (blind => blind')
    BY <1>4, <1>6
  <2>9. ~blind' => \A u \in uses : u.revision <= revision
    <3>1. \A u \in uses : u.revision \in Nat
      BY DEF SettingsInv, TypedSettings, Used
    <3>2. ~blind' => \A u \in uses : ~(u.revision > revision)
      BY <1>6, <2>7
    <3>3. \A u \in uses : ~(u.revision > revision) => u.revision <= revision
      BY <3>1
    <3> QED
      BY <3>2, <3>3
  <2>10. ~torn => Alone'
    BY <1>1, <1>2, <2>5, <2>6, AloneStays DEF SettingsInv, Together
  <2>11. Registering(task)'
    BY <1>2, <2>3, <2>5, <2>9 DEF Registering
  <2>12. \A a, rev : TaskOf(task, a, rev)'
    BY <2>5, <2>11 DEF TaskOf, WritesBack
  <2>13. ~Swaps(task) /\ (task.op = "none" <=> task.at = "idle") /\ UNCHANGED <<syncToml, uses>>
    BY <1>2, <2>5 DEF Swaps
  <2>14. ~torn' =>
           /\ ~torn /\ ~Swaps(tasks[c]) /\ ~Swaps(task) /\ Alone'
           /\ \A a \in 0..accounts, rev \in Nat : AgreedOn(a, rev) =>
                /\ keychain'.key = keychain.key \/ (keychain'.key = a /\ ~Swapping)
                /\ TaskOf(task, a, rev)'
    <3>1. keychain'.key = keychain.key /\ torn' = torn
      BY <1>2
    <3> QED
      BY <1>1, <1>3, <2>10, <2>12, <2>13, <3>1
  <2> QED
    BY <1>4, <2>5, <2>6, <2>8, <2>13, <2>14, OneMoves
<1> QED
  BY <1>1, <1>5, <1>6 DEF LoadToRegister

\* The server opens an account, whose answer may be lost.
LEMMA AskKept == ASSUME SettingsInv, NEW c \in Shell, AskAccount(c) PROVE SettingsInv'
<1>1. PICK old : old = tasks[c]
  OBVIOUS
<1>2. /\ old \in Task /\ old.at = "rpc" /\ tasks \in [Shell -> Task] /\ old.op # "none"
      /\ UNCHANGED <<syncToml, keychain, writer, uses, torn, blind>>
  BY <1>1 DEF AskAccount, SettingsInv, TypedSettings
<1>3. ~Swaps(old)
  BY <1>2 DEF Swaps
<1>4. /\ writer' \subseteq Shell /\ torn' \in BOOLEAN /\ keychain' \in [up : BOOLEAN, key : Nat]
      /\ blind' \in BOOLEAN /\ accounts \in 0..MaxAccounts /\ MaxAccounts \in Nat
      /\ (torn => torn') /\ (blind => blind')
  BY <1>2, SettingsAssumption DEF SettingsInv, TypedSettings
<1>5. accounts' \in {accounts, accounts + 1} /\ accounts' <= MaxAccounts
  BY <1>4 DEF AskAccount
<1>6. accounts' \in 0..MaxAccounts /\ accounts <= accounts'
  BY <1>4, <1>5
<1>7. CASE EndTask(c)
  BY <1>1, <1>2, <1>3, <1>4, <1>6, <1>7, EndsTask
<1>8. CASE /\ accounts' = accounts + 1
           /\ tasks' = [tasks EXCEPT ![c].at = "save",
                                     ![c].seen = Registered(tasks[c].seen, accounts + 1)]
  <2>1. PICK was \in Held : was = old.seen
    BY <1>2 DEF Task
  <2>2. PICK seen : seen = Registered(was, accounts + 1)
    OBVIOUS
  <2>3. /\ seen.key = accounts' /\ seen.device = accounts' /\ seen.revision = was.revision + 1
    BY <1>8, <2>2 DEF Registered
  <2>4. seen \in Held /\ was.revision \in Nat
    <3>1. accounts + 1 \in Nat /\ was.revision \in Nat /\ was.revision + 1 \in Nat
      BY <1>4, <2>1 DEF Held
    <3> QED
      BY <2>2, <3>1 DEF Registered, Held
  <2>5. PICK task : task = [old EXCEPT !.at = "save", !.seen = seen]
    OBVIOUS
  <2>6. task \in Task /\ task.at = "save" /\ task.op = old.op /\ task.seen = seen
    BY <1>2, <2>4, <2>5 DEF Task, Stages
  <2>7. tasks' = [tasks EXCEPT ![c] = task]
    BY <1>1, <1>2, <1>8, <2>1, <2>2, <2>5
  <2>8. ~torn => Alone'
    BY <1>1, <1>2, <2>6, <2>7, AloneStays DEF SettingsInv, Together
  <2>9. ASSUME NEW a, NEW rev, AgreedOn(a, rev) PROVE TaskOf(task, a, rev)'
    <3>1. TaskOf(old, a, rev)
      BY <1>1, <2>9 DEF AgreedOn
    <3>2. old.op = "register" /\ Registering(old)
      BY <1>2, <3>1 DEF TaskOf
    <3>3. ~blind => \A u \in uses : u.revision <= was.revision
      BY <1>2, <2>1, <3>2 DEF Registering
    <3>4. ~blind => \A u \in uses : u.revision < seen.revision
      <4>1. \A u \in uses : u.revision \in Nat
        BY DEF SettingsInv, TypedSettings, Used
      <4> QED
        BY <2>3, <2>4, <3>3, <4>1
    <3>5. seen.key \in 1..accounts'
      BY <1>4, <1>8, <2>3
    <3>6. Registering(task)'
      BY <1>2, <2>3, <2>6, <3>4, <3>5 DEF Registering
    <3> QED
      BY <2>6, <3>2, <3>6 DEF TaskOf, WritesBack
  <2>10. ~Swaps(task) /\ (task.op = "none" <=> task.at = "idle") /\ UNCHANGED <<syncToml, uses>>
    BY <1>2, <2>6 DEF Swaps
  <2>11. ~torn' =>
           /\ ~torn /\ ~Swaps(tasks[c]) /\ ~Swaps(task) /\ Alone'
           /\ \A a \in 0..accounts, rev \in Nat : AgreedOn(a, rev) =>
                /\ keychain'.key = keychain.key \/ (keychain'.key = a /\ ~Swapping)
                /\ TaskOf(task, a, rev)'
    <3>1. keychain'.key = keychain.key /\ torn' = torn
      BY <1>2
    <3> QED
      BY <1>1, <1>3, <2>8, <2>9, <2>10, <3>1
  <2> QED
    BY <1>4, <1>6, <2>6, <2>7, <2>10, <2>11, OneMoves
<1> QED
  BY <1>7, <1>8 DEF AskAccount

\* A command dies; if between the key and the file of a registration, torn says so.
LEMMA DieKept == ASSUME SettingsInv, NEW c \in Shell, Die(c) PROVE SettingsInv'
<1>1. /\ EndTask(c) /\ UNCHANGED <<syncToml, keychain, accounts, uses, blind>>
      /\ writer' = writer \ {c} /\ torn' = (torn \/ Swaps(tasks[c]))
  BY DEF Die, Swaps
<1>2. /\ writer' \subseteq Shell /\ accounts' \in 0..MaxAccounts /\ accounts <= accounts'
      /\ torn \in BOOLEAN
  BY <1>1, SettingsAssumption DEF SettingsInv, TypedSettings
<1>3. torn' \in BOOLEAN /\ (torn => torn') /\ (~torn' => ~Swaps(tasks[c]))
  BY <1>1, <1>2
<1> QED
  BY <1>1, <1>2, <1>3, EndsTask

\* The user, the disk or the system changes the file or the keychain.
LEMMA UpsetKept == ASSUME SettingsInv, Upset PROVE SettingsInv'
<1>1. UNCHANGED <<writer, tasks, accounts, uses, torn, blind>>
  BY DEF Upset
<1>2. /\ keychain' \in [up : BOOLEAN, key : Nat] /\ keychain'.key = keychain.key
      /\ \/ syncToml' = syncToml
         \/ syncToml' \in [is : {"corrupt", "absent"}, holds : {Default}]
  BY DEF Upset, SettingsInv, TypedSettings
<1>3. syncToml' \in [is : {"absent", "legacy", "whole", "corrupt"}, holds : Held]
  BY <1>2, NoTaskTyped DEF SettingsInv, TypedSettings
<1>4. TypedSettings'
  BY <1>1, <1>2, <1>3 DEF SettingsInv, TypedSettings
<1>5. syncToml'.is = "whole" => syncToml'.holds.key \in {None, Marker}
  BY <1>2 DEF SettingsInv
<1>6. ASSUME ~torn PROVE Together'
  <2>1. PICK a \in 0..accounts, rev \in Nat : AgreedOn(a, rev)
    BY <1>6 DEF SettingsInv, Together
  <2>2. Agree(syncToml.holds, a, rev)'
    <3>1. CASE syncToml' = syncToml
      BY <1>1, <1>2, <2>1, <3>1 DEF AgreedOn, Agree, Swapping
    <3>2. CASE syncToml' \in [is : {"corrupt", "absent"}, holds : {Default}]
      <4>1. syncToml'.holds.key = None
        BY <3>2, NoTaskTyped
      <4> QED
        BY <4>1, Reserved DEF Agree
    <3> QED
      BY <1>2, <3>1, <3>2
  <2>3. \A d \in Shell : TaskOf(tasks[d], a, rev)'
    BY <1>1, <1>2, <2>1 DEF AgreedOn, TaskOf, WritesBack, Agree, Registering, Swapping
  <2>4. AgreedOn(a, rev)'
    BY <1>1, <1>2, <2>1, <2>2, <2>3 DEF AgreedOn, UsesOf, Swapping
  <2>5. Alone'
    BY <1>1, <1>6 DEF SettingsInv, Together, Alone
  <2> QED
    BY <1>1, <2>1, <2>4, <2>5 DEF Together
<1> QED
  BY <1>1, <1>4, <1>5, <1>6 DEF SettingsInv

\* A step of something else.
LEMMA SettingsStutter == ASSUME SettingsInv, UNCHANGED settingsVars PROVE SettingsInv'
<1>1. UNCHANGED <<syncToml, keychain, writer, tasks, accounts, uses, torn, blind>>
  BY DEF settingsVars
<1>2. TypedSettings'
  BY <1>1 DEF SettingsInv, TypedSettings
<1>3. ASSUME ~torn PROVE Together'
  <2>1. PICK a \in 0..accounts, rev \in Nat : AgreedOn(a, rev)
    BY <1>3 DEF SettingsInv, Together
  <2>2. \A d \in Shell : TaskOf(tasks[d], a, rev)'
    BY <1>1, <2>1 DEF AgreedOn, TaskOf, WritesBack, Agree, Registering, Swapping
  <2>3. AgreedOn(a, rev)'
    BY <1>1, <2>1, <2>2 DEF AgreedOn, Agree, UsesOf, Swapping
  <2>4. Alone'
    BY <1>1, <1>3 DEF SettingsInv, Together, Alone
  <2> QED
    BY <1>1, <2>1, <2>3, <2>4 DEF Together
<1> QED
  BY <1>1, <1>2, <1>3 DEF SettingsInv

\* The invariant is inductive, for any number of shells, accounts and upsets.
LEMMA SettingsInvariance == SettingsSpec => []SettingsInv
<1>1. SettingsInv /\ [SettingsNext]_settingsVars => SettingsInv'
  <2> SUFFICES ASSUME SettingsInv, [SettingsNext]_settingsVars PROVE SettingsInv'
    OBVIOUS
  <2>1. ASSUME NEW c \in Shell, NEW op \in {"register", "sync"}, Migrate(c, op)
        PROVE  SettingsInv'
    BY <2>1, MigrateKept
  <2>2. ASSUME NEW c \in Shell,
               \/ Change(c) \/ StoreKey(c) \/ Serialize(c) \/ Write(c)
               \/ LoadToSync(c) \/ LoadToRegister(c) \/ AskAccount(c) \/ Die(c)
        PROVE  SettingsInv'
    BY <2>2, ChangeKept, StoreKept, SerializeKept, WriteKept, SyncKept, RegisterKept, AskKept,
       DieKept
  <2> QED
    BY <2>1, <2>2, UpsetKept, SettingsStutter DEF SettingsNext
<1> QED
  BY <1>1, SettingsStart, PTL DEF SettingsSpec

\* load_sync_settings, save_sync_settings: as long as no registration is overlapped
\* or cut short between its key and its file, every sync runs with the key and
\* the device of one account, a new key shows in the revision unless a
\* registration began behind, and no key is written to the file.
THEOREM EverySyncWhole == SettingsSpec => []CredentialsTogether
<1>1. SettingsInv => CredentialsTogether
  BY DEF SettingsInv, Together, AgreedOn, UsesOf, CredentialsTogether
<1> QED
  BY <1>1, SettingsInvariance, PTL
---------------------------------------------------------------------------
(* A call of the sync client *)

\* What SetToSeq lists is the set.
LEMMA SeqOfSet ==
  ASSUME NEW S, IsFiniteSet(S)
  PROVE  Range(SetToSeq(S)) = S
<1> DEFINE n == Cardinality(S)
           f == SetToSeq(S)
<1>1. n \in Nat /\ ExistsBijection(1..n, S)
  BY FS_CardinalityType
<1>2. PICK g \in Bijection(1..n, S) : TRUE
  BY <1>1 DEF ExistsBijection
<1>3. g \in [1..n -> S] /\ IsInjective(g)
  BY <1>2 DEF Bijection, Injection, IsInjective
<1>4. f \in [1..n -> S] /\ IsInjective(f)
  BY <1>3 DEF SetToSeq
<1>5. IsFiniteSet(1..n) /\ Cardinality(1..n) = n
  BY <1>1, FS_Interval
<1>6. Range(f) \subseteq S /\ f \in Surjection(1..n, Range(f))
  <2> HIDE DEF f
  <2> QED
    BY <1>4 DEF Range, Surjection
<1>7. IsFiniteSet(Range(f)) /\ (Cardinality(Range(f)) = n <=> f \in Injection(1..n, Range(f)))
  BY <1>5, <1>6, FS_Surjection
<1>8. f \in Injection(1..n, Range(f))
  <2> HIDE DEF f
  <2> QED
    BY <1>4, <1>6 DEF Injection, IsInjective, Surjection
<1>9. Cardinality(Range(f)) = n
  BY <1>7, <1>8
<1> HIDE DEF f, n
<1> QED
  BY <1>6, <1>9, FS_Subset DEF n, f

Fields == {"at", "wake", "error"} \subseteq DOMAIN client
CallKinds == call.op \in Calls /\ client.at \in {"encrypt"} \cup Sending \cup Ended

\* The clock against the deadline: at a request, and at the end of a sleep.
Within == call.limited =>
            /\ client.at \in {"flight", "sleep"} => elapsed <= Deadline
            /\ client.at = "sleep" => client.wake \in Int /\ client.wake <= Deadline
\* A registration asks once: as long as it has not ended it has no account.
Once == /\ call.op # "register" => remote.accounts = 0
        /\ call.op = "register" =>
             /\ client.at \in {"send", "flight"} => remote.accounts = 0
             /\ client.at = "ok" => remote.accounts = 1
             /\ remote.accounts \in {0, 1} /\ client.at # "sleep" /\ client.at # "encrypt"
Unsent == /\ client.at = "encrypt" => remote.rows = SetToSeq(Others)
          /\ client.error = "too large" =>
               client.at = "failed" /\ remote.rows = SetToSeq(Others)
CallInv == Fields /\ CallKinds /\ elapsed \in Nat /\ Within /\ Once /\ Unsent

\* A call starts with nothing sent and no time gone.
LEMMA CallStart == ClientInit => CallInv
<1> SUFFICES ASSUME ClientInit PROVE CallInv
  OBVIOUS
<1>1. /\ client.at = IF call.op = "sync" THEN "encrypt" ELSE "send"
      /\ client.error = "none" /\ Fields
  BY DEF ClientInit, Fields
<1>2. /\ remote.rows = SetToSeq(Others) /\ remote.accounts = 0 /\ elapsed = 0
  BY DEF ClientInit
<1>3. call.op \in Calls
  BY DEF ClientInit
<1> QED
  BY <1>1, <1>2, <1>3 DEF CallInv, CallKinds, Within, Once, Unsent, Calls, Sending, Ended

\* A served request opens the account of a registration, the only one.
LEMMA ServesOnce ==
  ASSUME CallInv, client.at = "flight", Serves
  PROVE  remote'.accounts = IF call.op = "register" THEN 1 ELSE 0
<1>1. remote'.accounts = remote.accounts + (IF call.op = "register" THEN 1 ELSE 0)
  BY DEF Serves
<1>2. remote.accounts = 0
  BY DEF CallInv, Once
<1> QED
  BY <1>1, <1>2

\* The call ends in failure, as long as nothing new reached the server, or not
\* for a size.
LEMMA FailsKept ==
  ASSUME CallInv, NEW error, Fails(error), UNCHANGED <<call, elapsed>>,
         \/ UNCHANGED remote /\ (error = "too large" => client.at = "encrypt")
         \/ client.at = "flight" /\ Serves /\ error # "too large"
  PROVE  CallInv'
<1>1. client'.at = "failed" /\ client'.error = error /\ Fields'
  BY DEF CallInv, Fields, Fails
<1>2. CASE UNCHANGED remote /\ (error = "too large" => client.at = "encrypt")
  BY <1>1, <1>2 DEF CallInv, CallKinds, Within, Once, Unsent, Calls, Sending, Ended
<1>3. CASE client.at = "flight" /\ Serves /\ error # "too large"
  <2>1. remote'.accounts = IF call.op = "register" THEN 1 ELSE 0
    BY <1>3, ServesOnce
  <2>2. CallKinds' /\ Within' /\ elapsed' \in Nat
    BY <1>1 DEF CallInv, CallKinds, Within, Ended
  <2>3. Once'
    BY <1>1, <2>1 DEF Once
  <2>4. Unsent'
    BY <1>1, <1>3 DEF Unsent
  <2> QED
    BY <1>1, <2>2, <2>3, <2>4 DEF CallInv
<1> QED
  BY <1>2, <1>3

\* The call goes on before it has sent anything, or ends a sleep.
LEMMA GoesOn ==
  ASSUME CallInv, NEW next, client' = next, "at" \in DOMAIN next, Fields',
         next.error = client.error, UNCHANGED <<call, remote, elapsed>>,
         \/ client.at = "encrypt" /\ next.at \in {"encrypt", "send"}
         \/ client.at = "sleep" /\ next.at = "send"
         \/ client.at = "send" /\ next.at = "flight" /\ ~PastDeadline
  PROVE  CallInv'
<1>1. CallInv /\ client'.at = next.at /\ client'.error = client.error
  OBVIOUS
<1>2. CASE client.at = "encrypt" /\ next.at \in {"encrypt", "send"}
  BY <1>1, <1>2 DEF CallInv, CallKinds, Within, Once, Unsent, Calls, Sending, Ended
<1>3. CASE client.at = "sleep" /\ next.at = "send"
  BY <1>1, <1>3 DEF CallInv, CallKinds, Within, Once, Unsent, Calls, Sending, Ended
<1>4. CASE client.at = "send" /\ next.at = "flight" /\ ~PastDeadline
  <2>1. call.limited => elapsed <= Deadline
    BY <1>4, CallAssumption DEF PastDeadline, CallInv
  <2> QED
    BY <1>1, <1>4, <2>1 DEF CallInv, CallKinds, Within, Once, Unsent, Calls, Sending, Ended
<1> QED
  BY <1>2, <1>3, <1>4

\* encrypt_snippets_with: nothing is sent yet.
LEMMA EncryptKept == ASSUME CallInv, EncryptNext PROVE CallInv'
<1>1. CASE Fails("timeout")
  BY <1>1, FailsKept DEF EncryptNext
<1>2. ASSUME NEW done \in BOOLEAN, NEW s,
             client' = [client EXCEPT !.todo = @ \ {s},
                                      !.sealed = IF done THEN @ \cup {s} ELSE @,
                                      !.skipped = IF done THEN @ ELSE Append(@, s)]
      PROVE  CallInv'
  <2>1. /\ client'.at = client.at /\ client'.error = client.error /\ Fields'
        /\ DOMAIN client' = DOMAIN client
    BY <1>2 DEF CallInv, Fields
  <2>2. client.at = "encrypt" /\ UNCHANGED <<call, remote, elapsed>>
    BY DEF EncryptNext
  <2>3. "at" \in DOMAIN client'
    BY <2>1 DEF CallInv, Fields
  <2> QED
    BY <2>1, <2>2, <2>3, GoesOn
<1> QED
  BY <1>1, <1>2 DEF EncryptNext

\* build_upload_batches: the batches, or the failure of a snippet too large.
LEMMA BuildKept == ASSUME CallInv, Build PROVE CallInv'
<1>1. CASE Fails("too large")
  BY <1>1, FailsKept DEF Build
<1>2. CASE client' = [client EXCEPT !.at = "send", !.batches = Packed(client.sealed)]
  <2>1. /\ client'.at = "send" /\ client'.error = client.error /\ Fields'
        /\ DOMAIN client' = DOMAIN client
    BY <1>2 DEF CallInv, Fields
  <2>2. client.at = "encrypt" /\ UNCHANGED <<call, remote, elapsed>>
    BY DEF Build
  <2>3. "at" \in DOMAIN client'
    BY <2>1 DEF CallInv, Fields
  <2> QED
    BY <2>1, <2>2, <2>3, GoesOn
<1> QED
  BY <1>1, <1>2 DEF Build

\* An attempt starts before the deadline or not at all.
LEMMA SendKept == ASSUME CallInv, Send PROVE CallInv'
<1>1. CASE Fails("timeout")
  BY <1>1, FailsKept DEF Send
<1>2. CASE ~PastDeadline /\ client' = [client EXCEPT !.at = "flight"]
  <2>1. /\ client'.at = "flight" /\ client'.error = client.error /\ Fields'
        /\ DOMAIN client' = DOMAIN client
    BY <1>2 DEF CallInv, Fields
  <2>2. client.at = "send" /\ UNCHANGED <<call, remote, elapsed>>
    BY DEF Send
  <2>3. "at" \in DOMAIN client'
    BY <2>1 DEF CallInv, Fields
  <2> QED
    BY <1>2, <2>1, <2>2, <2>3, GoesOn
<1> QED
  BY <1>1, <1>2 DEF Send

\* The sleep is over and the request is sent again.
LEMMA WakeKept == ASSUME CallInv, Wake PROVE CallInv'
<1>1. /\ client'.at = "send" /\ client'.error = client.error /\ Fields'
      /\ DOMAIN client' = DOMAIN client
  BY DEF CallInv, Fields, Wake
<1>2. client.at = "sleep" /\ UNCHANGED <<call, remote, elapsed>>
  BY DEF Wake
<1>3. "at" \in DOMAIN client'
  BY <1>1 DEF CallInv, Fields
<1> QED
  BY <1>1, <1>2, <1>3, GoesOn

\* An answer read: a success, another request, or pages without end.
LEMMA AnsweredKept == ASSUME CallInv, Answered PROVE CallInv'
<1>1. /\ client.at = "flight" /\ UNCHANGED <<call, elapsed>> /\ client.error # "too large"
      /\ remote'.accounts = IF call.op = "register" THEN 1 ELSE 0
  BY ServesOnce DEF CallInv, Unsent, Answered
<1>2. call.op = "register" \/ call.op = "download" \/ call.op = "sync"
  BY DEF CallInv, CallKinds, Calls
<1>3. CASE call.op # "sync"
  <2>1. client' = [client EXCEPT !.at = "ok"]
    BY <1>3 DEF Answered
  <2>2. client'.at = "ok" /\ client'.error = client.error /\ Fields'
    BY <2>1 DEF CallInv, Fields
  <2>3. CallKinds' /\ Within' /\ Unsent'
    BY <1>1, <2>2 DEF CallInv, CallKinds, Within, Unsent, Ended
  <2>4. Once'
    BY <1>1, <2>2 DEF Once
  <2> QED
    BY <1>1, <2>2, <2>3, <2>4 DEF CallInv
<1>4. CASE call.op = "sync"
  <2>1. ASSUME Fields', client'.at \in {"send", "ok", "failed"}, client'.error # "too large"
        PROVE  CallInv'
    <3>1. CallKinds' /\ Within' /\ Unsent' /\ elapsed' \in Nat
      BY <1>1, <2>1 DEF CallInv, CallKinds, Within, Unsent, Sending, Ended
    <3>2. Once'
      BY <1>1, <1>4 DEF Once
    <3> QED
      BY <2>1, <3>1, <3>2 DEF CallInv
  <2>2. CASE Pushing
    <3>1. client' = Pushed(client)
      BY <1>4, <2>2 DEF Answered
    <3>2. /\ client'.at = "send" /\ client'.error = client.error /\ Fields'
      BY <3>1 DEF CallInv, Fields, Pushed
    <3> QED
      BY <1>1, <2>1, <3>2
  <2>3. CASE ~Pushing
    <3>1. client' = Read(client, remote'.rows)
      BY <1>4, <2>3 DEF Answered
    <3> DEFINE d == [client EXCEPT
                       !.got = @ \o SelectSeq(PageOf(remote'.rows), Opens), !.pages = @ + 1,
                       !.attempt = 0, !.delay = 2,
                       !.skipped = @ \o Sealed(Upload \cap call.refused)
                                     \o SelectSeq(PageOf(remote'.rows), LAMBDA r : ~Opens(r)),
                       !.next = Len(client.batches) + 1]
    <3>2. \/ client' = [d EXCEPT !.at = "ok"]
          \/ client' = [d EXCEPT !.at = "failed", !.error = "endless"]
          \/ client' = [d EXCEPT !.at = "send", !.offset = @ + Len(PageOf(remote'.rows))]
      BY <3>1 DEF Read
    <3>3. DOMAIN d = DOMAIN client /\ d.error = client.error
      BY DEF CallInv, Fields
    <3> HIDE DEF d
    <3>4. /\ client'.at \in {"ok", "failed", "send"} /\ client'.error \in {client.error, "endless"}
          /\ Fields'
      BY <3>2, <3>3 DEF CallInv, Fields
    <3> QED
      BY <1>1, <2>1, <3>4
  <2> QED
    BY <2>2, <2>3
<1> QED
  BY <1>3, <1>4

\* A call that sleeps wakes before its deadline; a registration does not sleep.
LEMMA BackoffKept ==
  ASSUME CallInv, client.at = "flight", call.op # "register", UNCHANGED <<call, elapsed>>,
         Serves \/ UNCHANGED remote, NEW limit \in BOOLEAN, Backoff(limit)
  PROVE  CallInv'
<1>1. PICK d \in Jittered(client.delay) :
         IF call.limited /\ Deadline - elapsed <= d THEN Fails("timeout")
         ELSE client' = [client EXCEPT !.at = "sleep", !.delay = NextDelay(limit),
                                       !.attempt = @ + 1,
                                       !.wake = IF call.limited THEN elapsed + d ELSE elapsed]
  BY DEF Backoff
<1>2. CASE Fails("timeout")
  BY <1>2, FailsKept
<1>3. CASE /\ ~(call.limited /\ Deadline - elapsed <= d)
           /\ client' = [client EXCEPT !.at = "sleep", !.delay = NextDelay(limit),
                                       !.attempt = @ + 1,
                                       !.wake = IF call.limited THEN elapsed + d ELSE elapsed]
  <2>1. /\ client'.at = "sleep" /\ client'.error = client.error /\ Fields'
        /\ client'.wake = IF call.limited THEN elapsed + d ELSE elapsed
    BY <1>3 DEF CallInv, Fields
  <2>2. d \in Int /\ elapsed \in Nat /\ Deadline \in Nat
    BY CallAssumption DEF Jittered, CallInv
  <2>3. call.limited => ~(Deadline - elapsed <= d)
    BY <1>3
  <2>4. call.limited => elapsed + d \in Int /\ elapsed + d <= Deadline
    BY <2>2, <2>3
  <2>5. client.error # "too large" /\ remote.accounts = 0
    BY DEF CallInv, Unsent, Once
  <2>6. remote'.accounts = 0
    BY <2>5, ServesOnce
  <2>7. Once' /\ Unsent'
    BY <2>1, <2>5, <2>6 DEF Once, Unsent
  <2> QED
    BY <2>1, <2>2, <2>4, <2>7 DEF CallInv, CallKinds, Within, Sending
<1> QED
  BY <1>1, <1>2, <1>3

\* A request that failed is sent again, but for a registration.
LEMMA FaultKept == ASSUME CallInv, Fault PROVE CallInv'
<1>1. PICK served \in BOOLEAN, limit \in BOOLEAN :
         /\ IF served THEN Serves ELSE UNCHANGED remote
         /\ IF Retries THEN Backoff(limit) ELSE Fails("transient")
  BY DEF Fault
<1>2. client.at = "flight" /\ UNCHANGED <<call, elapsed>> /\ (Serves \/ UNCHANGED remote)
  BY <1>1 DEF Fault
<1>3. CASE Retries
  BY <1>1, <1>2, <1>3, BackoffKept DEF Retries
<1>4. CASE ~Retries
  BY <1>1, <1>2, <1>4, FailsKept
<1> QED
  BY <1>3, <1>4

\* A timer that is due fires before more time passes.
LEMMA ElapseKept == ASSUME CallInv, Elapse PROVE CallInv'
<1>1. call.limited /\ elapsed' = elapsed + 1 /\ UNCHANGED <<call, client, remote>>
  BY DEF Elapse
<1>2. elapsed \in Nat /\ Deadline \in Nat /\ elapsed' \in Nat
  BY <1>1, CallAssumption DEF CallInv
<1>3. client.at = "flight" => elapsed' <= Deadline
  BY <1>1, <1>2 DEF Elapse, PastDeadline
<1>4. client.at = "sleep" => /\ client.wake \in Int /\ client.wake <= Deadline
                               /\ elapsed' <= Deadline
  <2>1. client.at = "sleep" => client.wake \in Int /\ elapsed < client.wake
                               /\ client.wake <= Deadline
    BY <1>1 DEF Elapse, CallInv, Within
  <2> QED
    BY <1>1, <1>2, <2>1
<1>5. Fields' /\ CallKinds' /\ Once' /\ Unsent'
  BY <1>1 DEF CallInv, Fields, CallKinds, Once, Unsent
<1> QED
  BY <1>1, <1>2, <1>3, <1>4, <1>5 DEF CallInv, Within

\* The invariant is inductive, for any batches, pages, delays and losses.
LEMMA CallInvariance == ClientSpec => []CallInv
<1>1. CallInv /\ [ClientNext]_clientVars => CallInv'
  <2> SUFFICES ASSUME CallInv, [ClientNext]_clientVars PROVE CallInv'
    OBVIOUS
  <2>1. CASE Refuse
    BY <2>1, FailsKept DEF Refuse
  <2>2. CASE Expire
    BY <2>2, FailsKept DEF Expire
  <2>3. CASE UNCHANGED clientVars
    BY <2>3 DEF clientVars, CallInv, Fields, CallKinds, Within, Once, Unsent
  <2> QED
    BY <2>1, <2>2, <2>3, EncryptKept, BuildKept, SendKept, AnsweredKept, FaultKept, WakeKept,
       ElapseKept DEF ClientNext
<1> QED
  BY <1>1, CallStart, PTL DEF ClientSpec

\* retry_grpc_unified: an automatic sync waits for no answer and sleeps for no
\* retry beyond its deadline, whatever the delays and the jitter.
THEOREM EveryDeadlineKept == ClientSpec => []KeepsItsDeadline
<1>1. CallInv => KeepsItsDeadline
  BY CallAssumption DEF CallInv, Within, KeepsItsDeadline
<1> QED
  BY <1>1, CallInvariance, PTL

\* register: a registration leaves one account at most, and one if it succeeds,
\* although its answer may be lost.
THEOREM RegistersOnce == ClientSpec => []OneAccount
<1>1. CallInv => OneAccount
  BY DEF CallInv, Once, OneAccount
<1> QED
  BY <1>1, CallInvariance, PTL

\* build_upload_batches: a call that is refused for the size of a snippet has
\* sent nothing.
THEOREM TooLargeSendsNothing == ClientSpec => []NothingSentTooLarge
<1>1. CallInv => NothingSentTooLarge
  BY CallAssumption, SeqOfSet DEF CallInv, Unsent, NothingSentTooLarge
<1> QED
  BY <1>1, CallInvariance, PTL
---------------------------------------------------------------------------
(* The restores *)

\* A file at the top is of a known kind, any other is a library.
FileSound(p, body) ==
    \/ p = Top(p[2]) /\ p[2] \in Kinds
    \/ p[1] \in {"libraries/", "libraries\\"} /\ p = <<p[1], p[2]>> /\ body \in Versions
FilesSound(files) == /\ IsFiniteSet(DOMAIN files)
                     /\ \A p \in DOMAIN files : FileSound(p, files[p])

\* A manifest that parses.
Parsed(m) == IsFiniteSet(DOMAIN m) /\ \A i \in DOMAIN m : Listing(m[i])
BackupsInv ==
    /\ FilesSound(disk) /\ time \in Nat
    /\ DOMAIN archive = {"own", "manifest", "files"} /\ Parsed(archive.manifest)
    /\ DOMAIN restore = {"at", "mode", "manifest"}
    /\ restore.at = "checked" => Contract(restore.manifest) /\ Parsed(restore.manifest)

\* The two kinds of places differ.
LEMMA Dirs == /\ "libraries/" # "libraries\\" /\ "" # "libraries/" /\ "" # "libraries\\"
              /\ "library" \notin Kinds
BY DEF Kinds

\* A library's name and its place.
LEMMA PlacePair == \A a, b, c, d : <<a, b>> = <<c, d>> <=> a = c /\ b = d
OBVIOUS

\* A file is written.
LEMMA WriteSound ==
  ASSUME NEW files, FilesSound(files), NEW p, NEW body, FileSound(p, body)
  PROVE  FilesSound(WithFile(files, p, body))
<1>1. DOMAIN WithFile(files, p, body) = DOMAIN files \cup {p}
  BY DEF WithFile
<1>2. IsFiniteSet(DOMAIN files \cup {p})
  BY FS_AddElement DEF FilesSound
<1>3. ASSUME NEW q \in DOMAIN files \cup {p} PROVE FileSound(q, WithFile(files, p, body)[q])
  <2>1. WithFile(files, p, body)[q] = IF q = p THEN body ELSE files[q]
    BY DEF WithFile
  <2> QED
    BY <2>1 DEF FilesSound
<1> QED
  BY <1>1, <1>2, <1>3 DEF FilesSound

\* A file is removed.
LEMMA RemoveSound ==
  ASSUME NEW files, FilesSound(files), NEW p
  PROVE  FilesSound(WithoutFile(files, p))
<1>1. /\ DOMAIN WithoutFile(files, p) = DOMAIN files \ {p}
      /\ \A q \in DOMAIN files \ {p} : WithoutFile(files, p)[q] = files[q]
  BY DEF WithoutFile, Restrict
<1>2. IsFiniteSet(DOMAIN files \ {p})
  BY FS_Subset DEF FilesSound
<1> QED
  BY <1>1, <1>2 DEF FilesSound

\* An index is no library.
LEMMA IndexSound ==
  ASSUME NEW files, FilesSound(files), NEW listed, NEW primary
  PROVE  FilesSound(Index(files, listed, primary))
<1>1. FileSound(Top("index"), [listed |-> listed, primary |-> primary])
  BY DEF FileSound, Top, Kinds
<1> QED
  BY <1>1, WriteSound DEF Index

\* A library of a name.
LEMMA LibrarySound ==
  ASSUME NEW l, NEW body \in Versions
  PROVE  FileSound(Lib(l), body)
BY DEF FileSound, Lib

\* A library of the disk, seen by its name.
LEMMA NamedLibrary ==
  ASSUME NEW files, FilesSound(files), NEW l \in Names(files)
  PROVE  Lib(l) \in DOMAIN files /\ files[Lib(l)] \in Versions
<1>1. PICK p \in DOMAIN files : p[1] = "libraries/" /\ p[2] = l
  BY DEF Names
<1>2. p # Top(p[2])
  <2>1. Top(p[2])[1] = ""
    BY DEF Top
  <2> QED
    BY <1>1, <2>1, Dirs
<1>3. p = Lib(l) /\ files[p] \in Versions
  BY <1>1, <1>2 DEF FilesSound, FileSound, Lib
<1> QED
  BY <1>3

\* Only the data changes, and time goes on.
LEMMA ChangesKept ==
  ASSUME BackupsInv, NEW files, FilesSound(files), Later, Changes(files)
  PROVE  BackupsInv'
<1>1. time' \in Nat
  BY DEF BackupsInv, Later
<1>2. FilesSound(disk)'
  BY DEF Changes, FilesSound
<1>3. archive' = archive /\ restore' = restore
  BY DEF Changes
<1>4. Parsed(archive.manifest)' /\ (restore.at = "checked" => Contract(restore.manifest) /\ Parsed(restore.manifest))'
  BY <1>3 DEF BackupsInv, Parsed, Contract
<1> QED
  BY <1>1, <1>2, <1>3, <1>4 DEF BackupsInv

\* A library of the disk is written in place.
LEMMA InPlace ==
  ASSUME BackupsInv, NEW l \in Names(disk), NEW body \in Versions
  PROVE  FilesSound([disk EXCEPT ![Lib(l)] = body])
<1> DEFINE files == [disk EXCEPT ![Lib(l)] = body]
<1>1. FilesSound(disk) /\ Lib(l) \in DOMAIN disk
  BY NamedLibrary DEF BackupsInv
<1>2. DOMAIN files = DOMAIN disk /\ \A q \in DOMAIN disk : files[q] = IF q = Lib(l) THEN body ELSE disk[q]
  BY <1>1
<1>3. FileSound(Lib(l), body)
  BY LibrarySound
<1> HIDE DEF files
<1>4. FilesSound(files)
  BY <1>1, <1>2, <1>3 DEF FilesSound
<1> QED
  BY <1>4 DEF files

\* A snippet of a library is edited.
LEMMA EditKept ==
  ASSUME BackupsInv, NEW l \in LibraryName, NEW i \in SnippetId, Edit(l, i)
  PROVE  BackupsInv'
<1> DEFINE old == disk[Lib(l)]
           body == [old EXCEPT !.at[i] = time']
<1>1. l \in Names(disk) /\ Later /\ Changes([disk EXCEPT ![Lib(l)].at[i] = time'])
  BY DEF Edit
<1>2. Lib(l) \in DOMAIN disk /\ old \in Versions
  BY <1>1, NamedLibrary DEF BackupsInv
<1>3. time' \in Nat
  BY <1>1 DEF Later, BackupsInv
<1>4. [old.at EXCEPT ![i] = time'] \in [SnippetId -> Nat] /\ old.ok \in BOOLEAN
  BY <1>2, <1>3 DEF Versions
<1>5. body = [ok |-> old.ok, at |-> [old.at EXCEPT ![i] = time']]
  BY <1>2 DEF Versions
<1>6. body \in Versions
  BY <1>4, <1>5 DEF Versions
<1>7. [disk EXCEPT ![Lib(l)].at[i] = time'] = [disk EXCEPT ![Lib(l)] = body]
  OBVIOUS
<1> HIDE DEF body
<1> QED
  BY <1>1, <1>6, <1>7, InPlace, ChangesKept

\* A library file is broken, or mended, by hand.
LEMMA HandEditKept ==
  ASSUME BackupsInv, NEW l \in LibraryName, HandEdit(l)
  PROVE  BackupsInv'
<1> DEFINE old == disk[Lib(l)]
           body == [old EXCEPT !.ok = ~old.ok]
<1>1. l \in Names(disk) /\ Later /\ Changes([disk EXCEPT ![Lib(l)].ok = ~@])
  BY DEF HandEdit
<1>2. Lib(l) \in DOMAIN disk /\ old \in Versions
  BY <1>1, NamedLibrary DEF BackupsInv
<1>3. body = [ok |-> ~old.ok, at |-> old.at]
  BY <1>2 DEF Versions
<1>4. body \in Versions
  BY <1>2, <1>3 DEF Versions
<1>5. [disk EXCEPT ![Lib(l)].ok = ~@] = [disk EXCEPT ![Lib(l)] = body]
  OBVIOUS
<1> HIDE DEF body
<1> QED
  BY <1>1, <1>4, <1>5, InPlace, ChangesKept

\* A library is created, with its entry in the index or without.
LEMMA CreateLibraryKept ==
  ASSUME BackupsInv, NEW l \in LibraryName, CreateLibrary(l)
  PROVE  BackupsInv'
<1>1. FilesSound(disk) /\ Empty \in Versions
  BY DEF BackupsInv, Empty, Versions
<1>2. FilesSound(WithFile(disk, Lib(l), Empty))
  BY <1>1, LibrarySound, WriteSound
<1>3. ASSUME NEW listed, NEW primary
      PROVE  FilesSound(Index(WithFile(disk, Lib(l), Empty), listed, primary))
  BY <1>2, IndexSound
<1> QED
  BY <1>2, <1>3, ChangesKept DEF CreateLibrary

\* A library leaves the index, and its file the disk or not.
LEMMA DeleteLibraryKept ==
  ASSUME BackupsInv, NEW l \in LibraryName, DeleteLibrary(l)
  PROVE  BackupsInv'
<1>1. FilesSound(disk)
  BY DEF BackupsInv
<1>2. ASSUME NEW listed, NEW primary
      PROVE  /\ FilesSound(Index(disk, listed, primary))
             /\ FilesSound(WithoutFile(Index(disk, listed, primary), Lib(l)))
  BY <1>1, IndexSound, RemoveSound
<1> QED
  BY <1>2, ChangesKept DEF DeleteLibrary

\* A run is recorded.
LEMMA UseKept ==
  ASSUME BackupsInv, NEW i \in SnippetId, Use(i)
  PROVE  BackupsInv'
<1>1. ASSUME NEW body PROVE FilesSound(WithFile(disk, Top("usage"), body))
  <2>1. FileSound(Top("usage"), body)
    BY DEF FileSound, Top, Kinds
  <2> QED
    BY <2>1, WriteSound DEF BackupsInv
<1> QED
  BY <1>1, ChangesKept DEF Use

\* A registration stores its key.
LEMMA KeyStoredKept == ASSUME BackupsInv, Register PROVE BackupsInv'
<1>1. FileSound(Top("sync"), "key")
  BY DEF FileSound, Top, Kinds
<1>2. FilesSound(WithFile(disk, Top("sync"), "key"))
  BY <1>1, WriteSound DEF BackupsInv
<1> QED
  BY <1>2, ChangesKept DEF Register

\* The usage index is pruned.
LEMMA PruneKept == ASSUME BackupsInv, Prune PROVE BackupsInv'
<1> DEFINE files == [disk EXCEPT ![Top("usage")] = @ \cap Active]
<1>1. Later /\ Changes(files) /\ FilesSound(disk)
  BY DEF Prune, BackupsInv
<1>2. DOMAIN files = DOMAIN disk /\ \A q \in DOMAIN disk : q # Top("usage") => files[q] = disk[q]
  OBVIOUS
<1>3. \A body : FileSound(Top("usage"), body)
  BY DEF FileSound, Top, Kinds
<1> HIDE DEF files
<1>4. FilesSound(files)
  BY <1>1, <1>2, <1>3 DEF FilesSound
<1> QED
  BY <1>1, <1>4, ChangesKept

\* What a new archive lists parses, and nothing else changes.
LEMMA ArchiveKept ==
  ASSUME BackupsInv, Parsed(archive'.manifest), DOMAIN archive' = {"own", "manifest", "files"},
         time' \in Nat, UNCHANGED <<disk, restore>>
  PROVE  BackupsInv'
<1>1. FilesSound(disk)'
  BY DEF BackupsInv, FilesSound
<1>2. (restore.at = "checked" => Contract(restore.manifest) /\ Parsed(restore.manifest))'
  BY DEF BackupsInv, Contract, Parsed
<1>3. Parsed(archive.manifest)'
  BY DEF Parsed
<1> QED
  BY <1>1, <1>2, <1>3 DEF BackupsInv

\* What SetToSeq lists is in the set.
LEMMA ListedIn ==
  ASSUME NEW S, IsFiniteSet(S)
  PROVE  IsFiniteSet(DOMAIN SetToSeq(S)) /\ \A i \in DOMAIN SetToSeq(S) : SetToSeq(S)[i] \in S
<1> DEFINE n == Cardinality(S)
           f == SetToSeq(S)
<1>1. n \in Nat /\ ExistsBijection(1..n, S)
  BY FS_CardinalityType
<1>2. PICK g \in Bijection(1..n, S) : TRUE
  BY <1>1 DEF ExistsBijection
<1>3. g \in [1..n -> S] /\ IsInjective(g)
  BY <1>2 DEF Bijection, Injection, IsInjective
<1>4. f \in [1..n -> S]
  BY <1>3 DEF SetToSeq
<1>5. IsFiniteSet(1..n)
  BY <1>1, FS_Interval
<1> HIDE DEF f, n
<1>6. DOMAIN f = 1..n /\ \A i \in DOMAIN f : f[i] \in S
  BY <1>4
<1> QED
  BY <1>5, <1>6 DEF f

\* A backup lists the files as they are.
LEMMA BackupKept == ASSUME BackupsInv, Backup PROVE BackupsInv'
<1>1. PICK kinds \in SUBSET {"usage", "sync"} :
        LET places == {p \in DOMAIN disk : KindOf(p) \in {"library", "index"} \cup kinds}
        IN archive' = [own |-> TRUE, manifest |-> SetToSeq({Entry(p) : p \in places}),
                       files |-> [p \in places |-> [link |-> FALSE, body |-> Captured(p)]]]
  BY DEF Backup
<1> DEFINE places == {p \in DOMAIN disk : KindOf(p) \in {"library", "index"} \cup kinds}
           entries == {Entry(p) : p \in places}
<1>2. archive'.manifest = SetToSeq(entries) /\ DOMAIN archive' = {"own", "manifest", "files"}
  BY <1>1
<1>3. IsFiniteSet(places)
  BY FS_Subset DEF BackupsInv, FilesSound
<1>4. IsFiniteSet(entries)
  <2> DEFINE entry == [p \in places |-> Entry(p)]
  <2>1. entry \in Surjection(places, entries)
    BY DEF Surjection
  <2> HIDE DEF places, entries, entry
  <2> QED
    BY <1>3, <2>1, FS_Surjection
<1>5. ASSUME NEW p \in places PROVE Listing(Entry(p))
  <2>1. FileSound(p, disk[p]) /\ p \in DOMAIN disk
    BY DEF BackupsInv, FilesSound
  <2>2. CASE p = Top(p[2]) /\ p[2] \in Kinds
    <3>1. p[1] = ""
      <4>1. Top(p[2])[1] = ""
        BY DEF Top
      <4> QED
        BY <2>2, <4>1
    <3>2. Entry(p).kind = p[2]
      BY <3>1 DEF Entry, KindOf
    <3> QED
      BY <2>2, <3>2, Dirs DEF Listing
  <2>3. CASE p[1] \in {"libraries/", "libraries\\"} /\ disk[p] \in Versions
    <3>1. p[1] # ""
      BY <2>3, Dirs
    <3>2. p # Top("sync")
      <4>1. Top("sync")[1] = ""
        BY DEF Top
      <4> QED
        BY <3>1, <4>1
    <3>3. Entry(p).kind = "library" /\ Entry(p).body = disk[p]
      BY <3>1, <3>2 DEF Entry, KindOf, Captured
    <3> QED
      BY <2>3, <3>3 DEF Listing
  <2> QED
    BY <2>1, <2>2, <2>3 DEF FileSound
<1>6. \A e \in entries : Listing(e)
  BY <1>5
<1> HIDE DEF entries
<1>7. Parsed(archive'.manifest)
  BY <1>2, <1>4, <1>6, ListedIn DEF Parsed
<1>8. time' \in Nat /\ UNCHANGED <<disk, restore>>
  BY DEF Backup, Later, BackupsInv
<1> QED
  BY <1>2, <1>7, <1>8, ArchiveKept

\* A backup comes from elsewhere.
LEMMA ObtainKept == ASSUME BackupsInv, Obtain PROVE BackupsInv'
<1>1. archive' \in Elsewhere /\ UNCHANGED <<disk, restore>> /\ time' \in Nat
  BY DEF Obtain, Later, BackupsInv
<1>2. Parsed(archive'.manifest) /\ DOMAIN archive' = {"own", "manifest", "files"}
  BY <1>1, BackupsAssumption DEF Parsed
<1> QED
  BY <1>1, <1>2, ArchiveKept

\* What is done to a backup on its disk leaves its manifest.
LEMMA DamageKept == ASSUME BackupsInv, Damage PROVE BackupsInv'
<1>1. \E files : archive' = [archive EXCEPT !.files = files]
  <2>1. PICK p \in DOMAIN archive.files :
           \/ archive' = [archive EXCEPT !.files = WithoutFile(archive.files, p)]
           \/ archive' = [archive EXCEPT !.files[p].link = TRUE]
           \/ \E t \in {0, MaxStamp} :
                archive' = [archive EXCEPT !.files[p].body.at = [i \in SnippetId |-> t]]
    BY DEF Damage
  <2> QED
    BY <2>1
<1>2. archive'.manifest = archive.manifest /\ DOMAIN archive' = DOMAIN archive
  BY <1>1 DEF BackupsInv
<1>3. UNCHANGED <<disk, restore>> /\ time' = time
  BY DEF Damage
<1> QED
  BY <1>2, <1>3, ArchiveKept DEF BackupsInv

\* The manifest of a restore that goes on satisfies the contract.
LEMMA CheckingKept == ASSUME BackupsInv, Check PROVE BackupsInv'
<1>1. PICK mode \in {"dry-run", "merge", "replace"} :
         restore' = IF ~Accepts(mode) \/ mode = "dry-run" THEN Idle
                    ELSE [at |-> "checked", mode |-> mode, manifest |-> archive.manifest]
  BY DEF Check
<1>2. UNCHANGED <<disk, archive, time>>
  BY DEF Check
<1>3. DOMAIN restore' = {"at", "mode", "manifest"}
  BY <1>1 DEF Idle
<1>4. restore'.at = "checked" => Contract(archive.manifest) /\ restore'.manifest = archive.manifest
  BY <1>1 DEF Idle, Accepts
<1>5. (restore.at = "checked" => Contract(restore.manifest) /\ Parsed(restore.manifest))'
  BY <1>4 DEF BackupsInv, Contract, Parsed
<1>6. FilesSound(disk)' /\ Parsed(archive.manifest)'
  BY <1>2 DEF BackupsInv, FilesSound, Parsed
<1> QED
  BY <1>2, <1>3, <1>5, <1>6 DEF BackupsInv

\* The newer of two versions is one of them, and not older than the other.
LEMMA MergedNewer ==
  ASSUME NEW old \in Versions, NEW new \in Versions
  PROVE  /\ Merged(old, new) \in Versions
         /\ \A i \in SnippetId : /\ Merged(old, new).at[i] \in {old.at[i], new.at[i]}
                                 /\ Merged(old, new).at[i] >= old.at[i]
<1>1. old.at \in [SnippetId -> Nat] /\ new.at \in [SnippetId -> Nat]
  BY DEF Versions
<1>2. Merged(old, new).ok = TRUE
      /\ Merged(old, new).at = [i \in SnippetId |-> IF new.at[i] > old.at[i] THEN new.at[i]
                                                    ELSE old.at[i]]
  BY DEF Merged
<1>3. \A i \in SnippetId : old.at[i] \in Nat /\ new.at[i] \in Nat
  BY <1>1
<1>4. Merged(old, new) \in Versions
  <2>1. Merged(old, new).at \in [SnippetId -> Nat]
    BY <1>2, <1>3
  <2> QED
    BY <2>1 DEF Merged, Versions
<1> QED
  BY <1>2, <1>3, <1>4

\* The place of an entry, by its kind.
LEMMA PlaceByKind ==
  ASSUME NEW e, Listing(e)
  PROVE  /\ e.kind # "library" => /\ e.kind \in Kinds /\ PlaceOf(e) = Top(e.kind)
                                  /\ PlaceOf(e)[1] = "" /\ PlaceOf(e)[2] = e.kind
         /\ e.kind = "library" => /\ PlaceOf(e)[1] \in {"libraries/", "libraries\\"}
                                  /\ PlaceOf(e)[2] = e.stem
                                  /\ PlaceOf(e) = <<PlaceOf(e)[1], e.stem>>
                                  /\ PlaceOf(e)[1] # "" /\ e.body \in Versions
<1>1. CASE e.kind # "library"
  BY <1>1 DEF Listing, PlaceOf, Top
<1>2. CASE e.kind = "library"
  BY <1>2, Dirs DEF Listing, PlaceOf, Lib
<1> QED
  BY <1>1, <1>2

\* What a file of the disk is, by its place.
LEMMA FileByPlace ==
  ASSUME BackupsInv, NEW p \in DOMAIN disk
  PROVE  /\ p[1] = "" => KindOf(p) \in Kinds
         /\ p[1] # "" => KindOf(p) \notin Kinds /\ disk[p] \in Versions
<1>1. FileSound(p, disk[p])
  BY DEF BackupsInv, FilesSound
<1>2. CASE p = Top(p[2]) /\ p[2] \in Kinds
  <2>1. Top(p[2])[1] = ""
    BY DEF Top
  <2> QED
    BY <1>2, <2>1 DEF KindOf
<1>3. CASE p[1] \in {"libraries/", "libraries\\"} /\ disk[p] \in Versions
  BY <1>3, Dirs DEF KindOf
<1> QED
  BY <1>1, <1>2, <1>3 DEF FileSound

\* What a restore may install: all that it reads is what the manifest says.
Ready == restore.at = "checked" /\ \A e \in Entries(restore.manifest) : Stageable(e)
Places == {PlaceOf(e) : e \in Entries(restore.manifest)}

\* A place with an entry gets what is intended for it, from the bytes the manifest
\* describes.
LEMMA InstalledAt ==
  ASSUME BackupsInv, Ready, NEW p \in Places
  PROVE  \E e \in Entries(restore.manifest) :
            /\ PlaceOf(e) = p /\ Listing(e)
            /\ Installed(Entries(restore.manifest))[p] = Intended(e, e.body)
<1> DEFINE es == Entries(restore.manifest)
           e == EntryAt(es, p)
<1>1. e \in es /\ PlaceOf(e) = p
  BY DEF EntryAt, Places
<1>2. Listing(e)
  BY <1>1 DEF BackupsInv, Ready, Parsed, Entries
<1>3. Stageable(e)
  BY <1>1 DEF Ready
<1>4. Bytes(e) = e.body
  BY <1>3 DEF Bytes, Stageable, Verified
<1>5. Installed(es)[p] = Intended(e, Bytes(e))
  BY DEF Installed, Places
<1> HIDE DEF e, es
<1>6. Installed(es)[p] = Intended(e, e.body)
  BY <1>4, <1>5
<1> QED
  BY <1>1, <1>2, <1>6 DEF es

\* A place without an entry keeps its file.
LEMMA InstalledElsewhere ==
  /\ DOMAIN Installed(Entries(restore.manifest)) = DOMAIN disk \cup Places
  /\ \A p \in DOMAIN disk \ Places : Installed(Entries(restore.manifest))[p] = disk[p]
BY DEF Installed, Places

\* The contents that an entry is given.
LEMMA IntendedIs ==
  ASSUME BackupsInv, NEW e, Listing(e)
  PROVE  /\ FileSound(PlaceOf(e), Intended(e, e.body))
         /\ e.kind = "library" =>
              /\ Intended(e, e.body) \in Versions
              /\ \A i \in SnippetId :
                   \/ Intended(e, e.body).at[i] = e.body.at[i]
                   \/ PlaceOf(e) \in DOMAIN disk
                        /\ Intended(e, e.body).at[i] = disk[PlaceOf(e)].at[i]
         /\ PlaceOf(e) \in DOMAIN disk /\ restore.mode # "replace" =>
              IF e.kind = "library"
              THEN \A i \in SnippetId : Intended(e, e.body).at[i] >= disk[PlaceOf(e)].at[i]
              ELSE Intended(e, e.body) = disk[PlaceOf(e)]
<1> DEFINE p == PlaceOf(e)
           whole == restore.mode = "replace" \/ p \notin DOMAIN disk
<1>1. CASE e.kind # "library"
  <2>1. FileSound(p, Intended(e, e.body))
    BY <1>1, PlaceByKind DEF FileSound
  <2>2. ~whole => Intended(e, e.body) = disk[p]
    BY <1>1 DEF Intended
  <2> QED
    BY <1>1, <2>1, <2>2
<1>2. CASE e.kind = "library" /\ whole
  <2>1. Intended(e, e.body) = e.body
    BY <1>2 DEF Intended
  <2>2. FileSound(p, e.body)
    BY <1>2, PlaceByKind DEF FileSound
  <2> QED
    BY <1>2, <2>1, <2>2, PlaceByKind
<1>3. CASE e.kind = "library" /\ ~whole
  <2>1. Intended(e, e.body) = Merged(disk[p], e.body)
    BY <1>3 DEF Intended
  <2>2. /\ e.body \in Versions /\ p[1] # "" /\ p = <<p[1], p[2]>>
        /\ p[1] \in {"libraries/", "libraries\\"}
    BY <1>3, PlaceByKind
  <2>3. p \in DOMAIN disk /\ disk[p] \in Versions
    BY <1>3, <2>2, FileByPlace
  <2> HIDE DEF p
  <2>4. /\ Merged(disk[p], e.body) \in Versions
        /\ \A i \in SnippetId : /\ Merged(disk[p], e.body).at[i] \in {disk[p].at[i], e.body.at[i]}
                                /\ Merged(disk[p], e.body).at[i] >= disk[p].at[i]
    BY <2>2, <2>3, MergedNewer
  <2>5. FileSound(p, Merged(disk[p], e.body))
    BY <2>2, <2>4 DEF FileSound
  <2> QED
    BY <1>3, <2>1, <2>3, <2>4, <2>5 DEF p
<1> QED
  BY <1>1, <1>2, <1>3

\* All that is installed is sound.
LEMMA InstalledSound ==
  ASSUME BackupsInv, Ready
  PROVE  FilesSound(Installed(Entries(restore.manifest)))
<1> DEFINE es == Entries(restore.manifest)
<1>1. IsFiniteSet(es)
  <2> DEFINE m == restore.manifest
  <2>1. IsFiniteSet(DOMAIN m) /\ es = {m[i] : i \in DOMAIN m}
    BY DEF BackupsInv, Ready, Parsed, Entries
  <2>2. [i \in DOMAIN m |-> m[i]] \in Surjection(DOMAIN m, es)
    BY <2>1 DEF Surjection
  <2> HIDE DEF m, es
  <2> QED
    BY <2>1, <2>2, FS_Surjection
<1>2. IsFiniteSet(Places)
  <2>1. [e \in es |-> PlaceOf(e)] \in Surjection(es, Places)
    BY DEF Surjection, Places
  <2> HIDE DEF es
  <2> QED
    BY <1>1, <2>1, FS_Surjection
<1>3. IsFiniteSet(DOMAIN disk \cup Places)
  BY <1>2, FS_Union DEF BackupsInv, FilesSound
<1>4. ASSUME NEW p \in DOMAIN disk \cup Places PROVE FileSound(p, Installed(es)[p])
  <2>1. CASE p \in Places
    BY <2>1, InstalledAt, IntendedIs
  <2>2. CASE p \in DOMAIN disk \ Places
    BY <2>2, InstalledElsewhere DEF BackupsInv, FilesSound
  <2> QED
    BY <2>1, <2>2
<1> QED
  BY <1>3, <1>4, InstalledElsewhere DEF FilesSound

\* A restore leaves sound files.
LEMMA ApplyKept == ASSUME BackupsInv, Apply PROVE BackupsInv'
<1>1. FilesSound(disk)'
  <2>1. CASE \A e \in Entries(restore.manifest) : Stageable(e)
    <3>1. Ready /\ disk' = Installed(Entries(restore.manifest))
      BY <2>1 DEF Apply, Ready
    <3> QED
      BY <3>1, InstalledSound DEF FilesSound
  <2>2. CASE ~(\A e \in Entries(restore.manifest) : Stageable(e))
    BY <2>2 DEF Apply, BackupsInv, FilesSound
  <2> QED
    BY <2>1, <2>2
<1>2. restore'.at # "checked" /\ DOMAIN restore' = {"at", "mode", "manifest"}
  BY DEF Apply, Idle, BackupsInv
<1>3. UNCHANGED <<archive, time>>
  BY DEF Apply
<1>4. Parsed(archive.manifest)'
  BY <1>3 DEF BackupsInv, Parsed
<1> QED
  BY <1>1, <1>2, <1>3, <1>4 DEF BackupsInv

\* The directory after the first snippet, no archive and no run.
LEMMA BackupsStart == BackupsInit => BackupsInv
<1> SUFFICES ASSUME BackupsInit PROVE BackupsInv
  OBVIOUS
<1>1. PICK l \in LibraryName :
        disk = Index(WithFile(<<>>, Lib(l), [ok |-> TRUE, at |-> [i \in SnippetId |-> 1]]), {l}, {l})
  BY DEF BackupsInit
<1>2. FilesSound(<<>>) /\ Parsed(<<>>)
  <2>1. DOMAIN <<>> = {}
    OBVIOUS
  <2>2. IsFiniteSet({})
    BY FS_EmptySet
  <2> QED
    BY <2>1, <2>2 DEF FilesSound, Parsed
<1>3. [ok |-> TRUE, at |-> [i \in SnippetId |-> 1]] \in Versions
  BY DEF Versions
<1>4. FilesSound(disk)
  BY <1>1, <1>2, <1>3, LibrarySound, WriteSound, IndexSound
<1>5. /\ archive = NoArchive /\ restore = Idle /\ time \in Nat
      /\ DOMAIN NoArchive = {"own", "manifest", "files"} /\ NoArchive.manifest = <<>>
      /\ DOMAIN Idle = {"at", "mode", "manifest"} /\ Idle.at # "checked"
  BY DEF BackupsInit, NoArchive, Idle
<1> QED
  BY <1>2, <1>4, <1>5 DEF BackupsInv

\* Every step keeps the files sound and the manifests parsed.
LEMMA BackupsStep == BackupsInv /\ [BackupsNext]_backupVars => BackupsInv'
<1> SUFFICES ASSUME BackupsInv, [BackupsNext]_backupVars PROVE BackupsInv'
  OBVIOUS
<1>1. CASE UNCHANGED backupVars
  BY <1>1 DEF backupVars, BackupsInv, FilesSound, Parsed, Contract
<1>2. CASE \E l \in LibraryName, i \in SnippetId : Edit(l, i)
  BY <1>2, EditKept
<1>3. CASE \E l \in LibraryName : CreateLibrary(l) \/ DeleteLibrary(l) \/ HandEdit(l)
  BY <1>3, CreateLibraryKept, DeleteLibraryKept, HandEditKept
<1>4. CASE \E i \in SnippetId : Use(i)
  BY <1>4, UseKept
<1>5. CASE Register \/ Prune \/ Backup \/ Obtain \/ Damage \/ Check \/ Apply
  BY <1>5, KeyStoredKept, PruneKept, BackupKept, ObtainKept, DamageKept, CheckingKept, ApplyKept
<1> QED
  BY <1>1, <1>2, <1>3, <1>4, <1>5 DEF BackupsNext

\* Files are sound, and manifests parsed, in every reachable state.
LEMMA BackupsInvariance == BackupsSpec => []BackupsInv
BY BackupsStart, BackupsStep, PTL DEF BackupsSpec

\* Entries that the contract lets pass do not share a file, nor one up to case.
LEMMA EntriesApart ==
  ASSUME BackupsInv, restore.at = "checked",
         NEW i \in DOMAIN restore.manifest, NEW j \in DOMAIN restore.manifest, i # j
  PROVE  /\ PlaceOf(restore.manifest[i]) # PlaceOf(restore.manifest[j])
         /\ Apart(PlaceOf(restore.manifest[i]), PlaceOf(restore.manifest[j]))
<1> DEFINE d == restore.manifest[i]
           e == restore.manifest[j]
<1>1. CollisionKey(d) # CollisionKey(e) /\ Listing(d) /\ Listing(e)
  BY DEF BackupsInv, Contract, Parsed
<1> HIDE DEF d, e
<1>2. CASE d.kind = "library" /\ e.kind = "library"
  <2>1. Lower[d.stem] # Lower[e.stem]
    BY <1>1, <1>2 DEF CollisionKey
  <2> QED
    BY <1>1, <1>2, <2>1, PlaceByKind DEF Apart, d, e
<1>3. CASE d.kind # "library" /\ e.kind # "library"
  <2>1. d.kind # e.kind
    BY <1>1, <1>3 DEF CollisionKey
  <2> QED
    BY <1>1, <1>3, <2>1, PlaceByKind, Dirs DEF Apart, d, e
<1>4. CASE (d.kind = "library" /\ e.kind # "library") \/ (d.kind # "library" /\ e.kind = "library")
  BY <1>1, <1>4, PlaceByKind DEF Apart, d, e
<1> QED
  BY <1>2, <1>3, <1>4

\* Every version that is left was in the data or in the checked manifest.
LEMMA VersionsHad ==
  ASSUME BackupsInv, Ready, disk' = Installed(Entries(restore.manifest)),
         NEW l \in Names(disk'), NEW i \in SnippetId
  PROVE  \/ Lib(l) \in DOMAIN disk /\ disk'[Lib(l)].at[i] = disk[Lib(l)].at[i]
         \/ \E e \in Entries(restore.manifest) :
               PlaceOf(e) = Lib(l) /\ disk'[Lib(l)].at[i] = e.body.at[i]
<1>1. Lib(l) \in DOMAIN disk'
  BY InstalledSound, NamedLibrary
<1>2. CASE Lib(l) \in Places
  <2>1. PICK e \in Entries(restore.manifest) :
           PlaceOf(e) = Lib(l) /\ Listing(e) /\ disk'[Lib(l)] = Intended(e, e.body)
    BY <1>2, InstalledAt
  <2>2. e.kind = "library"
    <3>1. Lib(l)[1] = "libraries/"
      BY DEF Lib
    <3> QED
      BY <2>1, <3>1, PlaceByKind, Dirs
  <2> QED
    BY <2>1, <2>2, IntendedIs
<1>3. CASE Lib(l) \notin Places
  BY <1>1, <1>3, InstalledElsewhere
<1> QED
  BY <1>2, <1>3

\* A merge takes no version back, and leaves the other files as they are.
LEMMA MergeKeeps ==
  ASSUME BackupsInv, Ready, disk' = Installed(Entries(restore.manifest)), restore.mode = "merge",
         NEW p \in DOMAIN disk
  PROVE  IF KindOf(p) \in Kinds THEN disk'[p] = disk[p]
         ELSE \A i \in SnippetId : disk'[p].at[i] >= disk[p].at[i]
<1>1. CASE p \in Places
  <2>1. PICK e \in Entries(restore.manifest) :
           PlaceOf(e) = p /\ Listing(e) /\ disk'[p] = Intended(e, e.body)
    BY <1>1, InstalledAt
  <2>2. e.kind = "library" <=> KindOf(p) \notin Kinds
    BY <2>1, PlaceByKind, FileByPlace
  <2>3. restore.mode # "replace"
    OBVIOUS
  <2> QED
    BY <2>1, <2>2, <2>3, IntendedIs
<1>2. CASE p \notin Places
  <2>1. disk'[p] = disk[p]
    BY <1>2, InstalledElsewhere
  <2>2. KindOf(p) \notin Kinds => \A i \in SnippetId : disk[p].at[i] \in Nat
    BY FileByPlace DEF Versions
  <2> QED
    BY <2>1, <2>2
<1> QED
  BY <1>1, <1>2

\* restore_cmd.rs: whatever happens to the backup between the check and the
\* restore, and to the data meanwhile, no version is left that neither side had,
\* a merge takes none back, and no entry overwrites another's file.
THEOREM EveryRestoreFaithful == BackupsSpec => RestoreFaithful
<1>1. ASSUME BackupsInv, Apply, restore'.at = "done"
      PROVE  Ready /\ disk' = Installed(Entries(restore.manifest))
  BY <1>1 DEF Apply, Idle, Ready
<1> DEFINE es == Entries(restore.manifest)
           Had(p, i) == (IF p \in DOMAIN disk THEN {disk[p].at[i]} ELSE {0})
                          \cup {e.body.at[i] : e \in {f \in es : PlaceOf(f) = p}}
<1>2. ASSUME BackupsInv, Apply, restore'.at = "done"
      PROVE  /\ \A l \in Names(disk'), i \in SnippetId : disk'[Lib(l)].at[i] \in Had(Lib(l), i)
             /\ restore.mode = "merge" => \A p \in DOMAIN disk :
                  IF KindOf(p) \in Kinds THEN disk'[p] = disk[p]
                  ELSE \A i \in SnippetId : disk'[p].at[i] >= disk[p].at[i]
             /\ \A i, j \in DOMAIN restore.manifest : i # j =>
                  LET p == PlaceOf(restore.manifest[i])
                      q == PlaceOf(restore.manifest[j])
                  IN p # q /\ Apart(p, q)
  <2>1. Ready /\ disk' = Installed(Entries(restore.manifest))
    BY <1>1, <1>2
  <2>2. ASSUME NEW l \in Names(disk'), NEW i \in SnippetId
        PROVE  disk'[Lib(l)].at[i] \in Had(Lib(l), i)
    BY <1>2, <2>1, <2>2, VersionsHad
  <2>3. ASSUME restore.mode = "merge", NEW p \in DOMAIN disk
        PROVE  IF KindOf(p) \in Kinds THEN disk'[p] = disk[p]
               ELSE \A i \in SnippetId : disk'[p].at[i] >= disk[p].at[i]
    BY <1>2, <2>1, <2>3, MergeKeeps
  <2>4. restore.at = "checked"
    BY <2>1 DEF Ready
  <2> QED
    BY <1>2, <2>2, <2>3, <2>4, EntriesApart
<1>3. BackupsInv =>
        [Apply /\ restore'.at = "done" =>
           /\ \A l \in Names(disk'), i \in SnippetId : disk'[Lib(l)].at[i] \in Had(Lib(l), i)
           /\ restore.mode = "merge" => \A p \in DOMAIN disk :
                IF KindOf(p) \in Kinds THEN disk'[p] = disk[p]
                ELSE \A i \in SnippetId : disk'[p].at[i] >= disk[p].at[i]
           /\ \A i, j \in DOMAIN restore.manifest : i # j =>
                LET p == PlaceOf(restore.manifest[i])
                    q == PlaceOf(restore.manifest[j])
                IN p # q /\ Apart(p, q)]_backupVars
  BY <1>2
<1> QED
  BY <1>3, BackupsInvariance, PTL DEF RestoreFaithful
=============================================================================
