----------------------------- MODULE MCAutoSync -----------------------------
(***************************************************************************)
(* Small instances of AutoSync for TLC.                                    *)
(***************************************************************************)
EXTENDS AutoSync, TLC

CONSTANTS w1, w2, c1, c2, l1, l2

TwoWorkers == {w1, w2}
OneWorker == {w1}
OneCommand == {c1}
TwoCommands == {c1, c2}
OneLib == {l1}
TwoLibs == {l1, l2}
OneConfig == {1}
TwoConfigs == {1, 2}

(* A foreground sync covers all libraries, or may be restricted to one. *)
WholeLibrarySet == {Libs}
AnyLibrarySet == SUBSET Libs \ {{}}

(* Slots are interchangeable in the safety runs. *)
Slots == Permutations(Workers) \cup Permutations(Commands)
SlotsAndLibs == Slots \cup Permutations(Libs)
=============================================================================
