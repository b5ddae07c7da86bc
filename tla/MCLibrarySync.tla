--------------------------- MODULE MCLibrarySync ---------------------------
(***************************************************************************)
(* Small instances of LibrarySync for TLC.                                 *)
(***************************************************************************)
EXTENDS LibrarySync

OneId == {1}
TwoIds == {1, 2}
TwoDevices == {1, 2}
=============================================================================
