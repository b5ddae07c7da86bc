--------------------------- MODULE MCTransaction ---------------------------
(* Instances of Transaction for TLC. *)
EXTENDS Transaction, TLC

\* Two files, of which the second is there.
OneOfTwo == {<<0, 1>>}

\* The processes run the same commands.
Symmetric == Permutations(Process)
=============================================================================
