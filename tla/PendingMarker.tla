--------------------------- MODULE PendingMarker ---------------------------
(***************************************************************************)
(* The durable pending marker of auto-sync, src/auto_sync/pending.rs:      *)
(* one small file that says "local changes wait for a sync" and carries a  *)
(* generation and a creation time.  Every read-modify-write of the file is *)
(* done under the pending transaction lock and every write is an atomic    *)
(* rename, so each operation below is one step of whoever calls it.        *)
(*                                                                         *)
(* A marker is a record; generation 0, which the code never writes, stands *)
(* for the absent file.  The integrity check, the snapshot and the schema  *)
(* are left out: a read that fails is an alternative of the callers.       *)
(***************************************************************************)
EXTENDS Naturals

Marker == [gen: Nat, created: Nat]

NoMarker == [gen |-> 0, created |-> 0]

Present(m) == m.gen > 0

-----------------------------------------------------------------------------
(* record_pending_mutation: one more generation with a fresh creation time, *)
(* starting again at 1 when the file is absent.                             *)

(* Mutant: an edit that finds a marker keeps its generation. *)
KeepGeneration(m, now) == [gen |-> IF Present(m) THEN m.gen ELSE 1, created |-> now]

RecordMutation(m, now) == [gen |-> m.gen + 1, created |-> now]

(* ensure_pending_for_transaction, for a transaction that owns no marker    *)
(* yet: Created when the file is absent, otherwise Conflict, which leaves   *)
(* the marker of the other work as it is.                                   *)
EnsureForTransaction(m, now) ==
    IF Present(m) THEN m ELSE [gen |-> 1, created |-> now]

(* clear_if_generation_matches: only the generation is compared.            *)

(* Mutant: the generation is not compared. *)
ClearAnyGeneration(m, observed) == NoMarker

ClearIfGenerationMatches(m, observed) ==
    IF Present(m) /\ m.gen = observed THEN NoMarker ELSE m

(* adopt_generation_reset: a lower generation is new work, and no rollback, *)
(* only if it is generation 1 and strictly younger.                         *)

IsReset(current, latest) == latest.gen = 1 /\ latest.created > current.created
=============================================================================
