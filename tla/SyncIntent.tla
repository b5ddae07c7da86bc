----------------------------- MODULE SyncIntent -----------------------------
(***************************************************************************)
(* What the pending marker of auto-sync promises, without processes,       *)
(* generations or locks.  owed is the set of libraries whose recorded      *)
(* edits the server does not have yet; intent says that something durable  *)
(* remembers to sync.  Intent may outlive the debt, never the converse.    *)
(***************************************************************************)
CONSTANT Libs

VARIABLES owed, intent

vars == <<owed, intent>>

TypeOK == owed \subseteq Libs /\ intent \in BOOLEAN

Init == owed = {} /\ intent = FALSE

(* An edit of library l is recorded; it may already have been delivered by *)
(* a sync that ran between the edit and its recording.                     *)
Record(l) ==
    /\ intent' = TRUE
    /\ owed' \in {owed, owed \cup {l}}

(* A sync brings the edits of one library to the server. *)
Deliver(l) ==
    /\ owed' = owed \ {l}
    /\ UNCHANGED intent

(* The intent is dropped because the debt is paid. *)
Acknowledge ==
    /\ owed = {}
    /\ intent' = FALSE
    /\ UNCHANGED owed

Next ==
    \/ \E l \in Libs : Record(l) \/ Deliver(l)
    \/ Acknowledge

Spec == Init /\ [][Next]_vars

(* The promise: while a recorded edit is undelivered, the intent stands. *)
Remembered == owed # {} => intent
=============================================================================
