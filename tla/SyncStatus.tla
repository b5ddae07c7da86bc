----------------------------- MODULE SyncStatus -----------------------------
(***************************************************************************)
(* The durable auto-sync status, src/auto_sync/status.rs, the failure      *)
(* classes of src/sync_failure.rs and the retry dispositions of            *)
(* src/auto_sync/policy.rs, as pure operators.                             *)
(*                                                                         *)
(* next_attempt_at_unix_ms is abstracted to whether it lies in the future  *)
(* (deferred), the configuration fingerprint to the configuration it was   *)
(* taken from (0 is "none", as in the code).                               *)
(***************************************************************************)
EXTENDS Naturals

CONSTANT FailureMax     \* u32::MAX: where the count of failures saturates

Classes == {"transient", "configuration", "local_failure", "internal"}

(* Internal failures require attention from the third in a row on. *)
StrikeLimit == 3

ASSUME WidthAssumption == FailureMax \in Nat /\ FailureMax >= StrikeLimit

Status == [valid: BOOLEAN, class: Classes \cup {"none"}, failures: 0..FailureMax,
           attention: BOOLEAN, deferred: BOOLEAN, print: Nat]

MissingStatus == [valid |-> FALSE, class |-> "none", failures |-> 0,
                  attention |-> FALSE, deferred |-> FALSE, print |-> 0]

(* Mutant: the addition does not saturate and leaves the width of the count. *)
CountOn(s) == IF s.valid THEN s.failures + 1 ELSE 1

(* next_consecutive_failures of the worker: saturating_add(1). *)
NextFailures(s) ==
    IF ~s.valid THEN 1
    ELSE IF s.failures < FailureMax THEN s.failures + 1 ELSE FailureMax

-----------------------------------------------------------------------------
(* record_success and record_failure.  Success keeps the fingerprint. *)

RecordSuccess(s) ==
    [valid |-> TRUE, class |-> "none", failures |-> 0,
     attention |-> FALSE, deferred |-> FALSE, print |-> s.print]

RaisesAttention(class, failures) ==
    \/ class \in {"configuration", "local_failure"}
    \/ class = "internal" /\ failures >= StrikeLimit

RecordFailure(class, failures, deferred, config) ==
    [valid |-> TRUE, class |-> class, failures |-> failures,
     attention |-> RaisesAttention(class, failures),
     deferred |-> deferred, print |-> config]

(* run_clear_failure of sync_cmd.rs: what the operator's command writes back *)
(* over the status it read.                                                  *)
ClearedByOperator(s) ==
    [s EXCEPT !.attention = FALSE, !.failures = 0, !.deferred = FALSE]

-----------------------------------------------------------------------------
(* release_deferral_on_config_change, called with the lock held. *)

(* Mutant: attention is released without a change of configuration. *)
ReleaseAlways(s, config) == s.attention

Releases(s, config) == s.attention /\ s.print # 0 /\ s.print # config

Released(s, config) ==
    [s EXCEPT !.attention = FALSE, !.failures = 0, !.deferred = FALSE,
              !.print = config]

(* retry_disposition, as far as schedule_sync distinguishes it. *)
NoRetry(s) ==
    \/ s.class \in {"configuration", "local_failure"}
    \/ s.class = "internal" /\ s.failures >= StrikeLimit

(* schedule_sync: the status stands in the way of a spawn. *)
Blocked(s) == s.valid /\ s.attention /\ s.failures > 0 /\ NoRetry(s)
=============================================================================
