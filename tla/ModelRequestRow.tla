-------------------------- MODULE ModelRequestRow --------------------------
(***************************************************************************)
(* The statements PgExecutionStore runs on one row of model_requests       *)
(* (gateway-store/src/postgres/execution.rs), as functions of the row and  *)
(* of the write they persist.  Every statement is conditional on the row:  *)
(* it either changes it or touches no row, which the ExecutionStore port   *)
(* reports as an error.                                                    *)
(***************************************************************************)
EXTENDS Naturals

SendStates == {"NotSent", "Ambiguous", "Sent"}
NoRow == [outcome |-> "Absent"]

Exists(row)  == row # NoRow
Running(row) == row.outcome = "Running"

(* provider is the number of the attempt whose provider and account columns *)
(* the row carries: every attempt brings its own.                           *)
Inserted(attempts) ==
    [outcome |-> "Running", send_state |-> "NotSent", attempt_count |-> attempts,
     provider |-> attempts, committed |-> FALSE, client_status |-> FALSE]

(* MUTANT: the statements forget the outcome of the row. *)
FinalizesAnyRow(row, write) ==
    IF write.kind = "Finalize" THEN Exists(row) ELSE Running(row) \/ ~Exists(row)

(* The `where' clause of the statement for a write; the primary key for an  *)
(* insert, the foreign key of ops_events for an event.                      *)
Matches(row, write) ==
    CASE write.kind \in {"Create", "CreateWithAttempt"} -> ~Exists(row)
      [] write.kind = "Attempt"      -> Running(row) /\ write.attempts = row.attempt_count + 1
      [] write.kind = "MarkSend"     -> Running(row) /\ row.attempt_count > 0
      [] write.kind = "Commit"       -> Running(row) /\ ~row.committed /\ ~row.client_status
      [] write.kind = "ClientStatus" -> Exists(row) /\ ~row.client_status
      [] write.kind = "Finalize"     -> Running(row)
      [] write.kind = "OpsEvent"     -> Exists(row)

(* MUTANT: finalize leaves the send state to the marks. *)
FinalizeKeepsSendState(row, write) ==
    CASE write.kind \in {"Create", "CreateWithAttempt"} -> Inserted(write.attempts)
      [] write.kind = "MarkSend" -> [row EXCEPT !.send_state = write.send_state]
      [] write.kind = "Finalize" -> [row EXCEPT !.outcome = write.outcome,
                                                !.attempt_count = write.attempts]
      [] OTHER -> row

(* The row after a statement that matched.  A commit stores the status the  *)
(* response was committed with, if any; a finalization rewrites everything  *)
(* but the provider columns, and keeps a status that is already there.      *)
Updated(row, write) ==
    CASE write.kind \in {"Create", "CreateWithAttempt"} -> Inserted(write.attempts)
      [] write.kind = "Attempt" ->
            [row EXCEPT !.attempt_count = write.attempts, !.provider = write.attempts]
      [] write.kind = "MarkSend"     -> [row EXCEPT !.send_state = write.send_state]
      [] write.kind = "Commit"       -> [row EXCEPT !.committed = TRUE, !.client_status = write.status]
      [] write.kind = "ClientStatus" -> [row EXCEPT !.client_status = TRUE]
      [] write.kind = "Finalize" ->
            [row EXCEPT !.outcome = write.outcome, !.send_state = write.send_state,
                        !.attempt_count = write.attempts, !.committed = write.committed,
                        !.client_status = @ \/ write.status]
      [] write.kind = "OpsEvent" -> row

(* recover_expired_model_requests ends a running row whose deadline_at has  *)
(* passed (outcome incomplete, error process_interrupted); the send state   *)
(* and the attempts are inherited.                                          *)
Recovered(row) == [row EXCEPT !.outcome = "Interrupted"]
=============================================================================
