---------------------- MODULE AttemptCoordinatorProofs ----------------------
(***************************************************************************)
(* The theorems of AttemptCoordinator, for every value of its constants:   *)
(* every plan, tuning, continuation, error catalogue and fault set.  First *)
(* its types, with one lemma per action and the lemmas about the finishing *)
(* operators that the actions share; then the safety theorems, which       *)
(* follow from one inductive invariant, Inv, on top of the types.          *)
(***************************************************************************)
EXTENDS AttemptCoordinator, TLAPS, FiniteSetTheorems

USE DEF envVars, routeVars, planVars, pendingVars, retryVars, attemptVars, deliveryVars,
        barrierVars, failureVars, finishVars, storeVars, budgetVars, selectionVars,
        outcomeVars

(* While its stream is read the session holds an attempt. *)
ReadsCurrent == pc \in {"recording", "polling", "observing", "failing"} => HasCurrent

(* The calls of the session, and the states of its client-retry guard.      *)
Calls == {"none", "start", "next_event", "collect", "commit", "cancel", "fail"}
Guards == [observed : BOOLEAN, settled : {"absent", "open", "failure", "success"}]

(* A group of variables an action leaves alone keeps its types.             *)
LEMMA KeepTypes ==
    ASSUME TypeOK
    PROVE  /\ UNCHANGED <<routeVars, planVars>> => RouteTypes'
           /\ UNCHANGED <<pendingVars, retryVars, last_retryable_failure>> => RetryTypes'
           /\ UNCHANGED attemptVars => AttemptTypes'
           /\ UNCHANGED <<deliveryVars, barrierVars>> => DeliveryTypes'
           /\ UNCHANGED failureVars => FailureTypes'
           /\ UNCHANGED <<finishVars, client_retry>> => FinishTypes'
           /\ UNCHANGED <<storeVars, budgetVars>> => RecordTypes'
<1>1. UNCHANGED <<routeVars, planVars>> => RouteTypes'
  BY DEF TypeOK, RouteTypes
<1>2. UNCHANGED <<pendingVars, retryVars, last_retryable_failure>> => RetryTypes'
  BY DEF TypeOK, RetryTypes
<1>3. UNCHANGED attemptVars => AttemptTypes'
  BY DEF TypeOK, AttemptTypes
<1>4. UNCHANGED <<deliveryVars, barrierVars>> => DeliveryTypes'
  BY DEF TypeOK, DeliveryTypes
<1>5. UNCHANGED failureVars => FailureTypes'
  BY DEF TypeOK, FailureTypes
<1>6. UNCHANGED <<finishVars, client_retry>> => FinishTypes'
  BY DEF TypeOK, FinishTypes
<1>7. UNCHANGED <<storeVars, budgetVars>> => RecordTypes'
  BY DEF TypeOK, RecordTypes
<1> QED BY <1>1, <1>2, <1>3, <1>4, <1>5, <1>6, <1>7

(* The await point and the call, for the actions that leave the             *)
(* surroundings alone.                                                      *)
LEMMA ControlKeeps ==
    ASSUME TypeOK, UNCHANGED envVars,
           pc' \in Awaits \cup {"starting", "idle", "preparing", "selecting", "closed"},
           call' \in Calls \cup {call}
    PROVE  ControlTypes'
BY DEF TypeOK, ControlTypes, Calls

(* escalate_send_state yields a send state.                                 *)
LEMMA EscalateType ==
    ASSUME NEW a \in SendStates, NEW b \in SendStates PROVE Escalate(a, b) \in SendStates
BY DEF Escalate, SendStates

(* current_send_state yields a send state.                                  *)
LEMMA CurrentSendType == TypeOK => CurrentSendState \in SendStates
BY EscalateType DEF TypeOK, FinishTypes, CurrentSendState, SendStates

(* The outcomes that finish functions write.                                *)
LEMMA OutcomeTypes ==
    /\ InterruptedOutcome \in Outcomes
    /\ {"Cancelled", "Failed", "Succeeded"} \subseteq Outcomes
BY DEF InterruptedOutcome, Outcomes

(* persist_finalization.                                                    *)
LEMMA FinishType ==
    ASSUME TypeOK, NEW o \in Outcomes, NEW s \in SendStates, NEW w \in SendStates,
           NEW m \in BOOLEAN, FinishMarking(o, s, w, m)
    PROVE  /\ finalization' \in Finalizations
           /\ response_commit' \in {"open", "committed", "finished"}
           /\ send_state_watermark' \in SendStates
           /\ pc' = "finalizing"
BY DEF TypeOK, FinishTypes, RouteTypes, RecordTypes, FinishMarking, Finalizations, CommitFinish

(* finish_local_failure.                                                    *)
LEMMA LocalFailureType ==
    ASSUME TypeOK, NEW o \in Outcomes, FinishLocalFailure(o)
    PROVE  FinishTypes' /\ pc' = "finalizing"
<1> DEFINE local == IF attempts = 0 THEN "NotSent"
                    ELSE IF downstream_committed \/ current.send_observed THEN "Sent"
                    ELSE "Ambiguous"
<1>1. local \in SendStates BY DEF SendStates
<1>2. Escalate(send_state_watermark, local) \in SendStates
  BY <1>1, EscalateType DEF TypeOK, FinishTypes
<1>3. (attempts > 0 /\ request_persisted) \in BOOLEAN OBVIOUS
<1> QED BY <1>2, <1>3, FinishType DEF FinishLocalFailure, TypeOK, FinishTypes

(* finish_interruption, for a cancellation and for the deadline.            *)
LEMMA InterruptionType ==
    ASSUME TypeOK, FinishCancelled \/ FinishDeadline
    PROVE  FinishTypes' /\ pc' = "finalizing"
BY LocalFailureType, OutcomeTypes DEF FinishCancelled, FinishDeadline

(* ClientRetryGuard::failure.                                               *)
LEMMA RetryFailureType == ASSUME TypeOK, NEW e PROVE RetryFailure(e) \in Guards
BY DEF TypeOK, FinishTypes, RetryFailure, Guards

(* ClientRetryGuard::success.                                               *)
LEMMA RetrySuccessType == ASSUME TypeOK PROVE RetrySuccess \in Guards
BY DEF TypeOK, FinishTypes, RetrySuccess, Guards

(* finish_success.                                                          *)
LEMMA SuccessType ==
    ASSUME TypeOK, FinishSuccess
    PROVE  FinishTypes' /\ pc' = "finalizing"
<1>1. "Sent" \in SendStates BY DEF SendStates
<1> QED BY <1>1, FinishType, OutcomeTypes, RetrySuccessType
        DEF FinishSuccess, Finish, TypeOK, FinishTypes, Guards

(* finish_provider_error_with_send_state.                                   *)
LEMMA ProviderErrorType ==
    ASSUME TypeOK, NEW e, NEW s \in SendStates, FinishProviderError(e, s)
    PROVE  FinishTypes' /\ pc' = "finalizing"
<1>1. Escalate(send_state_watermark, s) \in SendStates
  BY EscalateType DEF TypeOK, FinishTypes
<1>2. (IF e.kind = "Cancelled" THEN "Cancelled" ELSE InterruptedOutcome) \in Outcomes
  BY OutcomeTypes
<1> QED BY <1>1, <1>2, FinishType, RetryFailureType
        DEF FinishProviderError, Finish, FinishTypes, Guards

(* The absent error, as a record.                                           *)
LEMMA NoErrorType == NoError \in ProviderError
BY DEF NoError, ProviderError, ErrorKinds, SendStates, RetryDirectives, Dispositions, Batches

(* The absent pending failures, as records.                                 *)
LEMMA NoFailureTypes ==
    NoStreamFailure \in StreamFailures /\ NoTerminalFailure \in TerminalFailures
BY NoErrorType DEF NoStreamFailure, NoTerminalFailure, StreamFailures, TerminalFailures,
                   SendStates

(* PullOutcome::TerminalFailure: the failure is kept.                       *)
LEMMA EndWithFailureType ==
    ASSUME TypeOK, NEW e \in ProviderError, NEW s \in SendStates, EndWithFailure(e, s)
    PROVE  pending_terminal_failure' \in TerminalFailures /\ pc' = "settling"
BY DEF EndWithFailure, TerminalFailures

(* finish_exhausted_routing and finish_retained_failure.                    *)
LEMMA RetainedFailureType ==
    ASSUME TypeOK, FinishRetainedFailure, UNCHANGED <<storeVars, pending_stream_failure>>
    PROVE  /\ FinishTypes' /\ FailureTypes' /\ RecordTypes'
           /\ last_retryable_failure' \in ProviderError
           /\ pc' \in {"settling", "finalizing"}
<1> DEFINE e == last_retryable_failure
<1>0. e \in ProviderError /\ e.send_state \in SendStates
  BY DEF TypeOK, RetryTypes, ProviderError
<1>1. last_retryable_failure' \in ProviderError
  BY NoErrorType DEF FinishRetainedFailure
<1>2. CASE /\ FinishLocalFailure(InterruptedOutcome)
           /\ UNCHANGED <<budgetVars, pending_terminal_failure>>
  BY <1>1, <1>2, LocalFailureType, OutcomeTypes, KeepTypes
<1>3. CASE /\ FinishProviderError(e, Escalate(CurrentSendState, e.send_state))
           /\ UNCHANGED <<budgetVars, pending_terminal_failure>>
  <2>1. Escalate(CurrentSendState, e.send_state) \in SendStates
    BY <1>0, EscalateType, CurrentSendType
  <2> QED BY <1>1, <1>3, <2>1, ProviderErrorType, KeepTypes
<1>4. CASE /\ EndWithFailure(e, CurrentSendState)
           /\ observed_cost' = IF BatchCosts(e) THEN 1 ELSE observed_cost
           /\ budget_attempt_already_counted' = TRUE
           /\ UNCHANGED <<finishVars, client_retry, budget_prior_attempts, costed>>
  <2>1. RecordTypes'
    BY <1>4 DEF TypeOK, RecordTypes
  <2>2. FailureTypes'
    BY <1>0, <1>4, EndWithFailureType, CurrentSendType DEF TypeOK, FailureTypes
  <2> QED BY <1>0, <1>1, <1>4, <2>1, <2>2, EndWithFailureType, CurrentSendType, KeepTypes
<1> QED BY <1>2, <1>3, <1>4 DEF FinishRetainedFailure

(* What the client-retry guard may load with.                               *)
LEMMA GuardTypes == ClientRetries \subseteq Guards
<1> SUFFICES ASSUME NEW g \in ClientRetries PROVE g \in Guards OBVIOUS
<1>1. g \in ClientRetryGuards BY SurroundingsAssumption
<1>2. \/ g = [observed |-> FALSE, settled |-> "absent"]
      \/ g = [observed |-> FALSE, settled |-> "open"]
      \/ g = [observed |-> TRUE, settled |-> "open"]
  BY <1>1, Zenon DEF ClientRetryGuards
<1>3. CASE g = [observed |-> FALSE, settled |-> "absent"] BY <1>3 DEF Guards
<1>4. CASE g = [observed |-> FALSE, settled |-> "open"] BY <1>4 DEF Guards
<1>5. CASE g = [observed |-> TRUE, settled |-> "open"] BY <1>5 DEF Guards
<1> QED BY <1>2, <1>3, <1>4, <1>5

(* The action Start keeps the types.                                        *)
LEMMA StartTypes == ASSUME TypeOK, Start PROVE TypeOK'
<1>1. FinishTypes' /\ pc' \in {"idle", "finalizing"} /\ call' \in {call, "none"}
  <2>1. CASE FinishCancelled \/ FinishDeadline
    BY <2>1, InterruptionType DEF Start
  <2>2. CASE /\ pc' = "idle" /\ call' = "none"
             /\ client_retry' \in ClientRetries /\ UNCHANGED finishVars
    BY <2>2, GuardTypes DEF TypeOK, FinishTypes, Guards
  <2> QED BY <2>1, <2>2 DEF Start
<1>2. ControlTypes'
  BY <1>1, ControlKeeps DEF Start, Calls, Awaits
<1> QED BY <1>1, <1>2, KeepTypes DEF Start, TypeOK

(* The action NextEvent keeps the types.                                    *)
LEMMA NextEventTypes == ASSUME TypeOK, NextEvent PROVE TypeOK'
<1>1. /\ FinishTypes' /\ FailureTypes'
      /\ pc' \in {"polling", "preparing", "finalizing"} /\ call' = "next_event"
  <2>1. CASE /\ FinishProviderError(pending_terminal_failure.error,
                                    pending_terminal_failure.send_state)
             /\ pending_terminal_failure' = NoTerminalFailure
    <3>1. pending_terminal_failure.send_state \in SendStates
      BY DEF TypeOK, FailureTypes, TerminalFailures
    <3>2. FailureTypes'
      BY <2>1, NoFailureTypes DEF NextEvent, TypeOK, FailureTypes
    <3> QED BY <2>1, <3>1, <3>2, ProviderErrorType DEF NextEvent
  <2>2. CASE /\ pc' = IF HasCurrent THEN "polling" ELSE "preparing"
             /\ UNCHANGED <<finishVars, client_retry, pending_terminal_failure>>
    BY <2>2, KeepTypes DEF NextEvent
  <2> QED BY <2>1, <2>2 DEF NextEvent
<1>2. ControlTypes'
  BY <1>1, ControlKeeps DEF NextEvent, Calls, Awaits
<1> QED BY <1>1, <1>2, KeepTypes DEF NextEvent, TypeOK

(* The action CollectUncommitted keeps the types.                           *)
LEMMA CollectUncommittedTypes == ASSUME TypeOK, CollectUncommitted PROVE TypeOK'
<1>1. ControlTypes'
  BY ControlKeeps DEF CollectUncommitted, Calls, Awaits
<1> QED BY <1>1, KeepTypes DEF CollectUncommitted, TypeOK

(* The action DeferDownstreamCommit keeps the types.                        *)
LEMMA DeferDownstreamCommitTypes == ASSUME TypeOK, DeferDownstreamCommit PROVE TypeOK'
<1>1. ControlTypes'
  BY DEF DeferDownstreamCommit, TypeOK, ControlTypes
<1>2. DeliveryTypes'
  BY DEF DeferDownstreamCommit, TypeOK, DeliveryTypes
<1> QED BY <1>1, <1>2, KeepTypes DEF DeferDownstreamCommit, TypeOK

(* The action CommitDownstream keeps the types.                             *)
LEMMA CommitDownstreamTypes == ASSUME TypeOK, CommitDownstream PROVE TypeOK'
<1>1. ControlTypes'
  BY ControlKeeps DEF CommitDownstream, Calls, Awaits
<1>2. FinishTypes'
  BY DEF CommitDownstream, TypeOK, FinishTypes
<1> QED BY <1>1, <1>2, KeepTypes DEF CommitDownstream, TypeOK

(* Every write leaves a row of the table.                                   *)
LEMMA RowTypes ==
    ASSUME TypeOK
    PROVE  /\ RowInsert \in Rows /\ RowAttempt \in Rows /\ RowCommitted \in Rows
           /\ \A s \in SendStates : RowSendState(s) \in Rows
           /\ \A new \in Rows : Written(new) \subseteq Rows
           /\ \A r \in Rows : RowFinalized(r) \in Rows
<1>1. RowInsert \in Rows
  BY DEF TypeOK, RecordTypes, RowInsert, Rows, NoRow, SendStates, Outcomes
<1>2. RowAttempt \in Rows
  BY DEF TypeOK, RecordTypes, RouteTypes, RowAttempt, Rows
<1>3. RowCommitted \in Rows
  BY DEF TypeOK, RecordTypes, RowCommitted, Rows
<1>4. \A s \in SendStates : RowSendState(s) \in Rows
  BY DEF TypeOK, RecordTypes, RowSendState, Rows
<1>5. \A new \in Rows : Written(new) \subseteq Rows
  BY DEF TypeOK, RecordTypes, Written
<1>6. \A r \in Rows : RowFinalized(r) \in Rows
  BY DEF TypeOK, FinishTypes, Finalizations, RowFinalized, Rows
<1> QED BY <1>1, <1>2, <1>3, <1>4, <1>5, <1>6

(* The action CommitRecorded keeps the types.                               *)
LEMMA CommitRecordedTypes == ASSUME TypeOK, CommitRecorded PROVE TypeOK'
<1>1. FinishTypes' /\ pc' \in {"idle", "finalizing"} /\ call' \in {call, "none"}
  <2>1. CASE FinishSuccess /\ UNCHANGED call
    BY <2>1, SuccessType
  <2>2. CASE pc' = "idle" /\ call' = "none" /\ UNCHANGED <<finishVars, client_retry>>
    BY <2>2, KeepTypes
  <2> QED BY <2>1, <2>2 DEF CommitRecorded
<1>2. ControlTypes'
  BY <1>1, ControlKeeps DEF CommitRecorded, Calls, Awaits
<1>3. DeliveryTypes'
  BY DEF CommitRecorded, TypeOK, DeliveryTypes
<1>4. RecordTypes'
  <2>1. row' \in Rows
    BY RowTypes DEF CommitRecorded, TypeOK, RecordTypes
  <2> QED BY <2>1 DEF CommitRecorded, TypeOK, RecordTypes
<1> QED BY <1>1, <1>2, <1>3, <1>4, KeepTypes DEF CommitRecorded, TypeOK

(* The common body of cancel_and_finalize and fail_delivery.                *)
LEMMA EndSessionTypes ==
    ASSUME TypeOK, NEW o \in Outcomes, EndSession(o), call' \in {"cancel", "fail"}
    PROVE  TypeOK'
<1>1. RetainedFailure \in TerminalFailures
  BY DEF TypeOK, FailureTypes, RetainedFailure, StreamFailures, TerminalFailures
<1>2. FinishTypes' /\ FailureTypes' /\ pc' = "finalizing" /\ delivery_pending' \in BOOLEAN
  <2>1. CASE /\ pc' = "finalizing"
             /\ pending_terminal_failure' = RetainedFailure
             /\ UNCHANGED <<finishVars, client_retry, delivery_pending>>
    BY <1>1, <2>1, NoFailureTypes, KeepTypes
       DEF EndSession, TypeOK, FailureTypes, DeliveryTypes
  <2>2. CASE /\ delivery_pending' = FALSE
             /\ pending_terminal_failure' = NoTerminalFailure
             /\ \/ /\ RetainedFailure.present
                   /\ FinishProviderError(RetainedFailure.error, RetainedFailure.send_state)
                \/ /\ ~RetainedFailure.present
                   /\ FinishLocalFailure(o)
    <3>1. FailureTypes'
      BY <2>2, NoFailureTypes DEF EndSession, FailureTypes
    <3>2. RetainedFailure.send_state \in SendStates
      BY <1>1 DEF TerminalFailures
    <3> QED BY <2>2, <3>1, <3>2, ProviderErrorType, LocalFailureType
  <2> QED BY <2>1, <2>2 DEF EndSession
<1>3. ControlTypes'
  BY <1>2 DEF EndSession, TypeOK, ControlTypes, Awaits
<1>4. DeliveryTypes'
  BY <1>2 DEF EndSession, TypeOK, DeliveryTypes
<1> QED BY <1>2, <1>3, <1>4, KeepTypes DEF EndSession, TypeOK

(* The action CancelAndFinalize keeps the types.                            *)
LEMMA CancelAndFinalizeTypes == ASSUME TypeOK, CancelAndFinalize PROVE TypeOK'
BY EndSessionTypes, OutcomeTypes DEF CancelAndFinalize

(* The action FailDelivery keeps the types.                                 *)
LEMMA FailDeliveryTypes == ASSUME TypeOK, FailDelivery PROVE TypeOK'
BY EndSessionTypes, OutcomeTypes DEF FailDelivery

(* The action FinalizationWritten keeps the types.                          *)
LEMMA FinalizationWrittenTypes == ASSUME TypeOK, FinalizationWritten PROVE TypeOK'
<1>1. ControlTypes'
  BY ControlKeeps DEF FinalizationWritten, Calls
<1>2. FinishTypes'
  BY DEF FinalizationWritten, TypeOK, FinishTypes, Finalizations
<1>3. RecordTypes'
  <2>0. PICK created \in WriteResults, reported \in WriteResults,
             marked \in WriteResults, written \in WriteResults :
          LET noted == IF finalization.create /\ created THEN RowInsert
                       ELSE IF finalization.mark /\ marked
                       THEN RowSendState(finalization.send_state)
                       ELSE row
              persisted == request_persisted \/ (finalization.create /\ reported)
          IN  /\ row' = IF persisted /\ written THEN RowFinalized(noted) ELSE noted
              /\ request_persisted' = persisted
    BY DEF FinalizationWritten
  <2> DEFINE noted == IF finalization.create /\ created THEN RowInsert
                      ELSE IF finalization.mark /\ marked
                      THEN RowSendState(finalization.send_state)
                      ELSE row
             persisted == request_persisted \/ (finalization.create /\ reported)
  <2>1. /\ row' = IF persisted /\ written THEN RowFinalized(noted) ELSE noted
        /\ request_persisted' = persisted
    BY <2>0
  <2>2. noted \in Rows
    BY RowTypes DEF TypeOK, RecordTypes, FinishTypes, Finalizations
  <2>3. row' \in Rows
    BY <2>1, <2>2, RowTypes
  <2>4. request_persisted' \in BOOLEAN
    BY <2>1
  <2> QED BY <2>3, <2>4 DEF FinalizationWritten, TypeOK, RecordTypes
<1> QED BY <1>1, <1>2, <1>3, KeepTypes DEF FinalizationWritten, TypeOK

(* The action Close keeps the types.                                        *)
LEMMA CloseTypes == ASSUME TypeOK, Close PROVE TypeOK'
<1>1. ControlTypes'
  BY ControlKeeps DEF Close
<1> QED BY <1>1, KeepTypes DEF Close, TypeOK

(* The absent retry, attempt and locals, as records.                        *)
LEMMA RecordsTypes ==
    /\ NoRetry \in Retries /\ NoLocals \in AttemptLocals /\ NoCurrent \in CurrentAttempts
    /\ FallbackTransport \in Transports /\ DefaultTransport \in Transports
<1>1. FallbackTransport \in Nat /\ FallbackTransport \in Transports /\ 0 \in Transports
  BY TuningAssumption DEF FallbackTransport, Transports
<1> QED BY <1>1 DEF NoRetry, Retries, NoLocals, AttemptLocals, NoCurrent, CurrentAttempts,
                    MaybeAccounts, DefaultTransport

(* The action PrepareAttempt keeps the types.                               *)
LEMMA PrepareAttemptTypes == ASSUME TypeOK, PrepareAttempt PROVE TypeOK'
<1> DEFINE r == pending_retry
           recovering == /\ r.account # NoAccount \/ connection_rotation.account # NoAccount
                         /\ last_retryable_failure.pre_delivery_retry = "ConnectionRetry"
           prepared == [pin |-> r.account, transport |-> r.transport,
                        transport_recovery |-> r.transport_recovery,
                        reserve |-> r.reserve, connection_recovery |-> recovering]
<1>1. /\ FinishTypes' /\ FailureTypes' /\ RecordTypes'
      /\ last_retryable_failure' \in ProviderError /\ attempt' \in {attempt, prepared}
      /\ pc' \in {"settling", "finalizing", "delaying", "selecting"}
  <2>1. CASE FinishRetainedFailure /\ UNCHANGED attempt
    BY <2>1, RetainedFailureType DEF PrepareAttempt
  <2>2. CASE /\ attempt' = prepared
             /\ pc' = IF r.delayed THEN "delaying" ELSE "selecting"
             /\ UNCHANGED <<finishVars, budgetVars, client_retry,
                            pending_terminal_failure, last_retryable_failure>>
    <3>1. last_retryable_failure' \in ProviderError
      BY <2>2 DEF TypeOK, RetryTypes
    <3>2. pc' \in {"delaying", "selecting"}
      BY <2>2
    <3> HIDE DEF prepared
    <3> QED BY <2>2, <3>1, <3>2, KeepTypes DEF PrepareAttempt
  <2> QED BY <2>1, <2>2 DEF PrepareAttempt
<1>2. prepared \in AttemptLocals
  BY DEF TypeOK, RetryTypes, Retries, AttemptLocals
<1>3. AttemptTypes'
  BY <1>1, <1>2 DEF PrepareAttempt, TypeOK, AttemptTypes
<1>4. ControlTypes'
  BY <1>1, ControlKeeps DEF PrepareAttempt, Calls, Awaits
<1>5. RetryTypes'
  BY <1>1, RecordsTypes DEF PrepareAttempt, TypeOK, RetryTypes
<1> QED BY <1>1, <1>3, <1>4, <1>5, KeepTypes DEF PrepareAttempt, TypeOK

(* The action DelayElapsed keeps the types.                                 *)
LEMMA DelayElapsedTypes == ASSUME TypeOK, DelayElapsed PROVE TypeOK'
<1>1. ControlTypes'
  BY ControlKeeps DEF DelayElapsed
<1> QED BY <1>1, KeepTypes DEF DelayElapsed, TypeOK

(* The action SelectAccount keeps the types.                                *)
LEMMA SelectAccountTypes == ASSUME TypeOK, SelectAccount PROVE TypeOK'
<1> DEFINE retrying == attempt.pin # NoAccount
           selected == [attempt EXCEPT
                          !.pin = AttemptPin,
                          !.transport = IF retrying THEN attempt.transport
                                        ELSE connection_rotation.transport]
<1>1. /\ FinishTypes' /\ FailureTypes' /\ RecordTypes'
      /\ last_retryable_failure' \in ProviderError /\ attempt' \in {NoLocals, selected}
      /\ pc' \in {"settling", "finalizing", "executing"}
  <2>1. CASE FinishRetainedFailure /\ attempt' = NoLocals
    BY <2>1, RetainedFailureType DEF SelectAccount
  <2>2. CASE /\ \/ FinishLocalFailure(InterruptedOutcome)
                \/ FinishProviderError(ProfileRejected, CurrentSendState)
             /\ attempt' = NoLocals
             /\ UNCHANGED <<budgetVars, pending_terminal_failure, last_retryable_failure>>
    <3>1. last_retryable_failure' \in ProviderError
      BY <2>2 DEF TypeOK, RetryTypes
    <3>2. FinishTypes' /\ pc' = "finalizing"
      BY <2>2, LocalFailureType, ProviderErrorType, CurrentSendType, OutcomeTypes
    <3> QED BY <2>2, <3>1, <3>2, KeepTypes DEF SelectAccount
  <2>3. CASE /\ attempt' = selected
             /\ pc' = "executing"
             /\ UNCHANGED <<finishVars, budgetVars, client_retry,
                            pending_terminal_failure, last_retryable_failure>>
    <3>1. last_retryable_failure' \in ProviderError
      BY <2>3 DEF TypeOK, RetryTypes
    <3> HIDE DEF selected
    <3> QED BY <2>3, <3>1, KeepTypes DEF SelectAccount
  <2> QED BY <2>1, <2>2, <2>3 DEF SelectAccount
<1>2. AttemptPin \in MaybeAccounts
  BY AccountsAssumption
     DEF AttemptPin, TypeOK, AttemptTypes, RetryTypes, AttemptLocals, MaybeAccounts
<1>3. selected \in AttemptLocals
  BY <1>2 DEF TypeOK, AttemptTypes, RetryTypes, AttemptLocals, Retries
<1>4. AttemptTypes'
  BY <1>1, <1>3, RecordsTypes DEF SelectAccount, TypeOK, AttemptTypes
<1>5. ControlTypes'
  BY <1>1, ControlKeeps DEF SelectAccount, Calls, Awaits
<1>6. RetryTypes'
  <2>1. recovery_account' \in MaybeAccounts
    BY DEF SelectAccount, TypeOK, RetryTypes, MaybeAccounts
  <2> QED BY <1>1, <2>1 DEF SelectAccount, TypeOK, RetryTypes
<1> QED BY <1>1, <1>4, <1>5, <1>6, KeepTypes DEF SelectAccount, TypeOK

(* The action ExecuteOk keeps the types.                                    *)
LEMMA ExecuteOkTypes == ASSUME TypeOK, NEW a \in Accounts, ExecuteOk(a) PROVE TypeOK'
<1>1. ControlTypes'
  BY ControlKeeps DEF ExecuteOk, Awaits
<1>2. RouteTypes'
  BY DEF ExecuteOk, TypeOK, RouteTypes, MaybeAccounts
<1>3. RetryTypes'
  BY RecordsTypes DEF ExecuteOk, TypeOK, RetryTypes
<1>4. AttemptTypes'
  BY RecordsTypes DEF ExecuteOk, TypeOK, AttemptTypes, AttemptLocals, CurrentAttempts,
                      MaybeAccounts
<1> QED BY <1>1, <1>2, <1>3, <1>4, KeepTypes DEF ExecuteOk, TypeOK

(* The action ExecuteMismatch keeps the types.                              *)
LEMMA ExecuteMismatchTypes == ASSUME TypeOK, ExecuteMismatch PROVE TypeOK'
<1>1. FinishTypes' /\ pc' = "finalizing"
  BY FinishType, OutcomeTypes, CurrentSendType DEF ExecuteMismatch, Finish, TypeOK, FinishTypes
<1>2. ControlTypes'
  BY <1>1, ControlKeeps DEF ExecuteMismatch, Awaits
<1>3. RetryTypes'
  BY RecordsTypes DEF ExecuteMismatch, TypeOK, RetryTypes
<1>4. AttemptTypes'
  BY RecordsTypes DEF ExecuteMismatch, TypeOK, AttemptTypes
<1> QED BY <1>1, <1>2, <1>3, <1>4, KeepTypes DEF ExecuteMismatch, TypeOK

(* The action ExecuteError keeps the types.                                 *)
LEMMA ExecuteErrorTypes ==
    ASSUME TypeOK, NEW e \in ExecuteErrors, NEW w \in BOOLEAN, ExecuteError(e, w)
    PROVE  TypeOK'
<1> DEFINE fallback == FallsBackToConnection(e)
           replay   == ~fallback /\ ReplaysNativeContinuation(e, w)
           advance  == ~fallback /\ ~replay /\ AdvancesProvider(e, w)
           retry    ==
             /\ pending_retry' = IF fallback THEN connection_rotation ELSE pending_retry
             /\ connection_rotation' = IF replay THEN connection_rotation ELSE NoRetry
             /\ excluded_accounts' =
                  IF fallback THEN excluded_accounts \ {connection_rotation.account}
                  ELSE excluded_accounts \cup (IF replay THEN {PinnedAccount} ELSE {})
             /\ continuation_attempt' = IF replay THEN "ReplayAny" ELSE continuation_attempt
             /\ candidate_index' = IF advance THEN candidate_index + 1 ELSE candidate_index
             /\ collected' = FALSE
             /\ pc' = "preparing"
             /\ UNCHANGED <<finishVars, budgetVars, client_retry,
                            pending_terminal_failure, last_retryable_failure>>
           failed ==
             /\ \/ FinishRetainedFailure
                \/ /\ FinishProviderError(e, Escalate(CurrentSendState, e.send_state))
                   /\ last_retryable_failure' \in {NoError, last_retryable_failure}
                   /\ UNCHANGED <<budgetVars, pending_terminal_failure>>
             /\ UNCHANGED <<planVars, pendingVars, collected>>
<1>1. retry \/ failed
  BY DEF ExecuteError
<1>2. /\ UNCHANGED <<call, barrierVars, envVars, routeVars, retryVars, storeVars,
                     connection_budget, current, downstream_committed,
                     delivery_has_terminal_fact, pulled, upstream_complete,
                     pending_stream_failure>>
      /\ attempt' = NoLocals
  BY DEF ExecuteError
<1>3. AttemptTypes'
  BY <1>2, RecordsTypes DEF TypeOK, AttemptTypes
<1>4. CASE retry
  <2>1. RouteTypes'
    <3>1. candidate_index' \in 1..Candidates
      BY <1>4, PlanAssumption DEF AdvancesProvider, TypeOK, RouteTypes
    <3>2. excluded_accounts' \subseteq Accounts
      <4>1. replay => PinnedAccount \in Accounts
        BY AccountsAssumption DEF ReplaysNativeContinuation
      <4> QED BY <1>4, <4>1 DEF TypeOK, RouteTypes
    <3>3. continuation_attempt' \in {"None", "Native", "ReplayOwner", "ReplayAny"}
      BY <1>4 DEF TypeOK, RouteTypes
    <3> QED BY <1>2, <3>1, <3>2, <3>3 DEF TypeOK, RouteTypes
  <2>2. RetryTypes'
    BY <1>2, <1>4, RecordsTypes DEF TypeOK, RetryTypes
  <2>3. DeliveryTypes'
    BY <1>2, <1>4 DEF TypeOK, DeliveryTypes
  <2>4. ControlTypes'
    BY <1>2, <1>4, ControlKeeps
  <2>5. UNCHANGED <<failureVars, finishVars, client_retry, storeVars, budgetVars>>
    BY <1>2, <1>4
  <2> QED BY <1>3, <2>1, <2>2, <2>3, <2>4, <2>5, KeepTypes DEF TypeOK
<1>5. CASE failed
  <2>0. DeliveryTypes'
    BY <1>2, <1>5 DEF TypeOK, DeliveryTypes
  <2>1. /\ FinishTypes' /\ FailureTypes' /\ RecordTypes'
        /\ last_retryable_failure' \in ProviderError
        /\ pc' \in {"settling", "finalizing"}
    <3>1. CASE FinishRetainedFailure
      BY <1>2, <1>5, <3>1, RetainedFailureType
    <3>2. CASE /\ FinishProviderError(e, Escalate(CurrentSendState, e.send_state))
               /\ last_retryable_failure' \in {NoError, last_retryable_failure}
               /\ UNCHANGED <<budgetVars, pending_terminal_failure>>
      <4>1. e.send_state \in SendStates
        BY ErrorsAssumption DEF ProviderError
      <4>2. Escalate(CurrentSendState, e.send_state) \in SendStates
        BY <4>1, EscalateType, CurrentSendType
      <4>3. last_retryable_failure' \in ProviderError
        BY <3>2, NoErrorType DEF TypeOK, RetryTypes
      <4>4. UNCHANGED <<failureVars, storeVars, budgetVars>>
        BY <1>2, <1>5, <3>2
      <4> QED BY <3>2, <4>2, <4>3, <4>4, ProviderErrorType, KeepTypes
    <3> QED BY <1>5, <3>1, <3>2
  <2>2. RetryTypes'
    BY <1>2, <1>5, <2>1 DEF TypeOK, RetryTypes
  <2>3. ControlTypes'
    BY <1>2, <2>1, ControlKeeps DEF Calls, Awaits
  <2>4. UNCHANGED <<routeVars, planVars>>
    BY <1>2, <1>5
  <2> QED BY <1>3, <2>0, <2>1, <2>2, <2>3, <2>4, KeepTypes DEF TypeOK
<1> QED BY <1>1, <1>4, <1>5

(* The action AttemptRecorded keeps the types.                              *)
LEMMA AttemptRecordedTypes == ASSUME TypeOK, AttemptRecorded PROVE TypeOK'
<1>1. ControlTypes'
  BY ControlKeeps DEF AttemptRecorded, Awaits
<1>2. row' \in Rows /\ request_persisted' \in BOOLEAN
  BY RowTypes DEF AttemptRecorded, TypeOK, RecordTypes
<1>3. RecordTypes'
  BY <1>2 DEF AttemptRecorded, TypeOK, RecordTypes
<1> QED BY <1>1, <1>3, KeepTypes DEF AttemptRecorded, TypeOK

(* The action OpenConnection keeps the types.                               *)
LEMMA OpenConnectionTypes == ASSUME TypeOK, OpenConnection PROVE TypeOK'
<1>1. ControlTypes'
  BY DEF OpenConnection, TypeOK, ControlTypes
<1>2. AttemptTypes'
  <2>1. current' \in CurrentAttempts
    BY DEF OpenConnection, TypeOK, AttemptTypes, CurrentAttempts
  <2>2. connection_budget' \in ConnectionBudgets
    <3>1. connection_budget.openings + 1 \in Nat
      BY DEF TypeOK, AttemptTypes, ConnectionBudgets
    <3>2. connection_budget' = [connection_budget EXCEPT !.openings = connection_budget.openings + 1,
                                                         !.started = TRUE]
      BY DEF OpenConnection
    <3> QED BY <3>1, <3>2 DEF TypeOK, AttemptTypes, ConnectionBudgets
  <2> QED BY <2>1, <2>2 DEF OpenConnection, TypeOK, AttemptTypes
<1> QED BY <1>1, <1>2, KeepTypes DEF OpenConnection, TypeOK

(* The action ConnectionWindowExpires keeps the types.                      *)
LEMMA ConnectionWindowExpiresTypes == ASSUME TypeOK, ConnectionWindowExpires PROVE TypeOK'
<1>1. ControlTypes'
  BY DEF ConnectionWindowExpires, TypeOK, ControlTypes
<1>2. AttemptTypes'
  BY DEF ConnectionWindowExpires, TypeOK, AttemptTypes, ConnectionBudgets
<1> QED BY <1>1, <1>2, KeepTypes DEF ConnectionWindowExpires, TypeOK

(* What the caller's loop does with an event.                               *)
LEMMA HandOverTypes ==
    ASSUME TypeOK, NEW ev \in Events, HandOver(ev), UNCHANGED downstream_committed
    PROVE  /\ DeliveryTypes' /\ client_retry' \in Guards
           /\ pc' \in {"idle", "polling"} /\ call' \in {call, "none"}
<1>1. client_retry' \in Guards
  BY RetrySuccessType DEF HandOver, TypeOK, FinishTypes, Guards
<1>2. pulled' \in Events
  BY DEF HandOver, Events
<1>3. DeliveryTypes'
  BY <1>2 DEF HandOver, TypeOK, DeliveryTypes
<1> QED BY <1>1, <1>3 DEF HandOver

(* The action StreamItem keeps the types.                                   *)
LEMMA StreamItemTypes == ASSUME TypeOK, NEW ev \in StreamEvents, StreamItem(ev) PROVE TypeOK'
<1>0. ev \in Events
  BY SurroundingsAssumption
<1>1. RecordTypes'
  BY DEF StreamItem, TypeOK, RecordTypes, RouteTypes
<1>2. AttemptTypes'
  BY DEF StreamItem, TypeOK, AttemptTypes, ConnectionBudgets
<1>3. /\ DeliveryTypes' /\ FinishTypes'
      /\ pc' \in {"idle", "polling", "observing", pc} /\ call' \in {call, "none"}
  <2>1. CASE UNCHANGED <<pc, call, deliveryVars, barrierVars, client_retry>>
    BY <2>1, KeepTypes DEF StreamItem
  <2>2. CASE /\ pulled' = ev /\ pc' = "observing"
             /\ UNCHANGED <<call, barrierVars, downstream_committed,
                            delivery_has_terminal_fact, collected, client_retry>>
    <3>1. DeliveryTypes'
      BY <1>0, <2>2 DEF TypeOK, DeliveryTypes
    <3> QED BY <2>2, <3>1, KeepTypes DEF StreamItem
  <2>3. CASE HandOver(ev) /\ UNCHANGED downstream_committed
    <3>1. client_retry' \in Guards /\ UNCHANGED finishVars
      BY <1>0, <2>3, HandOverTypes DEF StreamItem
    <3>2. FinishTypes'
      BY <3>1 DEF TypeOK, FinishTypes, Guards
    <3> QED BY <1>0, <2>3, <3>2, HandOverTypes
  <2> QED BY <2>1, <2>2, <2>3 DEF StreamItem
<1>4. ControlTypes'
  BY <1>3, ControlKeeps DEF StreamItem, Calls, Awaits
<1> QED BY <1>1, <1>2, <1>3, <1>4, KeepTypes DEF StreamItem, TypeOK

(* The action SendObserved keeps the types.                                 *)
LEMMA SendObservedTypes == ASSUME TypeOK, SendObserved PROVE TypeOK'
<1>1. /\ DeliveryTypes' /\ client_retry' \in Guards
      /\ pc' \in {"idle", "polling"} /\ call' \in {call, "none"}
  BY HandOverTypes DEF SendObserved, TypeOK, DeliveryTypes
<1>2. "Sent" \in SendStates
  BY DEF SendStates
<1>3. FinishTypes'
  BY <1>1, <1>2 DEF SendObserved, TypeOK, FinishTypes, Guards
<1>4. row' \in Rows
  BY <1>2, RowTypes DEF SendObserved, TypeOK, RecordTypes
<1>5. RecordTypes'
  BY <1>4 DEF SendObserved, TypeOK, RecordTypes
<1>6. AttemptTypes'
  BY DEF SendObserved, TypeOK, AttemptTypes, CurrentAttempts
<1>7. ControlTypes'
  BY <1>1, ControlKeeps DEF SendObserved, Calls, Awaits
<1> QED BY <1>1, <1>3, <1>5, <1>6, <1>7, KeepTypes DEF SendObserved, TypeOK

(* The action StreamEnd keeps the types.                                    *)
LEMMA StreamEndTypes == ASSUME TypeOK, StreamEnd PROVE TypeOK'
<1>1. FinishTypes' /\ pc' \in {"idle", "finalizing"} /\ call' \in {call, "none"}
  <2>1. CASE FinishSuccess /\ UNCHANGED call
    BY <2>1, SuccessType
  <2>2. CASE pc' = "idle" /\ call' = "none" /\ UNCHANGED <<finishVars, client_retry>>
    BY <2>2, KeepTypes
  <2> QED BY <2>1, <2>2 DEF StreamEnd
<1>2. ControlTypes'
  BY <1>1, ControlKeeps DEF StreamEnd, Calls, Awaits
<1>3. DeliveryTypes'
  BY DEF StreamEnd, TypeOK, DeliveryTypes
<1>4. AttemptTypes'
  BY DEF StreamEnd, TypeOK, AttemptTypes
<1> QED BY <1>1, <1>2, <1>3, <1>4, KeepTypes DEF StreamEnd, TypeOK

(* The action Interrupted keeps the types.                                  *)
LEMMA InterruptedTypes == ASSUME TypeOK, Interrupted PROVE TypeOK'
<1>1. FinishTypes' /\ pc' = "finalizing"
  BY InterruptionType DEF Interrupted
<1>2. ControlTypes'
  BY <1>1, ControlKeeps DEF Interrupted, Awaits
<1>3. AttemptTypes'
  BY RecordsTypes DEF Interrupted, TypeOK, AttemptTypes
<1> QED BY <1>1, <1>2, <1>3, KeepTypes DEF Interrupted, TypeOK

(* The error begin_stream_failure decides on.                               *)
LEMMA EffectiveErrorType ==
    ASSUME TypeOK, NEW e \in StreamErrors
    PROVE  EffectiveError(e) \in ProviderError
BY ErrorsAssumption DEF EffectiveError, TypeOK, RetryTypes, ProviderError

(* A transport retry stays within the provider's transport list.            *)
LEMMA RetryTransportType ==
    ASSUME TypeOK, NEW e \in StreamErrors, MayRaise(e), EffectiveError(e) = e
    PROVE  RetryTransport(e) \in Transports
<1>1. current.transport \in Transports
  BY DEF TypeOK, AttemptTypes, CurrentAttempts
<1> QED BY <1>1, TuningAssumption
        DEF RetryTransport, MayRaise, Transports, FallbackTransport

(* A restored connection failure (an opening the budget refused) is never   *)
(* retried.                                                                 *)
LEMMA RestoredIsTerminal ==
    ASSUME NEW e, NEW fits, TypeOK, RestoresConnectionFailure(e)
    PROVE  FollowUp(EffectiveError(e), fits) = "terminal"
<1>1. EffectiveError(e).retry_prohibited = TRUE
  BY DEF EffectiveError, TypeOK, RetryTypes, ProviderError
<1> QED BY <1>1 DEF FollowUp, Retryable

(* The action BeginStreamFailure keeps the types.                           *)
LEMMA BeginStreamFailureTypes ==
    ASSUME TypeOK, ReadsCurrent, NEW raised \in StreamErrors, NEW fits \in BOOLEAN, NEW pause \in BOOLEAN,
           BeginStreamFailure(raised, fits, pause)
    PROVE  TypeOK'
<1> DEFINE e == EffectiveError(raised)
           restored == RestoresConnectionFailure(raised)
           sent == Escalate(send_state_watermark, AttemptSendState(e))
           follow == FollowUp(e, fits)
           again == [account |-> current.account, transport |-> RetryTransport(e),
                     delayed |-> e.pre_delivery_retry # "TransportFallback" \/ pause,
                     transport_recovery |-> follow # "transient",
                     reserve |-> follow = "transport" /\ ReservesRotation(e)]
<1>1. e \in ProviderError
  BY EffectiveErrorType
<1>2. sent \in SendStates
  <2>1. AttemptSendState(e) \in SendStates
    BY <1>1 DEF AttemptSendState, ProviderError, SendStates
  <2> QED BY <2>1, EscalateType DEF TypeOK, FinishTypes
<1>3. current.account \in Accounts
  BY DEF BeginStreamFailure, ReadsCurrent, HasCurrent, TypeOK, AttemptTypes,
         CurrentAttempts, MaybeAccounts
<1>4. follow # "terminal" => again \in Retries
  <2> SUFFICES ASSUME follow # "terminal" PROVE again \in Retries OBVIOUS
  <2>1. ~restored
    BY RestoredIsTerminal
  <2>2. e = raised
    BY <2>1 DEF EffectiveError
  <2>3. RetryTransport(e) \in Transports
    BY <2>2, RetryTransportType DEF BeginStreamFailure
  <2>4. ReservesRotation(e) \in BOOLEAN
    BY DEF ReservesRotation
  <2> QED BY <1>3, <2>3, <2>4 DEF Retries, MaybeAccounts
<1> HIDE DEF e, again, sent
<1>5. ControlTypes'
  BY ControlKeeps DEF BeginStreamFailure, Awaits
<1>6. AttemptTypes'
  BY DEF BeginStreamFailure, TypeOK, AttemptTypes, ConnectionBudgets
<1>7. RouteTypes'
  <2>1. excluded_accounts' \subseteq Accounts
    BY <1>3 DEF BeginStreamFailure, TypeOK, RouteTypes
  <2>2. continuation_attempt' \in {"None", "Native", "ReplayOwner", "ReplayAny"}
    BY DEF BeginStreamFailure, TypeOK, RouteTypes
  <2> QED BY <2>1, <2>2 DEF BeginStreamFailure, TypeOK, RouteTypes
<1>8. RetryTypes'
  <2>1. pending_retry' \in Retries
    BY <1>4 DEF BeginStreamFailure, e, again, TypeOK, RetryTypes
  <2>2. connection_rotation' \in Retries
    BY <1>4 DEF BeginStreamFailure, e, again, TypeOK, RetryTypes
  <2>3. last_retryable_failure' \in ProviderError
    BY <1>1, NoErrorType DEF BeginStreamFailure, e, TypeOK, RetryTypes
  <2>4. credential_recovery_attempted_accounts' \subseteq Accounts
    BY <1>3 DEF BeginStreamFailure, TypeOK, RetryTypes
  <2>5. recovery_account' \in MaybeAccounts
    BY <1>3 DEF BeginStreamFailure, TypeOK, RetryTypes, MaybeAccounts
  <2>6. transient_retry_counts' \in [Accounts -> Nat]
    BY <1>3 DEF BeginStreamFailure, TypeOK, RetryTypes
  <2>7. connection_retries' \in Nat
    BY DEF BeginStreamFailure, TypeOK, RetryTypes
  <2> QED BY <2>1, <2>2, <2>3, <2>4, <2>5, <2>6, <2>7 DEF RetryTypes
<1>9. FailureTypes'
  <2>1. pending_stream_failure' \in StreamFailures
    BY <1>1, <1>2, NoErrorType DEF BeginStreamFailure, e, sent, StreamFailures
  <2> QED BY <2>1 DEF BeginStreamFailure, TypeOK, FailureTypes
<1>10. FinishTypes'
  BY <1>2 DEF BeginStreamFailure, e, sent, TypeOK, FinishTypes
<1>11. RecordTypes'
  BY DEF BeginStreamFailure, TypeOK, RecordTypes, RouteTypes
<1> QED BY <1>5, <1>6, <1>7, <1>8, <1>9, <1>10, <1>11, KeepTypes
        DEF BeginStreamFailure, TypeOK

(* The action ResumeStreamFailure keeps the types.                          *)
LEMMA ResumeStreamFailureTypes == ASSUME TypeOK, ResumeStreamFailure PROVE TypeOK'
<1> DEFINE f == pending_stream_failure
<1>1. f.error \in ProviderError /\ f.send_state \in SendStates
  BY DEF TypeOK, FailureTypes, StreamFailures
<1>2. row' \in Rows /\ UNCHANGED request_persisted
  BY <1>1, RowTypes DEF ResumeStreamFailure, TypeOK, RecordTypes
<1>3. CASE f.kind = "Discard"
  <2>1. ControlTypes'
    BY <1>3, ControlKeeps DEF ResumeStreamFailure
  <2>2. AttemptTypes'
    BY <1>3, RecordsTypes
       DEF ResumeStreamFailure, ResetUncommittedObservations, TypeOK, AttemptTypes
  <2>3. RecordTypes'
    <3>0. ResetUncommittedObservations
      BY <1>3 DEF ResumeStreamFailure
    <3>1. budget_prior_attempts' \in Nat
      <4>1. observed_cost \in Nat /\ budget_prior_attempts \in Nat
        BY DEF TypeOK, RecordTypes
      <4>2. AttemptCharge \in Nat
        BY <4>1 DEF AttemptCharge
      <4>3. budget_prior_attempts' = budget_prior_attempts + AttemptCharge
        BY <3>0 DEF ResetUncommittedObservations
      <4> QED BY <4>1, <4>2, <4>3
    <3>2. observed_cost' \in 0..1 /\ costed' \subseteq Nat
      BY <3>0 DEF ResetUncommittedObservations, TypeOK, RecordTypes
    <3>3. budget_attempt_already_counted' \in BOOLEAN
      BY <3>0 DEF ResetUncommittedObservations
    <3> QED BY <1>2, <3>1, <3>2, <3>3 DEF TypeOK, RecordTypes
  <2>4. DeliveryTypes'
    BY <1>3 DEF ResumeStreamFailure, TypeOK, DeliveryTypes
  <2>5. FailureTypes'
    BY <1>3, NoFailureTypes DEF ResumeStreamFailure, TypeOK, FailureTypes
  <2> QED BY <1>3, <2>1, <2>2, <2>3, <2>4, <2>5, KeepTypes DEF ResumeStreamFailure, TypeOK
<1>4. CASE f.kind = "Terminal"
  <2>1. /\ EndWithFailure(f.error, f.send_state)
        /\ UNCHANGED <<deliveryVars, attemptVars, budgetVars>>
        /\ pending_stream_failure' = NoStreamFailure
    BY <1>4 DEF ResumeStreamFailure
  <2>2. pending_terminal_failure' \in TerminalFailures /\ pc' = "settling"
    BY <1>1, <2>1, EndWithFailureType
  <2>3. ControlTypes'
    BY <2>2, ControlKeeps DEF ResumeStreamFailure, Calls, Awaits
  <2>4. FailureTypes'
    BY <2>1, <2>2, NoFailureTypes DEF FailureTypes
  <2>5. RecordTypes'
    BY <1>2, <2>1 DEF TypeOK, RecordTypes
  <2> QED BY <2>1, <2>2, <2>3, <2>4, <2>5, KeepTypes DEF ResumeStreamFailure, TypeOK
<1> QED BY <1>3, <1>4 DEF ResumeStreamFailure

(* The action TerminalFailureSettled keeps the types.                       *)
LEMMA TerminalFailureSettledTypes == ASSUME TypeOK, TerminalFailureSettled PROVE TypeOK'
<1> DEFINE f == pending_terminal_failure
<1>1. /\ FinishTypes' /\ DeliveryTypes' /\ FailureTypes'
      /\ pc' \in {"idle", "finalizing"} /\ call' \in {call, "none"}
  <2>1. CASE /\ client_retry' = RetryFailure(f.error)
             /\ delivery_pending' = ~downstream_committed
             /\ replay_barrier_reached' = TRUE
             /\ exposed' = (exposed \/ downstream_committed)
             /\ pc' = "idle" /\ call' = "none"
             /\ UNCHANGED <<finishVars, pending_terminal_failure>>
    <3>1. FinishTypes'
      BY <2>1, RetryFailureType DEF TypeOK, FinishTypes, Guards
    <3>2. DeliveryTypes'
      BY <2>1 DEF TerminalFailureSettled, TypeOK, DeliveryTypes
    <3> QED BY <2>1, <3>1, <3>2, KeepTypes DEF TerminalFailureSettled
  <2>2. CASE /\ FinishProviderError(f.error, f.send_state)
             /\ pending_terminal_failure' = NoTerminalFailure
             /\ UNCHANGED <<call, barrierVars>>
    <3>1. f.send_state \in SendStates
      BY DEF TypeOK, FailureTypes, TerminalFailures
    <3>2. FailureTypes'
      BY <2>2, NoFailureTypes DEF TerminalFailureSettled, TypeOK, FailureTypes
    <3> QED BY <2>2, <3>1, <3>2, ProviderErrorType, KeepTypes DEF TerminalFailureSettled
  <2> QED BY <2>1, <2>2 DEF TerminalFailureSettled
<1>2. ControlTypes'
  BY <1>1, ControlKeeps DEF TerminalFailureSettled, Calls, Awaits
<1> QED BY <1>1, <1>2, KeepTypes DEF TerminalFailureSettled, TypeOK

(* The write a dropped call was waiting for.                                *)
LEMMA InFlightRowType == ASSUME TypeOK PROVE InFlightRow \in Rows
<1>1. pending_stream_failure.send_state \in SendStates /\ "Sent" \in SendStates
  BY DEF TypeOK, FailureTypes, StreamFailures, SendStates
<1> QED BY <1>1, RowTypes DEF InFlightRow, TypeOK, RecordTypes

(* The action DropAtCompletion keeps the types.                             *)
LEMMA DropAtCompletionTypes == ASSUME TypeOK, DropAtCompletion PROVE TypeOK'
<1>1. row' \in Rows /\ current' \in CurrentAttempts /\ send_state_watermark' \in SendStates
  BY InFlightRowType DEF DropAtCompletion, TypeOK, RecordTypes, AttemptTypes, CurrentAttempts,
                         FinishTypes, SendStates
<1>2. observed_cost' \in 0..1 /\ costed' \subseteq Nat
  BY DEF DropAtCompletion, TypeOK, RecordTypes, RouteTypes
<1>3. RecordTypes'
  BY <1>1, <1>2 DEF DropAtCompletion, TypeOK, RecordTypes
<1>4. AttemptTypes'
  BY <1>1 DEF DropAtCompletion, TypeOK, AttemptTypes
<1>5. FinishTypes'
  BY <1>1 DEF DropAtCompletion, TypeOK, FinishTypes
<1>6. ControlTypes'
  BY DEF DropAtCompletion, TypeOK, ControlTypes
<1> QED BY <1>3, <1>4, <1>5, <1>6, KeepTypes DEF DropAtCompletion, TypeOK

(* The action DropCall keeps the types.                                     *)
LEMMA DropCallTypes == ASSUME TypeOK, DropCall PROVE TypeOK'
<1>2. RecordTypes'
  BY InFlightRowType DEF DropCall, TypeOK, RecordTypes
<1>3. AttemptTypes'
  BY RecordsTypes DEF DropCall, TypeOK, AttemptTypes
<1>4. ControlTypes'
  BY DEF DropCall, TypeOK, ControlTypes
<1> QED BY <1>2, <1>3, <1>4, KeepTypes DEF DropCall, TypeOK

(* Heartbeat, cancellation, deadline and stuttering.                        *)
LEMMA SurroundingsTypes ==
    ASSUME TypeOK, Keepalive \/ Environment \/ Terminated \/ UNCHANGED vars
    PROVE  TypeOK'
<1>1. CASE Keepalive
  <2>1. ControlTypes'
    BY <1>1 DEF Keepalive, TypeOK, ControlTypes
  <2>2. FinishTypes'
    BY <1>1 DEF Keepalive, TypeOK, FinishTypes
  <2> QED BY <1>1, <2>1, <2>2, KeepTypes DEF Keepalive, TypeOK
<1>2. CASE Environment
  <2>1. ControlTypes'
    BY <1>2 DEF Environment, RequestCancelled, DeadlineElapses, TypeOK, ControlTypes
  <2> QED BY <1>2, <2>1, KeepTypes DEF Environment, TypeOK
<1>3. CASE UNCHANGED vars
  <2>1. ControlTypes'
    BY <1>3 DEF vars, TypeOK, ControlTypes
  <2> QED BY <1>3, <2>1, KeepTypes DEF vars, TypeOK
<1> QED BY <1>1, <1>2, <1>3 DEF Terminated


(* A finish function leaves the attempt loop.                               *)
LEMMA FinishLeavesReading ==
    ASSUME NEW o, NEW s, NEW w, NEW m, FinishMarking(o, s, w, m) PROVE pc' = "finalizing"
BY DEF FinishMarking

(* So does a terminal failure,                                              *)
LEMMA FailureLeavesReading ==
    ASSUME NEW e, NEW s, EndWithFailure(e, s) PROVE pc' = "settling"
BY DEF EndWithFailure

(* and a retained one.                                                      *)
LEMMA RetainedLeavesReading ==
    ASSUME FinishRetainedFailure PROVE pc' \in {"settling", "finalizing"}
BY FinishLeavesReading, FailureLeavesReading
   DEF FinishRetainedFailure, FinishLocalFailure, FinishProviderError, Finish

(* The session holds an attempt whenever it reads a stream: the caller's    *)
(* steps,                                                                   *)
LEMMA ReadsCurrentCaller == ASSUME TypeOK, ReadsCurrent, CallerStep PROVE ReadsCurrent'
<1> USE DEF ReadsCurrent
<1>1. CASE NextEvent
  BY <1>1, FinishLeavesReading DEF NextEvent, FinishProviderError, Finish, HasCurrent
<1>2. CASE CollectUncommitted
  BY <1>2 DEF CollectUncommitted, HasCurrent
<1>3. CASE DeferDownstreamCommit
  BY <1>3 DEF DeferDownstreamCommit, HasCurrent
<1>4. CASE CommitDownstream
  BY <1>4 DEF CommitDownstream
<1>5. CASE CancelAndFinalize \/ FailDelivery
  BY <1>5, FinishLeavesReading
     DEF CancelAndFinalize, FailDelivery, EndSession, FinishProviderError, Finish,
         FinishLocalFailure
<1>6. CASE Close
  BY <1>6 DEF Close
<1> QED BY <1>1, <1>2, <1>3, <1>4, <1>5, <1>6 DEF CallerStep

(* the session's own steps,                                                 *)
LEMMA ReadsCurrentSession == ASSUME TypeOK, ReadsCurrent, SessionStep PROVE ReadsCurrent'
<1> USE DEF ReadsCurrent
<1>1. CASE Start
  BY <1>1, FinishLeavesReading DEF Start, FinishCancelled, FinishDeadline, FinishLocalFailure
<1>2. CASE PrepareAttempt
  BY <1>2, RetainedLeavesReading DEF PrepareAttempt
<1>3. CASE DelayElapsed
  BY <1>3 DEF DelayElapsed
<1>4. CASE SelectAccount
  BY <1>4, RetainedLeavesReading, FinishLeavesReading
     DEF SelectAccount, FinishLocalFailure, FinishProviderError, Finish
<1>5. CASE AttemptRecorded
  BY <1>5 DEF AttemptRecorded, HasCurrent
<1>6. CASE SendObserved
  <2>1. current'.account = current.account
    BY <1>6 DEF SendObserved, TypeOK, AttemptTypes, CurrentAttempts
  <2> QED BY <1>6, <2>1 DEF SendObserved, HasCurrent
<1>7. CASE Interrupted
  BY <1>7, FinishLeavesReading
     DEF Interrupted, FinishCancelled, FinishDeadline, FinishLocalFailure
<1>8. CASE ResumeStreamFailure
  BY <1>8, FailureLeavesReading DEF ResumeStreamFailure
<1>9. CASE CommitRecorded
  BY <1>9, FinishLeavesReading DEF CommitRecorded, FinishSuccess, Finish
<1>10. CASE FinalizationWritten
  BY <1>10 DEF FinalizationWritten
<1>11. CASE TerminalFailureSettled
  BY <1>11, FinishLeavesReading DEF TerminalFailureSettled, FinishProviderError, Finish
<1> QED BY <1>1, <1>2, <1>3, <1>4, <1>5, <1>6, <1>7, <1>8, <1>9, <1>10, <1>11 DEF SessionStep

(* the provider's steps,                                                    *)
LEMMA ReadsCurrentProvider == ASSUME TypeOK, ReadsCurrent, ProviderStep PROVE ReadsCurrent'
<1> USE DEF ReadsCurrent
<1>1. ASSUME NEW a \in Accounts, ExecuteOk(a) PROVE ReadsCurrent'
  BY <1>1, AccountsAssumption DEF ExecuteOk, HasCurrent
<1>2. CASE ExecuteMismatch
  BY <1>2, FinishLeavesReading DEF ExecuteMismatch, Finish
<1>3. ASSUME NEW e \in ExecuteErrors, NEW w \in BOOLEAN, ExecuteError(e, w)
      PROVE  ReadsCurrent'
  BY <1>3, FinishLeavesReading, RetainedLeavesReading
     DEF ExecuteError, FinishProviderError, Finish
<1>4. CASE OpenConnection
  <2>1. current'.account = current.account
    BY <1>4 DEF OpenConnection, TypeOK, AttemptTypes, CurrentAttempts
  <2> QED BY <1>4, <2>1 DEF OpenConnection, HasCurrent
<1>5. ASSUME NEW ev \in StreamEvents, StreamItem(ev) PROVE ReadsCurrent'
  BY <1>5 DEF StreamItem, HasCurrent
<1>6. CASE StreamEnd
  BY <1>6 DEF StreamEnd, FinishSuccess, Finish, FinishMarking
<1>7. ASSUME NEW e \in StreamErrors, NEW fits \in BOOLEAN, NEW pause \in BOOLEAN,
             BeginStreamFailure(e, fits, pause)
      PROVE  ReadsCurrent'
  BY <1>7 DEF BeginStreamFailure, HasCurrent
<1> QED BY <1>1, <1>2, <1>3, <1>4, <1>5, <1>6, <1>7 DEF ProviderStep

(* every step.                                                              *)
LEMMA ReadsCurrentStep == ASSUME TypeOK, ReadsCurrent, [Next]_vars PROVE ReadsCurrent'
<1>1. CASE ConnectionWindowExpires
  BY <1>1 DEF ConnectionWindowExpires, ReadsCurrent, HasCurrent
<1>2. CASE DropCall \/ DropAtCompletion
  BY <1>2 DEF DropCall, DropAtCompletion, ReadsCurrent
<1>3. CASE Keepalive
  BY <1>3 DEF Keepalive, ReadsCurrent, HasCurrent
<1>4. CASE Environment
  BY <1>4 DEF Environment, ReadsCurrent, HasCurrent
<1>5. CASE UNCHANGED vars
  BY <1>5 DEF vars, ReadsCurrent, HasCurrent
<1> QED BY <1>1, <1>2, <1>3, <1>4, <1>5, ReadsCurrentCaller, ReadsCurrentSession,
           ReadsCurrentProvider DEF Next, Terminated

(* Every step keeps the types; begin_stream_failure needs the held attempt. *)
LEMMA TypeStep == ASSUME TypeOK, ReadsCurrent, [Next]_vars PROVE TypeOK'
<1>1. CASE CallerStep
  BY <1>1, NextEventTypes, CollectUncommittedTypes, DeferDownstreamCommitTypes,
     CommitDownstreamTypes, CancelAndFinalizeTypes, FailDeliveryTypes, CloseTypes
     DEF CallerStep
<1>2. CASE SessionStep
  BY <1>2, StartTypes, PrepareAttemptTypes, DelayElapsedTypes, SelectAccountTypes,
     AttemptRecordedTypes, SendObservedTypes, InterruptedTypes, ResumeStreamFailureTypes,
     TerminalFailureSettledTypes, CommitRecordedTypes, FinalizationWrittenTypes
     DEF SessionStep
<1>3. CASE ProviderStep
  BY <1>3, ExecuteOkTypes, ExecuteMismatchTypes, ExecuteErrorTypes, OpenConnectionTypes,
     StreamItemTypes, StreamEndTypes, BeginStreamFailureTypes
     DEF ProviderStep
<1> QED BY <1>1, <1>2, <1>3, ConnectionWindowExpiresTypes, DropCallTypes,
           DropAtCompletionTypes, SurroundingsTypes DEF Next

(* start_with_account_selection creates a typed session.                    *)
LEMMA InitTypes == Init => TypeOK /\ ReadsCurrent
<1> SUFFICES ASSUME Init PROVE TypeOK /\ ReadsCurrent OBVIOUS
<1>1. ControlTypes
  BY SurroundingsAssumption DEF Init, ControlTypes
<1>2. RouteTypes
  <2>1. InitialCandidate \in 1..Candidates
    BY PlanAssumption DEF InitialCandidate
  <2>2. InitialContinuationAttempt \in {"None", "Native", "ReplayOwner", "ReplayAny"}
    BY DEF InitialContinuationAttempt
  <2> QED BY <2>1, <2>2 DEF Init, RouteTypes, MaybeAccounts
<1>3. RetryTypes
  BY RecordsTypes, NoErrorType DEF Init, RetryTypes, MaybeAccounts
<1>4. AttemptTypes
  BY RecordsTypes DEF Init, AttemptTypes, ConnectionBudgets
<1>5. DeliveryTypes
  BY DEF Init, DeliveryTypes, Events
<1>6. FailureTypes
  BY NoFailureTypes DEF Init, FailureTypes
<1>7. FinishTypes
  BY DEF Init, FinishTypes, NoFinalization, Finalizations, SendStates, Outcomes
<1>8. RecordTypes
  <2>1. NoRow \in Rows
    BY DEF NoRow, Rows, SendStates, Outcomes
  <2>2. budget_prior_attempts \in Nat /\ observed_cost \in 0..1 /\ costed \subseteq Nat
    BY DEF Init
  <2>3. request_persisted \in BOOLEAN /\ budget_attempt_already_counted \in BOOLEAN
    BY DEF Init
  <2>4. row = NoRow
    BY DEF Init
  <2> QED BY <2>1, <2>2, <2>3, <2>4 DEF RecordTypes
<1> QED BY <1>1, <1>2, <1>3, <1>4, <1>5, <1>6, <1>7, <1>8
        DEF TypeOK, ReadsCurrent, Init

(* Every variable keeps its type in every reachable state: candidate_index  *)
(* stays inside the routing plan (advance_provider_candidate), a retry's    *)
(* transport inside the provider's transports, and an account that is       *)
(* excluded or marked as recovered is a real account, which needs that the  *)
(* session holds an attempt whenever begin_stream_failure runs.             *)
THEOREM TypeCorrect == Spec => []TypeOK
<1> DEFINE I == TypeOK /\ ReadsCurrent
<1>1. Init => I
  BY InitTypes
<1>2. I /\ [Next]_vars => I'
  BY TypeStep, ReadsCurrentStep
<1>3. I => TypeOK
  OBVIOUS
<1> QED BY <1>1, <1>2, <1>3, PTL DEF Spec

-----------------------------------------------------------------------------
(* The safety theorems.                                                    *)

(* The awaits of prepare_attempt, and those at which a stream is read.      *)
Preparing == {"preparing", "delaying", "selecting", "executing"}
Reading   == {"recording", "polling", "observing", "failing"}

(* Which state goes with which await point.                                *)
PhaseInv ==
    /\ pc \in {"starting", "committing", "settling"} \cup Preparing \cup Reading
         => finalization.state = "None"
    /\ pc \in {"settling"} \cup Preparing \cup Reading =>
         ~upstream_complete /\ ~delivery_pending
    /\ pc \in Preparing \cup Reading => ~pending_terminal_failure.present
    /\ pc = "settling" => pending_terminal_failure.present
    /\ pc = "finalizing" => finalization.state = "Pending"
    /\ pc = "starting" => ~pending_terminal_failure.present
    /\ pc = "committing" => delivery_pending
    /\ detached => pc \in {"idle", "finalizing", "closed"}
    /\ pending_stream_failure.kind # "None" => pc = "failing" \/ detached

(* An undelivered output belongs to an attempt or to a terminal failure; a  *)
(* collected body is delivered whole; a discarded attempt showed nothing.   *)
DeliveryInv ==
    /\ delivery_pending => HasCurrent \/ pending_terminal_failure.present
    /\ delivery_pending => (mode = "collect" <=> upstream_complete)
    /\ mode = "collect" => ~replay_barrier_reached
    /\ pending_terminal_failure.present =>
         \/ mode = "stream" \/ finalization.state # "None"
         \/ pc = "settling" \/ detached
    /\ pending_stream_failure.kind = "Discard" => ~exposed /\ ~delivery_pending

(* Exposed output is committed, closes the replay barrier, and keeps the    *)
(* session out of prepare_attempt.                                         *)
ExposureInv ==
    /\ exposed => downstream_committed
    /\ exposed => replay_barrier_reached \/ upstream_complete
    /\ exposed => \/ HasCurrent \/ pending_terminal_failure.present
                  \/ finalization.state # "None"
    /\ pc \in Preparing => ~exposed

Inv == PhaseInv /\ DeliveryInv /\ ExposureInv

USE DEF Preparing, Reading,
        envVars, routeVars, planVars, pendingVars, retryVars, attemptVars, deliveryVars,
        barrierVars, failureVars, finishVars, storeVars, budgetVars, selectionVars,
        outcomeVars

(* A finish function begins a finalization and waits for its write.         *)
LEMMA FinishState ==
    ASSUME NEW o, NEW s, NEW w, NEW m, FinishMarking(o, s, w, m)
    PROVE  finalization'.state = "Pending" /\ pc' = "finalizing"
BY DEF FinishMarking

(* finish_local_failure does,                                              *)
LEMMA LocalFailureState ==
    ASSUME NEW o, FinishLocalFailure(o)
    PROVE  finalization'.state = "Pending" /\ pc' = "finalizing"
BY FinishState DEF FinishLocalFailure

(* and finish_provider_error_with_send_state.                              *)
LEMMA ProviderErrorState ==
    ASSUME NEW e, NEW s, FinishProviderError(e, s)
    PROVE  finalization'.state = "Pending" /\ pc' = "finalizing"
BY FinishState DEF FinishProviderError, Finish

(* The absent pending failures.                                            *)
LEMMA NoFailureStates ==
    NoTerminalFailure.present = FALSE /\ NoStreamFailure.kind = "None"
BY DEF NoTerminalFailure, NoStreamFailure

(* The action Start keeps the phases.                                       *)
LEMMA StartInv == ASSUME TypeOK, Inv, Start PROVE Inv'
BY LocalFailureState
   DEF Start, FinishCancelled, FinishDeadline, Inv, PhaseInv, DeliveryInv, ExposureInv, HasCurrent

(* The action NextEvent keeps the phases.                                   *)
LEMMA NextEventInv == ASSUME TypeOK, Inv, NextEvent PROVE Inv'
BY ProviderErrorState, NoFailureStates
   DEF NextEvent, Callable, Inv, PhaseInv, DeliveryInv, ExposureInv, HasCurrent

(* The action CollectUncommitted keeps the phases.                          *)
LEMMA CollectUncommittedInv == ASSUME TypeOK, Inv, CollectUncommitted PROVE Inv'
BY DEF CollectUncommitted, Callable, Inv, PhaseInv, DeliveryInv, ExposureInv, HasCurrent

(* The action DeferDownstreamCommit keeps the phases.                       *)
LEMMA DeferDownstreamCommitInv == ASSUME TypeOK, Inv, DeferDownstreamCommit PROVE Inv'
BY DEF DeferDownstreamCommit, Callable, Inv, PhaseInv, DeliveryInv, ExposureInv, HasCurrent

(* The action CommitDownstream keeps the phases.                            *)
LEMMA CommitDownstreamInv == ASSUME TypeOK, Inv, CommitDownstream PROVE Inv'
BY DEF CommitDownstream, Callable, Inv, PhaseInv, DeliveryInv, ExposureInv, HasCurrent

(* The action CommitRecorded keeps the phases.                              *)
LEMMA CommitRecordedInv == ASSUME TypeOK, Inv, CommitRecorded PROVE Inv'
BY FinishState
   DEF CommitRecorded, FinishSuccess, Finish, Inv, PhaseInv, DeliveryInv, ExposureInv, HasCurrent

(* The common body of cancel_and_finalize and fail_delivery.                *)
LEMMA EndSessionInv == ASSUME TypeOK, Inv, NEW o, pc = "idle", EndSession(o) PROVE Inv'
BY ProviderErrorState, LocalFailureState, NoFailureStates
   DEF EndSession, RetainedFailure, Inv, PhaseInv, DeliveryInv, ExposureInv, HasCurrent

(* The action CancelAndFinalize keeps the phases.                           *)
LEMMA CancelAndFinalizeInv == ASSUME TypeOK, Inv, CancelAndFinalize PROVE Inv'
BY EndSessionInv DEF CancelAndFinalize

(* The action FailDelivery keeps the phases.                                *)
LEMMA FailDeliveryInv == ASSUME TypeOK, Inv, FailDelivery PROVE Inv'
BY EndSessionInv DEF FailDelivery

(* The action FinalizationWritten keeps the phases.                         *)
LEMMA FinalizationWrittenInv == ASSUME TypeOK, Inv, FinalizationWritten PROVE Inv'
<1>1. finalization'.state = "Complete"
  BY DEF FinalizationWritten, TypeOK, FinishTypes, Finalizations
<1> QED BY <1>1
        DEF FinalizationWritten, Inv, PhaseInv, DeliveryInv, ExposureInv, HasCurrent

(* The action Close keeps the phases.                                       *)
LEMMA CloseInv == ASSUME TypeOK, Inv, Close PROVE Inv'
BY DEF Close, Finalized, Inv, PhaseInv, DeliveryInv, ExposureInv, HasCurrent

(* A terminal failure is kept until the client-retry guard has recorded it. *)
LEMMA EndWithFailureInv ==
    ASSUME TypeOK, Inv, NEW e, NEW s, EndWithFailure(e, s),
           pc \in Preparing \cup Reading,
           UNCHANGED <<mode, detached, upstream_complete, current, downstream_committed,
                       barrierVars, finalization>>,
           pending_stream_failure'.kind = "None"
    PROVE  Inv'
<1>1. pending_terminal_failure'.present /\ pc' = "settling"
  BY DEF EndWithFailure
<1> QED BY <1>1 DEF Inv, PhaseInv, DeliveryInv, ExposureInv, HasCurrent

(* The action TerminalFailureSettled keeps the phases.                      *)
LEMMA TerminalFailureSettledInv == ASSUME TypeOK, Inv, TerminalFailureSettled PROVE Inv'
<1>1. CASE pc' = "idle"
  BY <1>1, ProviderErrorState
     DEF TerminalFailureSettled, Inv, PhaseInv, DeliveryInv, ExposureInv, HasCurrent
<1>2. CASE pc' # "idle"
  BY <1>2, ProviderErrorState, NoFailureStates
     DEF TerminalFailureSettled, Inv, PhaseInv, DeliveryInv, ExposureInv, HasCurrent
<1> QED BY <1>1, <1>2

(* A finish function called while an attempt is prepared.                   *)
LEMMA PreparingFinishInv ==
    ASSUME TypeOK, Inv, pc \in Preparing, pc' = "finalizing",
           finalization'.state = "Pending",
           UNCHANGED <<mode, detached, upstream_complete, current, downstream_committed,
                       barrierVars, failureVars>>
    PROVE  Inv'
BY DEF Inv, PhaseInv, DeliveryInv, ExposureInv, HasCurrent

(* finish_exhausted_routing and finish_retained_failure.                    *)
LEMMA RetainedFailureInv ==
    ASSUME TypeOK, Inv, FinishRetainedFailure, pc \in Preparing,
           UNCHANGED <<mode, detached, upstream_complete, current, downstream_committed,
                       barrierVars, pending_stream_failure>>
    PROVE  Inv'
<1>1. CASE /\ \/ FinishLocalFailure(InterruptedOutcome)
              \/ FinishProviderError(last_retryable_failure,
                     Escalate(CurrentSendState, last_retryable_failure.send_state))
           /\ UNCHANGED pending_terminal_failure
  BY <1>1, LocalFailureState, ProviderErrorState, PreparingFinishInv
<1>2. CASE /\ EndWithFailure(last_retryable_failure, CurrentSendState)
           /\ UNCHANGED finalization
  <2>1. pending_stream_failure.kind = "None"
    BY DEF Inv, PhaseInv
  <2> QED BY <1>2, <2>1, EndWithFailureInv
<1> QED BY <1>1, <1>2 DEF FinishRetainedFailure

(* The action PrepareAttempt keeps the phases.                              *)
LEMMA PrepareAttemptInv == ASSUME TypeOK, Inv, PrepareAttempt PROVE Inv'
<1>1. CASE FinishRetainedFailure
  BY <1>1, RetainedFailureInv DEF PrepareAttempt
<1>2. CASE ~FinishRetainedFailure
  BY <1>2 DEF PrepareAttempt, Inv, PhaseInv, DeliveryInv, ExposureInv, HasCurrent
<1> QED BY <1>1, <1>2

(* The action DelayElapsed keeps the phases.                                *)
LEMMA DelayElapsedInv == ASSUME TypeOK, Inv, DelayElapsed PROVE Inv'
BY DEF DelayElapsed, Inv, PhaseInv, DeliveryInv, ExposureInv, HasCurrent

(* The action SelectAccount keeps the phases.                               *)
LEMMA SelectAccountInv == ASSUME TypeOK, Inv, SelectAccount PROVE Inv'
<1>1. CASE FinishRetainedFailure
  BY <1>1, RetainedFailureInv DEF SelectAccount
<1>2. CASE /\ \/ FinishLocalFailure(InterruptedOutcome)
              \/ FinishProviderError(ProfileRejected, CurrentSendState)
           /\ UNCHANGED pending_terminal_failure
  BY <1>2, LocalFailureState, ProviderErrorState, PreparingFinishInv DEF SelectAccount
<1>3. CASE pc' = "executing" /\ UNCHANGED <<finishVars, pending_terminal_failure>>
  BY <1>3 DEF SelectAccount, Inv, PhaseInv, DeliveryInv, ExposureInv, HasCurrent
<1> QED BY <1>1, <1>2, <1>3 DEF SelectAccount

(* The action ExecuteOk keeps the phases.                                   *)
LEMMA ExecuteOkInv == ASSUME TypeOK, Inv, NEW a \in Accounts, ExecuteOk(a) PROVE Inv'
BY AccountsAssumption DEF ExecuteOk, Inv, PhaseInv, DeliveryInv, ExposureInv, HasCurrent

(* The action ExecuteMismatch keeps the phases.                             *)
LEMMA ExecuteMismatchInv == ASSUME TypeOK, Inv, ExecuteMismatch PROVE Inv'
BY FinishState, PreparingFinishInv DEF ExecuteMismatch, Finish

(* The action ExecuteError keeps the phases.                                *)
LEMMA ExecuteErrorInv ==
    ASSUME TypeOK, Inv, NEW e \in ExecuteErrors, NEW w \in BOOLEAN, ExecuteError(e, w)
    PROVE  Inv'
<1>1. CASE FinishRetainedFailure
  BY <1>1, RetainedFailureInv DEF ExecuteError
<1>2. CASE FinishProviderError(e, Escalate(CurrentSendState, e.send_state))
           /\ UNCHANGED <<barrierVars, pending_terminal_failure>>
  BY <1>2, ProviderErrorState
     DEF ExecuteError, Inv, PhaseInv, DeliveryInv, ExposureInv, HasCurrent
<1>3. CASE pc' = "preparing" /\ UNCHANGED <<barrierVars, finishVars, pending_terminal_failure>>
  BY <1>3 DEF ExecuteError, Inv, PhaseInv, DeliveryInv, ExposureInv, HasCurrent
<1> QED BY <1>1, <1>2, <1>3 DEF ExecuteError

(* The action AttemptRecorded keeps the phases.                             *)
LEMMA AttemptRecordedInv == ASSUME TypeOK, Inv, AttemptRecorded PROVE Inv'
BY DEF AttemptRecorded, Inv, PhaseInv, DeliveryInv, ExposureInv, HasCurrent

(* The action OpenConnection keeps the phases.                              *)
LEMMA OpenConnectionInv == ASSUME TypeOK, Inv, OpenConnection PROVE Inv'
<1>1. current'.account = current.account
  BY DEF OpenConnection, TypeOK, AttemptTypes, CurrentAttempts
<1> QED BY <1>1 DEF OpenConnection, Inv, PhaseInv, DeliveryInv, ExposureInv, HasCurrent

(* The action ConnectionWindowExpires keeps the phases.                     *)
LEMMA ConnectionWindowExpiresInv == ASSUME TypeOK, Inv, ConnectionWindowExpires PROVE Inv'
BY DEF ConnectionWindowExpires, Inv, PhaseInv, DeliveryInv, ExposureInv, HasCurrent

(* An event given to the caller's loop.                                     *)
LEMMA HandOverInv ==
    ASSUME TypeOK, Inv, ReadsCurrent, NEW ev, HandOver(ev), pc \in {"polling", "observing"},
           UNCHANGED <<mode, detached, upstream_complete, downstream_committed,
                       failureVars, finalization>>,
           current'.account = current.account
    PROVE  Inv'
<1>1. CASE mode = "stream"
  BY <1>1 DEF HandOver, ReadsCurrent, Inv, PhaseInv, DeliveryInv, ExposureInv, HasCurrent
<1>2. CASE mode = "collect"
  BY <1>2 DEF HandOver, ReadsCurrent, Inv, PhaseInv, DeliveryInv, ExposureInv, HasCurrent
<1> QED BY <1>1, <1>2 DEF HandOver

(* The action StreamItem keeps the phases.                                  *)
LEMMA StreamItemInv ==
    ASSUME TypeOK, Inv, ReadsCurrent, NEW ev \in StreamEvents, StreamItem(ev) PROVE Inv'
<1>1. CASE HandOver(ev) /\ UNCHANGED downstream_committed
  BY <1>1, HandOverInv DEF StreamItem
<1>2. CASE pc' \in {pc, "observing"} /\ UNCHANGED <<barrierVars, downstream_committed>>
  BY <1>2 DEF StreamItem, Inv, PhaseInv, DeliveryInv, ExposureInv, HasCurrent
<1> QED BY <1>1, <1>2 DEF StreamItem

(* The action SendObserved keeps the phases.                                *)
LEMMA SendObservedInv == ASSUME TypeOK, Inv, ReadsCurrent, SendObserved PROVE Inv'
<1>1. current'.account = current.account
  BY DEF SendObserved, TypeOK, AttemptTypes, CurrentAttempts
<1> QED BY <1>1, HandOverInv DEF SendObserved

(* The action StreamEnd keeps the phases.                                   *)
LEMMA StreamEndInv == ASSUME TypeOK, Inv, ReadsCurrent, StreamEnd PROVE Inv'
<1>1. CASE FinishSuccess /\ UNCHANGED delivery_pending
  <2>1. finalization'.state = "Pending" /\ pc' = "finalizing"
    BY <1>1 DEF FinishSuccess, Finish, FinishMarking
  <2> QED BY <1>1, <2>1 DEF StreamEnd, ReadsCurrent, TypeOK, ControlTypes,
                            Inv, PhaseInv, DeliveryInv, ExposureInv, HasCurrent
<1>2. CASE ~(FinishSuccess /\ UNCHANGED delivery_pending)
  BY <1>2 DEF StreamEnd, ReadsCurrent, TypeOK, ControlTypes,
              Inv, PhaseInv, DeliveryInv, ExposureInv, HasCurrent
<1> QED BY <1>1, <1>2

(* The action Interrupted keeps the phases.                                 *)
LEMMA InterruptedInv == ASSUME TypeOK, Inv, Interrupted PROVE Inv'
BY LocalFailureState DEF Interrupted, FinishCancelled, FinishDeadline,
                         Inv, PhaseInv, DeliveryInv, ExposureInv, HasCurrent

(* Each retry class of begin_stream_failure asks that nothing is exposed.   *)
LEMMA OnlyHiddenAttemptsRetry ==
    ASSUME NEW e, NEW fits, FollowUp(e, fits) # "terminal" PROVE Hidden
<1>1. Retryable(e, fits)
  BY DEF FollowUp
<1> QED BY <1>1 DEF Retryable, ContinuationRetry, SameAccountRetry, TransientRetry, OrdinaryRetry,
                    AccountRotationRetry, TransportRecovery, ConnectionRecovery

(* The action BeginStreamFailure keeps the phases.                          *)
LEMMA BeginStreamFailureInv ==
    ASSUME TypeOK, Inv, NEW e \in StreamErrors, NEW fits \in BOOLEAN, NEW pause \in BOOLEAN,
           BeginStreamFailure(e, fits, pause)
    PROVE  Inv'
<1>1. pending_stream_failure'.kind = "Discard" => ~replay_barrier_reached /\ ~delivery_pending
  BY OnlyHiddenAttemptsRetry DEF BeginStreamFailure, Hidden
<1> QED BY <1>1 DEF BeginStreamFailure, Inv, PhaseInv, DeliveryInv, ExposureInv, HasCurrent

(* The action ResumeStreamFailure keeps the phases.                         *)
LEMMA ResumeStreamFailureInv == ASSUME TypeOK, Inv, ResumeStreamFailure PROVE Inv'
<1>1. CASE pending_stream_failure.kind = "Discard"
  BY <1>1, NoFailureStates
     DEF ResumeStreamFailure, ResetUncommittedObservations, NoCurrent,
         Inv, PhaseInv, DeliveryInv, ExposureInv, HasCurrent
<1>2. CASE pending_stream_failure.kind = "Terminal"
  BY <1>2, EndWithFailureInv, NoFailureStates DEF ResumeStreamFailure
<1> QED BY <1>1, <1>2 DEF ResumeStreamFailure

(* Dropped calls, heartbeat, cancellation, deadline and stuttering.         *)
LEMMA SurroundingsInv ==
    ASSUME TypeOK, Inv,
           \/ DropCall \/ DropAtCompletion \/ Keepalive \/ Environment \/ Terminated
           \/ UNCHANGED vars
    PROVE  Inv'
<1> USE DEF Inv, PhaseInv, DeliveryInv, ExposureInv, HasCurrent
<1>1. CASE DropCall
  BY <1>1 DEF DropCall
<1>2. CASE Keepalive
  BY <1>2 DEF Keepalive
<1>3. CASE Environment
  BY <1>3 DEF Environment
<1>4. CASE UNCHANGED vars
  BY <1>4 DEF vars
<1>5. CASE DropAtCompletion
  <2>1. current'.account = current.account
    BY <1>5 DEF DropAtCompletion, TypeOK, AttemptTypes, CurrentAttempts
  <2> QED BY <1>5, <2>1 DEF DropAtCompletion
<1> QED BY <1>1, <1>2, <1>3, <1>4, <1>5 DEF Terminated

(* Every step keeps the phases.                                             *)
LEMMA InvStep == ASSUME TypeOK, ReadsCurrent, Inv, [Next]_vars PROVE Inv'
<1>1. CASE CallerStep
  BY <1>1, NextEventInv, CollectUncommittedInv, DeferDownstreamCommitInv,
     CommitDownstreamInv, CancelAndFinalizeInv, FailDeliveryInv, CloseInv DEF CallerStep
<1>2. CASE SessionStep
  BY <1>2, StartInv, PrepareAttemptInv, DelayElapsedInv, SelectAccountInv,
     AttemptRecordedInv, SendObservedInv, InterruptedInv, ResumeStreamFailureInv,
     TerminalFailureSettledInv, CommitRecordedInv, FinalizationWrittenInv DEF SessionStep
<1>3. CASE ProviderStep
  BY <1>3, ExecuteOkInv, ExecuteMismatchInv, ExecuteErrorInv, OpenConnectionInv,
     StreamItemInv, StreamEndInv, BeginStreamFailureInv DEF ProviderStep
<1> QED BY <1>1, <1>2, <1>3, ConnectionWindowExpiresInv, SurroundingsInv DEF Next

(* A new session is in phase.                                               *)
LEMMA InitInv == Init => Inv
BY DEF Init, Inv, PhaseInv, DeliveryInv, ExposureInv, HasCurrent, NoFinalization,
       NoTerminalFailure, NoStreamFailure, NoCurrent

(* The phases of a session: no await of the attempt loop is reached after   *)
(* a finalization began, an undelivered output or an end of the stream      *)
(* stops the loop, output that cannot be replaced implies the commit and    *)
(* the replay barrier, and no attempt is prepared after it (next_event,     *)
(* pull, begin_stream_failure, cancel_and_finalize together).               *)
THEOREM PhasesCorrect == Spec => [](TypeOK /\ ReadsCurrent /\ Inv)
<1> DEFINE I == TypeOK /\ ReadsCurrent /\ Inv
<1>1. Init => I
  BY InitTypes, InitInv
<1>2. I /\ [Next]_vars => I'
  BY TypeStep, ReadsCurrentStep, InvStep
<1> QED BY <1>1, <1>2, PTL DEF Spec

(* Only an accepted Provider::execute starts an attempt.                    *)
LEMMA OnlyExecuteOkCounts ==
    ASSUME [Next]_vars PROVE UNCHANGED attempts \/ \E a \in Accounts : ExecuteOk(a)
<1>1. CASE CallerStep
  BY <1>1 DEF CallerStep, NextEvent, CollectUncommitted, DeferDownstreamCommit,
              CommitDownstream, CancelAndFinalize, FailDelivery, EndSession, Close
<1>2. CASE SessionStep
  BY <1>2 DEF SessionStep, Start, PrepareAttempt, DelayElapsed, SelectAccount,
              AttemptRecorded, SendObserved, Interrupted, ResumeStreamFailure,
              TerminalFailureSettled, CommitRecorded, FinalizationWritten
<1>3. CASE ProviderStep
  BY <1>3 DEF ProviderStep, ExecuteMismatch, ExecuteError, OpenConnection, StreamItem,
              StreamEnd, BeginStreamFailure
<1>4. CASE \/ ConnectionWindowExpires \/ DropCall \/ DropAtCompletion \/ Keepalive
           \/ Environment
  BY <1>4 DEF ConnectionWindowExpires, DropCall, DropAtCompletion, Keepalive, Environment
<1> QED BY <1>1, <1>2, <1>3, <1>4 DEF Next, Terminated, vars

(* No attempt starts once output that a later attempt cannot replace has    *)
(* reached the client: the gate of begin_stream_failure on                  *)
(* replay_barrier_reached and delivery_pending suffices for every plan,     *)
(* error and interleaving of the caller.                                    *)
THEOREM ExposureEndsAttempts == Spec => NoReplayAfterExposure
<1>1. TypeOK /\ ReadsCurrent /\ Inv /\ [Next]_vars
        => [attempts' > attempts => ~exposed]_vars
  <2> SUFFICES ASSUME TypeOK, Inv, [Next]_vars, attempts' > attempts PROVE ~exposed
    OBVIOUS
  <2>1. attempts \in Nat
    BY DEF TypeOK, RouteTypes
  <2>2. PICK a \in Accounts : ExecuteOk(a)
    BY <2>1, OnlyExecuteOkCounts
  <2> QED BY <2>2 DEF ExecuteOk, Inv, ExposureInv
<1> QED BY <1>1, PhasesCorrect, PTL DEF Spec, NoReplayAfterExposure

(* A finalization is only ever completed, never replaced.                   *)
LEMMA FinishesOnce ==
    ASSUME TypeOK, Inv, [Next]_vars, finalization.state # "None"
    PROVE  UNCHANGED finalization \/ FinalizationWritten
<1>1. pc \notin {"starting", "committing", "settling"} \cup Preparing \cup Reading
  BY DEF Inv, PhaseInv
<1>2. CASE CallerStep
  BY <1>2 DEF CallerStep, NextEvent, CollectUncommitted, DeferDownstreamCommit, Callable,
              CommitDownstream, CancelAndFinalize, FailDelivery, EndSession, Close
<1>3. CASE SessionStep
  BY <1>1, <1>3 DEF SessionStep, Start, PrepareAttempt, DelayElapsed, SelectAccount,
              AttemptRecorded, SendObserved, Interrupted, ResumeStreamFailure,
              TerminalFailureSettled, CommitRecorded
<1>4. CASE ProviderStep
  BY <1>1, <1>4 DEF ProviderStep, ExecuteOk, ExecuteMismatch, ExecuteError, OpenConnection,
              StreamItem, StreamEnd, BeginStreamFailure
<1>5. CASE \/ ConnectionWindowExpires \/ DropCall \/ DropAtCompletion \/ Keepalive
           \/ Environment
  BY <1>5 DEF ConnectionWindowExpires, DropCall, DropAtCompletion, Keepalive, Environment
<1> QED BY <1>2, <1>3, <1>4, <1>5 DEF Next, Terminated, vars

(* The steps that touch the finalization or the ResponseCommit cell.        *)
LEMMA FinishSteps ==
    ASSUME [Next]_vars
    PROVE  \/ \E o, s, w, m : FinishMarking(o, s, w, m)
           \/ UNCHANGED <<finalization, response_commit>>
           \/ CommitDownstream \/ Keepalive \/ FinalizationWritten
<1> DEFINE Begins == \E o, s, w, m : FinishMarking(o, s, w, m)
<1>a. ASSUME NEW o, FinishLocalFailure(o) PROVE Begins
  BY <1>a DEF FinishLocalFailure
<1>b. ASSUME NEW e, NEW s, FinishProviderError(e, s) PROVE Begins
  BY <1>b, Zenon DEF FinishProviderError, Finish
<1>c. ASSUME FinishSuccess PROVE Begins
  BY <1>c, Zenon DEF FinishSuccess, Finish
<1>d. ASSUME ExecuteMismatch PROVE Begins
  BY <1>d, Zenon DEF ExecuteMismatch, Finish
<1> HIDE DEF Begins
<1>1. ASSUME FinishRetainedFailure PROVE Begins \/ UNCHANGED <<finalization, response_commit>>
  BY <1>a, <1>b, <1>1 DEF FinishRetainedFailure
<1>2. CASE CallerStep
  BY <1>a, <1>b, <1>2
     DEF CallerStep, NextEvent, CollectUncommitted, DeferDownstreamCommit,
         CancelAndFinalize, FailDelivery, EndSession, Close, Begins
<1>3. CASE SessionStep
  BY <1>a, <1>b, <1>c, <1>1, <1>3
     DEF SessionStep, Start, PrepareAttempt, DelayElapsed, SelectAccount, FinishCancelled,
         FinishDeadline, AttemptRecorded, SendObserved, Interrupted, ResumeStreamFailure,
         TerminalFailureSettled, CommitRecorded, Begins
<1>4. CASE ProviderStep
  <2>1. CASE \E e \in ExecuteErrors, w \in BOOLEAN : ExecuteError(e, w)
    BY <1>b, <1>1, <2>1 DEF ExecuteError, Begins
  <2>2. CASE StreamEnd
    BY <1>c, <2>2 DEF StreamEnd, Begins
  <2> QED BY <1>d, <1>4, <2>1, <2>2
          DEF ProviderStep, ExecuteOk, OpenConnection, StreamItem, BeginStreamFailure, Begins
<1>5. CASE ConnectionWindowExpires \/ DropCall \/ DropAtCompletion \/ Environment
  BY <1>5 DEF ConnectionWindowExpires, DropCall, DropAtCompletion, Environment
<1> QED BY <1>2, <1>3, <1>4, <1>5 DEF Next, Terminated, vars

(* The committed_at of the record and the shared ResponseCommit cell agree  *)
(* from the moment persist_finalization reads the cell, whatever the        *)
(* heartbeat task does.                                                     *)
THEOREM RecordMatchesTransport == Spec => []CommitRecordedAsDelivered
<1>1. Init => CommitRecordedAsDelivered
  BY DEF Init, CommitRecordedAsDelivered, NoFinalization
<1>2. TypeOK /\ ReadsCurrent /\ Inv /\ CommitRecordedAsDelivered /\ [Next]_vars
        => CommitRecordedAsDelivered'
  <2> SUFFICES ASSUME TypeOK, Inv, CommitRecordedAsDelivered, [Next]_vars
               PROVE  CommitRecordedAsDelivered'
    OBVIOUS
  <2>1. ASSUME NEW o, NEW s, NEW w, NEW m, FinishMarking(o, s, w, m)
        PROVE  CommitRecordedAsDelivered'
    BY <2>1 DEF FinishMarking, CommitFinish, CommitRecordedAsDelivered, TypeOK, FinishTypes
  <2>2. CASE UNCHANGED <<finalization, response_commit>>
    BY <2>2 DEF CommitRecordedAsDelivered
  <2>3. CASE CommitDownstream
    BY <2>3 DEF CommitDownstream, Callable, CommitRecordedAsDelivered
  <2>4. CASE Keepalive
    BY <2>4 DEF Keepalive, CommitRecordedAsDelivered
  <2>5. CASE FinalizationWritten
    <3>1. finalization'.committed = finalization.committed /\ finalization.state # "None"
      BY <2>5 DEF FinalizationWritten, TypeOK, FinishTypes, Finalizations, Inv, PhaseInv
    <3> QED BY <2>5, <3>1 DEF FinalizationWritten, CommitRecordedAsDelivered
  <2> QED BY <2>1, <2>2, <2>3, <2>4, <2>5, FinishSteps
<1> QED BY <1>1, <1>2, PhasesCorrect, PTL DEF Spec

(* begin_stream_failure has decided on a failure as the result.             *)
Decided == pending_stream_failure.kind = "Terminal" \/ pending_terminal_failure.present

(* The outcome such a failure is recorded with.                             *)
FailureOutcome ==
    \/ finalization'.outcome \in {"Failed", "Incomplete"}
    \/ RetainedFailure.error.kind = "Cancelled"

(* The outcome finish_provider_error_with_send_state writes.                *)
LEMMA DecidedOutcome ==
    ASSUME NEW s, FinishProviderError(RetainedFailure.error, s) PROVE FailureOutcome
BY DEF FailureOutcome, FinishProviderError, Finish, FinishMarking, InterruptedOutcome

(* Where a session with a decided failure can be.                           *)
LEMMA DecidedPhases ==
    ASSUME TypeOK, Inv, finalization.state = "None", Decided
    PROVE  /\ pc \in {"failing", "settling", "idle", "committing", "closed"}
           /\ pc = "committing" => ~upstream_complete
           /\ pc = "failing" => pending_stream_failure.kind = "Terminal"
           /\ pc = "settling" => pending_stream_failure.kind = "None"
           /\ pc = "idle" /\ ~detached => pending_stream_failure.kind = "None"
BY DEF Inv, PhaseInv, DeliveryInv, Decided, TypeOK, ControlTypes, Awaits

(* A provider failure decided by begin_stream_failure is what the request   *)
(* is finalized with, also after the call was dropped, and a finalization   *)
(* is never replaced (cancel_and_finalize, fail_delivery,                   *)
(* resume_finalization).                                                    *)
THEOREM DecidedFailureRecorded == Spec => DecidedFailureStands
<1>1. TypeOK /\ ReadsCurrent /\ Inv /\ [Next]_vars =>
        [/\ finalization.state # "None" =>
              finalization' = [finalization EXCEPT !.state = finalization'.state]
         /\ /\ finalization.state = "None" /\ finalization'.state # "None"
            /\ pending_stream_failure.kind = "Terminal" \/ pending_terminal_failure.present
            => \/ finalization'.outcome \in {"Failed", "Incomplete"}
               \/ RetainedFailure.error.kind = "Cancelled"]_vars
  <2> SUFFICES ASSUME TypeOK, Inv, [Next]_vars
               PROVE  /\ finalization.state # "None" =>
                          finalization' = [finalization EXCEPT !.state = finalization'.state]
                      /\ /\ finalization.state = "None" /\ finalization'.state # "None"
                         /\ Decided
                         => FailureOutcome
    BY DEF Decided, FailureOutcome
  <2>1. ASSUME finalization.state # "None"
        PROVE  finalization' = [finalization EXCEPT !.state = finalization'.state]
    BY <2>1, FinishesOnce DEF FinalizationWritten, TypeOK, FinishTypes, Finalizations
  <2>2. ASSUME finalization.state = "None", finalization'.state # "None", Decided
        PROVE  FailureOutcome
    <3>1. /\ pc \in {"failing", "settling", "idle", "committing", "closed"}
          /\ pc = "committing" => ~upstream_complete
          /\ pc = "failing" => pending_stream_failure.kind = "Terminal"
          /\ pc = "settling" => pending_stream_failure.kind = "None"
          /\ pc = "idle" /\ ~detached => pending_stream_failure.kind = "None"
      BY <2>2, DecidedPhases
    <3>2. RetainedFailure.present
      BY <2>2 DEF RetainedFailure, Decided
    <3>3. CASE CallerStep
      <4>1. CASE NextEvent
        <5>1. RetainedFailure = pending_terminal_failure
          BY <3>1, <4>1 DEF NextEvent, Callable, RetainedFailure
        <5> QED BY <2>2, <4>1, <5>1, DecidedOutcome DEF NextEvent, Callable
      <4>2. CASE CancelAndFinalize \/ FailDelivery
        BY <2>2, <3>2, <4>2, DecidedOutcome DEF CancelAndFinalize, FailDelivery, EndSession
      <4> QED BY <2>2, <3>3, <4>1, <4>2
              DEF CallerStep, CollectUncommitted, DeferDownstreamCommit, CommitDownstream, Close
    <3>4. CASE SessionStep
      <4>1. CASE TerminalFailureSettled
        <5>1. RetainedFailure = pending_terminal_failure
          BY <3>1, <4>1 DEF TerminalFailureSettled, RetainedFailure
        <5> QED BY <2>2, <4>1, <5>1, DecidedOutcome DEF TerminalFailureSettled
      <4>2. CASE CommitRecorded
        BY <2>2, <3>1, <4>2 DEF CommitRecorded
      <4> QED BY <2>2, <3>1, <3>4, <4>1, <4>2
              DEF SessionStep, Start, PrepareAttempt, DelayElapsed, SelectAccount,
                  AttemptRecorded, SendObserved, Interrupted, ResumeStreamFailure,
                  FinalizationWritten
    <3>5. CASE ProviderStep
      BY <3>1, <3>5 DEF ProviderStep, ExecuteOk, ExecuteMismatch, ExecuteError,
                        OpenConnection, StreamItem, StreamEnd, BeginStreamFailure
    <3>6. CASE \/ ConnectionWindowExpires \/ DropCall \/ DropAtCompletion \/ Keepalive
               \/ Environment
      BY <2>2, <3>6 DEF ConnectionWindowExpires, DropCall, DropAtCompletion, Keepalive,
                        Environment
    <3> QED BY <2>2, <3>3, <3>4, <3>5, <3>6 DEF Next, Terminated, vars
  <2> QED BY <2>1, <2>2
<1> QED BY <1>1, PhasesCorrect, PTL DEF Spec, DecidedFailureStands

-----------------------------------------------------------------------------
(* The opening a retry keeps back for a change of account.                 *)

(* The awaits of prepare_attempt after the pending retry was taken.         *)
Taken == {"delaying", "selecting", "executing"}

(* A pending retry waits for the next attempt only: it is taken when that   *)
(* attempt is prepared, and the locals of an attempt are gone when it       *)
(* starts.                                                                 *)
PendingInv ==
    /\ pending_retry # NoRetry =>
         pc = "preparing" \/ detached \/ pending_stream_failure.kind = "Discard"
    /\ attempt # NoLocals => pc \in Taken

(* Who keeps an opening back, and that the budget still has it: a retry     *)
(* that reserves one leaves another for the retry itself, whose attempt is  *)
(* the only one until then.                                                 *)
OpeningInv ==
    /\ ~connection_rotation.reserve
    /\ ~connection_budget.completed /\ (pending_retry.reserve \/ attempt.reserve)
         => connection_budget.openings + 2 <= MaxOpenings
    /\ ReservedOpeningKept

(* The absent retry and the absent locals ask for nothing.                  *)
LEMMA NothingPending ==
    /\ NoRetry.account = NoAccount /\ NoRetry.reserve = FALSE
    /\ NoRetry.transport_recovery = FALSE /\ NoRetry.transport = 0
    /\ NoLocals.pin = NoAccount /\ NoLocals.reserve = FALSE
    /\ NoLocals.transport_recovery = FALSE
    /\ NoCurrent.account = NoAccount /\ NoCurrent.reserved = FALSE
BY DEF NoRetry, NoLocals, NoCurrent

(* The caller's operations leave the pending retry and the openings alone.  *)
LEMMA CallerPending ==
    ASSUME TypeOK, Inv, PendingInv, CallerStep PROVE PendingInv'
<1>1. pc = "idle"
  BY DEF CallerStep, NextEvent, CollectUncommitted, DeferDownstreamCommit, CommitDownstream,
         Callable, CancelAndFinalize, FailDelivery, Close
<1>2. UNCHANGED <<attempt, pending_retry, detached>>
  BY DEF CallerStep, NextEvent, CollectUncommitted, DeferDownstreamCommit, CommitDownstream,
         CancelAndFinalize, FailDelivery, EndSession, Close
<1>3. pending_stream_failure.kind = "Discard" => detached
  BY <1>1 DEF Inv, PhaseInv
<1> QED BY <1>1, <1>2, <1>3 DEF PendingInv, Taken

(* The session's own steps,                                                 *)
LEMMA SessionPending ==
    ASSUME TypeOK, Inv, PendingInv, SessionStep PROVE PendingInv'
<1> USE DEF PendingInv, Taken
<1>0. pending_stream_failure.kind # "None" => pc = "failing" \/ detached
  BY DEF Inv, PhaseInv
<1>1. CASE Start \/ CommitRecorded \/ FinalizationWritten \/ TerminalFailureSettled
  BY <1>0, <1>1 DEF Start, CommitRecorded, FinalizationWritten, TerminalFailureSettled
<1>2. CASE PrepareAttempt
  BY <1>2 DEF PrepareAttempt
<1>3. CASE DelayElapsed
  BY <1>3 DEF DelayElapsed
<1>4. CASE SelectAccount
  BY <1>4 DEF SelectAccount
<1>5. CASE AttemptRecorded \/ SendObserved
  BY <1>5 DEF AttemptRecorded, SendObserved
<1>6. CASE Interrupted
  BY <1>6 DEF Interrupted
<1>7. CASE ResumeStreamFailure
  <2>1. ~detached
    BY <1>7 DEF ResumeStreamFailure, Inv, PhaseInv
  <2> QED BY <1>7, <2>1 DEF ResumeStreamFailure
<1> QED BY <1>1, <1>2, <1>3, <1>4, <1>5, <1>6, <1>7 DEF SessionStep

(* the provider's answers,                                                  *)
LEMMA ProviderPending ==
    ASSUME TypeOK, Inv, PendingInv, ProviderStep PROVE PendingInv'
<1> USE DEF PendingInv, Taken
<1>1. CASE \E a \in Accounts : ExecuteOk(a)
  BY <1>1 DEF ExecuteOk
<1>2. CASE ExecuteMismatch
  BY <1>2 DEF ExecuteMismatch
<1>3. CASE \E e \in ExecuteErrors, w \in BOOLEAN : ExecuteError(e, w)
  BY <1>3 DEF ExecuteError
<1>4. CASE OpenConnection \/ StreamEnd \/ \E ev \in StreamEvents : StreamItem(ev)
  BY <1>4 DEF OpenConnection, StreamEnd, StreamItem
<1>5. CASE \E e \in StreamErrors, fits, pause \in BOOLEAN : BeginStreamFailure(e, fits, pause)
  <2>1. PICK e \in StreamErrors, fits, pause \in BOOLEAN : BeginStreamFailure(e, fits, pause)
    BY <1>5
  <2>2. pc = "polling" /\ pc' = "failing" /\ UNCHANGED attempt
    BY <2>1 DEF BeginStreamFailure
  <2>3. pending_retry = NoRetry /\ attempt = NoLocals
    BY <2>2 DEF Inv, PhaseInv
  <2>4. pending_retry' = pending_retry \/ pending_stream_failure'.kind = "Discard"
    BY <2>1 DEF BeginStreamFailure
  <2> QED BY <2>2, <2>3, <2>4
<1> QED BY <1>1, <1>2, <1>3, <1>4, <1>5 DEF ProviderStep

(* and every other step keep the pending retry in its place.                *)
LEMMA PendingStep ==
    ASSUME TypeOK, Inv, PendingInv, [Next]_vars PROVE PendingInv'
<1>1. CASE DropCall \/ DropAtCompletion
  BY <1>1 DEF DropCall, DropAtCompletion, PendingInv, Taken
<1>2. CASE ConnectionWindowExpires \/ Keepalive \/ Environment \/ UNCHANGED vars
  BY <1>2 DEF ConnectionWindowExpires, Keepalive, Environment, vars, PendingInv
<1> QED BY <1>1, <1>2, CallerPending, SessionPending, ProviderPending DEF Next, Terminated

(* What the opening of a step may depend on.                                *)
LEMMA OpeningKeeps ==
    ASSUME OpeningInv, UNCHANGED <<connection_budget, current, connection_rotation>>,
           pending_retry'.reserve \/ attempt'.reserve => pending_retry.reserve \/ attempt.reserve
    PROVE  OpeningInv'
BY DEF OpeningInv, ReservedOpeningKept

(* The caller's operations leave the openings alone.                        *)
LEMMA CallerOpening == ASSUME OpeningInv, CallerStep PROVE OpeningInv'
BY OpeningKeeps
   DEF CallerStep, NextEvent, CollectUncommitted, DeferDownstreamCommit, CommitDownstream,
       CancelAndFinalize, FailDelivery, EndSession, Close

(* The session's own steps at most forget a reservation or hand it from the *)
(* pending retry to the attempt it prepares.                                *)
LEMMA SessionOpening ==
    ASSUME TypeOK, PendingInv, OpeningInv, SessionStep PROVE OpeningInv'
<1>1. CASE \/ Start \/ DelayElapsed \/ AttemptRecorded \/ TerminalFailureSettled
           \/ CommitRecorded \/ FinalizationWritten
  BY <1>1, OpeningKeeps
     DEF Start, DelayElapsed, AttemptRecorded, TerminalFailureSettled, CommitRecorded,
         FinalizationWritten
<1>2. CASE PrepareAttempt
  <2>1. pending_retry'.reserve = FALSE
    BY <1>2, NothingPending DEF PrepareAttempt
  <2>2. attempt'.reserve => pending_retry.reserve \/ attempt.reserve
    BY <1>2 DEF PrepareAttempt
  <2> QED BY <1>2, <2>1, <2>2, OpeningKeeps DEF PrepareAttempt
<1>3. CASE SelectAccount
  <2>1. attempt'.reserve => attempt.reserve
    BY <1>3, NothingPending DEF SelectAccount, TypeOK, AttemptTypes, AttemptLocals
  <2> QED BY <1>3, <2>1, OpeningKeeps DEF SelectAccount
<1>4. CASE Interrupted
  BY <1>4, NothingPending, OpeningKeeps DEF Interrupted
<1>5. CASE SendObserved
  <2>1. current'.reserved = current.reserved
    BY <1>5 DEF SendObserved, TypeOK, AttemptTypes, CurrentAttempts
  <2> QED BY <1>5, <2>1 DEF SendObserved, OpeningInv, ReservedOpeningKept
<1>6. CASE ResumeStreamFailure
  <2>1. current'.reserved => current.reserved
    BY <1>6, NothingPending DEF ResumeStreamFailure
  <2> QED BY <1>6, <2>1 DEF ResumeStreamFailure, OpeningInv, ReservedOpeningKept
<1> QED BY <1>1, <1>2, <1>3, <1>4, <1>5, <1>6 DEF SessionStep

(* Provider::execute hands the reservation over to the attempt it starts,   *)
(* or drops it.                                                             *)
LEMMA ExecuteOpening ==
    ASSUME TypeOK, OpeningInv,
           \/ \E a \in Accounts : ExecuteOk(a)
           \/ ExecuteMismatch
           \/ \E e \in ExecuteErrors, w \in BOOLEAN : ExecuteError(e, w)
    PROVE  OpeningInv'
<1>1. CASE \E a \in Accounts : ExecuteOk(a)
  <2>1. /\ attempt'.reserve = FALSE /\ connection_rotation'.reserve = FALSE
        /\ current'.reserved = attempt.reserve
        /\ UNCHANGED <<connection_budget, pending_retry>>
    BY <1>1, NothingPending DEF ExecuteOk
  <2>2. connection_budget.openings \in Nat /\ MaxOpenings \in Nat
    BY TuningAssumption DEF TypeOK, AttemptTypes, ConnectionBudgets
  <2> QED BY <2>1, <2>2 DEF OpeningInv, ReservedOpeningKept
<1>2. CASE ExecuteMismatch
  BY <1>2, NothingPending DEF ExecuteMismatch, OpeningInv, ReservedOpeningKept
<1>3. CASE \E e \in ExecuteErrors, w \in BOOLEAN : ExecuteError(e, w)
  <2>1. /\ attempt'.reserve = FALSE /\ connection_rotation'.reserve = FALSE
        /\ pending_retry'.reserve => pending_retry.reserve
        /\ UNCHANGED <<connection_budget, current>>
    BY <1>3, NothingPending DEF ExecuteError, OpeningInv
  <2> QED BY <2>1 DEF OpeningInv, ReservedOpeningKept
<1> QED BY <1>1, <1>2, <1>3

(* ConnectionBudget::begin refuses the opening that is kept back.           *)
LEMMA StreamOpening ==
    ASSUME TypeOK, Inv, PendingInv, OpeningInv,
           OpenConnection \/ StreamEnd \/ \E ev \in StreamEvents : StreamItem(ev)
    PROVE  OpeningInv'
<1>1. CASE OpenConnection
  <2>1. pending_retry.reserve = FALSE /\ attempt.reserve = FALSE
    BY <1>1, NothingPending DEF OpenConnection, PendingInv, Taken, Inv, PhaseInv
  <2>2. /\ current'.reserved = current.reserved
        /\ connection_budget'.openings = connection_budget.openings + 1
        /\ connection_budget'.completed = connection_budget.completed
        /\ UNCHANGED <<pending_retry, attempt, connection_rotation>>
    BY <1>1 DEF OpenConnection, TypeOK, AttemptTypes, CurrentAttempts, ConnectionBudgets
  <2>3. ~connection_budget.completed /\ current.reserved =>
          connection_budget.openings < MaxOpenings - 1
    BY <1>1, TuningAssumption
       DEF OpenConnection, OpeningRefused, TypeOK, AttemptTypes, ConnectionBudgets
  <2>4. connection_budget.openings \in Nat /\ MaxOpenings \in Nat
    BY TuningAssumption DEF TypeOK, AttemptTypes, ConnectionBudgets
  <2> QED BY <2>1, <2>2, <2>3, <2>4 DEF OpeningInv, ReservedOpeningKept
<1>2. CASE StreamEnd
  BY <1>2, OpeningKeeps DEF StreamEnd
<1>3. CASE \E ev \in StreamEvents : StreamItem(ev)
  <2>1. /\ connection_budget'.openings = connection_budget.openings
        /\ connection_budget.completed => connection_budget'.completed
        /\ UNCHANGED <<current, pending_retry, attempt, connection_rotation>>
    BY <1>3 DEF StreamItem, TypeOK, AttemptTypes, ConnectionBudgets
  <2> QED BY <2>1 DEF OpeningInv, ReservedOpeningKept
<1> QED BY <1>1, <1>2, <1>3

(* A failed attempt reserves an opening only while two are left.            *)
LEMMA FailureOpening ==
    ASSUME TypeOK, Inv, PendingInv, OpeningInv,
           NEW e \in StreamErrors, NEW fits \in BOOLEAN, NEW pause \in BOOLEAN,
           BeginStreamFailure(e, fits, pause)
    PROVE  OpeningInv'
<1>1. pending_retry.reserve = FALSE /\ attempt.reserve = FALSE
  BY NothingPending DEF BeginStreamFailure, PendingInv, Taken, Inv, PhaseInv
<1>2. /\ connection_budget'.openings = connection_budget.openings
      /\ connection_budget.completed => connection_budget'.completed
      /\ UNCHANGED <<current, attempt>>
  BY DEF BeginStreamFailure, TypeOK, AttemptTypes, ConnectionBudgets
<1>3. pending_retry'.reserve =>
        pending_retry.reserve \/ ReservesRotation(EffectiveError(e))
  BY DEF BeginStreamFailure
<1>4. connection_rotation'.reserve => connection_rotation.reserve
  BY DEF BeginStreamFailure
<1>5. pending_retry'.reserve => connection_budget.openings + 2 <= MaxOpenings
  BY <1>1, <1>3 DEF ReservesRotation
<1> QED BY <1>1, <1>2, <1>4, <1>5 DEF OpeningInv, ReservedOpeningKept

(* Every step leaves the reserved opening to the change of account.         *)
LEMMA OpeningStep ==
    ASSUME TypeOK, Inv, PendingInv, OpeningInv, [Next]_vars PROVE OpeningInv'
<1>1. CASE ProviderStep
  BY <1>1, ExecuteOpening, StreamOpening, FailureOpening DEF ProviderStep
<1>2. CASE ConnectionWindowExpires
  <2>1. /\ connection_budget'.openings = connection_budget.openings
        /\ connection_budget'.completed = connection_budget.completed
        /\ UNCHANGED <<current, pending_retry, attempt, connection_rotation>>
    BY <1>2 DEF ConnectionWindowExpires, TypeOK, AttemptTypes, ConnectionBudgets
  <2> QED BY <2>1 DEF OpeningInv, ReservedOpeningKept
<1>3. CASE DropCall
  BY <1>3, NothingPending, OpeningKeeps DEF DropCall
<1>5. CASE DropAtCompletion
  <2>1. current'.reserved = current.reserved
    BY <1>5 DEF DropAtCompletion, TypeOK, AttemptTypes, CurrentAttempts
  <2> QED BY <1>5, <2>1 DEF DropAtCompletion, OpeningInv, ReservedOpeningKept
<1>4. CASE Keepalive \/ Environment \/ UNCHANGED vars
  BY <1>4, OpeningKeeps DEF Keepalive, Environment, vars
<1> QED BY <1>1, <1>2, <1>3, <1>4, <1>5, CallerOpening, SessionOpening DEF Next, Terminated

(* An attempt that holds the reserved opening back leaves it unused, for    *)
(* every number of openings, tuning and error catalogue: the change of      *)
(* account that a connection failure may lead to can still open its         *)
(* connection (ConnectionBudget::begin and the reserve_next_opening that    *)
(* begin_stream_failure decides several steps earlier).                     *)
THEOREM OpeningReserved == Spec => []ReservedOpeningKept
<1> DEFINE I == PendingInv /\ OpeningInv
<1>1. Init => I
  BY NothingPending DEF Init, PendingInv, OpeningInv, ReservedOpeningKept
<1>2. TypeOK /\ ReadsCurrent /\ Inv /\ I /\ [Next]_vars => I'
  BY PendingStep, OpeningStep
<1>3. I => ReservedOpeningKept
  BY DEF OpeningInv
<1> QED BY <1>1, <1>2, <1>3, PhasesCorrect, PTL DEF Spec


-----------------------------------------------------------------------------
(* A native continuation given up on its owner.                            *)

(* Only a request without a continuation changes account for its connection; *)
(* a continuation replayed anywhere has excluded its owner, and until then  *)
(* every attempt runs on the owner.                                         *)
OwnerInv ==
    /\ continuation_attempt = "None" <=> Continuation = "none"
    /\ connection_rotation.account # NoAccount => continuation_attempt = "None"
    /\ Continuation = "pinned" /\ continuation_attempt = "ReplayAny"
         => PinnedAccount \in excluded_accounts
    /\ Continuation = "pinned" /\ HasCurrent /\ continuation_attempt \in {"Native", "ReplayOwner"}
         => current.account = PinnedAccount

(* The continuation is decided by begin_stream_failure and by a failed      *)
(* Provider::execute; an attempt begins in an accepted Provider::execute.   *)
LEMMA OwnerKeeps ==
    ASSUME OwnerInv, UNCHANGED <<continuation_attempt, excluded_accounts>>,
           current'.account \in {current.account, NoAccount},
           connection_rotation'.account \in {connection_rotation.account, NoAccount}
    PROVE  OwnerInv'
BY DEF OwnerInv, HasCurrent

(* The steps that neither start an attempt nor decide on a failure.         *)
LEMMA OtherOwner ==
    ASSUME TypeOK, OwnerInv, CallerStep \/ SessionStep PROVE OwnerInv'
<1>1. CASE CallerStep
  BY <1>1, OwnerKeeps
     DEF CallerStep, NextEvent, CollectUncommitted, DeferDownstreamCommit, CommitDownstream,
         CancelAndFinalize, FailDelivery, EndSession, Close
<1>2. CASE SessionStep
  <2>1. UNCHANGED <<continuation_attempt, excluded_accounts, connection_rotation>>
    BY <1>2 DEF SessionStep, Start, PrepareAttempt, DelayElapsed, SelectAccount,
                AttemptRecorded, SendObserved, Interrupted, ResumeStreamFailure,
                TerminalFailureSettled, CommitRecorded, FinalizationWritten
  <2>2. CASE SendObserved
    <3>1. current'.account = current.account
      BY <2>2 DEF SendObserved, TypeOK, AttemptTypes, CurrentAttempts
    <3> QED BY <2>1, <3>1, OwnerKeeps
  <2>3. CASE ~SendObserved
    <3>1. current' \in {current, NoCurrent}
      BY <1>2, <2>3
         DEF SessionStep, Start, PrepareAttempt, DelayElapsed, SelectAccount,
             AttemptRecorded, Interrupted, ResumeStreamFailure,
             TerminalFailureSettled, CommitRecorded, FinalizationWritten
    <3> QED BY <2>1, <3>1, OwnerKeeps, NothingPending
  <2> QED BY <2>2, <2>3
<1> QED BY <1>1, <1>2

(* Provider::execute starts an attempt on the owner or on an account that   *)
(* is not excluded, and a refused owner is excluded with its replay.        *)
LEMMA ExecuteOwner ==
    ASSUME TypeOK, OwnerInv,
           \/ \E a \in Accounts : ExecuteOk(a)
           \/ ExecuteMismatch
           \/ \E e \in ExecuteErrors, w \in BOOLEAN : ExecuteError(e, w)
    PROVE  OwnerInv'
<1>1. ASSUME NEW a \in Accounts, ExecuteOk(a) PROVE OwnerInv'
  <2>1. /\ current'.account = a /\ connection_rotation'.account = NoAccount
        /\ UNCHANGED <<continuation_attempt, excluded_accounts>>
    BY <1>1, NothingPending DEF ExecuteOk
  <2>2. Continuation = "pinned" /\ continuation_attempt \in {"Native", "ReplayOwner"}
          => a = PinnedAccount
    BY <1>1 DEF ExecuteOk, Accepted
  <2> QED BY <2>1, <2>2 DEF OwnerInv
<1>2. CASE ExecuteMismatch
  BY <1>2, OwnerKeeps, NothingPending DEF ExecuteMismatch
<1>3. ASSUME NEW e \in ExecuteErrors, NEW w \in BOOLEAN, ExecuteError(e, w) PROVE OwnerInv'
  <2> DEFINE fallback == FallsBackToConnection(e)
             replay == ~fallback /\ ReplaysNativeContinuation(e, w)
  <2>1. UNCHANGED current
    BY <1>3 DEF ExecuteError
  <2>2. connection_rotation'.account \in {connection_rotation.account, NoAccount}
    BY <1>3, NothingPending DEF ExecuteError
  <2>3. CASE UNCHANGED <<continuation_attempt, excluded_accounts>>
    BY <2>1, <2>2, <2>3, OwnerKeeps
  <2>4. CASE fallback /\ ~UNCHANGED <<continuation_attempt, excluded_accounts>>
    <3>1. connection_rotation.account # NoAccount
      BY <2>4 DEF FallsBackToConnection
    <3>2. UNCHANGED continuation_attempt
      BY <1>3, <2>4 DEF ExecuteError
    <3> QED BY <2>1, <2>2, <3>1, <3>2 DEF OwnerInv, HasCurrent
  <2>5. CASE ~fallback /\ ~UNCHANGED <<continuation_attempt, excluded_accounts>>
    <3>1. replay
      BY <1>3, <2>5 DEF ExecuteError
    <3>2. continuation_attempt = "Native" /\ Continuation = "pinned"
      BY <3>1 DEF ReplaysNativeContinuation
    <3>3. continuation_attempt' = "ReplayAny" /\ PinnedAccount \in excluded_accounts'
      BY <1>3, <2>5, <3>1 DEF ExecuteError
    <3> QED BY <2>1, <2>2, <3>2, <3>3 DEF OwnerInv, HasCurrent
  <2> QED BY <2>3, <2>4, <2>5
<1> QED BY <1>1, <1>2, <1>3

(* A failed replay on the owner excludes it when it becomes a replay        *)
(* anywhere, and only a request without a continuation rotates.             *)
LEMMA FailureOwner ==
    ASSUME TypeOK, Inv, ReadsCurrent, OwnerInv,
           NEW e \in StreamErrors, NEW fits \in BOOLEAN, NEW pause \in BOOLEAN,
           BeginStreamFailure(e, fits, pause)
    PROVE  OwnerInv'
<1> DEFINE eff == EffectiveError(e)
<1>1. HasCurrent /\ UNCHANGED current
  BY DEF BeginStreamFailure, ReadsCurrent
<1>2. excluded_accounts \subseteq excluded_accounts'
  BY DEF BeginStreamFailure
<1>3. ~ContinuationRetry(eff) => UNCHANGED continuation_attempt
  BY DEF BeginStreamFailure
<1>4. ASSUME ContinuationRetry(eff)
      PROVE  /\ continuation_attempt # "None" /\ continuation_attempt' # "None"
             /\ continuation_attempt = "Native" => continuation_attempt' # "ReplayAny"
             /\ continuation_attempt # "Native" =>
                  continuation_attempt' = "ReplayAny" /\ current.account \in excluded_accounts'
  <2>1. continuation_attempt \in {"Native", "ReplayOwner", "ReplayAny"}
    BY <1>4 DEF ContinuationRetry
  <2>2. continuation_attempt' =
          IF continuation_attempt # "Native" THEN "ReplayAny"
          ELSE IF eff.disposition = "ProviderReplayAllowed" THEN "ReplayOwner" ELSE "Native"
    BY <1>4 DEF BeginStreamFailure
  <2>3. continuation_attempt # "Native" => ExcludesAccount(eff, fits)
    BY <1>4, <2>1 DEF ExcludesAccount
  <2>4. ExcludesAccount(eff, fits) => current.account \in excluded_accounts'
    BY DEF BeginStreamFailure
  <2> QED BY <2>1, <2>2, <2>3, <2>4
<1>5. connection_rotation'.account # NoAccount => continuation_attempt = "None"
  <2>1. CASE UNCHANGED connection_rotation
    BY <2>1 DEF OwnerInv
  <2>2. CASE FollowUp(eff, fits) = "rotation"
    BY <2>2 DEF FollowUp, ConnectionRecovery
  <2> QED BY <2>1, <2>2 DEF BeginStreamFailure
<1> HIDE DEF eff
<1>6. CASE ContinuationRetry(eff)
  BY <1>1, <1>2, <1>4, <1>5, <1>6 DEF OwnerInv, HasCurrent, TypeOK, RouteTypes
<1>7. CASE ~ContinuationRetry(eff)
  BY <1>1, <1>2, <1>3, <1>5, <1>7 DEF OwnerInv, HasCurrent
<1> QED BY <1>6, <1>7

(* Every step keeps a given-up owner excluded.                              *)
LEMMA OwnerStep ==
    ASSUME TypeOK, Inv, ReadsCurrent, OwnerInv, [Next]_vars PROVE OwnerInv'
<1>1. CASE OpenConnection
  <2>1. current'.account = current.account
    BY <1>1 DEF OpenConnection, TypeOK, AttemptTypes, CurrentAttempts
  <2> QED BY <1>1, <2>1, OwnerKeeps DEF OpenConnection
<1>2. CASE StreamEnd \/ (\E ev \in StreamEvents : StreamItem(ev))
  BY <1>2, OwnerKeeps DEF StreamEnd, StreamItem
<1>3. CASE ProviderStep
  BY <1>1, <1>2, <1>3, ExecuteOwner, FailureOwner DEF ProviderStep
<1>4. CASE ConnectionWindowExpires \/ DropCall \/ Keepalive \/ Environment \/ UNCHANGED vars
  BY <1>4, OwnerKeeps DEF ConnectionWindowExpires, DropCall, Keepalive, Environment, vars
<1>5. CASE DropAtCompletion
  <2>1. current'.account = current.account
    BY <1>5 DEF DropAtCompletion, TypeOK, AttemptTypes, CurrentAttempts
  <2> QED BY <1>5, <2>1, OwnerKeeps DEF DropAtCompletion
<1> QED BY <1>3, <1>4, <1>5, OtherOwner DEF Next, Terminated

(* A new session is on the owner of its continuation.                       *)
LEMMA InitOwner == Init => OwnerInv
BY NothingPending, AccountsAssumption
   DEF Init, OwnerInv, HasCurrent, InitialContinuationAttempt

(* A native continuation that was given up on its owner never returns to    *)
(* it, for every plan, scope and error: neither the fallback of a rotated   *)
(* connection nor a stale pin takes the owner out of the excluded accounts  *)
(* (prepare_continuation_retry, prepare_unavailable_native_continuation_    *)
(* replay, the fallback of prepare_attempt).                                *)
THEOREM OwnerLeft == Spec => ReplayLeavesOwner
<1>1. TypeOK /\ ReadsCurrent /\ Inv /\ OwnerInv /\ [Next]_vars => OwnerInv'
  BY OwnerStep
<1>2. TypeOK /\ ReadsCurrent /\ Inv /\ OwnerInv /\ [Next]_vars
        => [attempts' > attempts /\ Continuation = "pinned" /\ continuation_attempt = "ReplayAny"
              => current'.account # PinnedAccount]_vars
  <2> SUFFICES ASSUME TypeOK, OwnerInv, [Next]_vars, attempts' > attempts,
                      Continuation = "pinned", continuation_attempt = "ReplayAny"
               PROVE  current'.account # PinnedAccount
    OBVIOUS
  <2>1. attempts \in Nat
    BY DEF TypeOK, RouteTypes
  <2>2. PICK a \in Accounts : ExecuteOk(a)
    BY <2>1, OnlyExecuteOkCounts
  <2> QED BY <2>2 DEF ExecuteOk, OwnerInv
<1> QED BY <1>1, <1>2, InitOwner, PhasesCorrect, PTL DEF Spec, ReplayLeavesOwner


-----------------------------------------------------------------------------
(* What the record says of the send.                                       *)

(* A row that says the request was or may have been sent knows no more than *)
(* the watermark, except the mark of an event whose call was dropped before *)
(* the watermark was raised: then the session ends by finish_local_failure, *)
(* which takes a started attempt as possibly sent.                          *)
SendInv ==
    /\ row.exists \/ row.send_state = "NotSent"
    /\ pc = "failing" => pending_stream_failure.send_state = send_state_watermark
    /\ HasCurrent => attempts > 0
    /\ row.send_state # "NotSent" /\ finalization.state = "None" =>
         \/ send_state_watermark # "NotSent"
         \/ detached /\ attempts > 0 /\ ~RetainedFailure.present
    /\ row.send_state # "NotSent" /\ finalization.state = "Pending"
         => finalization.send_state # "NotSent"

(* What one step may do to the send state: the two parts of                 *)
(* SendNeverTakenBack.                                                      *)
SendKept ==
    /\ Rank(send_state_watermark) <= Rank(send_state_watermark')
    /\ row.send_state # "NotSent" => row'.send_state # "NotSent"

(* escalate_send_state never lowers its first argument, and is no lower     *)
(* than its second.                                                         *)
LEMMA EscalateRises ==
    ASSUME NEW a \in SendStates, NEW b
    PROVE  /\ Rank(a) <= Rank(Escalate(a, b))
           /\ a # "NotSent" => Escalate(a, b) # "NotSent"
           /\ b \in {"Ambiguous", "Sent"} => Escalate(a, b) # "NotSent"
BY DEF Escalate, SendStates, Rank

(* The highest send state is above every other.                             *)
LEMMA SentHighest ==
    ASSUME NEW a \in SendStates PROVE Rank(a) <= Rank("Sent") /\ Rank(a) <= Rank(a)
BY DEF SendStates, Rank

(* A finalization that begins with at least the watermark.                  *)
Settles ==
    /\ finalization'.state = "Pending" /\ pc' = "finalizing"
    /\ Rank(send_state_watermark) <= Rank(send_state_watermark')
    /\ send_state_watermark # "NotSent" => finalization'.send_state # "NotSent"

(* finish_local_failure settles, a started attempt as possibly sent,        *)
LEMMA LocalFailureSettles ==
    ASSUME TypeOK, NEW o, FinishLocalFailure(o)
    PROVE  Settles /\ (attempts > 0 => finalization'.send_state # "NotSent")
<1> DEFINE local == IF attempts = 0 THEN "NotSent"
                    ELSE IF downstream_committed \/ current.send_observed THEN "Sent"
                    ELSE "Ambiguous"
           s == Escalate(send_state_watermark, local)
<1>1. PICK m : FinishMarking(o, s, s, m)
  BY DEF FinishLocalFailure
<1>2. attempts > 0 => local \in {"Ambiguous", "Sent"}
  BY DEF TypeOK, RouteTypes
<1>3. send_state_watermark \in SendStates
  BY DEF TypeOK, FinishTypes
<1> HIDE DEF local
<1>4. /\ Rank(send_state_watermark) <= Rank(s)
      /\ send_state_watermark # "NotSent" => s # "NotSent"
      /\ attempts > 0 => s # "NotSent"
  BY <1>2, <1>3, EscalateRises
<1> HIDE DEF s
<1> QED BY <1>1, <1>4 DEF FinishMarking, Settles

(* and so does finish_provider_error_with_send_state,                       *)
LEMMA ProviderErrorSettles ==
    ASSUME TypeOK, NEW e, NEW send, FinishProviderError(e, send) PROVE Settles
<1> DEFINE s == Escalate(send_state_watermark, send)
<1>1. PICK o : Finish(o, s, s)
  BY DEF FinishProviderError
<1>2. send_state_watermark \in SendStates
  BY DEF TypeOK, FinishTypes
<1>3. /\ Rank(send_state_watermark) <= Rank(s)
      /\ send_state_watermark # "NotSent" => s # "NotSent"
  BY <1>2, EscalateRises
<1> HIDE DEF s
<1> QED BY <1>1, <1>3 DEF Finish, FinishMarking, Settles

(* finish_success,                                                          *)
LEMMA SuccessSettles == ASSUME TypeOK, FinishSuccess PROVE Settles /\ finalization'.send_state = "Sent"
<1>1. send_state_watermark \in SendStates
  BY DEF TypeOK, FinishTypes
<1> QED BY <1>1, SentHighest DEF FinishSuccess, Finish, FinishMarking, Settles

(* and the failure retained from an earlier attempt, unless its batch is    *)
(* handed over first.                                                       *)
LEMMA RetainedSettles ==
    ASSUME TypeOK, FinishRetainedFailure
    PROVE  Settles \/ (pc' = "settling" /\ UNCHANGED finishVars)
BY LocalFailureSettles, ProviderErrorSettles DEF FinishRetainedFailure, EndWithFailure

(* What the writes to the row do to its send state.                         *)
LEMMA RowWrites ==
    ASSUME TypeOK, row.exists \/ row.send_state = "NotSent"
    PROVE  /\ \A r \in {RowInsert, RowAttempt, RowCommitted} :
                r.send_state = row.send_state /\ (row.exists => r.exists)
           /\ RowInsert.exists
           /\ \A s : /\ RowSendState(s).exists = row.exists
                     /\ RowSendState(s).send_state = row.send_state
                          \/ (row.exists /\ RowSendState(s).send_state = s)
<1>0. row \in Rows /\ NoRow.send_state = "NotSent" /\ NoRow.exists = FALSE
  BY DEF TypeOK, RecordTypes, NoRow
<1>1. RowInsert.send_state = row.send_state /\ RowInsert.exists
  BY <1>0 DEF RowInsert, NoRow
<1>2. RowAttempt.send_state = row.send_state /\ RowAttempt.exists = row.exists
  BY <1>0 DEF RowAttempt, Rows
<1>3. RowCommitted.send_state = row.send_state /\ RowCommitted.exists = row.exists
  BY <1>0 DEF RowCommitted, Rows
<1>4. ASSUME NEW s
      PROVE  /\ RowSendState(s).exists = row.exists
             /\ RowSendState(s).send_state = row.send_state
                  \/ (row.exists /\ RowSendState(s).send_state = s)
  BY <1>0 DEF RowSendState, Running, Rows
<1> QED BY <1>1, <1>2, <1>3, <1>4

(* A step that leaves the send states alone.                                *)
LEMMA SendKeeps ==
    ASSUME TypeOK, SendInv, UNCHANGED <<send_state_watermark, finalization, attempts>>,
           row'.send_state = row.send_state, row.exists => row'.exists,
           UNCHANGED detached, ~RetainedFailure.present => ~RetainedFailure'.present \/ ~detached,
           pc' # "failing" \/ UNCHANGED <<pc, pending_stream_failure>>,
           current'.account \in {current.account, NoAccount}
    PROVE  SendInv' /\ SendKept
<1>1. send_state_watermark \in SendStates
  BY DEF TypeOK, FinishTypes
<1> QED BY <1>1, SentHighest DEF SendInv, SendKept, HasCurrent

(* A step that begins the finalization.                                     *)
LEMMA SendSettles ==
    ASSUME TypeOK, SendInv, Settles, UNCHANGED <<attempts, current>>,
           row'.exists \/ row'.send_state = "NotSent",
           row.send_state # "NotSent" => row'.send_state # "NotSent",
           row'.send_state # "NotSent" => finalization'.send_state # "NotSent"
    PROVE  SendInv' /\ SendKept
BY DEF SendInv, SendKept, Settles, HasCurrent

(* The caller's operations: the session is ended with at least what the row *)
(* says.                                                                    *)
LEMMA CallerSend ==
    ASSUME TypeOK, Inv, SendInv, CallerStep PROVE SendInv' /\ SendKept
<1>1. /\ UNCHANGED <<attempts, current, row, detached>>
      /\ pc = "idle" /\ pc' # "failing"
  BY FinishState DEF CallerStep, NextEvent, CollectUncommitted, DeferDownstreamCommit,
         CommitDownstream, Callable, CancelAndFinalize, FailDelivery, EndSession, Close,
         FinishProviderError, Finish, FinishLocalFailure
<1>2. CASE CollectUncommitted \/ DeferDownstreamCommit \/ CommitDownstream \/ Close
  <2>1. UNCHANGED <<failureVars, send_state_watermark, finalization>>
    BY <1>2 DEF CollectUncommitted, DeferDownstreamCommit, CommitDownstream, Close
  <2> QED BY <1>1, <2>1, SendKeeps DEF RetainedFailure
<1>3. CASE NextEvent
  <2>1. finalization.state = "None" /\ ~detached
    BY <1>3 DEF NextEvent, Callable
  <2>2. CASE pending_terminal_failure.present
    <3>1. Settles
      BY <1>3, <2>2, ProviderErrorSettles DEF NextEvent
    <3> QED BY <1>1, <2>1, <3>1, SendSettles DEF SendInv, Settles
  <2>3. CASE ~pending_terminal_failure.present
    <3>1. UNCHANGED <<failureVars, send_state_watermark, finalization>>
      BY <1>3, <2>3 DEF NextEvent
    <3> QED BY <1>1, <3>1, SendKeeps DEF RetainedFailure
  <2> QED BY <2>2, <2>3
<1>4. ASSUME NEW o, EndSession(o), ~Finalized PROVE SendInv' /\ SendKept
  <2>1. CASE finalization.state = "Pending"
    <3>1. UNCHANGED <<send_state_watermark, finalization>>
      BY <1>4, <2>1 DEF EndSession
    <3>2. send_state_watermark \in SendStates
      BY DEF TypeOK, FinishTypes
    <3> QED BY <1>1, <2>1, <3>1, <3>2, SentHighest DEF SendInv, SendKept, HasCurrent
  <2>2. CASE finalization.state = "None" /\ RetainedFailure.present
    <3>1. Settles
      BY <1>4, <2>2, ProviderErrorSettles DEF EndSession
    <3> QED BY <1>1, <2>2, <3>1, SendSettles DEF SendInv, Settles
  <2>3. CASE finalization.state = "None" /\ ~RetainedFailure.present
    <3>1. Settles /\ (attempts > 0 => finalization'.send_state # "NotSent")
      BY <1>4, <2>3, LocalFailureSettles DEF EndSession
    <3> QED BY <1>1, <2>3, <3>1, SendSettles DEF SendInv, Settles
  <2> QED BY <1>4, <2>1, <2>2, <2>3 DEF Finalized, TypeOK, FinishTypes, Finalizations
<1> QED BY <1>2, <1>3, <1>4 DEF CallerStep, CancelAndFinalize, FailDelivery

(* A step of prepare_attempt that ends the session, or hands its failure    *)
(* over.                                                                    *)
LEMMA RetainedSend ==
    ASSUME TypeOK, Inv, SendInv, FinishRetainedFailure, pc \in Preparing,
           UNCHANGED <<attempts, current, row, detached, pending_stream_failure>>
    PROVE  SendInv' /\ SendKept
<1>1. ~detached /\ finalization.state = "None"
  BY DEF Inv, PhaseInv
<1>2. CASE Settles
  BY <1>1, <1>2, SendSettles DEF SendInv, Settles
<1>3. CASE pc' = "settling" /\ UNCHANGED finishVars
  BY <1>1, <1>3, SendKeeps
<1> QED BY <1>2, <1>3, RetainedSettles

(* The writes of the attempt: its row, its marks and the commit.            *)
LEMMA MarkSend ==
    ASSUME TypeOK, Inv, SendInv, AttemptRecorded \/ SendObserved \/ CommitRecorded
    PROVE  SendInv' /\ SendKept
<1>0. row.exists \/ row.send_state = "NotSent"
  BY DEF SendInv
<1>1. CASE AttemptRecorded
  <2>1. row' \in {row, RowAttempt, RowInsert}
    BY <1>1 DEF AttemptRecorded
  <2>2. row'.send_state = row.send_state /\ (row.exists => row'.exists)
    BY <1>0, <2>1, RowWrites
  <2> QED BY <1>1, <2>2, SendKeeps DEF AttemptRecorded, RetainedFailure
<1>2. CASE SendObserved
  <2>1. row' \in {row, RowSendState("Sent")}
    BY <1>2 DEF SendObserved, Written
  <2>2. /\ row'.exists = row.exists
        /\ row'.send_state = row.send_state \/ (row.exists /\ row'.send_state = "Sent")
    BY <1>0, <2>1, RowWrites
  <2>3. /\ current'.account = current.account /\ send_state_watermark' = "Sent"
        /\ finalization' = finalization /\ attempts' = attempts /\ pc' # "failing"
    BY <1>2 DEF SendObserved, HandOver, TypeOK, AttemptTypes, CurrentAttempts
  <2>4. finalization.state = "None" /\ send_state_watermark \in SendStates
    BY <1>2 DEF SendObserved, Inv, PhaseInv, TypeOK, FinishTypes
  <2>5. Rank(send_state_watermark) <= Rank(send_state_watermark')
    BY <2>3, <2>4, SentHighest
  <2> QED BY <2>2, <2>3, <2>4, <2>5 DEF SendInv, SendKept, HasCurrent
<1>3. CASE CommitRecorded
  <2>1. row' \in {row, RowCommitted}
    BY <1>3 DEF CommitRecorded, Written
  <2>2. row'.send_state = row.send_state /\ (row.exists => row'.exists)
    BY <1>0, <2>1, RowWrites
  <2>3. UNCHANGED <<attempts, current, detached, failureVars>>
    BY <1>3 DEF CommitRecorded
  <2>4. CASE FinishSuccess
    BY <1>0, <2>2, <2>3, <2>4, SuccessSettles, SendSettles
  <2>5. CASE pc' = "idle" /\ UNCHANGED finishVars
    BY <2>2, <2>3, <2>5, SendKeeps DEF RetainedFailure
  <2> QED BY <1>3, <2>4, <2>5 DEF CommitRecorded
<1> QED BY <1>1, <1>2, <1>3

(* The mark of a failed attempt is the watermark.                           *)
LEMMA ResumeSend ==
    ASSUME TypeOK, Inv, SendInv, ResumeStreamFailure PROVE SendInv' /\ SendKept
<1>0. /\ row.exists \/ row.send_state = "NotSent"
      /\ pc = "failing" /\ ~detached /\ finalization.state = "None"
      /\ pending_stream_failure.send_state = send_state_watermark
  BY DEF SendInv, ResumeStreamFailure, Inv, PhaseInv
<1>1. row' \in {row, RowSendState(send_state_watermark)}
  BY <1>0 DEF ResumeStreamFailure, Written
<1>2. /\ row'.exists = row.exists
      /\ row'.send_state = row.send_state
           \/ (row.exists /\ row'.send_state = send_state_watermark)
  BY <1>0, <1>1, RowWrites
<1>3. row.send_state # "NotSent" => send_state_watermark # "NotSent"
  BY <1>0 DEF SendInv
<1>4. UNCHANGED <<attempts, detached>>
  BY DEF ResumeStreamFailure
<1>5. pc' \in {"settling", "preparing"} /\ UNCHANGED finishVars
  BY DEF ResumeStreamFailure, EndWithFailure
<1>6. current'.account \in {current.account, NoAccount}
  BY NothingPending DEF ResumeStreamFailure
<1>7. send_state_watermark \in SendStates
  BY DEF TypeOK, FinishTypes
<1> QED BY <1>0, <1>2, <1>3, <1>4, <1>5, <1>6, <1>7, SentHighest
        DEF SendInv, SendKept, HasCurrent

(* A settled failure is handed over, or finalized with at least the         *)
(* watermark.                                                               *)
LEMMA SettledSend ==
    ASSUME TypeOK, Inv, SendInv, TerminalFailureSettled PROVE SendInv' /\ SendKept
<1>0. /\ ~detached /\ finalization.state = "None"
      /\ UNCHANGED <<attempts, current, row, detached, pending_stream_failure>>
  BY DEF TerminalFailureSettled, Inv, PhaseInv
<1>1. CASE \E e, s : FinishProviderError(e, s)
  <2>1. Settles
    BY <1>1, ProviderErrorSettles
  <2> QED BY <1>0, <2>1, SendSettles DEF SendInv, Settles
<1>2. CASE pc' = "idle" /\ UNCHANGED finishVars
  BY <1>0, <1>2, SendKeeps
<1> QED BY <1>1, <1>2 DEF TerminalFailureSettled

(* resume_finalization writes what the finalization says, into a row that   *)
(* is still running.                                                        *)
LEMMA WrittenSend ==
    ASSUME TypeOK, Inv, SendInv, FinalizationWritten PROVE SendInv' /\ SendKept
<1>0. /\ row.exists \/ row.send_state = "NotSent"
      /\ finalization.state = "Pending"
  BY DEF SendInv, FinalizationWritten, Inv, PhaseInv
<1>1. PICK noted \in {row, RowInsert, RowSendState(finalization.send_state)} :
        row' \in {noted, RowFinalized(noted)}
  BY DEF FinalizationWritten
<1>2. /\ noted.send_state = row.send_state
           \/ (row.exists /\ noted.send_state = finalization.send_state)
      /\ row.exists => noted.exists
  BY <1>0, RowWrites
<1>3. /\ row'.send_state \in {row.send_state, finalization.send_state}
      /\ row'.exists \/ row'.send_state = "NotSent"
  BY <1>0, <1>1, <1>2 DEF RowFinalized, Running
<1>4. /\ finalization'.state = "Complete" /\ pc' # "failing"
      /\ UNCHANGED <<attempts, current, send_state_watermark>>
      /\ send_state_watermark \in SendStates
  BY DEF FinalizationWritten, TypeOK, FinishTypes, Finalizations
<1>5. row.send_state # "NotSent" => row'.send_state # "NotSent"
  BY <1>0, <1>3 DEF SendInv
<1> QED BY <1>3, <1>4, <1>5, SentHighest DEF SendInv, SendKept, HasCurrent

(* The session's own steps.                                                 *)
LEMMA SessionSend ==
    ASSUME TypeOK, Inv, SendInv, SessionStep PROVE SendInv' /\ SendKept
<1>1. CASE Start
  <2>1. UNCHANGED <<attempts, current, row, detached, failureVars>>
    BY <1>1 DEF Start
  <2>2. ~detached /\ finalization.state = "None"
    BY <1>1 DEF Start, Inv, PhaseInv
  <2>3. CASE \E o : FinishLocalFailure(o)
    BY <2>1, <2>2, <2>3, LocalFailureSettles, SendSettles DEF SendInv, Settles
  <2>4. CASE pc' = "idle" /\ UNCHANGED finishVars
    BY <2>1, <2>4, SendKeeps DEF RetainedFailure
  <2> QED BY <1>1, <2>3, <2>4 DEF Start, FinishCancelled, FinishDeadline
<1>2. CASE PrepareAttempt
  <2>1. UNCHANGED <<attempts, current, row, detached, pending_stream_failure>> /\ pc \in Preparing
    BY <1>2 DEF PrepareAttempt
  <2>2. CASE FinishRetainedFailure
    BY <2>1, <2>2, RetainedSend
  <2>3. CASE ~FinishRetainedFailure
    BY <1>2, <2>1, <2>3, SendKeeps DEF PrepareAttempt, RetainedFailure
  <2> QED BY <2>2, <2>3
<1>3. CASE DelayElapsed
  BY <1>3, SendKeeps DEF DelayElapsed, RetainedFailure
<1>4. CASE SelectAccount
  <2>1. UNCHANGED <<attempts, current, row, detached, pending_stream_failure>> /\ pc \in Preparing
    BY <1>4 DEF SelectAccount
  <2>2. CASE FinishRetainedFailure
    BY <2>1, <2>2, RetainedSend
  <2>3. CASE \/ FinishLocalFailure(InterruptedOutcome)
             \/ FinishProviderError(ProfileRejected, CurrentSendState)
    <3>1. Settles
      BY <2>3, LocalFailureSettles, ProviderErrorSettles
    <3>2. ~detached /\ finalization.state = "None"
      BY <2>1 DEF Inv, PhaseInv
    <3> QED BY <2>1, <3>1, <3>2, SendSettles DEF SendInv, Settles
  <2>4. CASE pc' = "executing" /\ UNCHANGED <<finishVars, pending_terminal_failure>>
    BY <2>1, <2>4, SendKeeps DEF RetainedFailure
  <2> QED BY <1>4, <2>2, <2>3, <2>4 DEF SelectAccount
<1>5. CASE Interrupted
  <2>1. UNCHANGED <<attempts, current, row, detached>>
    BY <1>5 DEF Interrupted
  <2>2. ~detached /\ finalization.state = "None"
    BY <1>5 DEF Interrupted, Inv, PhaseInv
  <2>3. Settles
    BY <1>5, LocalFailureSettles DEF Interrupted, FinishCancelled, FinishDeadline
  <2> QED BY <2>1, <2>2, <2>3, SendSettles DEF SendInv, Settles
<1> QED BY <1>1, <1>2, <1>3, <1>4, <1>5, MarkSend, ResumeSend, SettledSend,
           WrittenSend DEF SessionStep

(* The provider's answers.                                                  *)
LEMMA ProviderSend ==
    ASSUME TypeOK, Inv, SendInv, ProviderStep PROVE SendInv' /\ SendKept
<1>1. CASE \E a \in Accounts : ExecuteOk(a)
  <2>1. /\ attempts' = attempts + 1 /\ attempts \in Nat /\ pc' # "failing"
        /\ UNCHANGED <<row, finalization, send_state_watermark, detached>>
        /\ ~detached /\ finalization.state = "None" /\ send_state_watermark \in SendStates
    BY <1>1 DEF ExecuteOk, Inv, PhaseInv, TypeOK, RouteTypes, FinishTypes
  <2> QED BY <2>1, SentHighest DEF SendInv, SendKept, HasCurrent
<1>2. CASE ExecuteMismatch
  <2>1. UNCHANGED <<attempts, current, row, detached>>
    BY <1>2 DEF ExecuteMismatch
  <2>2. /\ ~detached /\ finalization.state = "None" /\ send_state_watermark \in SendStates
    BY <1>2 DEF ExecuteMismatch, Inv, PhaseInv, TypeOK, FinishTypes
  <2>3. Settles
    BY <1>2, <2>2, EscalateRises, SentHighest
       DEF ExecuteMismatch, Finish, FinishMarking, Settles, CurrentSendState
  <2> QED BY <2>1, <2>2, <2>3, SendSettles DEF SendInv, Settles
<1>3. ASSUME NEW e \in ExecuteErrors, NEW w \in BOOLEAN, ExecuteError(e, w)
      PROVE  SendInv' /\ SendKept
  <2>1. UNCHANGED <<attempts, current, row, detached, pending_stream_failure>> /\ pc \in Preparing
    BY <1>3 DEF ExecuteError
  <2>2. CASE FinishRetainedFailure
    BY <2>1, <2>2, RetainedSend
  <2>3. CASE \E x, s : FinishProviderError(x, s)
    <3>1. Settles
      BY <2>3, ProviderErrorSettles
    <3>2. ~detached /\ finalization.state = "None"
      BY <2>1 DEF Inv, PhaseInv
    <3> QED BY <2>1, <3>1, <3>2, SendSettles DEF SendInv, Settles
  <2>4. CASE pc' = "preparing" /\ UNCHANGED <<finishVars, pending_terminal_failure>>
    BY <2>1, <2>4, SendKeeps DEF RetainedFailure
  <2> QED BY <1>3, <2>2, <2>3, <2>4 DEF ExecuteError
<1>4. CASE OpenConnection
  <2>1. current'.account = current.account
    BY <1>4 DEF OpenConnection, TypeOK, AttemptTypes, CurrentAttempts
  <2> QED BY <1>4, <2>1, SendKeeps DEF OpenConnection, RetainedFailure
<1>5. CASE \E ev \in StreamEvents : StreamItem(ev)
  BY <1>5, SendKeeps DEF StreamItem, HandOver, RetainedFailure
<1>6. CASE StreamEnd
  <2>1. UNCHANGED <<attempts, current, row, detached, failureVars>>
    BY <1>6 DEF StreamEnd
  <2>2. row.exists \/ row.send_state = "NotSent"
    BY DEF SendInv
  <2>3. CASE FinishSuccess
    BY <2>1, <2>2, <2>3, SuccessSettles, SendSettles
  <2>4. CASE pc' = "idle" /\ UNCHANGED finishVars
    BY <2>1, <2>4, SendKeeps DEF RetainedFailure
  <2> QED BY <1>6, <2>3, <2>4 DEF StreamEnd
<1>7. ASSUME NEW e \in StreamErrors, NEW fits \in BOOLEAN, NEW pause \in BOOLEAN,
             BeginStreamFailure(e, fits, pause)
      PROVE  SendInv' /\ SendKept
  <2>1. PICK s : send_state_watermark' = Escalate(send_state_watermark, s)
    BY <1>7 DEF BeginStreamFailure
  <2>2. /\ pending_stream_failure'.send_state = send_state_watermark'
        /\ UNCHANGED <<attempts, current, row, detached, finalization>>
    BY <1>7 DEF BeginStreamFailure
  <2>3. ~detached /\ finalization.state = "None" /\ send_state_watermark \in SendStates
    BY <1>7 DEF BeginStreamFailure, Inv, PhaseInv, TypeOK, FinishTypes
  <2>4. /\ Rank(send_state_watermark) <= Rank(send_state_watermark')
        /\ send_state_watermark # "NotSent" => send_state_watermark' # "NotSent"
    BY <2>1, <2>3, EscalateRises
  <2> QED BY <2>2, <2>3, <2>4 DEF SendInv, SendKept, HasCurrent
<1> QED BY <1>1, <1>2, <1>3, <1>4, <1>5, <1>6, <1>7 DEF ProviderStep

(* A dropped call may leave a mark the watermark does not know of.          *)
LEMMA DropSend ==
    ASSUME TypeOK, Inv, ReadsCurrent, SendInv, DropCall PROVE SendInv' /\ SendKept
<1>0. /\ row.exists \/ row.send_state = "NotSent"
      /\ UNCHANGED <<attempts, current, finishVars, failureVars>> /\ detached' /\ pc' # "failing"
      /\ send_state_watermark \in SendStates
  BY DEF SendInv, DropCall, TypeOK, FinishTypes
<1>1. CASE row'.send_state = row.send_state /\ (row.exists => row'.exists)
  <2>1. (detached /\ ~RetainedFailure.present) => ~RetainedFailure'.present
    BY <1>0 DEF RetainedFailure
  <2> QED BY <1>0, <1>1, <2>1, SentHighest DEF SendInv, SendKept, HasCurrent
<1>2. CASE pc = "observing" /\ row' = RowSendState("Sent")
  <2>1. /\ row'.exists = row.exists
        /\ row'.send_state = row.send_state \/ (row.exists /\ row'.send_state = "Sent")
    BY <1>0, <1>2, RowWrites
  <2>2. attempts > 0 /\ ~RetainedFailure'.present /\ finalization.state = "None"
    BY <1>0, <1>2 DEF SendInv, ReadsCurrent, Inv, PhaseInv, RetainedFailure
  <2> QED BY <1>0, <2>1, <2>2, SentHighest DEF SendInv, SendKept, HasCurrent
<1>3. CASE pc = "failing" /\ row' = RowSendState(send_state_watermark)
  <2>1. /\ row'.exists = row.exists
        /\ row'.send_state = row.send_state
             \/ (row.exists /\ row'.send_state = send_state_watermark)
    BY <1>0, <1>3, RowWrites
  <2>2. ~detached /\ finalization.state = "None"
    BY <1>3 DEF Inv, PhaseInv
  <2> QED BY <1>0, <2>1, <2>2, SentHighest DEF SendInv, SendKept, HasCurrent
<1>4. row' \in {row, InFlightRow}
  BY DEF DropCall
<1>5. /\ RowInsert.send_state = row.send_state /\ RowInsert.exists
      /\ RowAttempt.send_state = row.send_state /\ (row.exists => RowAttempt.exists)
      /\ RowCommitted.send_state = row.send_state /\ (row.exists => RowCommitted.exists)
  BY <1>0, RowWrites
<1>6. pc = "failing" => pending_stream_failure.send_state = send_state_watermark
  BY DEF SendInv
<1> QED BY <1>1, <1>2, <1>3, <1>4, <1>5, <1>6 DEF InFlightRow

(* One dropped at the completion of its response has raised it.             *)
LEMMA CompletionSend ==
    ASSUME TypeOK, Inv, SendInv, DropAtCompletion PROVE SendInv' /\ SendKept
<1>0. /\ row.exists \/ row.send_state = "NotSent"
      /\ UNCHANGED <<attempts, finalization>> /\ pc' # "failing"
      /\ ~detached /\ finalization.state = "None"
      /\ send_state_watermark \in SendStates /\ current'.account = current.account
  BY DEF SendInv, DropAtCompletion, TypeOK, FinishTypes, AttemptTypes, CurrentAttempts,
         Inv, PhaseInv
<1>1. CASE pc = "observing"
  <2>1. row' \in {row, RowSendState("Sent")} /\ send_state_watermark' = "Sent"
    BY <1>1 DEF DropAtCompletion, InFlightRow
  <2>2. /\ row'.exists = row.exists
        /\ row'.send_state = row.send_state \/ (row.exists /\ row'.send_state = "Sent")
    BY <1>0, <2>1, RowWrites
  <2> QED BY <1>0, <2>1, <2>2, SentHighest DEF SendInv, SendKept, HasCurrent
<1>2. CASE pc = "polling"
  <2>1. UNCHANGED <<row, send_state_watermark>>
    BY <1>2 DEF DropAtCompletion
  <2> QED BY <1>0, <2>1, SentHighest DEF SendInv, SendKept, HasCurrent
<1> QED BY <1>1, <1>2 DEF DropAtCompletion

(* Every step keeps what is known of the send.                              *)
LEMMA SendStep ==
    ASSUME TypeOK, Inv, ReadsCurrent, SendInv, [Next]_vars PROVE SendInv' /\ SendKept
<1>1. CASE ConnectionWindowExpires \/ Keepalive \/ Environment \/ UNCHANGED vars
  BY <1>1, SendKeeps DEF ConnectionWindowExpires, Keepalive, Environment, vars, RetainedFailure
<1> QED BY <1>1, CallerSend, SessionSend, ProviderSend, DropSend, CompletionSend
        DEF Next, Terminated

(* The send state of a request is never taken back, for every error         *)
(* catalogue, lost write and dropped call: not by a later attempt, not by a *)
(* late mark, and not by the finalization, although a dropped call may have *)
(* marked the row as sent before it raised the watermark                    *)
(* (raise_send_watermark, mark_send_observed, finish_local_failure).        *)
THEOREM SendStateOnlyRises == Spec => SendNeverTakenBack
<1>1. Init => SendInv
  BY NothingPending DEF Init, SendInv, NoRow, HasCurrent
<1>2. TypeOK /\ ReadsCurrent /\ Inv /\ SendInv /\ [Next]_vars => SendInv'
  BY SendStep
<1>3. TypeOK /\ ReadsCurrent /\ Inv /\ SendInv /\ [Next]_vars
        => [/\ Rank(send_state_watermark) <= Rank(send_state_watermark')
            /\ row.send_state # "NotSent" => row'.send_state # "NotSent"]_vars
  BY SendStep DEF SendKept
<1> QED BY <1>1, <1>2, <1>3, PhasesCorrect, PTL DEF Spec, SendNeverTakenBack


-----------------------------------------------------------------------------
(* What the key is charged.                                                *)

(* The charge counts each attempt whose cost was taken: those before the    *)
(* current one as prior attempts, the current one as its observed cost.     *)
(* Between attempts nothing is observed, and a failure retained from an     *)
(* earlier attempt is marked as already counted.                            *)
CostInv ==
    /\ IsFiniteSet(costed) /\ \A n \in costed : n <= attempts
    /\ BudgetCharge = Cardinality(costed)
    /\ pc \in Preparing => ~HasCurrent
    /\ HasCurrent => /\ ~budget_attempt_already_counted
                     /\ observed_cost = 1 <=> attempts \in costed
    /\ ~HasCurrent /\ finalization.state = "None" /\ ~pending_terminal_failure.present
         => observed_cost = 0 /\ ~budget_attempt_already_counted

(* A step that leaves the costs, the attempt and what ended alone.          *)
LEMMA CostKeeps ==
    ASSUME CostInv, UNCHANGED <<budgetVars, attempts>>, current'.account = current.account,
           pc' \in Preparing => pc \in Preparing \/ ~HasCurrent,
           \/ finalization'.state # "None" \/ pending_terminal_failure'.present
           \/ finalization.state = "None" /\ ~pending_terminal_failure.present
    PROVE  CostInv'
BY DEF CostInv, HasCurrent, BudgetCharge, AttemptCharge

(* A step that begins the finalization.                                     *)
LEMMA CostSettles ==
    ASSUME CostInv, UNCHANGED <<budgetVars, attempts, current>>,
           pc' = "finalizing", finalization'.state = "Pending"
    PROVE  CostInv'
BY CostKeeps

(* The caller's operations leave the costs alone.                           *)
LEMMA CallerCost == ASSUME TypeOK, Inv, CostInv, CallerStep PROVE CostInv'
<1>1. UNCHANGED <<budgetVars, attempts, current>>
  BY DEF CallerStep, NextEvent, CollectUncommitted, DeferDownstreamCommit, CommitDownstream,
         CancelAndFinalize, FailDelivery, EndSession, Close
<1>2. CASE CollectUncommitted \/ DeferDownstreamCommit \/ CommitDownstream \/ Close
  <2>1. /\ UNCHANGED <<pending_terminal_failure, finalization>>
        /\ pc' \in Preparing => ~HasCurrent
    BY <1>2 DEF CollectUncommitted, DeferDownstreamCommit, CommitDownstream, Close, Callable
  <2> QED BY <1>1, <2>1 DEF CostInv, HasCurrent, BudgetCharge, AttemptCharge
<1>3. CASE NextEvent
  <2>1. CASE pending_terminal_failure.present
    BY <1>1, <1>3, <2>1, ProviderErrorState, CostSettles DEF NextEvent
  <2>2. CASE ~pending_terminal_failure.present
    BY <1>1, <1>3, <2>2, CostKeeps DEF NextEvent, Callable
  <2> QED BY <2>1, <2>2
<1>4. ASSUME NEW o, EndSession(o) PROVE CostInv'
  <2>1. finalization'.state = "Pending" /\ pc' = "finalizing"
    BY <1>4, ProviderErrorState, LocalFailureState DEF EndSession
  <2> QED BY <1>1, <2>1, CostSettles
<1> QED BY <1>2, <1>3, <1>4 DEF CallerStep, CancelAndFinalize, FailDelivery

(* finish_retained_failure: the cost of the retained failure was counted    *)
(* when its attempt was discarded.                                          *)
LEMMA RetainedCost ==
    ASSUME TypeOK, Inv, CostInv, FinishRetainedFailure, pc \in Preparing,
           UNCHANGED <<attempts, current>>
    PROVE  CostInv'
<1>0. /\ ~HasCurrent /\ observed_cost = 0 /\ ~budget_attempt_already_counted
      /\ finalization.state = "None" /\ ~pending_terminal_failure.present
  BY DEF CostInv, Inv, PhaseInv
<1>1. CASE /\ \/ FinishLocalFailure(InterruptedOutcome)
              \/ \E e, s : FinishProviderError(e, s)
           /\ UNCHANGED budgetVars
  BY <1>1, LocalFailureState, ProviderErrorState, CostSettles
<1>2. CASE /\ EndWithFailure(last_retryable_failure, CurrentSendState)
           /\ budget_attempt_already_counted'
           /\ UNCHANGED <<budget_prior_attempts, costed>>
  <2>1. pc' \notin Preparing /\ pending_terminal_failure'.present
    BY <1>2 DEF EndWithFailure
  <2>2. BudgetCharge' = BudgetCharge
    BY <1>0, <1>2 DEF BudgetCharge, AttemptCharge
  <2> QED BY <1>0, <1>2, <2>1, <2>2 DEF CostInv, HasCurrent
<1> QED BY <1>1, <1>2 DEF FinishRetainedFailure

(* A discarded attempt moves its cost to the prior attempts.                *)
LEMMA ResumeCost ==
    ASSUME TypeOK, Inv, ReadsCurrent, CostInv, ResumeStreamFailure PROVE CostInv'
<1>1. CASE pending_stream_failure.kind = "Discard"
  <2>1. /\ current' = NoCurrent /\ UNCHANGED <<costed, attempts>>
        /\ budget_prior_attempts' = budget_prior_attempts + AttemptCharge
        /\ observed_cost' = 0 /\ ~budget_attempt_already_counted'
    BY <1>1 DEF ResumeStreamFailure, ResetUncommittedObservations
  <2>2. budget_prior_attempts' \in Nat
    BY <2>1 DEF AttemptCharge, TypeOK, RecordTypes
  <2>3. BudgetCharge' = BudgetCharge
    BY <2>1, <2>2 DEF BudgetCharge, AttemptCharge
  <2> QED BY <2>1, <2>3, NothingPending DEF CostInv, HasCurrent
<1>2. CASE pending_stream_failure.kind = "Terminal"
  <2>1. /\ UNCHANGED <<budgetVars, current, attempts>>
        /\ EndWithFailure(pending_stream_failure.error, pending_stream_failure.send_state)
    BY <1>2 DEF ResumeStreamFailure
  <2>2. pc' \notin Preparing /\ pending_terminal_failure'.present
    BY <2>1 DEF EndWithFailure
  <2> QED BY <2>1, <2>2, CostKeeps
<1> QED BY <1>1, <1>2 DEF ResumeStreamFailure

(* The session's own steps.                                                 *)
LEMMA SessionCost ==
    ASSUME TypeOK, Inv, ReadsCurrent, CostInv, SessionStep PROVE CostInv'
<1>1. CASE Start
  <2>1. UNCHANGED <<budgetVars, attempts, current, failureVars>>
    BY <1>1 DEF Start
  <2>2. CASE \E o : FinishLocalFailure(o)
    BY <2>1, <2>2, LocalFailureState, CostSettles
  <2>3. CASE pc' = "idle" /\ UNCHANGED finishVars
    BY <2>1, <2>3 DEF CostInv, HasCurrent, BudgetCharge, AttemptCharge
  <2> QED BY <1>1, <2>2, <2>3 DEF Start, FinishCancelled, FinishDeadline
<1>2. CASE PrepareAttempt \/ SelectAccount
  <2>1. UNCHANGED <<attempts, current>> /\ pc \in Preparing
    BY <1>2 DEF PrepareAttempt, SelectAccount
  <2>2. CASE FinishRetainedFailure
    BY <2>1, <2>2, RetainedCost
  <2>3. CASE /\ \/ FinishLocalFailure(InterruptedOutcome)
                \/ FinishProviderError(ProfileRejected, CurrentSendState)
             /\ UNCHANGED budgetVars
    BY <2>1, <2>3, LocalFailureState, ProviderErrorState, CostSettles
  <2>4. CASE UNCHANGED <<budgetVars, finalization, pending_terminal_failure>>
    BY <2>1, <2>4 DEF CostInv, HasCurrent, BudgetCharge, AttemptCharge
  <2> QED BY <1>2, <2>2, <2>3, <2>4 DEF PrepareAttempt, SelectAccount
<1>3. CASE DelayElapsed \/ AttemptRecorded
  BY <1>3 DEF DelayElapsed, AttemptRecorded, CostInv, HasCurrent, BudgetCharge, AttemptCharge
<1>4. CASE SendObserved
  <2>1. /\ current'.account = current.account
        /\ UNCHANGED <<budgetVars, attempts, failureVars, finalization>>
        /\ pc' \notin Preparing
    BY <1>4 DEF SendObserved, HandOver, TypeOK, AttemptTypes, CurrentAttempts
  <2> QED BY <2>1 DEF CostInv, HasCurrent, BudgetCharge, AttemptCharge
<1>5. CASE Interrupted
  <2>1. finalization'.state = "Pending" /\ pc' = "finalizing"
    BY <1>5, LocalFailureState DEF Interrupted, FinishCancelled, FinishDeadline
  <2> QED BY <1>5, <2>1, CostSettles DEF Interrupted
<1>6. CASE CommitRecorded
  <2>1. UNCHANGED <<budgetVars, attempts, current, failureVars>>
    BY <1>6 DEF CommitRecorded
  <2>2. CASE FinishSuccess
    BY <2>1, <2>2, FinishState, CostSettles DEF FinishSuccess, Finish
  <2>3. CASE pc' = "idle" /\ UNCHANGED finishVars
    BY <2>1, <2>3 DEF CostInv, HasCurrent, BudgetCharge, AttemptCharge
  <2> QED BY <1>6, <2>2, <2>3 DEF CommitRecorded
<1>7. CASE FinalizationWritten
  <2>1. finalization'.state = "Complete" /\ pc' = "idle"
    BY <1>7 DEF FinalizationWritten, TypeOK, FinishTypes, Finalizations
  <2> QED BY <1>7, <2>1, CostKeeps DEF FinalizationWritten
<1>8. CASE TerminalFailureSettled
  <2>1. UNCHANGED <<budgetVars, attempts, current>>
    BY <1>8 DEF TerminalFailureSettled
  <2>2. CASE \E e, s : FinishProviderError(e, s)
    BY <2>1, <2>2, ProviderErrorState, CostSettles
  <2>3. CASE pc' = "idle" /\ UNCHANGED <<finishVars, pending_terminal_failure>>
    BY <2>1, <2>3 DEF CostInv, HasCurrent, BudgetCharge, AttemptCharge
  <2> QED BY <1>8, <2>2, <2>3 DEF TerminalFailureSettled
<1> QED BY <1>1, <1>2, <1>3, <1>4, <1>5, <1>6, <1>7, <1>8, ResumeCost DEF SessionStep

(* The cost of the current attempt is observed, once or again.              *)
LEMMA ObservedCost ==
    ASSUME TypeOK, CostInv, HasCurrent, UNCHANGED attempts,
           current'.account = current.account, pc' \notin Preparing,
           UNCHANGED <<budget_prior_attempts, budget_attempt_already_counted>>,
           \/ UNCHANGED <<observed_cost, costed>>
           \/ observed_cost' = 1 /\ costed' = costed \cup {attempts}
    PROVE  CostInv'
<1>0. /\ ~budget_attempt_already_counted /\ (observed_cost = 1 <=> attempts \in costed)
      /\ IsFiniteSet(costed) /\ BudgetCharge = Cardinality(costed)
      /\ observed_cost \in {0, 1} /\ budget_prior_attempts \in Nat /\ attempts \in Nat
  BY DEF CostInv, TypeOK, RecordTypes, RouteTypes
<1>1. CASE UNCHANGED <<observed_cost, costed>>
  BY <1>1 DEF CostInv, HasCurrent, BudgetCharge, AttemptCharge
<1>2. CASE observed_cost' = 1 /\ costed' = costed \cup {attempts}
  <2>1. IsFiniteSet(costed') /\ \A n \in costed' : n <= attempts'
    BY <1>0, <1>2, FS_AddElement DEF CostInv
  <2>2. CASE attempts \in costed
    <3>1. costed' = costed
      BY <1>2, <2>2
    <3> QED BY <1>0, <1>2, <2>2, <3>1 DEF CostInv, HasCurrent, BudgetCharge, AttemptCharge
  <2>3. CASE attempts \notin costed
    <3>1. Cardinality(costed') = Cardinality(costed) + 1
      BY <1>0, <1>2, <2>3, FS_AddElement
    <3>2. observed_cost = 0
      BY <1>0, <2>3
    <3>3. BudgetCharge' = BudgetCharge + 1
      BY <1>0, <1>2, <3>2 DEF BudgetCharge, AttemptCharge
    <3>4. BudgetCharge' = Cardinality(costed')
      BY <1>0, <3>1, <3>3
    <3> QED BY <1>0, <1>2, <2>1, <3>4 DEF CostInv, HasCurrent
  <2> QED BY <2>2, <2>3
<1> QED BY <1>1, <1>2

(* The provider's answers.                                                  *)
LEMMA ProviderCost ==
    ASSUME TypeOK, Inv, ReadsCurrent, CostInv, ProviderStep PROVE CostInv'
<1>1. ASSUME NEW a \in Accounts, ExecuteOk(a) PROVE CostInv'
  <2>1. /\ ~HasCurrent /\ observed_cost = 0 /\ ~budget_attempt_already_counted
    BY <1>1 DEF ExecuteOk, CostInv, Inv, PhaseInv
  <2>2. /\ attempts' = attempts + 1 /\ attempts \in Nat /\ costed \subseteq Nat
        /\ UNCHANGED budgetVars /\ current'.account = a /\ pc' \notin Preparing
    BY <1>1 DEF ExecuteOk, TypeOK, RouteTypes, RecordTypes
  <2>3. /\ \A n \in costed : n <= attempts'
        /\ attempts' \notin costed
    BY <2>2 DEF CostInv
  <2>4. HasCurrent'
    BY <2>2, AccountsAssumption DEF HasCurrent
  <2> QED BY <2>1, <2>2, <2>3, <2>4 DEF CostInv, BudgetCharge, AttemptCharge
<1>2. CASE ExecuteMismatch
  BY <1>2, FinishState, CostSettles DEF ExecuteMismatch, Finish
<1>3. ASSUME NEW e \in ExecuteErrors, NEW w \in BOOLEAN, ExecuteError(e, w) PROVE CostInv'
  <2>1. UNCHANGED <<attempts, current>> /\ pc \in Preparing
    BY <1>3 DEF ExecuteError
  <2>2. CASE FinishRetainedFailure
    BY <2>1, <2>2, RetainedCost
  <2>3. CASE (\E x, s : FinishProviderError(x, s)) /\ UNCHANGED budgetVars
    BY <2>1, <2>3, ProviderErrorState, CostSettles
  <2>4. CASE pc' = "preparing" /\ UNCHANGED <<finalization, pending_terminal_failure, budgetVars>>
    BY <2>1, <2>4 DEF CostInv, HasCurrent, BudgetCharge, AttemptCharge
  <2> QED BY <1>3, <2>2, <2>3, <2>4 DEF ExecuteError
<1>4. CASE OpenConnection
  <2>1. current'.account = current.account
    BY <1>4 DEF OpenConnection, TypeOK, AttemptTypes, CurrentAttempts
  <2> QED BY <1>4, <2>1 DEF OpenConnection, CostInv, HasCurrent, BudgetCharge, AttemptCharge
<1>5. ASSUME NEW ev \in StreamEvents, StreamItem(ev) PROVE CostInv'
  <2>1. HasCurrent /\ pc' \notin Preparing
    BY <1>5 DEF StreamItem, ReadsCurrent, HandOver
  <2> QED BY <1>5, <2>1, ObservedCost DEF StreamItem
<1>6. CASE StreamEnd
  <2>1. UNCHANGED <<budgetVars, attempts, current, failureVars>>
    BY <1>6 DEF StreamEnd
  <2>2. CASE FinishSuccess
    BY <2>1, <2>2, FinishState, CostSettles DEF FinishSuccess, Finish
  <2>3. CASE pc' = "idle" /\ UNCHANGED finishVars
    BY <2>1, <2>3 DEF CostInv, HasCurrent, BudgetCharge, AttemptCharge
  <2> QED BY <1>6, <2>2, <2>3 DEF StreamEnd
<1>7. ASSUME NEW e \in StreamErrors, NEW fits \in BOOLEAN, NEW pause \in BOOLEAN,
             BeginStreamFailure(e, fits, pause)
      PROVE  CostInv'
  <2>1. HasCurrent /\ pc' \notin Preparing
    BY <1>7 DEF BeginStreamFailure, ReadsCurrent
  <2> QED BY <1>7, <2>1, ObservedCost DEF BeginStreamFailure
<1> QED BY <1>1, <1>2, <1>3, <1>4, <1>5, <1>6, <1>7 DEF ProviderStep

(* Every step keeps the charge equal to the costs that were taken.          *)
LEMMA CostStep ==
    ASSUME TypeOK, Inv, ReadsCurrent, CostInv, [Next]_vars PROVE CostInv'
<1>1. CASE ConnectionWindowExpires \/ DropCall \/ Keepalive \/ Environment \/ UNCHANGED vars
  BY <1>1 DEF ConnectionWindowExpires, DropCall, Keepalive, Environment, vars,
              CostInv, HasCurrent, BudgetCharge, AttemptCharge
<1>2. CASE DropAtCompletion
  <2>1. HasCurrent /\ pc' \notin Preparing
    BY <1>2 DEF DropAtCompletion, ReadsCurrent
  <2>2. current'.account = current.account
    BY <1>2 DEF DropAtCompletion, TypeOK, AttemptTypes, CurrentAttempts
  <2> QED BY <1>2, <2>1, <2>2, ObservedCost DEF DropAtCompletion
<1> QED BY <1>1, <1>2, CallerCost, SessionCost, ProviderCost DEF Next, Terminated

(* A finalized request has been charged exactly once for every attempt      *)
(* whose cost the session took while the attempt ran, however many there    *)
(* were, in whichever order the costs arrived, and also when it ends with   *)
(* the failure of an attempt discarded long before, whose batch is then     *)
(* observed a second time (reset_uncommitted_observations,                  *)
(* finish_retained_failure, budget_charge).  Conversely nothing else is     *)
(* charged: the metering of a batch that begin_stream_failure leaves in a   *)
(* retried error is not taken, and finish_retained_failure marks it as      *)
(* counted.                                                                 *)
THEOREM ChargedForEachCost == Spec => []ChargedOncePerCost
<1>1. Init => CostInv
  BY NothingPending, FS_EmptySet
     DEF Init, CostInv, HasCurrent, BudgetCharge, AttemptCharge
<1>2. TypeOK /\ ReadsCurrent /\ Inv /\ CostInv /\ [Next]_vars => CostInv'
  BY CostStep
<1>3. CostInv => ChargedOncePerCost
  BY DEF CostInv, ChargedOncePerCost
<1> QED BY <1>1, <1>2, <1>3, PhasesCorrect, PTL DEF Spec


-----------------------------------------------------------------------------
(* The budgets of the retry loop.                                          *)

(* The attempt being prepared has a routing attempt left or recovers a      *)
(* transport, and each counter stays within its budget.                     *)
CountersInv ==
    /\ pc \in Taken => attempt.transport_recovery \/ routing_attempts < MaxAttempts
    /\ routing_attempts <= MaxAttempts
    /\ account_switches <= MaxAccountSwitches
    /\ connection_retries <= MaxOpenings - 1

(* Every pin is the account of the last routing attempt: of the current     *)
(* attempt, of a retry, of a rotated connection, of a credential recovery.  *)
(* Without a required account only an attempt that pins nothing may change  *)
(* the account, and it was checked against the switch limit.                *)
PinsInv ==
    /\ HasCurrent => current.account = last_selected_account
    /\ \A r \in {pending_retry, connection_rotation} :
         r # NoRetry => r.account = last_selected_account /\ r.account # NoAccount
    /\ recovery_account \in {NoAccount, last_selected_account}
    /\ RequiredAccount # NoAccount => last_selected_account \in {NoAccount, RequiredAccount}
    /\ attempt.transport_recovery =>
         attempt.pin = last_selected_account /\ attempt.pin # NoAccount
    /\ pc \in {"delaying", "selecting"} => attempt.pin \in {NoAccount, last_selected_account}
    /\ pc = "executing" =>
         /\ attempt.pin \in {RequiredAccount, last_selected_account}
         /\ recovery_account # NoAccount => attempt.pin = last_selected_account
         /\ attempt.pin = NoAccount =>
              /\ RequiredAccount = NoAccount
              /\ last_selected_account = NoAccount \/ account_switches < MaxAccountSwitches

RouteInv == CountersInv /\ PinsInv

(* A step outside prepare_attempt that neither counts nor pins.             *)
LEMMA RouteKeeps ==
    ASSUME RouteInv, UNCHANGED <<routeVars, pendingVars, recovery_account, connection_retries>>,
           attempt' \in {attempt, NoLocals}, current'.account \in {current.account, NoAccount},
           pc' \notin Taken
    PROVE  RouteInv'
<1>1. CountersInv'
  BY DEF RouteInv, CountersInv
<1>2. attempt'.transport_recovery =>
        attempt.transport_recovery /\ attempt'.pin = attempt.pin
  BY NothingPending
<1>3. PinsInv'
  BY <1>2 DEF RouteInv, PinsInv, HasCurrent, Taken
<1> QED BY <1>1, <1>3 DEF RouteInv

(* A step that leaves all of it alone.                                      *)
LEMMA RouteStays ==
    ASSUME RouteInv, UNCHANGED <<routeVars, pendingVars, recovery_account, connection_retries,
                                 attempt, current, pc>>
    PROVE  RouteInv'
BY DEF RouteInv, CountersInv, PinsInv, HasCurrent

(* The caller's operations start no attempt.                                *)
LEMMA CallerRoute == ASSUME RouteInv, CallerStep PROVE RouteInv'
<1>1. /\ UNCHANGED <<selectionVars, attemptVars>>
      /\ pc' \notin Taken
  BY FinishState DEF CallerStep, NextEvent, CollectUncommitted, DeferDownstreamCommit,
         CommitDownstream, Callable, CancelAndFinalize, FailDelivery, EndSession, Close,
         FinishProviderError, FinishLocalFailure, Finish, Taken
<1> QED BY <1>1, RouteKeeps

(* The retained failure is where prepare_attempt gives up.                  *)
LEMMA RetainedRoute == ASSUME FinishRetainedFailure PROVE pc' \notin Taken
BY LocalFailureState, ProviderErrorState DEF FinishRetainedFailure, EndWithFailure, Taken

(* prepare_attempt tests the routing budget and takes the pin of the retry. *)
LEMMA PrepareRoute ==
    ASSUME TypeOK, Inv, PendingInv, RouteInv, PrepareAttempt PROVE RouteInv'
<1>1. /\ pc = "preparing" /\ pending_retry' = NoRetry
      /\ UNCHANGED <<routeVars, connection_rotation, recovery_account, connection_retries, current>>
  BY DEF PrepareAttempt
<1>2. CASE FinishRetainedFailure
  <2>1. UNCHANGED attempt /\ pc' \notin Taken
    BY <1>2, RetainedRoute DEF PrepareAttempt, Taken, FinishRetainedFailure
  <2> QED BY <1>1, <2>1 DEF RouteInv, CountersInv, PinsInv, HasCurrent, Taken
<1>3. CASE ~FinishRetainedFailure
  <2>1. /\ attempt'.pin = pending_retry.account
        /\ attempt'.transport_recovery = pending_retry.transport_recovery
        /\ attempt'.transport_recovery \/ routing_attempts < MaxAttempts
        /\ pc' \in {"delaying", "selecting"}
    BY <1>3 DEF PrepareAttempt
  <2>2. \/ attempt'.pin = last_selected_account /\ attempt'.pin # NoAccount
        \/ attempt'.pin = NoAccount /\ ~attempt'.transport_recovery
    BY <2>1, NothingPending DEF RouteInv, PinsInv
  <2>3. CountersInv'
    BY <1>1, <2>1 DEF RouteInv, CountersInv
  <2>4. PinsInv'
    BY <1>1, <2>1, <2>2 DEF RouteInv, PinsInv, HasCurrent
  <2> QED BY <2>3, <2>4 DEF RouteInv
<1> QED BY <1>2, <1>3

(* An attempt free to choose its account is tested against the switch       *)
(* limit.                                                                   *)
LEMMA SelectRoute == ASSUME TypeOK, Inv, RouteInv, SelectAccount PROVE RouteInv'
<1>1. /\ pc = "selecting"
      /\ recovery_account' \in {recovery_account, NoAccount}
      /\ UNCHANGED <<routeVars, pendingVars, connection_retries, current>>
  BY DEF SelectAccount
<1>2. CASE FinishRetainedFailure
  <2>1. attempt' = NoLocals /\ pc' \notin Taken
    BY <1>2, RetainedRoute DEF SelectAccount, Taken
  <2>2. attempt'.transport_recovery = FALSE
    BY <2>1, NothingPending
  <2> QED BY <1>1, <2>1, <2>2 DEF RouteInv, CountersInv, PinsInv, HasCurrent, Taken
<1>u. CASE attempt' = NoLocals /\ pc' = "finalizing"
  <2>1. attempt'.transport_recovery = FALSE
    BY <1>u, NothingPending
  <2> QED BY <1>1, <1>u, <2>1 DEF RouteInv, CountersInv, PinsInv, HasCurrent, Taken
<1>3. CASE ~FinishRetainedFailure /\ ~(attempt' = NoLocals /\ pc' = "finalizing")
  <2> DEFINE pin == AttemptPin
  <2>1. attempt \in AttemptLocals
    BY DEF TypeOK, AttemptTypes
  <2>s. /\ ~SelectionExhausted /\ pc' = "executing"
        /\ attempt' = [attempt EXCEPT
                         !.pin = AttemptPin,
                         !.transport = IF attempt.pin # NoAccount THEN attempt.transport
                                       ELSE connection_rotation.transport]
        /\ recovery_account' = IF RecoveryExpired \/ attempt.pin # NoAccount
                               THEN recovery_account ELSE NoAccount
    BY <1>3, LocalFailureState, ProviderErrorState DEF SelectAccount
  <2>2. /\ attempt'.pin = pin /\ attempt'.transport_recovery = attempt.transport_recovery
        /\ ~(pin = NoAccount /\ SwitchesExhausted) /\ pc' = "executing"
    BY <2>1, <2>s DEF SelectionExhausted, AttemptLocals
  <2>3. attempt.pin \in {NoAccount, last_selected_account}
    BY <1>1 DEF RouteInv, PinsInv
  <2>4. pin \in {RequiredAccount, last_selected_account}
    BY <2>3 DEF RouteInv, PinsInv, AttemptPin
  <2>5. pin = NoAccount => ~attempt.transport_recovery /\ RequiredAccount = NoAccount
    BY DEF RouteInv, PinsInv, AttemptPin
  <2>6. pin = NoAccount =>
          last_selected_account = NoAccount \/ account_switches < MaxAccountSwitches
    BY <2>2, <2>5, TuningAssumption DEF SwitchesExhausted, TypeOK, RouteTypes
  <2>7. attempt.transport_recovery => pin = attempt.pin
    BY DEF RouteInv, PinsInv, AttemptPin
  <2>r. recovery_account' # NoAccount => pin = last_selected_account
    BY <2>3, <2>s DEF SelectionExhausted, AttemptPin
  <2> HIDE DEF pin
  <2>8. CountersInv'
    BY <1>1, <2>2 DEF RouteInv, CountersInv, Taken
  <2>9. PinsInv'
    BY <1>1, <2>2, <2>4, <2>5, <2>6, <2>7, <2>r DEF RouteInv, PinsInv, HasCurrent
  <2> QED BY <2>8, <2>9 DEF RouteInv
<1> QED BY <1>2, <1>u, <1>3

(* The session's own steps.                                                 *)
LEMMA SessionRoute ==
    ASSUME TypeOK, Inv, PendingInv, RouteInv, SessionStep PROVE RouteInv'
<1>1. CASE Start \/ AttemptRecorded \/ CommitRecorded \/ FinalizationWritten
             \/ TerminalFailureSettled
  <2>1. pc' \notin Taken
    BY <1>1, FinishState, ProviderErrorState
       DEF Start, AttemptRecorded, CommitRecorded, FinalizationWritten, FinishSuccess, Finish,
           TerminalFailureSettled, FinishCancelled, FinishDeadline, FinishLocalFailure, Taken
  <2> QED BY <1>1, <2>1, RouteKeeps
          DEF Start, AttemptRecorded, CommitRecorded, FinalizationWritten, TerminalFailureSettled
<1>2. CASE DelayElapsed
  BY <1>2 DEF DelayElapsed, RouteInv, CountersInv, PinsInv, HasCurrent, Taken
<1>3. CASE SendObserved
  <2>1. current'.account = current.account /\ pc' \notin Taken
    BY <1>3 DEF SendObserved, HandOver, TypeOK, AttemptTypes, CurrentAttempts, Taken
  <2> QED BY <1>3, <2>1, RouteKeeps DEF SendObserved
<1>4. CASE Interrupted
  <2>1. pc' \notin Taken
    BY <1>4, LocalFailureState DEF Interrupted, FinishCancelled, FinishDeadline, Taken
  <2> QED BY <1>4, <2>1, RouteKeeps DEF Interrupted
<1>5. CASE ResumeStreamFailure
  <2>1. pc' \notin Taken
    BY <1>5, ProviderErrorState DEF ResumeStreamFailure, EndWithFailure, Taken
  <2>2. current' \in {current, NoCurrent} /\ UNCHANGED <<selectionVars, attempt>>
    BY <1>5 DEF ResumeStreamFailure
  <2> QED BY <2>1, <2>2, RouteKeeps, NothingPending
<1> QED BY <1>1, <1>2, <1>3, <1>4, <1>5, PrepareRoute, SelectRoute DEF SessionStep

(* An accepted attempt changes the account only if it was free to.          *)
LEMMA AcceptedRoute ==
    ASSUME TypeOK, Inv, PendingInv, RouteInv, NEW a \in Accounts, ExecuteOk(a)
    PROVE  RouteInv'
<1>1. /\ pc = "executing" /\ attempt.pin \in {NoAccount, a} /\ a # NoAccount
      /\ connection_rotation' = NoRetry /\ attempt' = NoLocals
      /\ current'.account = a /\ pc' = "recording"
      /\ UNCHANGED <<pending_retry, recovery_account, connection_retries>>
  BY AccountsAssumption DEF ExecuteOk, Accepted
<1>2. /\ routing_attempts \in Nat /\ account_switches \in Nat
      /\ MaxAttempts \in Nat /\ MaxAccountSwitches \in Nat
  BY TuningAssumption DEF TypeOK, RouteTypes
<1>3. pending_retry = NoRetry
  BY <1>1 DEF PendingInv, Inv, PhaseInv
<1>4. attempt.transport_recovery => a = last_selected_account
  BY <1>1 DEF RouteInv, PinsInv
<1>5. last_selected_account \in {NoAccount, a} \/ account_switches < MaxAccountSwitches
  BY <1>1 DEF RouteInv, PinsInv
<1>6. RequiredAccount # NoAccount => a = RequiredAccount
  BY <1>1 DEF RouteInv, PinsInv
<1>7. recovery_account # NoAccount => a = recovery_account
  BY <1>1 DEF RouteInv, PinsInv
<1>8. /\ attempt'.transport_recovery = FALSE
      /\ last_selected_account' = a \/ (attempt.transport_recovery /\ UNCHANGED last_selected_account)
  BY <1>1, NothingPending DEF ExecuteOk
<1>9. last_selected_account' = a
  BY <1>4, <1>8
<1>10. /\ routing_attempts' <= MaxAttempts
       /\ account_switches' <= MaxAccountSwitches
  <2>1. CASE attempt.transport_recovery
    BY <2>1 DEF ExecuteOk, RouteInv, CountersInv
  <2>2. CASE ~attempt.transport_recovery
    <3>1. routing_attempts' = routing_attempts + 1 /\ routing_attempts < MaxAttempts
      BY <1>1, <2>2 DEF ExecuteOk, RouteInv, CountersInv, Taken
    <3>2. /\ account_switches' = account_switches
               + (IF last_selected_account \notin {NoAccount, a} THEN 1 ELSE 0)
          /\ account_switches <= MaxAccountSwitches
      BY <2>2 DEF ExecuteOk, RouteInv, CountersInv
    <3> QED BY <1>2, <1>5, <3>1, <3>2
  <2> QED BY <2>1, <2>2
<1>11. CountersInv'
  BY <1>1, <1>10 DEF RouteInv, CountersInv, Taken
<1>12. PinsInv'
  BY <1>1, <1>3, <1>6, <1>7, <1>8, <1>9 DEF PinsInv, HasCurrent
<1> QED BY <1>11, <1>12 DEF RouteInv

(* A refused selection pins at most the account it rotated away from.       *)
LEMMA RefusedRoute ==
    ASSUME TypeOK, Inv, PendingInv, RouteInv,
           NEW e \in ExecuteErrors, NEW w \in BOOLEAN, ExecuteError(e, w)
    PROVE  RouteInv'
<1>1. /\ pc = "executing" /\ attempt' = NoLocals
      /\ UNCHANGED <<routeVars, recovery_account, connection_retries, current>>
  BY DEF ExecuteError
<1>2. pc' \notin Taken
  BY RetainedRoute, ProviderErrorState DEF ExecuteError, Taken
<1>3. /\ pending_retry' \in {pending_retry, connection_rotation}
      /\ connection_rotation' \in {connection_rotation, NoRetry}
  BY DEF ExecuteError
<1>4. attempt'.transport_recovery = FALSE
  BY <1>1, NothingPending
<1>5. CountersInv'
  BY <1>1, <1>2 DEF RouteInv, CountersInv
<1>6. PinsInv'
  BY <1>1, <1>2, <1>3, <1>4 DEF RouteInv, PinsInv, HasCurrent, Taken
<1> QED BY <1>5, <1>6 DEF RouteInv

(* A failed attempt pins its own account, and spends a connection retry     *)
(* only while one is left.                                                  *)
LEMMA FailureRoute ==
    ASSUME TypeOK, Inv, ReadsCurrent, PendingInv, RouteInv,
           NEW e \in StreamErrors, NEW fits \in BOOLEAN, NEW pause \in BOOLEAN,
           BeginStreamFailure(e, fits, pause)
    PROVE  RouteInv'
<1>1. /\ pc = "polling" /\ pc' = "failing" /\ HasCurrent
      /\ UNCHANGED <<routeVars, attempt, current>>
  BY DEF BeginStreamFailure, ReadsCurrent
<1>2. current.account = last_selected_account /\ current.account # NoAccount
  BY <1>1 DEF RouteInv, PinsInv, HasCurrent
<1>3. recovery_account' \in {recovery_account, current.account}
  BY DEF BeginStreamFailure
<1>4. /\ pending_retry' = pending_retry \/ pending_retry'.account = current.account
      /\ connection_rotation' = connection_rotation
           \/ connection_rotation'.account = current.account
  BY DEF BeginStreamFailure
<1>5. /\ connection_retries \in Nat /\ MaxOpenings \in Nat
      /\ connection_retries <= MaxOpenings - 1
  BY TuningAssumption DEF TypeOK, RetryTypes, RouteInv, CountersInv
<1>6. connection_retries' <= MaxOpenings - 1
  BY <1>5 DEF BeginStreamFailure, ConnectionRecovery, ConnectionRetryDelay
<1>7. CountersInv'
  BY <1>1, <1>6 DEF RouteInv, CountersInv, Taken
<1>8. PinsInv'
  BY <1>1, <1>2, <1>3, <1>4 DEF RouteInv, PinsInv, HasCurrent
<1> QED BY <1>7, <1>8 DEF RouteInv

(* Every step stays within the budgets of the plan.                         *)
LEMMA RouteStep ==
    ASSUME TypeOK, Inv, ReadsCurrent, PendingInv, RouteInv, [Next]_vars PROVE RouteInv'
<1>1. CASE ExecuteMismatch
  <2>1. /\ pc' \notin Taken /\ attempt' = NoLocals
        /\ connection_rotation' \in {connection_rotation, NoRetry}
        /\ UNCHANGED <<routeVars, pending_retry, recovery_account, connection_retries, current>>
    BY <1>1, FinishState DEF ExecuteMismatch, Finish, Taken
  <2>2. attempt'.transport_recovery = FALSE
    BY <2>1, NothingPending
  <2>3. CountersInv'
    BY <2>1 DEF RouteInv, CountersInv
  <2>4. PinsInv'
    BY <2>1, <2>2 DEF RouteInv, PinsInv, HasCurrent, Taken
  <2> QED BY <2>3, <2>4 DEF RouteInv
<1>2. CASE OpenConnection
  <2>1. current'.account = current.account
    BY <1>2 DEF OpenConnection, TypeOK, AttemptTypes, CurrentAttempts
  <2> QED BY <1>2, <2>1, RouteKeeps DEF OpenConnection, Taken
<1>3. CASE StreamEnd \/ (\E ev \in StreamEvents : StreamItem(ev))
  <2>1. pc' \notin Taken
    BY <1>3, FinishState DEF StreamEnd, StreamItem, HandOver, FinishSuccess, Finish, Taken
  <2> QED BY <1>3, <2>1, RouteKeeps DEF StreamEnd, StreamItem
<1>4. CASE ProviderStep
  BY <1>1, <1>2, <1>3, <1>4, AcceptedRoute, RefusedRoute, FailureRoute DEF ProviderStep
<1>5. CASE DropCall
  BY <1>5, RouteKeeps DEF DropCall, Taken
<1>d. CASE DropAtCompletion
  <2>1. current'.account = current.account
    BY <1>d DEF DropAtCompletion, TypeOK, AttemptTypes, CurrentAttempts
  <2> QED BY <1>d, <2>1, RouteKeeps DEF DropAtCompletion, Taken
<1>6. CASE ConnectionWindowExpires \/ Keepalive \/ Environment \/ UNCHANGED vars
  BY <1>6, RouteStays DEF ConnectionWindowExpires, Keepalive, Environment, vars
<1> QED BY <1>4, <1>5, <1>d, <1>6, CallerRoute, SessionRoute DEF Next, Terminated


(* The attempts the routing attempts and connection retries so far allow:   *)
(* each routing attempt with a whole chain of transports.                   *)
Spent == routing_attempts * (2 + MaxTransportRetries) + connection_retries

(* The transports an attempt may still go through on its account are not    *)
(* spent yet; a retry that is counted by no routing attempt has moved down  *)
(* the chain or was paid for by a connection retry.                         *)
ChainInv ==
    /\ attempts <= Spent
    /\ HasCurrent => attempts + (FallbackTransport - current.transport) <= Spent
    /\ \A r \in {pending_retry, connection_rotation, attempt} :
         r.transport_recovery => attempts + 1 + (FallbackTransport - r.transport) <= Spent

(* What is counted.                                                         *)
LEMMA SpentType ==
    ASSUME TypeOK
    PROVE  /\ Spent \in Nat /\ attempts \in Nat /\ connection_retries \in Nat
           /\ routing_attempts \in Nat
           /\ MaxTransportRetries \in Nat /\ FallbackTransport = MaxTransportRetries + 1
           /\ current.transport \in 0..FallbackTransport
           /\ attempt.transport \in 0..FallbackTransport
<1>1. /\ attempts \in Nat /\ connection_retries \in Nat /\ routing_attempts \in Nat
      /\ MaxTransportRetries \in Nat /\ FallbackTransport = MaxTransportRetries + 1
  BY TuningAssumption DEF TypeOK, RouteTypes, RetryTypes, FallbackTransport
<1>2. Spent \in Nat
  BY <1>1 DEF Spent
<1>3. current.transport \in 0..FallbackTransport /\ attempt.transport \in 0..FallbackTransport
  BY DEF TypeOK, AttemptTypes, CurrentAttempts, AttemptLocals, Transports
<1> QED BY <1>1, <1>2, <1>3

(* A step that counts nothing and hands a retry on, or forgets it.          *)
LEMMA ChainKeeps ==
    ASSUME ChainInv, UNCHANGED <<attempts, routing_attempts, connection_retries>>,
           current'.account = NoAccount
             \/ (HasCurrent /\ current'.transport = current.transport),
           pending_retry' \in {pending_retry, connection_rotation, NoRetry},
           connection_rotation' \in {connection_rotation, NoRetry},
           attempt'.transport_recovery =>
             \E r \in {pending_retry, attempt} :
               r.transport_recovery /\ attempt'.transport = r.transport
    PROVE  ChainInv'
<1>1. Spent' = Spent /\ FallbackTransport' = FallbackTransport
  BY DEF Spent, FallbackTransport
<1>2. attempts' <= Spent'
  BY <1>1 DEF ChainInv
<1>3. HasCurrent' => attempts' + (FallbackTransport - current'.transport) <= Spent'
  BY <1>1 DEF ChainInv, HasCurrent
<1>4. ASSUME NEW r \in {pending_retry', connection_rotation'}, r.transport_recovery
      PROVE  attempts' + 1 + (FallbackTransport - r.transport) <= Spent'
  BY <1>1, <1>4, NothingPending DEF ChainInv
<1>5. attempt'.transport_recovery =>
        attempts' + 1 + (FallbackTransport - attempt'.transport) <= Spent'
  BY <1>1 DEF ChainInv
<1> QED BY <1>1, <1>2, <1>3, <1>4, <1>5 DEF ChainInv

(* The caller's operations count nothing.                                   *)
LEMMA CallerChain == ASSUME ChainInv, CallerStep PROVE ChainInv'
<1>1. UNCHANGED <<selectionVars, attemptVars>>
  BY DEF CallerStep, NextEvent, CollectUncommitted, DeferDownstreamCommit,
         CommitDownstream, CancelAndFinalize, FailDelivery, EndSession, Close
<1> QED BY <1>1, ChainKeeps DEF HasCurrent

(* The session's own steps hand the pending retry to the attempt.           *)
LEMMA SessionChain == ASSUME TypeOK, RouteInv, ChainInv, SessionStep PROVE ChainInv'
<1>1. CASE Start \/ DelayElapsed \/ AttemptRecorded \/ CommitRecorded \/ FinalizationWritten
             \/ TerminalFailureSettled
  BY <1>1, ChainKeeps
     DEF Start, DelayElapsed, AttemptRecorded, CommitRecorded, FinalizationWritten,
         TerminalFailureSettled, HasCurrent
<1>2. CASE PrepareAttempt
  <2>1. /\ UNCHANGED <<attempts, routing_attempts, connection_retries, current, connection_rotation>>
        /\ pending_retry' = NoRetry
    BY <1>2 DEF PrepareAttempt
  <2>2. attempt'.transport_recovery =>
          \E r \in {pending_retry, attempt} :
            r.transport_recovery /\ attempt'.transport = r.transport
    BY <1>2 DEF PrepareAttempt
  <2> QED BY <2>1, <2>2, ChainKeeps DEF HasCurrent
<1>3. CASE SelectAccount
  <2>1. UNCHANGED <<attempts, routing_attempts, connection_retries, current, pendingVars>>
    BY <1>3 DEF SelectAccount
  <2>2. attempt.transport_recovery => attempt.pin # NoAccount
    BY DEF RouteInv, PinsInv
  <2>3. attempt'.transport_recovery =>
          attempt.transport_recovery /\ attempt'.transport = attempt.transport
    BY <1>3, <2>2, NothingPending DEF SelectAccount, TypeOK, AttemptTypes, AttemptLocals
  <2> QED BY <2>1, <2>3, ChainKeeps DEF HasCurrent
<1>4. CASE SendObserved
  <2>1. /\ current'.account = current.account /\ current'.transport = current.transport
        /\ UNCHANGED <<selectionVars, attempt>>
    BY <1>4 DEF SendObserved, TypeOK, AttemptTypes, CurrentAttempts
  <2> QED BY <2>1, ChainKeeps DEF HasCurrent
<1>5. CASE Interrupted
  <2>1. UNCHANGED <<selectionVars, current>> /\ attempt'.transport_recovery = FALSE
    BY <1>5, NothingPending DEF Interrupted
  <2> QED BY <2>1, ChainKeeps DEF HasCurrent
<1>6. CASE ResumeStreamFailure
  <2>1. UNCHANGED <<selectionVars, attempt>> /\ current' \in {current, NoCurrent}
    BY <1>6 DEF ResumeStreamFailure
  <2> QED BY <2>1, ChainKeeps, NothingPending DEF HasCurrent
<1> QED BY <1>1, <1>2, <1>3, <1>4, <1>5, <1>6 DEF SessionStep

(* A routing attempt brings a whole chain, a recovery uses up its place in  *)
(* the chain it continues.                                                  *)
LEMMA AcceptedChain ==
    ASSUME TypeOK, Inv, PendingInv, ChainInv, NEW a \in Accounts, ExecuteOk(a)
    PROVE  ChainInv'
<1>1. /\ pc = "executing" /\ attempts' = attempts + 1
      /\ current'.transport = attempt.transport
      /\ connection_rotation' = NoRetry /\ attempt' = NoLocals
      /\ UNCHANGED <<pending_retry, connection_retries>>
  BY DEF ExecuteOk
<1>2. pending_retry = NoRetry
  BY <1>1 DEF PendingInv, Inv, PhaseInv
<1>3. \A r \in {pending_retry', connection_rotation', attempt'} : ~r.transport_recovery
  BY <1>1, <1>2, NothingPending
<1>4. attempts' + (FallbackTransport - attempt.transport) <= Spent'
  <2>1. CASE attempt.transport_recovery
    <3>1. Spent' = Spent
      BY <1>1, <2>1 DEF ExecuteOk, Spent
    <3>2. attempts + 1 + (FallbackTransport - attempt.transport) <= Spent
      BY <2>1 DEF ChainInv
    <3> QED BY <1>1, <3>1, <3>2
  <2>2. CASE ~attempt.transport_recovery
    <3>1. routing_attempts' = routing_attempts + 1
      BY <2>2 DEF ExecuteOk
    <3>2. Spent' = Spent + (2 + MaxTransportRetries)
      BY <1>1, <3>1, SpentType DEF Spent
    <3>3. attempts <= Spent
      BY DEF ChainInv
    <3> QED BY <1>1, <3>2, <3>3, SpentType
  <2> QED BY <2>1, <2>2
<1>5. attempts' <= Spent'
  <2>1. Spent' \in Int
    BY <1>1, SpentType DEF Spent, ExecuteOk
  <2> QED BY <1>1, <1>4, <2>1, SpentType
<1> QED BY <1>1, <1>3, <1>4, <1>5 DEF ChainInv, FallbackTransport

(* A failed attempt recovers its transport only further down the chain, or  *)
(* pays with a connection retry.                                            *)
LEMMA FailureChain ==
    ASSUME TypeOK, Inv, ReadsCurrent, ChainInv,
           NEW e \in StreamErrors, NEW fits \in BOOLEAN, NEW pause \in BOOLEAN,
           BeginStreamFailure(e, fits, pause)
    PROVE  ChainInv'
<1> DEFINE eff == EffectiveError(e)
           follow == FollowUp(eff, fits)
<1>1. /\ HasCurrent /\ UNCHANGED <<attempts, routing_attempts, attempt, current>>
  BY DEF BeginStreamFailure, ReadsCurrent
<1>2. connection_retries' = IF ConnectionRecovery(eff, fits) THEN connection_retries + 1
                            ELSE connection_retries
  BY DEF BeginStreamFailure
<1>3. /\ Spent' = Spent + (IF ConnectionRecovery(eff, fits) THEN 1 ELSE 0)
      /\ Spent <= Spent' /\ Spent' \in Nat
  BY <1>1, <1>2, SpentType DEF Spent
<1>4. attempts + (FallbackTransport - current.transport) <= Spent
  BY <1>1 DEF ChainInv
<1>5. ASSUME follow \in {"transport", "rotation"}
      PROVE  attempts + 1 + (FallbackTransport - RetryTransport(eff)) <= Spent'
  <2>1. Retryable(eff, fits) /\ ~eff.retry_prohibited
    BY <1>5 DEF FollowUp, Retryable
  <2>2. TransportRecovery(eff) \/ ConnectionRecovery(eff, fits)
    BY <1>5 DEF FollowUp
  <2>3. eff = e
    <3>1. last_retryable_failure \in ProviderError
      BY DEF TypeOK, RetryTypes
    <3> QED BY <2>1, <3>1 DEF EffectiveError, ProviderError
  <2>4. MayRaise(e)
    BY DEF BeginStreamFailure
  <2> HIDE DEF eff, follow
  <2>5. CASE eff.pre_delivery_retry = "ConnectionRetry"
    <3>1. ConnectionRecovery(eff, fits)
      BY <2>2, <2>5 DEF TransportRecovery
    <3>2. RetryTransport(eff) = FallbackTransport
      BY <2>5 DEF RetryTransport
    <3>3. attempts <= Spent /\ Spent' = Spent + 1
      BY <1>3, <3>1 DEF ChainInv
    <3> QED BY <3>2, <3>3, SpentType
  <2>6. CASE eff.pre_delivery_retry = "TransportRetry"
    <3>1. RetryTransport(eff) = current.transport + 1
      BY <2>6 DEF RetryTransport
    <3> QED BY <1>3, <1>4, <3>1, SpentType
  <2>7. CASE eff.pre_delivery_retry = "TransportFallback"
    <3>1. RetryTransport(eff) = FallbackTransport
      BY <2>7 DEF RetryTransport
    <3>2. current.transport # FallbackTransport
      BY <2>3, <2>4, <2>7 DEF MayRaise
    <3> QED BY <1>3, <1>4, <3>1, <3>2, SpentType
  <2> QED BY <2>2, <2>5, <2>6, <2>7 DEF TransportRecovery, ConnectionRecovery
<1>6. /\ \/ pending_retry' = pending_retry
         \/ /\ follow \in {"transient", "transport"}
            /\ pending_retry'.transport = RetryTransport(eff)
            /\ pending_retry'.transport_recovery = (follow # "transient")
      /\ \/ connection_rotation' = connection_rotation
         \/ /\ follow = "rotation"
            /\ connection_rotation'.transport = RetryTransport(eff)
  BY DEF BeginStreamFailure
<1> HIDE DEF eff, follow
<1>7. /\ attempts' <= Spent'
      /\ attempts' + (FallbackTransport - current'.transport) <= Spent'
  BY <1>1, <1>3, <1>4, SpentType DEF ChainInv
<1>8. ASSUME NEW r \in {pending_retry, connection_rotation, attempt}, r.transport_recovery
      PROVE  attempts' + 1 + (FallbackTransport - r.transport) <= Spent'
  <2>1. attempts + 1 + (FallbackTransport - r.transport) <= Spent
    BY <1>8 DEF ChainInv
  <2>2. r.transport \in 0..FallbackTransport
    BY DEF TypeOK, RetryTypes, AttemptTypes, Retries, AttemptLocals, Transports
  <2> QED BY <1>1, <1>3, <2>1, <2>2, SpentType
<1>9. pending_retry'.transport_recovery =>
        attempts' + 1 + (FallbackTransport - pending_retry'.transport) <= Spent'
  BY <1>1, <1>5, <1>6, <1>8
<1>10. connection_rotation'.transport_recovery =>
         attempts' + 1 + (FallbackTransport - connection_rotation'.transport) <= Spent'
  BY <1>1, <1>5, <1>6, <1>8
<1>11. attempt'.transport_recovery =>
         attempts' + 1 + (FallbackTransport - attempt'.transport) <= Spent'
  BY <1>1, <1>8
<1> QED BY <1>7, <1>9, <1>10, <1>11 DEF ChainInv, FallbackTransport

(* Every step keeps the count of attempts within what was spent.            *)
LEMMA ChainStep ==
    ASSUME TypeOK, Inv, ReadsCurrent, PendingInv, RouteInv, ChainInv, [Next]_vars PROVE ChainInv'
<1>1. CASE ExecuteMismatch
  <2>1. /\ UNCHANGED <<attempts, routing_attempts, connection_retries, current, pending_retry>>
        /\ connection_rotation' \in {connection_rotation, NoRetry}
        /\ attempt'.transport_recovery = FALSE
    BY <1>1, NothingPending DEF ExecuteMismatch
  <2> QED BY <2>1, ChainKeeps DEF HasCurrent
<1>2. CASE \E e \in ExecuteErrors, w \in BOOLEAN : ExecuteError(e, w)
  <2>1. /\ UNCHANGED <<attempts, routing_attempts, connection_retries, current>>
        /\ pending_retry' \in {pending_retry, connection_rotation}
        /\ connection_rotation' \in {connection_rotation, NoRetry}
        /\ attempt'.transport_recovery = FALSE
    BY <1>2, NothingPending DEF ExecuteError
  <2> QED BY <2>1, ChainKeeps DEF HasCurrent
<1>3. CASE OpenConnection
  <2>1. /\ current'.account = current.account /\ current'.transport = current.transport
        /\ UNCHANGED <<selectionVars, attempt>>
    BY <1>3 DEF OpenConnection, TypeOK, AttemptTypes, CurrentAttempts
  <2> QED BY <2>1, ChainKeeps DEF HasCurrent
<1>4. CASE StreamEnd \/ (\E ev \in StreamEvents : StreamItem(ev))
  BY <1>4, ChainKeeps DEF StreamEnd, StreamItem, HasCurrent
<1>5. CASE ProviderStep
  BY <1>1, <1>2, <1>3, <1>4, <1>5, AcceptedChain, FailureChain DEF ProviderStep
<1>6. CASE DropCall
  <2>1. UNCHANGED <<selectionVars, current>> /\ attempt'.transport_recovery = FALSE
    BY <1>6, NothingPending DEF DropCall
  <2> QED BY <2>1, ChainKeeps DEF HasCurrent
<1>d. CASE DropAtCompletion
  <2>1. /\ current'.account = current.account /\ current'.transport = current.transport
        /\ UNCHANGED <<selectionVars, attempt>>
    BY <1>d DEF DropAtCompletion, TypeOK, AttemptTypes, CurrentAttempts
  <2> QED BY <2>1, ChainKeeps DEF HasCurrent
<1>7. CASE ConnectionWindowExpires \/ Keepalive \/ Environment \/ UNCHANGED vars
  BY <1>7, ChainKeeps DEF ConnectionWindowExpires, Keepalive, Environment, vars, HasCurrent
<1> QED BY <1>5, <1>6, <1>d, <1>7, CallerChain, SessionChain DEF Next, Terminated

(* What is spent within the budgets stays within the bound.                 *)
LEMMA SpentBound ==
    ASSUME NEW r \in Nat, NEW m \in Nat, NEW k \in Nat, r <= m PROVE r * k <= m * k
BY Z3

(* A new session has spent nothing.                                         *)
LEMMA InitRoute == Init => PendingInv /\ RouteInv /\ ChainInv
<1> SUFFICES ASSUME Init PROVE PendingInv /\ RouteInv /\ ChainInv
  OBVIOUS
<1>1. PendingInv
  BY DEF Init, PendingInv
<1>2. RouteInv
  BY NothingPending, TuningAssumption DEF Init, RouteInv, CountersInv, PinsInv, HasCurrent, Taken
<1>3. Spent = 0
  BY TuningAssumption DEF Init, Spent
<1>4. ChainInv
  BY <1>3, NothingPending DEF Init, ChainInv, HasCurrent
<1> QED BY <1>1, <1>2, <1>4

(* The retry loop is bounded for every plan and every provider: routing     *)
(* attempts and account switches stay within the plan, and all attempts     *)
(* within one transport chain per routing attempt and one per connection    *)
(* retry.  No combination of retry classes, rotations, pins and fallbacks   *)
(* gets around the counters (prepare_attempt, begin_stream_failure).        *)
THEOREM RetriesBounded == Spec => []RetryBudgets
<1> DEFINE I == PendingInv /\ RouteInv /\ ChainInv
<1>1. Init => I
  BY InitRoute
<1>2. TypeOK /\ ReadsCurrent /\ Inv /\ I /\ [Next]_vars => I'
  BY PendingStep, RouteStep, ChainStep
<1>3. TypeOK /\ I => RetryBudgets
  <2> SUFFICES ASSUME TypeOK, RouteInv, ChainInv PROVE RetryBudgets
    OBVIOUS
  <2>1. /\ routing_attempts <= MaxAttempts /\ account_switches <= MaxAccountSwitches
        /\ connection_retries <= MaxOpenings - 1 /\ attempts <= Spent
    BY DEF RouteInv, CountersInv, ChainInv
  <2>2. /\ MaxAttempts \in Nat /\ MaxOpenings \in Nat /\ 2 + MaxTransportRetries \in Nat
        /\ routing_attempts \in Nat /\ connection_retries \in Nat /\ attempts \in Nat
    BY TuningAssumption, SpentType
  <2>3. /\ routing_attempts * (2 + MaxTransportRetries) <= MaxAttempts * (2 + MaxTransportRetries)
        /\ routing_attempts * (2 + MaxTransportRetries) \in Nat
        /\ MaxAttempts * (2 + MaxTransportRetries) \in Nat
    BY <2>1, <2>2, SpentBound
  <2>4. attempts <= AttemptBound
    BY <2>1, <2>2, <2>3 DEF Spent, AttemptBound
  <2> QED BY <2>1, <2>4 DEF RetryBudgets
<1> QED BY <1>1, <1>2, <1>3, PhasesCorrect, PTL DEF Spec


-----------------------------------------------------------------------------
(* The account a request stays on.                                         *)

(* A request with one provider and no owner it could be replayed away from. *)
OneRoute ==
    /\ Candidates = 1
    /\ Continuation # "pinned" \/ ~HasSessionState

(* A failure after which the request may not change its account: neither    *)
(* proved safe to replay nor sent away by the provider.                     *)
KeepsAccount(f) == ~ProvedReplaySafe(f) /\ f.pre_delivery_retry # "AccountRotation"

(* The session will start no other attempt.                                 *)
Over == finalization.state # "None" \/ pending_terminal_failure.present \/ detached

(* Such a failure that was not the last leaves a retry on its own account,  *)
(* which prepare_attempt turns into the pin of the attempt.                 *)
KeepInv ==
    KeepsAccount(last_retryable_failure) =>
        /\ pc = "preparing" \/ pending_stream_failure.kind = "Discard"
             => pending_retry.account # NoAccount
        /\ pc \in Taken => attempt.pin = last_selected_account /\ attempt.pin # NoAccount
        /\ HasCurrent \/ pc \in Preparing \/ Over

(* No failure at all keeps nothing.                                         *)
LEMMA NothingKept == ~KeepsAccount(NoError)
BY DEF KeepsAccount, ProvedReplaySafe, NoError

(* A step that ends an attempt, or leaves the retry alone.                  *)
LEMMA KeepKept ==
    ASSUME KeepInv, last_retryable_failure' \in {last_retryable_failure, NoError},
           UNCHANGED pending_retry, pc' \notin Taken,
           pc' = "preparing" => pc = "preparing" \/ ~(HasCurrent \/ pc \in Preparing \/ Over),
           pending_stream_failure'.kind = "Discard" => pending_stream_failure.kind = "Discard",
           \/ Over'
           \/ /\ current'.account = current.account /\ (Over => Over')
              /\ pc \in Preparing => pc' \in Preparing
    PROVE  KeepInv'
BY NothingKept DEF KeepInv, HasCurrent

(* The caller enters the attempt loop again only with an attempt, or before *)
(* the first one.                                                           *)
LEMMA CallerKeeps ==
    ASSUME TypeOK, Inv, KeepInv, CallerStep PROVE KeepInv'
<1>1. /\ UNCHANGED <<selectionVars, attemptVars>> /\ pc = "idle" /\ pc' \notin Taken
  BY FinishState DEF CallerStep, NextEvent, CollectUncommitted, DeferDownstreamCommit,
         CommitDownstream, Callable, CancelAndFinalize, FailDelivery, EndSession, Close,
         FinishProviderError, FinishLocalFailure, Finish, Taken
<1>2. pending_stream_failure'.kind = "Discard" => pending_stream_failure.kind = "Discard"
  BY NoFailureStates
     DEF CallerStep, NextEvent, CollectUncommitted, DeferDownstreamCommit,
         CommitDownstream, CancelAndFinalize, FailDelivery, EndSession, Close
<1>3. CASE NextEvent \/ CollectUncommitted
  <2>1. CASE pc' = "finalizing"
    <3>1. finalization'.state = "Pending"
      BY <1>3, <2>1, ProviderErrorState DEF NextEvent, CollectUncommitted
    <3> QED BY <1>1, <1>2, <2>1, <3>1, KeepKept DEF Over
  <2>2. CASE pc' # "finalizing"
    <3>1. /\ ~detached /\ finalization.state = "None" /\ ~pending_terminal_failure.present
          /\ pc' = IF HasCurrent THEN "polling" ELSE "preparing"
          /\ UNCHANGED <<finalization, pending_terminal_failure, envVars>>
      BY <1>3, <2>2, ProviderErrorState
         DEF NextEvent, CollectUncommitted, Callable, Inv, DeliveryInv
    <3>2. Over => Over'
      BY <3>1 DEF Over
    <3>3. pc' = "preparing" => ~(HasCurrent \/ pc \in Preparing \/ Over)
      BY <1>1, <3>1 DEF Over
    <3> QED BY <1>1, <1>2, <3>2, <3>3, KeepKept
  <2> QED BY <2>1, <2>2
<1>4. CASE DeferDownstreamCommit \/ CommitDownstream \/ Close
  <2>1. pc' # "preparing" /\ (Over => Over')
    BY <1>1, <1>4 DEF DeferDownstreamCommit, CommitDownstream, Close, Over
  <2> QED BY <1>1, <1>2, <2>1, KeepKept
<1>5. CASE CancelAndFinalize \/ FailDelivery
  <2>1. finalization'.state = "Pending" /\ pc' = "finalizing"
    BY <1>5, ProviderErrorState, LocalFailureState DEF CancelAndFinalize, FailDelivery, EndSession
  <2> QED BY <1>1, <1>2, <2>1, KeepKept DEF Over
<1> QED BY <1>3, <1>4, <1>5 DEF CallerStep

(* The retained failure ends the session.                                   *)
LEMMA RetainedOver ==
    ASSUME FinishRetainedFailure
    PROVE  Over' /\ pc' \in {"settling", "finalizing"} /\ last_retryable_failure' = NoError
BY LocalFailureState, ProviderErrorState DEF FinishRetainedFailure, EndWithFailure, Over

(* prepare_attempt takes the retry as its pin and keeps it.                 *)
LEMMA PrepareKeeps ==
    ASSUME TypeOK, Inv, RouteInv, KeepInv, PrepareAttempt PROVE KeepInv'
<1>1. CASE FinishRetainedFailure
  BY <1>1, RetainedOver, NothingKept DEF KeepInv
<1>2. CASE ~FinishRetainedFailure
  <2>1. /\ pc = "preparing" /\ attempt'.pin = pending_retry.account
        /\ pc' \in {"delaying", "selecting"}
        /\ UNCHANGED <<last_retryable_failure, routeVars, failureVars, envVars>>
    BY <1>2 DEF PrepareAttempt
  <2>2. pending_stream_failure.kind # "Discard"
    BY <2>1 DEF Inv, PhaseInv
  <2>3. pending_retry.account \in {NoAccount, last_selected_account}
    BY NothingPending DEF RouteInv, PinsInv
  <2> QED BY <2>1, <2>2, <2>3 DEF KeepInv
<1> QED BY <1>1, <1>2

(* A retry's pin is the one that is selected.                               *)
LEMMA SelectKeeps ==
    ASSUME TypeOK, Inv, KeepInv, SelectAccount PROVE KeepInv'
<1>1. CASE FinishRetainedFailure
  BY <1>1, RetainedOver, NothingKept DEF KeepInv
<1>u. CASE ~FinishRetainedFailure /\ pc' = "finalizing"
  <2>1. finalization'.state = "Pending"
    BY <1>u, LocalFailureState, ProviderErrorState DEF SelectAccount
  <2>2. UNCHANGED <<pending_retry, last_retryable_failure, pending_stream_failure>>
    BY <1>u DEF SelectAccount
  <2> QED BY <1>u, <2>1, <2>2, KeepKept DEF Over, Taken
<1>2. CASE ~FinishRetainedFailure /\ pc' # "finalizing"
  <2>1. attempt \in AttemptLocals
    BY DEF TypeOK, AttemptTypes
  <2>2. /\ pc = "selecting" /\ pc' = "executing"
        /\ attempt.pin # NoAccount => attempt'.pin = attempt.pin
        /\ UNCHANGED <<last_retryable_failure, routeVars, failureVars, pending_retry>>
    BY <1>2, <2>1, LocalFailureState, ProviderErrorState
       DEF SelectAccount, AttemptLocals, AttemptPin
  <2>3. pending_stream_failure.kind # "Discard"
    BY <2>2 DEF Inv, PhaseInv
  <2> QED BY <2>2, <2>3 DEF KeepInv, Taken
<1> QED BY <1>1, <1>u, <1>2

(* The session's own steps.                                                 *)
LEMMA SessionKeeps ==
    ASSUME TypeOK, Inv, RouteInv, KeepInv, SessionStep PROVE KeepInv'
<1>1. CASE Start
  <2>1. /\ pc = "starting" /\ pc' \in {"idle", "finalizing"}
        /\ UNCHANGED <<selectionVars, attemptVars, failureVars, envVars>>
        /\ finalization'.state = "Pending" \/ UNCHANGED finalization
    BY <1>1, LocalFailureState DEF Start, FinishCancelled, FinishDeadline
  <2>2. Over => Over'
    BY <2>1 DEF Over
  <2> QED BY <2>1, <2>2, KeepKept DEF Taken
<1>2. CASE AttemptRecorded
  BY <1>2, KeepKept DEF AttemptRecorded, Over, Taken
<1>3. CASE CommitRecorded
  <2>1. /\ pc = "committing" /\ pc' \in {"idle", "finalizing"}
        /\ UNCHANGED <<selectionVars, failureVars, envVars>> /\ UNCHANGED current
        /\ finalization'.state = "Pending" \/ UNCHANGED finalization
    BY <1>3, FinishState DEF CommitRecorded, FinishSuccess, Finish
  <2>2. Over => Over'
    BY <2>1 DEF Over
  <2> QED BY <2>1, <2>2, KeepKept DEF Taken
<1>4. CASE FinalizationWritten
  <2>1. pc' = "idle" /\ UNCHANGED <<selectionVars, failureVars>> /\ Over'
    BY <1>4 DEF FinalizationWritten, Over, TypeOK, FinishTypes
  <2> QED BY <2>1, KeepKept DEF Taken
<1>5. CASE DelayElapsed
  BY <1>5 DEF DelayElapsed, KeepInv, Taken
<1>6. CASE SendObserved
  <2>1. current'.account = current.account /\ pc' \in {"idle", "polling"} /\ pc = "observing"
    BY <1>6 DEF SendObserved, HandOver, TypeOK, AttemptTypes, CurrentAttempts
  <2> QED BY <1>6, <2>1, KeepKept DEF SendObserved, Over, Taken
<1>7. CASE Interrupted
  <2>1. pc' = "finalizing" /\ Over'
    BY <1>7, LocalFailureState DEF Interrupted, FinishCancelled, FinishDeadline, Over
  <2> QED BY <1>7, <2>1, KeepKept DEF Interrupted, Taken
<1>8. CASE ResumeStreamFailure
  <2>1. /\ pc = "failing" /\ UNCHANGED selectionVars
        /\ pending_stream_failure'.kind = "None"
    BY <1>8, NoFailureStates DEF ResumeStreamFailure
  <2>2. CASE pending_stream_failure.kind = "Discard"
    <3>1. pc' = "preparing"
      BY <1>8, <2>2 DEF ResumeStreamFailure
    <3> QED BY <2>1, <2>2, <3>1 DEF KeepInv, Taken
  <2>3. CASE pending_stream_failure.kind # "Discard"
    <3>1. pc' = "settling" /\ Over'
      BY <1>8, <2>3 DEF ResumeStreamFailure, EndWithFailure, Over
    <3> QED BY <2>1, <3>1, KeepKept DEF Taken
  <2> QED BY <2>2, <2>3
<1>9. CASE TerminalFailureSettled
  <2>1. /\ pc = "settling" /\ pc' \in {"idle", "finalizing"}
        /\ UNCHANGED <<selectionVars, pending_stream_failure, current>>
    BY <1>9, ProviderErrorState DEF TerminalFailureSettled
  <2>2. Over'
    BY <1>9, ProviderErrorState DEF TerminalFailureSettled, Over, Inv, PhaseInv
  <2> QED BY <2>1, <2>2, KeepKept DEF Taken
<1> QED BY <1>1, <1>2, <1>3, <1>4, <1>5, <1>6, <1>7, <1>8, <1>9, PrepareKeeps, SelectKeeps
        DEF SessionStep

(* A failed selection has nowhere else to go: the connection it rotated     *)
(* away from, or the end.                                                   *)
LEMMA RefusedKeeps ==
    ASSUME TypeOK, Inv, PendingInv, RouteInv, KeepInv, OneRoute,
           NEW e \in ExecuteErrors, NEW w \in BOOLEAN, ExecuteError(e, w)
    PROVE  KeepInv'
<1>1. pc = "executing" /\ UNCHANGED pending_stream_failure
  BY DEF ExecuteError
<1>2. pending_stream_failure.kind # "Discard"
  BY <1>1 DEF Inv, PhaseInv
<1>3. ~ReplaysNativeContinuation(e, w) /\ ~AdvancesProvider(e, w)
  <2>1. candidate_index \in Nat /\ candidate_index >= 1
    BY PlanAssumption DEF TypeOK, RouteTypes
  <2> QED BY <2>1 DEF OneRoute, ReplaysNativeContinuation, AdvancesProvider
<1>4. CASE FallsBackToConnection(e)
  <2>1. /\ pending_retry' = connection_rotation /\ pc' = "preparing"
        /\ UNCHANGED last_retryable_failure
    BY <1>4 DEF ExecuteError
  <2>2. connection_rotation.account # NoAccount
    BY <1>4 DEF FallsBackToConnection
  <2> QED BY <2>1, <2>2 DEF KeepInv, Taken
<1>5. CASE ~FallsBackToConnection(e)
  <2>1. /\ Over' /\ pc' \in {"settling", "finalizing"}
        /\ last_retryable_failure' \in {last_retryable_failure, NoError}
    BY <1>3, <1>5, RetainedOver, ProviderErrorState DEF ExecuteError, Over
  <2>2. UNCHANGED pending_retry
    BY <1>3, <1>5 DEF ExecuteError
  <2> QED BY <1>1, <2>1, <2>2, KeepKept DEF Taken
<1> QED BY <1>4, <1>5

(* Such a failure is retried by its transport only, on its account.         *)
LEMMA KeptFollow ==
    ASSUME NEW e \in StreamErrors, NEW fits \in BOOLEAN, KeepsAccount(e)
    PROVE  FollowUp(e, fits) \in {"terminal", "transport"}
<1>1. ~ContinuationRetry(e) /\ ~OrdinaryRetry(e) /\ ~TransientRetry(e) /\ ~SameAccountRetry(e)
  BY DEF KeepsAccount, ContinuationRetry, OrdinaryRetry, TransientRetry, SameAccountRetry
<1>2. ~AccountRotationRetry(e)
  BY DEF KeepsAccount, AccountRotationRetry
<1>3. ~ConnectionRecovery(e, fits)
  <2>1. e.send_state \in {"Ambiguous", "Sent"}
    BY ErrorsAssumption DEF KeepsAccount, ProvedReplaySafe, ProviderError, SendStates
  <2> QED BY <2>1 DEF ConnectionRecovery, Escalate, AttemptSendState
<1> QED BY <1>1, <1>2, <1>3 DEF FollowUp, Retryable

(* The failed attempt decides.                                              *)
LEMMA FailureKeeps ==
    ASSUME TypeOK, Inv, ReadsCurrent, RouteInv, KeepInv, OneRoute,
           NEW e \in StreamErrors, NEW fits \in BOOLEAN, NEW pause \in BOOLEAN,
           BeginStreamFailure(e, fits, pause)
    PROVE  KeepInv'
<1> DEFINE f == EffectiveError(e)
<1>1. /\ pc = "polling" /\ pc' = "failing" /\ UNCHANGED current /\ HasCurrent
      /\ pending_stream_failure'.kind =
           IF FollowUp(f, fits) = "terminal" THEN "Terminal" ELSE "Discard"
      /\ FollowUp(f, fits) # "terminal" => last_retryable_failure' = f
      /\ FollowUp(f, fits) = "transport" => pending_retry'.account = current.account
  BY DEF BeginStreamFailure, ReadsCurrent
<1>2. CASE FollowUp(f, fits) = "terminal"
  BY <1>1, <1>2 DEF KeepInv, HasCurrent, Taken
<1>3. CASE FollowUp(f, fits) # "terminal"
  <2>1. ~RestoresConnectionFailure(e)
    <3> SUFFICES ASSUME RestoresConnectionFailure(e) PROVE FALSE
      OBVIOUS
    <3>1. f = [last_retryable_failure EXCEPT !.retry_prohibited = TRUE]
      BY DEF EffectiveError
    <3>2. f.retry_prohibited
      BY <3>1 DEF TypeOK, RetryTypes, ProviderError
    <3> QED BY <1>3, <3>2 DEF FollowUp, Retryable
  <2>2. f = e
    BY <2>1 DEF EffectiveError
  <2>3. KeepsAccount(e) => FollowUp(e, fits) = "transport"
    BY <1>3, <2>2, KeptFollow
  <2> QED BY <1>1, <1>3, <2>2, <2>3 DEF KeepInv, HasCurrent, Taken
<1> QED BY <1>2, <1>3

(* Every step keeps such a request on its account.                          *)
LEMMA KeepStep ==
    ASSUME TypeOK, Inv, ReadsCurrent, PendingInv, RouteInv, KeepInv, OneRoute, [Next]_vars
    PROVE  KeepInv'
<1>1. CASE \E a \in Accounts : ExecuteOk(a)
  <2>1. PICK a \in Accounts : ExecuteOk(a)
    BY <1>1
  <2>2. /\ pc = "executing" /\ pc' = "recording" /\ current'.account = a /\ a # NoAccount
        /\ UNCHANGED pending_stream_failure
    BY <2>1, AccountsAssumption DEF ExecuteOk
  <2>3. pending_stream_failure.kind # "Discard"
    BY <2>2 DEF Inv, PhaseInv
  <2> QED BY <2>2, <2>3 DEF KeepInv, HasCurrent, Taken
<1>2. CASE ExecuteMismatch
  <2>1. /\ pc' = "finalizing" /\ Over'
        /\ UNCHANGED <<pending_retry, last_retryable_failure, pending_stream_failure>>
    BY <1>2, FinishState DEF ExecuteMismatch, Finish, Over
  <2> QED BY <2>1, KeepKept DEF Taken
<1>3. CASE OpenConnection
  <2>1. current'.account = current.account
    BY <1>3 DEF OpenConnection, TypeOK, AttemptTypes, CurrentAttempts
  <2> QED BY <1>3, <2>1, KeepKept DEF OpenConnection, Over, Taken
<1>4. CASE StreamEnd \/ (\E ev \in StreamEvents : StreamItem(ev))
  <2>1. /\ pc = "polling" /\ pc' \notin Preparing /\ UNCHANGED <<selectionVars, current>>
        /\ UNCHANGED <<failureVars, envVars>>
        /\ finalization'.state = "Pending" \/ UNCHANGED finalization
    BY <1>4, FinishState DEF StreamEnd, StreamItem, HandOver, FinishSuccess, Finish
  <2>2. Over => Over'
    BY <2>1 DEF Over
  <2> QED BY <2>1, <2>2, KeepKept DEF Taken
<1>5. CASE ProviderStep
  BY <1>1, <1>2, <1>3, <1>4, <1>5, RefusedKeeps, FailureKeeps DEF ProviderStep
<1>6. CASE DropCall \/ DropAtCompletion
  <2>1. Over' /\ pc' = "idle"
    BY <1>6 DEF DropCall, DropAtCompletion, Over
  <2> QED BY <1>6, <2>1, KeepKept DEF DropCall, DropAtCompletion, Taken
<1>7. CASE ConnectionWindowExpires \/ Keepalive \/ Environment \/ UNCHANGED vars
  BY <1>7 DEF ConnectionWindowExpires, Keepalive, Environment, vars, KeepInv, Over,
              HasCurrent
<1> QED BY <1>5, <1>6, <1>7, CallerKeeps, SessionKeeps DEF Next, Terminated

(* On one route, a request leaves the account of its last attempt only when *)
(* that attempt's failure was proved safe to replay or asked for another    *)
(* account, whatever budgets, rotations, drops and refused selections come  *)
(* before (begin_stream_failure, prepare_attempt).                          *)
THEOREM AccountKept == OneRoute => (Spec => AccountLeftOnlyWhenSafe)
<1> SUFFICES ASSUME OneRoute PROVE Spec => AccountLeftOnlyWhenSafe
  OBVIOUS
<1> DEFINE I == PendingInv /\ RouteInv /\ KeepInv
<1>1. Init => I
  <2> SUFFICES ASSUME Init PROVE KeepInv
    BY InitRoute
  <2> QED BY NothingKept DEF Init, KeepInv
<1>2. TypeOK /\ ReadsCurrent /\ Inv /\ I /\ [Next]_vars => I'
  BY PendingStep, RouteStep, KeepStep
<1>3. TypeOK /\ I /\ [Next]_vars
        => [attempts' > attempts /\ last_selected_account \notin {NoAccount, current'.account}
              => \/ ProvedReplaySafe(last_retryable_failure)
                 \/ last_retryable_failure.pre_delivery_retry = "AccountRotation"]_vars
  <2> SUFFICES ASSUME TypeOK, KeepInv, [Next]_vars, attempts' > attempts,
                      KeepsAccount(last_retryable_failure)
               PROVE  current'.account = last_selected_account
    BY DEF KeepsAccount
  <2>1. attempts \in Nat
    BY DEF TypeOK, RouteTypes
  <2>2. PICK a \in Accounts : ExecuteOk(a)
    BY <2>1, OnlyExecuteOkCounts
  <2> QED BY <2>2 DEF ExecuteOk, Accepted, KeepInv, Taken
<1> QED BY <1>1, <1>2, <1>3, PhasesCorrect, PTL DEF Spec, AccountLeftOnlyWhenSafe

=============================================================================
