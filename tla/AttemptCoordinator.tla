------------------------- MODULE AttemptCoordinator -------------------------
(***************************************************************************)
(* One client request inside the gateway engine: the session object        *)
(* ResponseExecutionSession of gateway-core/src/engine/coordinator.rs.     *)
(*                                                                         *)
(* The session owns the retry loop over provider accounts, the boundary    *)
(* after which output has been promised to the client, and the single      *)
(* model_requests row that records the request.  Its caller (the HTTP or   *)
(* WebSocket adapter) drives it with next_event / collect_uncommitted,     *)
(* commit_downstream, defer_downstream_commit, fail_delivery and           *)
(* cancel_and_finalize.  A call is an async function: `pc' is the await    *)
(* point the call is suspended at, and at each of them the caller may drop *)
(* the call (client disconnect), after which only cancel_and_finalize is   *)
(* called.                                                                 *)
(*                                                                         *)
(* The provider (Provider::execute and the stream it returns) is the       *)
(* environment: it chooses an account, yields events and fails with any    *)
(* error of the sets StreamErrors and ExecuteErrors.                       *)
(***************************************************************************)
EXTENDS Naturals, FiniteSets

CONSTANTS
    Accounts,             \* provider accounts
    NoAccount,            \* the absent account (Option::None)
    Candidates,           \* number of provider candidates of the routing plan
    Scope,                \* candidate -> accounts its frozen scope allows
    RequiredAccount,      \* AccountSelection::required_account, or NoAccount
    Continuation,         \* "none", "pinned" or "external" continuation binding
    PinnedAccount,        \* owner of a pinned native continuation, or NoAccount
    HasSessionState,      \* the operation carries provider session state
    RecoveryProbe,        \* the request is a local recovery probe
    AccountBusyWait,      \* request_tuning.account_busy_wait_enabled
    MaxAttempts,          \* plan.max_attempts
    MaxAccountSwitches,   \* request_tuning.max_account_switches
    MaxTransientRetries,  \* max_retries of SameAccountTransientRetry
    MaxTransportRetries,  \* the provider's own transport retry budget
    MaxOpenings,          \* connection.rs MAX_OPENINGS
    StreamErrors,         \* errors a provider stream may end with
    ExecuteErrors,        \* errors Provider::execute may return
    StreamEvents,         \* events a provider stream may yield
    Modes,                \* how the caller reads: "stream", "collect"
    ClientRetries,        \* states the ClientRetryGuard may load with
    Faults                \* what the surroundings may do, see FaultKinds

SendStates == {"NotSent", "Ambiguous", "Sent"}

ErrorKinds == {"None", "Capacity", "Infrastructure", "SessionPolicy",
               "Unauthorized", "MessageTooBig", "Cancelled", "Other"}

RetryDirectives == {"None", "AccountRotation", "TransientRotate",
                    "TransientReturn", "TransportRetry", "TransportFallback",
                    "ConnectionRetry"}

Dispositions == {"None", "RetryExactConnection", "ClientReplayRequired",
                 "ProviderReplayAllowed"}

(* The atomic client events of an error: none, a batch without a cost, one   *)
(* with a cost among its canonical facts, one whose only cost stands in a   *)
(* metering checkpoint.                                                     *)
Batches == {"None", "Plain", "Facts", "Metering"}

(* ProviderError, reduced to the fields the coordinator decides on.  The   *)
(* kind "Capacity" stands for NoEligibleAccount, AccountCapacityUnavailable *)
(* and QuotaExhausted, which the coordinator always tests together.        *)
ProviderError ==
    [kind : ErrorKinds, send_state : SendStates, replay_safe : BOOLEAN,
     retry_prohibited : BOOLEAN, retries_same_account : BOOLEAN,
     pre_delivery_retry : RetryDirectives, disposition : Dispositions,
     atomic_events : Batches, budget_exhausted : BOOLEAN,
     retry_after_exceeded : BOOLEAN]

NoError ==
    [kind |-> "None", send_state |-> "NotSent", replay_safe |-> FALSE,
     retry_prohibited |-> FALSE, retries_same_account |-> FALSE,
     pre_delivery_retry |-> "None", disposition |-> "None",
     atomic_events |-> "None", budget_exhausted |-> FALSE,
     retry_after_exceeded |-> FALSE]

HasBatch(e) == e.atomic_events # "None"

(* Metering carries no client event; a Prelude may be replaced by a later   *)
(* attempt; Completed is the terminal fact.                                *)
Events == {"Metering", "Prelude", "Semantic", "Completed"}

(* No guard (no client turn), nothing known of the turn, an earlier failure *)
(* of the same turn observed.                                              *)
ClientRetryGuards == {[observed |-> FALSE, settled |-> "absent"],
                      [observed |-> FALSE, settled |-> "open"],
                      [observed |-> TRUE, settled |-> "open"]}

(* A store write is lost or only reported as failed; the caller drops a     *)
(* call; a heartbeat commits the transport; the token fires; the deadline   *)
(* passes (diagnostic and quality requests have one, client requests none); *)
(* the provider answers with an account it may not use; the provider of the *)
(* candidate is not registered or cannot resolve the key's request profile. *)
FaultKinds == {"lost_write", "drop", "keepalive", "cancel", "deadline", "mismatch",
               "unroutable"}

ASSUME AccountsAssumption ==
    /\ NoAccount \notin Accounts
    /\ RequiredAccount \in Accounts \cup {NoAccount}
    /\ PinnedAccount \in Accounts \cup {NoAccount}
    /\ Continuation \in {"none", "pinned", "external"}
    /\ Continuation = "pinned" <=> PinnedAccount # NoAccount

ASSUME PlanAssumption ==
    /\ Candidates \in Nat \ {0}
    /\ Scope \in [1..Candidates -> SUBSET Accounts]
    /\ Continuation = "pinned" => \E c \in 1..Candidates : PinnedAccount \in Scope[c]

ASSUME TuningAssumption ==
    /\ MaxAttempts \in Nat \ {0}
    /\ MaxAccountSwitches \in Nat
    /\ MaxTransientRetries \in Nat
    /\ MaxTransportRetries \in Nat
    /\ MaxOpenings \in Nat \ {0}
    /\ HasSessionState \in BOOLEAN
    /\ RecoveryProbe \in BOOLEAN
    /\ AccountBusyWait \in BOOLEAN

(* A failed connection opening precedes any upstream byte, so it carries   *)
(* no client events.                                                       *)
ASSUME ErrorsAssumption ==
    /\ StreamErrors \subseteq ProviderError \ {NoError}
    /\ ExecuteErrors \subseteq ProviderError \ {NoError}
    /\ \A e \in StreamErrors : e.pre_delivery_retry = "ConnectionRetry" => ~HasBatch(e)

ASSUME SurroundingsAssumption ==
    /\ StreamEvents \subseteq Events
    /\ Modes \subseteq {"stream", "collect"}
    /\ ClientRetries \subseteq ClientRetryGuards
    /\ Faults \subseteq FaultKinds

-----------------------------------------------------------------------------

VARIABLES
    pc,                   \* await point of the call in flight, or "idle"
    call,                 \* which caller operation is in flight
    mode,                 \* "stream" (next_event) or "collect" (collect_uncommitted)
    detached,             \* the caller dropped a call; only cancel_and_finalize remains
    cancelled,            \* the CancellationToken has fired
    deadline_elapsed,     \* the request deadline has passed
    attempts, routing_attempts, account_switches,
    last_selected_account, candidate_index,
    excluded_accounts, credential_recovery_attempted_accounts,
    recovery_account, pending_retry, transient_retry_counts,
    connection_retries, connection_rotation, continuation_attempt,
    last_retryable_failure,
    connection_budget,
    attempt,              \* locals of prepare_attempt held across its awaits
    current,              \* the CurrentAttempt
    pulled,               \* the event held while its send mark is written
    send_state_watermark,
    downstream_committed, \* downstream_committed_at.is_some()
    response_commit,      \* ResponseCommit cell: "open", "committed", "finished"
    replay_barrier_reached, delivery_pending, delivery_has_terminal_fact,
    upstream_complete,
    collected,            \* collect_uncommitted holds at least one event
    pending_stream_failure, pending_terminal_failure,
    finalization, request_persisted,
    row,                  \* the model_requests row as last written
    client_retry,         \* the ClientRetryGuard
    budget_prior_attempts, budget_attempt_already_counted, observed_cost,
    exposed,              \* history: output that cannot be replaced reached the client
    costed                \* history: attempts whose cost was taken while they ran

envVars       == <<mode, detached, cancelled, deadline_elapsed>>
routeVars     == <<attempts, routing_attempts, account_switches, last_selected_account>>
planVars      == <<candidate_index, excluded_accounts, continuation_attempt>>
pendingVars   == <<pending_retry, connection_rotation>>
retryVars     == <<credential_recovery_attempted_accounts, recovery_account,
                   transient_retry_counts, connection_retries>>
attemptVars   == <<attempt, current, connection_budget, upstream_complete>>
deliveryVars  == <<downstream_committed, delivery_has_terminal_fact, collected, pulled>>
barrierVars   == <<replay_barrier_reached, delivery_pending, exposed>>
failureVars   == <<pending_stream_failure, pending_terminal_failure>>
finishVars    == <<finalization, response_commit, send_state_watermark>>
storeVars     == <<request_persisted, row>>
budgetVars    == <<budget_prior_attempts, budget_attempt_already_counted,
                   observed_cost, costed>>
selectionVars == <<routeVars, planVars, pendingVars, retryVars, last_retryable_failure>>
outcomeVars   == <<failureVars, finishVars, client_retry>>

vars == <<pc, call, envVars, selectionVars, attemptVars, deliveryVars, barrierVars,
          outcomeVars, storeVars, budgetVars>>

-----------------------------------------------------------------------------
(* AttemptTransport, numbered: 0 is Default, n is Retry(n).                *)
DefaultTransport == 0
FallbackTransport == MaxTransportRetries + 1
Transports == 0..FallbackTransport

MaybeAccounts == Accounts \cup {NoAccount}

(* PendingAttemptRetry; `delayed' says its delay is not zero.              *)
Retries == [account : MaybeAccounts, transport : Transports, delayed : BOOLEAN,
            transport_recovery : BOOLEAN, reserve : BOOLEAN]
NoRetry == [account |-> NoAccount, transport |-> 0, delayed |-> FALSE,
            transport_recovery |-> FALSE, reserve |-> FALSE]

AttemptLocals == [pin : MaybeAccounts, transport : Transports,
                  transport_recovery : BOOLEAN, reserve : BOOLEAN,
                  connection_recovery : BOOLEAN]
NoLocals == [pin |-> NoAccount, transport |-> 0, transport_recovery |-> FALSE,
             reserve |-> FALSE, connection_recovery |-> FALSE]

CurrentAttempts == [account : MaybeAccounts, transport : Transports,
                    reserved : BOOLEAN, opened : BOOLEAN, send_observed : BOOLEAN]
NoCurrent == [account |-> NoAccount, transport |-> 0, reserved |-> FALSE,
              opened |-> FALSE, send_observed |-> FALSE]

(* ConnectionBudget: `expired' once STARTUP_TIMEOUT has passed.             *)
ConnectionBudgets == [openings : Nat, started : BOOLEAN, completed : BOOLEAN,
                      expired : BOOLEAN]

Outcomes == {"Running", "Succeeded", "Failed", "Cancelled", "Incomplete"}
Rows == [exists : BOOLEAN, attempts : Nat, send_state : SendStates,
         committed : BOOLEAN, outcome : Outcomes]
NoRow == [exists |-> FALSE, attempts |-> 0, send_state |-> "NotSent",
          committed |-> FALSE, outcome |-> "Running"]

Finalizations == [state : {"None", "Pending", "Complete"}, outcome : Outcomes,
                  send_state : SendStates, attempts : Nat, committed : BOOLEAN,
                  create : BOOLEAN, mark : BOOLEAN]
NoFinalization == [state |-> "None", outcome |-> "Running", send_state |-> "NotSent",
                   attempts |-> 0, committed |-> FALSE, create |-> FALSE,
                   mark |-> FALSE]

StreamFailures == [kind : {"None", "Discard", "Terminal"},
                   error : ProviderError, send_state : SendStates]
NoStreamFailure == [kind |-> "None", error |-> NoError, send_state |-> "NotSent"]

TerminalFailures == [present : BOOLEAN, error : ProviderError, send_state : SendStates]
NoTerminalFailure == [present |-> FALSE, error |-> NoError, send_state |-> "NotSent"]

Awaits == {"delaying", "executing", "recording", "polling", "observing",
           "failing", "settling", "committing", "finalizing"}

ControlTypes ==
    /\ pc \in Awaits \cup {"starting", "idle", "preparing", "selecting", "closed"}
    /\ call \in {"none", "start", "next_event", "collect", "commit", "cancel", "fail"}
    /\ mode \in {"stream", "collect"}
    /\ detached \in BOOLEAN /\ cancelled \in BOOLEAN /\ deadline_elapsed \in BOOLEAN

RouteTypes ==
    /\ attempts \in Nat /\ routing_attempts \in Nat /\ account_switches \in Nat
    /\ last_selected_account \in MaybeAccounts
    /\ candidate_index \in 1..Candidates
    /\ excluded_accounts \subseteq Accounts
    /\ continuation_attempt \in {"None", "Native", "ReplayOwner", "ReplayAny"}

RetryTypes ==
    /\ pending_retry \in Retries /\ connection_rotation \in Retries
    /\ credential_recovery_attempted_accounts \subseteq Accounts
    /\ recovery_account \in MaybeAccounts
    /\ transient_retry_counts \in [Accounts -> Nat]
    /\ connection_retries \in Nat
    /\ last_retryable_failure \in ProviderError

AttemptTypes ==
    /\ attempt \in AttemptLocals /\ current \in CurrentAttempts
    /\ connection_budget \in ConnectionBudgets
    /\ upstream_complete \in BOOLEAN

DeliveryTypes ==
    /\ pulled \in Events
    /\ downstream_committed \in BOOLEAN /\ delivery_has_terminal_fact \in BOOLEAN
    /\ collected \in BOOLEAN
    /\ replay_barrier_reached \in BOOLEAN /\ delivery_pending \in BOOLEAN
    /\ exposed \in BOOLEAN

FailureTypes ==
    /\ pending_stream_failure \in StreamFailures
    /\ pending_terminal_failure \in TerminalFailures

FinishTypes ==
    /\ finalization \in Finalizations
    /\ response_commit \in {"open", "committed", "finished"}
    /\ send_state_watermark \in SendStates
    /\ client_retry \in [observed : BOOLEAN,
                         settled : {"absent", "open", "failure", "success"}]

RecordTypes ==
    /\ request_persisted \in BOOLEAN /\ row \in Rows
    /\ budget_prior_attempts \in Nat /\ budget_attempt_already_counted \in BOOLEAN
    /\ observed_cost \in 0..1 /\ costed \subseteq Nat

TypeOK ==
    /\ ControlTypes /\ RouteTypes /\ RetryTypes /\ AttemptTypes
    /\ DeliveryTypes /\ FailureTypes /\ FinishTypes /\ RecordTypes

(* initial_continuation_attempt *)
InitialContinuationAttempt ==
    CASE Continuation = "none" -> "None"
      [] Continuation = "external" /\ HasSessionState -> "ReplayAny"
      [] OTHER -> "Native"

(* A pinned continuation starts at the candidate of its provider.          *)
InitialCandidate ==
    IF Continuation = "pinned"
    THEN CHOOSE c \in 1..Candidates : PinnedAccount \in Scope[c]
    ELSE 1

Init ==
    /\ pc = "starting" /\ call = "start" /\ mode \in Modes
    /\ detached = FALSE /\ cancelled = FALSE /\ deadline_elapsed = FALSE
    /\ attempts = 0 /\ routing_attempts = 0 /\ account_switches = 0
    /\ last_selected_account = NoAccount /\ candidate_index = InitialCandidate
    /\ excluded_accounts = {} /\ credential_recovery_attempted_accounts = {}
    /\ recovery_account = NoAccount /\ pending_retry = NoRetry
    /\ transient_retry_counts = [a \in Accounts |-> 0]
    /\ connection_retries = 0 /\ connection_rotation = NoRetry
    /\ continuation_attempt = InitialContinuationAttempt
    /\ last_retryable_failure = NoError
    /\ connection_budget = [openings |-> 0, started |-> FALSE,
                            completed |-> FALSE, expired |-> FALSE]
    /\ attempt = NoLocals /\ current = NoCurrent /\ pulled = "Metering"
    /\ send_state_watermark = "NotSent" /\ response_commit = "open"
    /\ downstream_committed = FALSE /\ replay_barrier_reached = FALSE
    /\ delivery_pending = FALSE /\ delivery_has_terminal_fact = FALSE
    /\ upstream_complete = FALSE /\ collected = FALSE
    /\ pending_stream_failure = NoStreamFailure
    /\ pending_terminal_failure = NoTerminalFailure
    /\ finalization = NoFinalization /\ request_persisted = FALSE /\ row = NoRow
    /\ client_retry = [observed |-> FALSE, settled |-> "absent"]
    /\ budget_prior_attempts = 0 /\ budget_attempt_already_counted = FALSE
    /\ observed_cost = 0 /\ exposed = FALSE /\ costed = {}

-----------------------------------------------------------------------------
(* Send states, the connection budget and the persisted row.               *)

Rank(s) == CASE s = "NotSent" -> 0 [] s = "Ambiguous" -> 1 [] s = "Sent" -> 2

(* MUTANT: the latest send state wins. *)
EscalateLatest(a, b) == b

(* escalate_send_state *)
Escalate(a, b) ==
    IF "Sent" \in {a, b} THEN "Sent"
    ELSE IF "Ambiguous" \in {a, b} THEN "Ambiguous" ELSE "NotSent"

(* current_send_state *)
CurrentSendState ==
    Escalate(send_state_watermark, IF current.send_observed THEN "Sent" ELSE "NotSent")

(* MUTANT: the waits of the session ignore cancellation and deadline. *)
UninterruptedAlways == TRUE

(* The select_biased of every wait looks at cancellation and deadline first. *)
Uninterrupted == ~cancelled /\ ~deadline_elapsed

HasCurrent == current.account # NoAccount

Finalized == finalization.state = "Complete"

(* MUTANT: the reserved opening is not kept back. *)
OpeningRefusedAtLimit ==
    /\ ~connection_budget.completed
    /\ connection_budget.openings >= MaxOpenings \/ connection_budget.expired

(* ConnectionBudget::begin refuses an opening *)
OpeningRefused ==
    /\ ~connection_budget.completed
    /\ \/ connection_budget.openings >= MaxOpenings - (IF current.reserved THEN 1 ELSE 0)
       \/ connection_budget.expired

(* ConnectionBudget::remaining().is_some() *)
RecoveryWindowOpen ==
    /\ ~connection_budget.completed
    /\ connection_budget.openings < MaxOpenings
    /\ ~connection_budget.expired

(* ConnectionBudget::retry_delay; `fits' is delay < remaining *)
ConnectionRetryDelay(fits) ==
    /\ connection_retries < MaxOpenings - 1
    /\ RecoveryWindowOpen
    /\ fits

(* What a write leaves in the model_requests table.  An insert that carries *)
(* the first attempt sets attempt_count 1; for a later attempt the insert    *)
(* lands with attempt_count 0 and the attempt is then refused, because an    *)
(* attempt is accepted only as the successor of the stored count.            *)
RowInsert ==
    IF row.exists THEN row
    ELSE [NoRow EXCEPT !.exists = TRUE, !.attempts = IF attempts = 1 THEN 1 ELSE 0]

Running(r) == r.exists /\ r.outcome = "Running"

RowAttempt ==
    IF Running(row) /\ attempts = row.attempts + 1
    THEN [row EXCEPT !.attempts = attempts] ELSE row

RowSendState(s) ==
    IF Running(row) /\ row.attempts > 0 THEN [row EXCEPT !.send_state = s] ELSE row

RowCommitted == IF Running(row) THEN [row EXCEPT !.committed = TRUE] ELSE row

(* best_effort_store_write: a write that may be lost leaves the old row.    *)
Written(new) == IF "lost_write" \in Faults THEN {row, new} ELSE {new}

(* Whether a write takes effect, and whether it is reported as done.        *)
WriteResults == IF "lost_write" \in Faults THEN BOOLEAN ELSE {TRUE}

RowFinalized(r) ==
    IF Running(r)
    THEN [exists |-> TRUE, attempts |-> finalization.attempts,
          send_state |-> finalization.send_state,
          committed |-> finalization.committed, outcome |-> finalization.outcome]
    ELSE r

-----------------------------------------------------------------------------
(* Finalization.                                                           *)

(* MUTANT: an uncommitted execution leaves the cell open. *)
CommitLeftOpen == response_commit

(* ResponseCommit::finish *)
CommitFinish == IF response_commit = "open" THEN "finished" ELSE response_commit

(* persist_finalization: the row write is owned by the session, so a       *)
(* dropped call only suspends it.                                          *)
FinishMarking(outcome, send, watermark, mark) ==
    /\ finalization' =
         [state |-> "Pending", outcome |-> outcome, send_state |-> send,
          attempts |-> attempts, committed |-> response_commit = "committed",
          create |-> ~request_persisted /\ attempts = 0 /\ send = "NotSent",
          mark |-> mark]
    /\ response_commit' = CommitFinish
    /\ send_state_watermark' = watermark
    /\ pc' = "finalizing"

Finish(outcome, send, watermark) == FinishMarking(outcome, send, watermark, FALSE)

(* ClientRetryGuard::failure and ::success settle at most once.            *)
RetryFailure(e) ==
    IF attempts > 0 /\ e.pre_delivery_retry = "TransientReturn" /\ client_retry.settled = "open"
    THEN [client_retry EXCEPT !.settled = "failure"] ELSE client_retry
RetrySuccess ==
    IF client_retry.settled = "open"
    THEN [client_retry EXCEPT !.settled = "success"] ELSE client_retry

InterruptedOutcome == IF response_commit = "committed" THEN "Incomplete" ELSE "Failed"

(* finish_success *)
FinishSuccess ==
    /\ Finish("Succeeded", "Sent", send_state_watermark)
    /\ client_retry' = RetrySuccess

(* finish_provider_error_with_send_state *)
FinishProviderError(e, send) ==
    LET s == Escalate(send_state_watermark, send) IN
    /\ Finish(IF e.kind = "Cancelled" THEN "Cancelled" ELSE InterruptedOutcome, s, s)
    /\ client_retry' = RetryFailure(e)

(* finish_local_failure, for finish_interruption and fail_delivery: the      *)
(* send state is also marked in the row before the row is finalized.        *)
FinishLocalFailure(outcome) ==
    LET local == IF attempts = 0 THEN "NotSent"
                 ELSE IF downstream_committed \/ current.send_observed THEN "Sent"
                 ELSE "Ambiguous"
        s == Escalate(send_state_watermark, local)
    IN  /\ FinishMarking(outcome, s, s, attempts > 0 /\ request_persisted)
        /\ UNCHANGED client_retry

FinishCancelled == FinishLocalFailure("Cancelled")
FinishDeadline == FinishLocalFailure(InterruptedOutcome)

(* PullOutcome::TerminalFailure: the failure is kept by the session before  *)
(* the client-retry guard records it.                                       *)
EndWithFailure(e, send) ==
    /\ pending_terminal_failure' = [present |-> TRUE, error |-> e, send_state |-> send]
    /\ pc' = "settling"

(* observe_atomic_terminal_events takes the metering of the batch too.       *)
BatchCosts(e) == e.atomic_events \in {"Facts", "Metering"}

(* finish_exhausted_routing, finish_retained_failure: the cost of a batch    *)
(* kept from a discarded attempt is observed again and marked as counted.   *)
(* An error without a failure to keep is the caller's to report, through    *)
(* fail_delivery.                                                           *)
FinishRetainedFailure ==
    LET e == last_retryable_failure IN
    /\ last_retryable_failure' = NoError
    /\ \/ /\ e = NoError
          /\ FinishLocalFailure(InterruptedOutcome)
          /\ UNCHANGED <<budgetVars, pending_terminal_failure>>
       \/ /\ e # NoError /\ ~HasBatch(e)
          /\ FinishProviderError(e, Escalate(CurrentSendState, e.send_state))
          /\ UNCHANGED <<budgetVars, pending_terminal_failure>>
       \/ /\ e # NoError /\ HasBatch(e)
          /\ EndWithFailure(e, CurrentSendState)
          /\ observed_cost' = IF BatchCosts(e) THEN 1 ELSE observed_cost
          /\ budget_attempt_already_counted' = TRUE
          /\ UNCHANGED <<finishVars, client_retry, budget_prior_attempts, costed>>

(* budget_attempt_usd, budget_charge *)
AttemptCharge == IF budget_attempt_already_counted THEN 0 ELSE observed_cost
BudgetCharge == budget_prior_attempts + AttemptCharge

-----------------------------------------------------------------------------
(* Session start and the caller's operations.                              *)

(* start_with_account_selection: an already interrupted request is         *)
(* finalized before any attempt; otherwise the client-retry guard loads.   *)
Start ==
    /\ pc = "starting"
    /\ \/ /\ Uninterrupted
          /\ pc' = "idle" /\ call' = "none"
          /\ client_retry' \in ClientRetries
          /\ UNCHANGED finishVars
       \/ cancelled /\ FinishCancelled /\ UNCHANGED call
       \/ ~cancelled /\ deadline_elapsed /\ FinishDeadline /\ UNCHANGED call
    /\ UNCHANGED <<selectionVars, envVars, attemptVars, deliveryVars, barrierVars,
                   failureVars, storeVars, budgetVars>>

Callable == pc = "idle" /\ ~detached /\ finalization.state = "None"

(* next_event: a terminal failure whose batch was handed over is           *)
(* finalized, otherwise the attempt loop is entered.                       *)
NextEvent ==
    /\ Callable /\ mode = "stream" /\ ~delivery_pending /\ ~upstream_complete
    /\ call' = "next_event"
    /\ \/ /\ pending_terminal_failure.present
          /\ FinishProviderError(pending_terminal_failure.error,
                                 pending_terminal_failure.send_state)
          /\ pending_terminal_failure' = NoTerminalFailure
       \/ /\ ~pending_terminal_failure.present
          /\ pc' = IF HasCurrent THEN "polling" ELSE "preparing"
          /\ UNCHANGED <<finishVars, client_retry, pending_terminal_failure>>
    /\ UNCHANGED <<selectionVars, envVars, attemptVars, deliveryVars, barrierVars,
                   storeVars, budgetVars, pending_stream_failure>>

(* collect_uncommitted *)
CollectUncommitted ==
    /\ Callable /\ mode = "collect" /\ ~delivery_pending /\ ~downstream_committed
    /\ ~upstream_complete
    /\ call' = "collect" /\ pc' = IF HasCurrent THEN "polling" ELSE "preparing"
    /\ UNCHANGED <<selectionVars, outcomeVars, envVars, attemptVars, deliveryVars,
                   barrierVars, storeVars, budgetVars>>

(* defer_downstream_commit: the adapter consumed an event that has no       *)
(* output in the client protocol.                                          *)
DeferDownstreamCommit ==
    /\ Callable /\ mode = "stream"
    /\ delivery_pending /\ ~downstream_committed /\ ~upstream_complete
    /\ ~delivery_has_terminal_fact /\ ~pending_terminal_failure.present
    /\ delivery_pending' = FALSE
    /\ replay_barrier_reached' = FALSE
    /\ UNCHANGED <<pc, call, selectionVars, outcomeVars, envVars, attemptVars,
                   deliveryVars, storeVars, budgetVars, exposed>>

(* commit_downstream up to its write: the transport cell is set first.     *)
CommitDownstream ==
    /\ Callable /\ delivery_pending /\ ~downstream_committed
    /\ response_commit # "finished"
    /\ response_commit' = "committed"
    /\ call' = "commit" /\ pc' = "committing"
    /\ UNCHANGED <<selectionVars, envVars, attemptVars, deliveryVars, barrierVars,
                   failureVars, storeVars, budgetVars, finalization,
                   send_state_watermark, client_retry>>

(* commit_downstream after mark_downstream_committed *)
CommitRecorded ==
    /\ pc = "committing"
    /\ row' \in IF request_persisted THEN Written(RowCommitted) ELSE {row}
    /\ downstream_committed' = TRUE
    /\ delivery_pending' = FALSE
    /\ exposed' = (exposed \/ replay_barrier_reached \/ mode = "collect")
    /\ \/ /\ upstream_complete
          /\ FinishSuccess
          /\ UNCHANGED call
       \/ /\ ~upstream_complete
          /\ pc' = "idle" /\ call' = "none"
          /\ UNCHANGED <<finishVars, client_retry>>
    /\ UNCHANGED <<selectionVars, envVars, attemptVars, failureVars, budgetVars,
                   delivery_has_terminal_fact, collected, pulled,
                   replay_barrier_reached, request_persisted>>

(* MUTANT: the failure of a dropped call is forgotten. *)
RetainedOnlyDelivered == pending_terminal_failure

(* retain_pending_terminal_failure: a dropped call's terminal failure stays. *)
RetainedFailure ==
    IF pending_stream_failure.kind = "Terminal"
    THEN [present |-> TRUE, error |-> pending_stream_failure.error,
          send_state |-> pending_stream_failure.send_state]
    ELSE pending_terminal_failure

(* cancel_and_finalize and fail_delivery: a finalization in progress is     *)
(* resumed, a provider failure already decided stays the result, anything  *)
(* else ends as cancelled or as a delivery failure.                        *)
EndSession(outcome) ==
    LET retained == RetainedFailure IN
    /\ cancelled' = TRUE
    /\ pending_stream_failure' = NoStreamFailure
    /\ \/ /\ finalization.state = "Pending"
          /\ pc' = "finalizing"
          /\ pending_terminal_failure' = retained
          /\ UNCHANGED <<finishVars, client_retry, delivery_pending>>
       \/ /\ finalization.state = "None"
          /\ delivery_pending' = FALSE
          /\ pending_terminal_failure' = NoTerminalFailure
          /\ \/ /\ retained.present
                /\ FinishProviderError(retained.error, retained.send_state)
             \/ /\ ~retained.present
                /\ FinishLocalFailure(outcome)
    /\ UNCHANGED <<selectionVars, attemptVars, deliveryVars, storeVars, budgetVars,
                   mode, detached, deadline_elapsed, replay_barrier_reached, exposed>>

CancelAndFinalize ==
    /\ pc = "idle" /\ ~Finalized
    /\ call' = "cancel"
    /\ EndSession("Cancelled")

FailDelivery ==
    /\ pc = "idle" /\ ~detached /\ ~Finalized
    /\ call' = "fail"
    /\ EndSession(InterruptedOutcome)

(* resume_finalization: the row is created if needed, marked for a local     *)
(* failure and finalized, each write possibly lost or reported as failed.   *)
FinalizationWritten ==
    /\ pc = "finalizing"
    /\ \E created, reported, marked, written \in WriteResults :
         LET noted == IF finalization.create /\ created THEN RowInsert
                      ELSE IF finalization.mark /\ marked
                      THEN RowSendState(finalization.send_state)
                      ELSE row
             persisted == request_persisted \/ (finalization.create /\ reported)
         IN  /\ row' = IF persisted /\ written THEN RowFinalized(noted) ELSE noted
             /\ request_persisted' = persisted
    /\ finalization' = [finalization EXCEPT !.state = "Complete"]
    /\ pc' = "idle" /\ call' = "none"
    /\ UNCHANGED <<selectionVars, envVars, attemptVars, deliveryVars, barrierVars,
                   failureVars, budgetVars, response_commit, send_state_watermark,
                   client_retry>>

(* The caller drops a finalized session. *)
Close ==
    /\ pc = "idle" /\ Finalized
    /\ pc' = "closed"
    /\ UNCHANGED <<call, selectionVars, outcomeVars, envVars, attemptVars, deliveryVars,
                   barrierVars, storeVars, budgetVars>>

-----------------------------------------------------------------------------
(* prepare_attempt: from the pending retry to an owned provider stream.     *)

(* prepare_attempt up to its delay: the pending retry is taken here, before *)
(* the first await.                                                        *)
PrepareAttempt ==
    LET r == pending_retry
        recovering == /\ r.account # NoAccount \/ connection_rotation.account # NoAccount
                      /\ last_retryable_failure.pre_delivery_retry = "ConnectionRetry"
    IN
    /\ pc = "preparing"
    /\ pending_retry' = NoRetry
    /\ \/ /\ ~r.transport_recovery /\ routing_attempts >= MaxAttempts
          /\ FinishRetainedFailure
          /\ UNCHANGED attempt
       \/ /\ r.transport_recovery \/ routing_attempts < MaxAttempts
          /\ attempt' = [pin |-> r.account, transport |-> r.transport,
                         transport_recovery |-> r.transport_recovery,
                         reserve |-> r.reserve, connection_recovery |-> recovering]
          /\ pc' = IF r.delayed THEN "delaying" ELSE "selecting"
          /\ UNCHANGED <<finishVars, budgetVars, client_retry,
                         pending_terminal_failure, last_retryable_failure>>
    /\ UNCHANGED <<call, barrierVars, envVars, routeVars, planVars, retryVars, deliveryVars, storeVars,
                   connection_rotation, connection_budget, current, upstream_complete,
                   pending_stream_failure>>

(* poll_retry_delay: cancellation and the deadline win over the timer.      *)
DelayElapsed ==
    /\ pc = "delaying" /\ Uninterrupted
    /\ pc' = "selecting"
    /\ UNCHANGED <<call, selectionVars, outcomeVars, envVars, attemptVars, deliveryVars,
                   barrierVars, storeVars, budgetVars>>

(* An attempt free to choose its account may have to switch. *)
SwitchesExhausted ==
    /\ ~attempt.transport_recovery /\ last_selected_account # NoAccount
    /\ account_switches >= MaxAccountSwitches

(* The pin of the attempt: of the retry, else of a credential recovery, else *)
(* the account the request asks for.                                        *)
AttemptPin ==
    IF attempt.pin # NoAccount THEN attempt.pin
    ELSE IF recovery_account # NoAccount THEN recovery_account
    ELSE RequiredAccount

(* A connection recovery outlived its window, or no switch is left.          *)
RecoveryExpired == attempt.connection_recovery /\ ~RecoveryWindowOpen
SelectionExhausted == RecoveryExpired \/ (AttemptPin = NoAccount /\ SwitchesExhausted)

(* What a provider says of a key profile it cannot resolve. *)
ProfileRejected == [NoError EXCEPT !.kind = "Other"]

(* prepare_attempt from the delay to Provider::execute: the window of a     *)
(* connection recovery is tested again, the account pin is consumed, the    *)
(* provider of the candidate is looked up (the caller reports a missing     *)
(* one through fail_delivery) and resolves the key's profile.               *)
(* candidate_index never passes the last candidate, so the branch of a      *)
(* missing candidate is not taken.                                          *)
SelectAccount ==
    LET retrying == attempt.pin # NoAccount IN
    /\ pc = "selecting"
    /\ recovery_account' =
         IF RecoveryExpired \/ retrying THEN recovery_account ELSE NoAccount
    /\ \/ /\ SelectionExhausted
          /\ FinishRetainedFailure
          /\ attempt' = NoLocals
       \/ /\ ~SelectionExhausted /\ "unroutable" \in Faults
          /\ \/ FinishLocalFailure(InterruptedOutcome)
             \/ FinishProviderError(ProfileRejected, CurrentSendState)
          /\ attempt' = NoLocals
          /\ UNCHANGED <<budgetVars, pending_terminal_failure, last_retryable_failure>>
       \/ /\ ~SelectionExhausted
          /\ attempt' = [attempt EXCEPT
                           !.pin = AttemptPin,
                           !.transport = IF retrying THEN attempt.transport
                                         ELSE connection_rotation.transport]
          /\ pc' = "executing"
          /\ UNCHANGED <<finishVars, budgetVars, client_retry,
                         pending_terminal_failure, last_retryable_failure>>
    /\ UNCHANGED <<call, barrierVars, envVars, routeVars, planVars, pendingVars,
                   deliveryVars, storeVars, credential_recovery_attempted_accounts,
                   transient_retry_counts, connection_retries, connection_budget,
                   current, upstream_complete, pending_stream_failure>>

(* What prepare_attempt accepts from the provider: an account of the frozen *)
(* scope, the pinned one if there is a pin, the owner of a native           *)
(* continuation.                                                           *)
Accepted(a) ==
    /\ a \in Scope[candidate_index]
    /\ attempt.pin \in {NoAccount, a}
    /\ Continuation = "pinned" /\ continuation_attempt = "Native" => a = PinnedAccount

(* Provider::execute yields a cold stream: the attempt is counted and owned *)
(* by the session before its first write.  The provider also honours the    *)
(* excluded accounts and the owner of a replayed continuation.             *)
ExecuteOk(a) ==
    /\ pc = "executing" /\ Uninterrupted
    /\ Accepted(a)
    /\ a \notin excluded_accounts
    /\ Continuation = "pinned" /\ continuation_attempt = "ReplayOwner" => a = PinnedAccount
    /\ connection_rotation' = NoRetry
    /\ attempts' = attempts + 1
    /\ \/ /\ attempt.transport_recovery
          /\ UNCHANGED <<routing_attempts, account_switches, last_selected_account>>
       \/ /\ ~attempt.transport_recovery
          /\ routing_attempts' = routing_attempts + 1
          /\ account_switches' = account_switches +
               IF last_selected_account \notin {NoAccount, a} THEN 1 ELSE 0
          /\ last_selected_account' = a
    /\ current' = [account |-> a, transport |-> attempt.transport,
                   reserved |-> attempt.reserve, opened |-> FALSE, send_observed |-> FALSE]
    /\ attempt' = NoLocals
    /\ pc' = "recording"
    /\ UNCHANGED <<call, outcomeVars, envVars, planVars, retryVars, deliveryVars,
                   barrierVars, storeVars, budgetVars, pending_retry,
                   last_retryable_failure, connection_budget, upstream_complete>>

(* A provider that answers with an account outside its contract, or for     *)
(* another candidate (tested before a rotation is taken as done), fails the *)
(* request before the attempt counts.                                       *)
ExecuteMismatch ==
    /\ pc = "executing" /\ Uninterrupted
    /\ "mismatch" \in Faults /\ \E a \in Accounts : ~Accepted(a)
    /\ connection_rotation' \in {NoRetry, connection_rotation}
    /\ Finish("Failed", CurrentSendState, send_state_watermark)
    /\ attempt' = NoLocals
    /\ UNCHANGED <<call, envVars, routeVars, planVars, retryVars, deliveryVars,
                   barrierVars, failureVars, storeVars, budgetVars, pending_retry,
                   last_retryable_failure, connection_budget, current,
                   upstream_complete, client_retry>>

(* prepare_unavailable_native_continuation_replay; the argument says that   *)
(* the account wait budget of the request is used up.                       *)
ReplaysNativeContinuation(e, wait_exhausted) ==
    /\ ~e.retry_prohibited /\ RequiredAccount = NoAccount /\ ~wait_exhausted
    /\ ~(/\ AccountBusyWait
         /\ e.disposition \in {"RetryExactConnection", "ClientReplayRequired"})
    /\ continuation_attempt = "Native" /\ e.kind = "Capacity"
    /\ Continuation = "pinned" /\ HasSessionState

FallsBackToConnection(e) ==
    /\ connection_rotation.account # NoAccount /\ RecoveryWindowOpen
    /\ ~e.retry_prohibited /\ e.send_state = "NotSent" /\ e.kind = "Capacity"

(* advance_provider_candidate and the conditions it is called under         *)
AdvancesProvider(e, wait_exhausted) ==
    /\ ~e.retry_prohibited /\ e.kind \in {"Capacity", "Infrastructure"}
    /\ ~wait_exhausted /\ e.send_state = "NotSent"
    /\ continuation_attempt \in {"None", "ReplayAny"}
    /\ candidate_index < Candidates

(* Provider::execute fails: the original connection is retried, a lost      *)
(* native continuation is replayed, the next provider candidate is tried,   *)
(* or the request ends with the retained upstream failure or this one.      *)
ExecuteError(e, wait_exhausted) ==
    LET fallback == FallsBackToConnection(e)
        replay   == ~fallback /\ ReplaysNativeContinuation(e, wait_exhausted)
        advance  == ~fallback /\ ~replay /\ AdvancesProvider(e, wait_exhausted)
        exhausted == \/ e.kind = "SessionPolicy"
                     \/ ~e.retry_prohibited /\ e.kind = "Capacity"
        retained == exhausted /\ last_retryable_failure # NoError
    IN
    /\ pc = "executing" /\ Uninterrupted
    /\ attempt' = NoLocals
    /\ \/ /\ fallback \/ replay \/ advance
          /\ pending_retry' = IF fallback THEN connection_rotation ELSE pending_retry
          /\ connection_rotation' = IF replay THEN connection_rotation ELSE NoRetry
          /\ excluded_accounts' =
               IF fallback THEN excluded_accounts \ {connection_rotation.account}
               ELSE excluded_accounts \cup (IF replay THEN {PinnedAccount} ELSE {})
          /\ continuation_attempt' = IF replay THEN "ReplayAny" ELSE continuation_attempt
          /\ candidate_index' = IF advance THEN candidate_index + 1 ELSE candidate_index
          /\ collected' = FALSE
          /\ pc' = "preparing"
          /\ UNCHANGED <<finishVars, budgetVars, client_retry,
                         pending_terminal_failure, last_retryable_failure>>
       \/ /\ ~(fallback \/ replay \/ advance)
          /\ \/ /\ retained /\ last_retryable_failure.kind # "Unauthorized"
                /\ FinishRetainedFailure
             \/ /\ ~retained \/ last_retryable_failure.kind = "Unauthorized"
                /\ FinishProviderError(e, Escalate(CurrentSendState, e.send_state))
                /\ last_retryable_failure' = IF retained THEN NoError ELSE last_retryable_failure
                /\ UNCHANGED <<budgetVars, pending_terminal_failure>>
          /\ UNCHANGED <<planVars, pendingVars, collected>>
    /\ UNCHANGED <<call, barrierVars, envVars, routeVars, retryVars, storeVars,
                   connection_budget, current,
                   downstream_committed, delivery_has_terminal_fact, pulled,
                   upstream_complete, pending_stream_failure>>

(* The first attempt's write creates the row, later ones record the attempt *)
(* count.  A failed or lost write is only logged; until a creation is       *)
(* reported, each attempt tries it again.                                   *)
AttemptRecorded ==
    /\ pc = "recording"
    /\ pc' = "polling"
    /\ \E applied, reported \in WriteResults :
         /\ row' = IF ~applied THEN row ELSE IF request_persisted THEN RowAttempt ELSE RowInsert
         /\ request_persisted' = (request_persisted \/ reported)
    /\ UNCHANGED <<call, selectionVars, outcomeVars, envVars, attemptVars, deliveryVars,
                   barrierVars, budgetVars>>

-----------------------------------------------------------------------------
(* pull: the provider stream.                                              *)

(* ConnectionBudget::begin, called by the transport for every HTTP send and *)
(* every new WebSocket handshake, not for a reused socket.                  *)
OpenConnection ==
    /\ pc = "polling" /\ ~current.send_observed
    /\ ~connection_budget.completed /\ ~OpeningRefused
    /\ connection_budget' = [connection_budget EXCEPT !.openings = @ + 1, !.started = TRUE]
    /\ current' = [current EXCEPT !.opened = TRUE]
    /\ UNCHANGED <<pc, call, selectionVars, outcomeVars, envVars, deliveryVars,
                   barrierVars, storeVars, budgetVars, attempt, upstream_complete>>

(* STARTUP_TIMEOUT passes. *)
ConnectionWindowExpires ==
    /\ connection_budget.started /\ ~connection_budget.completed /\ ~connection_budget.expired
    /\ finalization.state = "None"
    /\ connection_budget' = [connection_budget EXCEPT !.expired = TRUE]
    /\ UNCHANGED <<pc, call, selectionVars, outcomeVars, envVars, deliveryVars,
                   barrierVars, storeVars, budgetVars, attempt, current,
                   upstream_complete>>

(* What next_event and collect_uncommitted do with an event of pull.        *)
HandOver(ev) ==
    /\ client_retry' = IF ev = "Completed" THEN RetrySuccess ELSE client_retry
    /\ pulled' = "Metering"
    /\ \/ /\ mode = "stream"
          /\ replay_barrier_reached' = (replay_barrier_reached \/ ev # "Prelude")
          /\ exposed' = (exposed \/ (downstream_committed /\ ev # "Prelude"))
          /\ delivery_pending' = ~downstream_committed
          /\ delivery_has_terminal_fact' =
               IF downstream_committed THEN delivery_has_terminal_fact ELSE ev = "Completed"
          /\ pc' = "idle" /\ call' = "none"
          /\ UNCHANGED collected
       \/ /\ mode = "collect"
          /\ collected' = TRUE
          /\ pc' = "polling"
          /\ UNCHANGED <<call, barrierVars, delivery_has_terminal_fact>>

(* pull receives an event.  Metering alone says nothing about the send; the *)
(* first other event of an attempt is held while `Sent' is written.         *)
StreamItem(ev) ==
    LET costs == ev \in {"Metering", "Completed"} IN
    /\ pc = "polling" /\ Uninterrupted
    /\ observed_cost' = IF costs THEN 1 ELSE observed_cost
    /\ costed' = IF costs THEN costed \cup {attempts} ELSE costed
    /\ \/ /\ ev = "Metering"
          /\ UNCHANGED <<pc, call, deliveryVars, barrierVars, client_retry,
                         connection_budget>>
       \/ /\ ev # "Metering"
          /\ connection_budget' = [connection_budget EXCEPT !.completed = TRUE]
          /\ \/ /\ ~current.send_observed
                /\ pulled' = ev
                /\ pc' = "observing"
                /\ UNCHANGED <<call, barrierVars, downstream_committed,
                               delivery_has_terminal_fact, collected, client_retry>>
             \/ /\ current.send_observed
                /\ HandOver(ev)
                /\ UNCHANGED downstream_committed
    /\ UNCHANGED <<selectionVars, envVars, failureVars, finishVars, storeVars, attempt,
                   current, upstream_complete, budget_prior_attempts,
                   budget_attempt_already_counted>>

(* mark_send_observed after its write: only now is the watermark raised.    *)
SendObserved ==
    /\ pc = "observing"
    /\ row' \in IF request_persisted THEN Written(RowSendState("Sent")) ELSE {row}
    /\ current' = [current EXCEPT !.send_observed = TRUE]
    /\ send_state_watermark' = "Sent"
    /\ HandOver(pulled)
    /\ UNCHANGED <<selectionVars, envVars, failureVars, budgetVars, connection_budget,
                   attempt, downstream_committed, upstream_complete, finalization,
                   response_commit, request_persisted>>

(* The stream ends without an error. *)
StreamEnd ==
    /\ pc = "polling" /\ Uninterrupted
    /\ upstream_complete' = TRUE
    /\ \/ /\ mode = "stream" /\ downstream_committed
          /\ FinishSuccess
          /\ UNCHANGED <<call, delivery_pending>>
       \/ /\ ~(mode = "stream" /\ downstream_committed)
          /\ delivery_pending' = (mode = "collect" /\ collected)
          /\ pc' = "idle" /\ call' = "none"
          /\ UNCHANGED <<finishVars, client_retry>>
    /\ UNCHANGED <<selectionVars, envVars, deliveryVars, failureVars, storeVars,
                   budgetVars, connection_budget, attempt, current,
                   replay_barrier_reached, exposed>>

(* Cancellation and the deadline at the three awaits that watch them.       *)
Interrupted ==
    /\ pc \in {"delaying", "executing", "polling"}
    /\ \/ cancelled /\ FinishCancelled
       \/ deadline_elapsed /\ FinishDeadline
    /\ attempt' = NoLocals
    /\ UNCHANGED <<call, selectionVars, envVars, deliveryVars, barrierVars, failureVars,
                   storeVars, budgetVars, connection_budget, current,
                   upstream_complete>>

-----------------------------------------------------------------------------
(* begin_stream_failure: the retry decision.                               *)

(* MUTANT: only an undelivered event hides an attempt. *)
HiddenWhenDelivered == ~delivery_pending

(* Nothing of this request has been given to the client that a new attempt  *)
(* could not replace.                                                       *)
Hidden == ~replay_barrier_reached /\ ~delivery_pending

RoutingBudgetLeft == routing_attempts < MaxAttempts

(* provider_proved_replay_safe *)
ProvedReplaySafe(e) ==
    e.send_state = "NotSent" \/ (e.send_state # "Ambiguous" /\ e.replay_safe)

AttemptSendState(e) == IF current.send_observed THEN "Sent" ELSE e.send_state

(* An opening refused by the budget keeps the connection failure that led   *)
(* to it as the result.                                                     *)
RestoresConnectionFailure(e) ==
    /\ e.budget_exhausted /\ e.send_state = "NotSent" /\ CurrentSendState = "NotSent"
    /\ Hidden
    /\ last_retryable_failure.pre_delivery_retry = "ConnectionRetry"

EffectiveError(e) ==
    IF RestoresConnectionFailure(e)
    THEN [last_retryable_failure EXCEPT !.retry_prohibited = TRUE] ELSE e

(* prepare_continuation_retry *)
ContinuationRetry(e) ==
    /\ e.pre_delivery_retry # "ConnectionRetry" /\ ~e.retry_prohibited
    /\ RequiredAccount = NoAccount /\ Hidden
    /\ AttemptSendState(e) # "Ambiguous" /\ ProvedReplaySafe(e) /\ RoutingBudgetLeft
    /\ HasSessionState
    /\ \/ /\ continuation_attempt = "Native"
          /\ e.disposition \in {"RetryExactConnection", "ProviderReplayAllowed"}
       \/ /\ continuation_attempt \in {"ReplayOwner", "ReplayAny"}
          /\ e.disposition \notin {"RetryExactConnection", "ClientReplayRequired"}

AccountRotationRetry(e) ==
    /\ RequiredAccount = NoAccount /\ continuation_attempt = "None" /\ Hidden
    /\ AttemptSendState(e) # "Ambiguous"
    /\ e.pre_delivery_retry = "AccountRotation" /\ RoutingBudgetLeft

(* Another opening on the same account, while nothing was ever sent.        *)
ConnectionRecovery(e, fits) ==
    /\ e.pre_delivery_retry = "ConnectionRetry" /\ Hidden
    /\ Escalate(send_state_watermark, AttemptSendState(e)) = "NotSent"
    /\ continuation_attempt = "None" /\ ConnectionRetryDelay(fits)

(* The provider's own transport retry or fallback, the same account again.  *)
TransportRecovery(e) ==
    /\ e.pre_delivery_retry \in {"TransportRetry", "TransportFallback"}
    /\ ~e.retry_after_exceeded /\ Hidden
    /\ AttemptSendState(e) # "Ambiguous" \/ e.kind = "MessageTooBig"

CanRotateConnection(e) ==
    /\ e.pre_delivery_retry = "ConnectionRetry" /\ RequiredAccount = NoAccount
    /\ RoutingBudgetLeft /\ account_switches < MaxAccountSwitches

ReservesRotation(e) ==
    /\ CanRotateConnection(e) /\ ~current.reserved
    /\ connection_budget.openings + 2 <= MaxOpenings

OrdinaryRetry(e) ==
    /\ e.pre_delivery_retry # "ConnectionRetry" /\ RequiredAccount = NoAccount
    /\ continuation_attempt = "None" /\ Hidden
    /\ AttemptSendState(e) # "Ambiguous" /\ ProvedReplaySafe(e) /\ RoutingBudgetLeft

(* A failure a client retry of the same turn already met is not retried.    *)
TransientRetry(e) ==
    /\ e.pre_delivery_retry \in {"TransientRotate", "TransientReturn"} /\ OrdinaryRetry(e)
    /\ ~(e.pre_delivery_retry = "TransientReturn" /\ client_retry.observed)
    /\ ~e.retry_after_exceeded
    /\ transient_retry_counts[current.account] < MaxTransientRetries

SameAccountRetry(e) ==
    /\ e.retries_same_account /\ ProvedReplaySafe(e) /\ Hidden
    /\ AttemptSendState(e) # "Ambiguous" /\ RoutingBudgetLeft
    /\ current.account \notin credential_recovery_attempted_accounts

Retryable(e, fits) ==
    /\ ~RecoveryProbe /\ ~e.retry_prohibited
    /\ \/ ContinuationRetry(e) \/ SameAccountRetry(e) \/ TransientRetry(e)
       \/ /\ e.pre_delivery_retry # "TransientReturn"
          /\ OrdinaryRetry(e) \/ AccountRotationRetry(e)
       \/ TransportRecovery(e) \/ ConnectionRecovery(e, fits)

(* MUTANT: a transport retry does not advance along the transports. *)
RetryTransportAgain(e) ==
    IF e.pre_delivery_retry \in {"TransportFallback", "ConnectionRetry"}
    THEN FallbackTransport ELSE current.transport

(* The transport of a retry on the same account; that of a connection retry *)
(* is the provider's to name, and the only one that asks names the fallback. *)
RetryTransport(e) ==
    CASE e.pre_delivery_retry = "TransportRetry" -> current.transport + 1
      [] e.pre_delivery_retry \in {"TransportFallback", "ConnectionRetry"} -> FallbackTransport
      [] OTHER -> current.transport

(* MUTANT: a transport recovery changes the account. *)
FollowUpRotating(e, fits) ==
    IF Retryable(e, fits) THEN "account" ELSE "terminal"

(* How the failed attempt is followed, in the order the code tries.         *)
FollowUp(e, fits) ==
    IF ~Retryable(e, fits) THEN "terminal"
    ELSE IF SameAccountRetry(e) THEN "credential"
    ELSE IF TransientRetry(e) THEN "transient"
    ELSE IF ConnectionRecovery(e, fits) /\ CanRotateConnection(e) /\ current.reserved
         THEN "rotation"
    ELSE IF TransportRecovery(e) \/ ConnectionRecovery(e, fits) THEN "transport"
    ELSE IF ContinuationRetry(e) THEN "continuation"
    ELSE "account"

(* MUTANT: the owner of a replayed continuation stays selectable. *)
ExcludesButOwner(e, fits) ==
    \/ FollowUp(e, fits) \in {"account", "rotation"}
    \/ ContinuationRetry(e) /\ continuation_attempt = "ReplayAny"

(* A replayed continuation excludes the account whatever follows.           *)
ExcludesAccount(e, fits) ==
    \/ FollowUp(e, fits) \in {"account", "rotation"}
    \/ ContinuationRetry(e) /\ continuation_attempt \in {"ReplayOwner", "ReplayAny"}

(* What the environment may raise at this point of the attempt: a refused   *)
(* opening ends the stream, a connection can only fail once it is opened,   *)
(* a transport recovery is asked for within the provider's own budget, and  *)
(* an attempt whose response began is not reported as not sent.             *)
MayRaise(e) ==
    /\ e.budget_exhausted => OpeningRefused /\ ~current.send_observed
    /\ e.pre_delivery_retry = "ConnectionRetry" =>
         /\ current.opened \/ connection_budget.completed
         /\ ~current.send_observed
    /\ e.pre_delivery_retry = "TransportRetry" => current.transport < MaxTransportRetries
    /\ e.pre_delivery_retry = "TransportFallback" => current.transport # FallbackTransport
    /\ current.send_observed => e.send_state # "NotSent"

(* begin_stream_failure: everything up to the write of the send state.  The *)
(* counters of a retry class are spent even when another class wins.  A     *)
(* terminal failure observes its whole batch; a failure to be retried only  *)
(* the canonical facts, its metering checkpoint stays in the kept batch.    *)
BeginStreamFailure(raised, fits, pause) ==
    LET e == EffectiveError(raised)
        restored == RestoresConnectionFailure(raised)
        sent == Escalate(send_state_watermark, AttemptSendState(e))
        follow == FollowUp(e, fits)
        again == [account |-> current.account, transport |-> RetryTransport(e),
                  delayed |-> e.pre_delivery_retry # "TransportFallback" \/ pause,
                  transport_recovery |-> follow # "transient",
                  reserve |-> follow = "transport" /\ ReservesRotation(e)]
        costs == /\ ~restored
                 /\ IF follow = "terminal" THEN BatchCosts(e) ELSE e.atomic_events = "Facts"
    IN
    /\ pc = "polling" /\ Uninterrupted
    /\ MayRaise(raised)
    /\ send_state_watermark' = sent
    /\ connection_budget' = [connection_budget EXCEPT !.completed = @ \/ sent # "NotSent"]
    /\ continuation_attempt' =
         IF ~ContinuationRetry(e) THEN continuation_attempt
         ELSE IF continuation_attempt # "Native" THEN "ReplayAny"
         ELSE IF e.disposition = "ProviderReplayAllowed" THEN "ReplayOwner" ELSE "Native"
    /\ recovery_account' =
         IF \/ follow = "credential"
            \/ /\ ContinuationRetry(e) /\ continuation_attempt = "Native"
               /\ e.disposition = "RetryExactConnection"
         THEN current.account ELSE recovery_account
    /\ connection_retries' =
         IF ConnectionRecovery(e, fits) THEN connection_retries + 1 ELSE connection_retries
    /\ transient_retry_counts' =
         IF TransientRetry(e)
         THEN [transient_retry_counts EXCEPT ![current.account] = @ + 1]
         ELSE transient_retry_counts
    /\ credential_recovery_attempted_accounts' =
         credential_recovery_attempted_accounts
           \cup (IF follow = "credential" THEN {current.account} ELSE {})
    /\ excluded_accounts' =
         excluded_accounts \cup (IF ExcludesAccount(e, fits) THEN {current.account} ELSE {})
    /\ pending_retry' = IF follow \in {"transient", "transport"} THEN again ELSE pending_retry
    /\ connection_rotation' = IF follow = "rotation" THEN again ELSE connection_rotation
    /\ last_retryable_failure' = IF follow # "terminal" THEN e
                                 ELSE IF restored THEN NoError
                                 ELSE last_retryable_failure
    /\ observed_cost' = IF costs THEN 1 ELSE observed_cost
    /\ costed' = IF costs THEN costed \cup {attempts} ELSE costed
    /\ pending_stream_failure' =
         IF follow = "terminal"
         THEN [kind |-> "Terminal", error |-> e, send_state |-> sent]
         ELSE [kind |-> "Discard", error |-> NoError, send_state |-> sent]
    /\ pc' = "failing"
    /\ UNCHANGED <<call, envVars, routeVars, deliveryVars, barrierVars, storeVars,
                   candidate_index, attempt, current, upstream_complete,
                   pending_terminal_failure, finalization, response_commit,
                   client_retry, budget_prior_attempts, budget_attempt_already_counted>>

(* MUTANT: the cost of a discarded attempt is lost. *)
ResetLosingCost ==
    /\ budget_attempt_already_counted' = FALSE
    /\ observed_cost' = 0
    /\ upstream_complete' = FALSE
    /\ UNCHANGED <<budget_prior_attempts, costed>>

(* reset_uncommitted_observations: the cost of a discarded attempt is kept. *)
ResetUncommittedObservations ==
    /\ budget_prior_attempts' = budget_prior_attempts + AttemptCharge
    /\ budget_attempt_already_counted' = FALSE
    /\ observed_cost' = 0
    /\ upstream_complete' = FALSE
    /\ UNCHANGED costed

(* resume_stream_failure: the send state is written, then the attempt is    *)
(* discarded or its failure becomes the result.                            *)
ResumeStreamFailure ==
    LET f == pending_stream_failure IN
    /\ pc = "failing"
    /\ row' \in IF request_persisted THEN Written(RowSendState(f.send_state)) ELSE {row}
    /\ pending_stream_failure' = NoStreamFailure
    /\ \/ /\ f.kind = "Discard"
          /\ current' = NoCurrent
          /\ ResetUncommittedObservations
          /\ collected' = FALSE
          /\ pc' = "preparing"
          /\ UNCHANGED pending_terminal_failure
       \/ /\ f.kind = "Terminal"
          /\ EndWithFailure(f.error, f.send_state)
          /\ UNCHANGED <<budgetVars, current, upstream_complete, collected>>
    /\ UNCHANGED <<call, selectionVars, envVars, barrierVars, finishVars, client_retry,
                   connection_budget, attempt, downstream_committed,
                   delivery_has_terminal_fact, pulled, request_persisted>>

(* Once the guard has recorded it, a failure with a batch is handed to a    *)
(* streaming caller before it is finalized; every other one is finalized at *)
(* once.  next_terminal_failure, finalize_pending_terminal_failure          *)
TerminalFailureSettled ==
    LET f == pending_terminal_failure
        delivers == mode = "stream" /\ HasBatch(f.error)
    IN
    /\ pc = "settling"
    /\ \/ /\ delivers
          /\ client_retry' = RetryFailure(f.error)
          /\ delivery_pending' = ~downstream_committed
          /\ replay_barrier_reached' = TRUE
          /\ exposed' = (exposed \/ downstream_committed)
          /\ pc' = "idle" /\ call' = "none"
          /\ UNCHANGED <<finishVars, pending_terminal_failure>>
       \/ /\ ~delivers
          /\ FinishProviderError(f.error, f.send_state)
          /\ pending_terminal_failure' = NoTerminalFailure
          /\ UNCHANGED <<call, barrierVars>>
    /\ UNCHANGED <<selectionVars, envVars, attemptVars, deliveryVars, storeVars,
                   budgetVars, pending_stream_failure>>

-----------------------------------------------------------------------------
(* The surroundings of the session.                                        *)

(* What the write a dropped call was waiting for may still have done; a mark *)
(* is only written when the row is known to exist.                          *)
InFlightRow ==
    CASE pc = "recording" -> IF request_persisted THEN RowAttempt ELSE RowInsert
      [] pc = "observing" /\ request_persisted -> RowSendState("Sent")
      [] pc = "failing" /\ request_persisted -> RowSendState(pending_stream_failure.send_state)
      [] pc = "committing" /\ request_persisted -> RowCommitted
      [] OTHER -> row

(* The client-retry guard has a command to send: the failure of the request *)
(* (settling, or the retained one that a selection ends with), the success  *)
(* of a response delivered as a whole.                                      *)
AwaitsGuard ==
    /\ client_retry.settled = "open"
    /\ \/ /\ pc = "settling"
          /\ pending_terminal_failure.error.pre_delivery_retry = "TransientReturn"
       \/ /\ pc = "selecting" /\ SelectionExhausted
          /\ last_retryable_failure.pre_delivery_retry = "TransientReturn"
          /\ ~HasBatch(last_retryable_failure)
       \/ pc = "committing" /\ upstream_complete

(* The await points at which a call can be dropped.                          *)
AwaitsOutside ==
    IF pc \in {"observing", "failing", "settling", "committing", "selecting"}
    THEN AwaitsGuard \/ (request_persisted /\ pc \in {"observing", "failing", "committing"})
    ELSE pc \in Awaits

Droppable == "drop" \in Faults /\ call \in {"next_event", "collect", "commit"}

(* The client goes away: the call in flight is dropped at its await and the *)
(* session is left to cancel_and_finalize.                                  *)
DropCall ==
    /\ Droppable /\ AwaitsOutside
    /\ row' \in {row, InFlightRow}
    /\ detached' = TRUE
    /\ pc' = "idle" /\ call' = "none"
    /\ attempt' = NoLocals
    /\ UNCHANGED <<selectionVars, outcomeVars, deliveryVars, barrierVars, budgetVars,
                   mode, cancelled, deadline_elapsed, connection_budget, current,
                   upstream_complete, request_persisted>>

(* The same while the guard records the success of a completed response:    *)
(* its last event is observed, but not handed over.                         *)
DropAtCompletion ==
    /\ Droppable /\ client_retry.settled = "open"
    /\ \/ /\ pc = "observing" /\ pulled = "Completed"
          /\ row' \in {row, InFlightRow}
          /\ current' = [current EXCEPT !.send_observed = TRUE]
          /\ send_state_watermark' = "Sent"
          /\ UNCHANGED <<observed_cost, costed>>
       \/ /\ pc = "polling" /\ Uninterrupted /\ current.send_observed
          /\ "Completed" \in StreamEvents
          /\ observed_cost' = 1 /\ costed' = costed \cup {attempts}
          /\ UNCHANGED <<row, current, send_state_watermark>>
    /\ detached' = TRUE
    /\ pc' = "idle" /\ call' = "none"
    /\ UNCHANGED <<selectionVars, failureVars, finalization, response_commit, client_retry,
                   deliveryVars, barrierVars, budget_prior_attempts,
                   budget_attempt_already_counted, mode, cancelled, deadline_elapsed,
                   connection_budget, attempt, upstream_complete, request_persisted>>

(* keepalive::response: while the first event of a stream is awaited, a     *)
(* heartbeat commits the transport through the shared ResponseCommit cell.  *)
Keepalive ==
    /\ "keepalive" \in Faults
    /\ pc \in Awaits /\ mode = "stream" /\ call \in {"next_event", "commit", "fail"}
    /\ response_commit = "open"
    /\ response_commit' = "committed"
    /\ UNCHANGED <<pc, call, selectionVars, envVars, attemptVars, deliveryVars,
                   barrierVars, failureVars, storeVars, budgetVars, finalization,
                   send_state_watermark, client_retry>>

(* cancel: any holder of the CancellationToken, shutdown included.          *)
RequestCancelled ==
    /\ "cancel" \in Faults /\ ~cancelled
    /\ cancelled' = TRUE
    /\ UNCHANGED deadline_elapsed

DeadlineElapses ==
    /\ "deadline" \in Faults /\ ~deadline_elapsed
    /\ deadline_elapsed' = TRUE
    /\ UNCHANGED cancelled

(* Neither is looked at once the finalization has begun. *)
Environment ==
    /\ finalization.state = "None"
    /\ RequestCancelled \/ DeadlineElapses
    /\ UNCHANGED <<pc, call, selectionVars, outcomeVars, attemptVars, deliveryVars,
                   barrierVars, storeVars, budgetVars, mode, detached>>

Terminated == pc = "closed" /\ UNCHANGED vars

-----------------------------------------------------------------------------
(* The caller's operations, the session's own steps, the provider's answers. *)
CallerStep ==
    \/ NextEvent \/ CollectUncommitted \/ DeferDownstreamCommit \/ CommitDownstream
    \/ CancelAndFinalize \/ FailDelivery \/ Close

SessionStep ==
    \/ Start \/ PrepareAttempt \/ DelayElapsed \/ SelectAccount \/ AttemptRecorded
    \/ SendObserved \/ Interrupted \/ ResumeStreamFailure \/ TerminalFailureSettled
    \/ CommitRecorded \/ FinalizationWritten

ProviderStep ==
    \/ \E a \in Accounts : ExecuteOk(a)
    \/ ExecuteMismatch
    \/ \E e \in ExecuteErrors, wait_exhausted \in BOOLEAN : ExecuteError(e, wait_exhausted)
    \/ OpenConnection
    \/ \E ev \in StreamEvents : StreamItem(ev)
    \/ StreamEnd
    \/ \E e \in StreamErrors, fits, pause \in BOOLEAN : BeginStreamFailure(e, fits, pause)

Next ==
    \/ CallerStep \/ SessionStep \/ ProviderStep \/ ConnectionWindowExpires
    \/ DropCall \/ DropAtCompletion \/ Keepalive \/ Environment \/ Terminated

Spec == Init /\ [][Next]_vars

(* Nothing is assumed of the provider.  The session's own awaits are timers *)
(* and store writes that return, the runtime polls the task that holds the  *)
(* session, and the adapters (their drop guards included) go on calling     *)
(* until the session is finalized.                                          *)
Fairness == WF_vars(SessionStep) /\ WF_vars(CallerStep)

FairSpec == Spec /\ Fairness

-----------------------------------------------------------------------------
(* Properties.                                                             *)

(* Once output that a later attempt cannot replace has reached the client,  *)
(* the session starts no further upstream attempt (replay_barrier_reached   *)
(* and delivery_pending gate every retry of begin_stream_failure).          *)
NoReplayAfterExposure == [][attempts' > attempts => ~exposed]_vars

(* The send state of a request is never taken back: the watermark only      *)
(* rises, and a row that says the request was or may have been sent is      *)
(* never rewritten to "not sent" by a later attempt, a late mark or the     *)
(* finalization (raise_send_watermark).                                     *)
SendNeverTakenBack ==
    [][/\ Rank(send_state_watermark) <= Rank(send_state_watermark')
       /\ row.send_state # "NotSent" => row'.send_state # "NotSent"]_vars

(* The key is charged exactly once for every attempt whose cost the session *)
(* took, discarded attempts included, also when the request ends with the   *)
(* failure of an earlier attempt, whose batch is observed a second time     *)
(* (finish_retained_failure).  A cost that stands only in the metering of a *)
(* batch that is retried is not taken by begin_stream_failure: it is no     *)
(* member of costed, and it is never charged.                               *)
ChargedOncePerCost == Finalized => BudgetCharge = Cardinality(costed)

(* The retry loop is bounded: account switches and routing attempts stay    *)
(* within the plan, and every transport chain and connection recovery       *)
(* together add a bounded number of attempts.                              *)
AttemptBound == MaxAttempts * (2 + MaxTransportRetries) + (MaxOpenings - 1)
RetryBudgets ==
    /\ routing_attempts <= MaxAttempts
    /\ account_switches <= MaxAccountSwitches
    /\ attempts <= AttemptBound

(* An attempt pinned to an account by a retry decision can be scheduled     *)
(* there: the account is not among the excluded ones handed to the provider *)
(* with the pin.                                                            *)
RetryPinSelectable ==
    pc = "executing" /\ attempt.pin # NoAccount => attempt.pin \notin excluded_accounts

(* An attempt that holds the reserved opening back never uses it: the       *)
(* change of account that a connection failure may lead to still has an     *)
(* opening (ConnectionBudget::begin, reserve_next_opening).                 *)
ReservedOpeningKept ==
    current.reserved /\ ~connection_budget.completed
        => connection_budget.openings < MaxOpenings

(* A request leaves the account of its last attempt only after that attempt *)
(* failed in a way that is proved safe to replay, or with the provider      *)
(* asking for another account; after any other failure, one whose arrival   *)
(* is unknown among them, only the same account is tried again.  The        *)
(* property is about the attempt just before: the gates of                  *)
(* begin_stream_failure read the attempt's own send state and not the       *)
(* watermark of the request, so that an ambiguous send, tried again on its  *)
(* account and then safely rejected there, does lead to another account.    *)
AccountLeftOnlyWhenSafe ==
    [][attempts' > attempts /\ last_selected_account \notin {NoAccount, current'.account}
         => \/ ProvedReplaySafe(last_retryable_failure)
            \/ last_retryable_failure.pre_delivery_retry = "AccountRotation"]_vars

(* A native continuation that was given up on its owner (ReplayAny) never   *)
(* returns to the owner.                                                    *)
ReplayLeavesOwner ==
    [][attempts' > attempts /\ Continuation = "pinned" /\ continuation_attempt = "ReplayAny"
         => current'.account # PinnedAccount]_vars

(* A provider failure that was decided before the client left, or before    *)
(* its batch was delivered, is the failure the request is finalized with,   *)
(* and a finalization once begun is never replaced (cancel_and_finalize,    *)
(* fail_delivery).                                                          *)
DecidedFailureStands ==
    [][/\ finalization.state # "None" =>
            finalization' = [finalization EXCEPT !.state = finalization'.state]
       /\ /\ finalization.state = "None" /\ finalization'.state # "None"
          /\ pending_stream_failure.kind = "Terminal" \/ pending_terminal_failure.present
          => \/ finalization'.outcome \in {"Failed", "Incomplete"}
             \/ RetainedFailure.error.kind = "Cancelled"]_vars

(* From the moment a finalization begins, the record and the transport cell *)
(* agree on whether the client got a response, and a heartbeat can no       *)
(* longer commit a request recorded as uncommitted.                         *)
CommitRecordedAsDelivered ==
    finalization.state # "None" =>
        /\ response_commit # "open"
        /\ finalization.committed <=> response_commit = "committed"

(* A cancelled, expired or abandoned request is always finalized.           *)
InterruptionFinalizes == (cancelled \/ deadline_elapsed \/ detached) ~> Finalized

=============================================================================
