# A TLA+ model of Codex Proxy RS

The repository (`src/`) is a single-process gateway between clients that speak
the OpenAI protocols and several providers (OpenAI accounts, xAI). It is a Rust
workspace: `gateway-core` holds the engine and its ports, `gateway-store` the
PostgreSQL and Redis implementations of those ports, `gateway-host` the process
(listener, workers, shutdown, updates), `gateway-api` the HTTP and WebSocket
adapters, `gateway-admin` the administration use cases, and `providers/*` the
upstream protocols.

This directory models the parts of it whose correctness depends on the order in
which things happen: the **attempt coordinator**, which carries one client
request through its upstream attempts; the **execution write buffer**, through
which the requests of the process reach the database; the **client retry
marker**, the **account capacity** and the **worker leases**, which several
requests or processes share through Redis; the **runtime snapshot**, by which
configuration changes reach running requests; the **shutdown of the host**; and
the **system update**, which replaces the running program on disk.

| module | what it is | proofs |
|---|---|---|
| `AttemptCoordinator` | one request session: attempts, retries, delivery, finalization | `AttemptCoordinatorProofs` |
| `ModelRequestRow` | the conditional SQL statements on one `model_requests` row | |
| `ExecutionBuffer` | sessions, the bounded queue, the writer, its shutdown, the rows | `ExecutionBufferProofs` |
| `OrderedDelivery` | the abstract specification `ExecutionBuffer` implements | |
| `CapacityWait` | waiting room, places, renewal and cleanup of one account | `CapacityWaitProofs` |
| `ClientRetry` | the failure marker of one client turn | `ClientRetryProofs` |
| `HostShutdown` | connection tracker, drain, join and abort of the workers, capacity owners | `HostShutdownProofs` |
| `WorkerLease` | supervision of a scheduled worker by several processes | `WorkerLeaseProofs` |
| `RuntimeSnapshot` | refresh, suspension and publication of the snapshot of one process | `RuntimeSnapshotProofs` |
| `SystemUpdate` | update, rollback, restart and recovery of the executable and the web assets | `SystemUpdateProofs` |

`MC<module>` gives the constants of a module their TLC values. Run one instance
with `tlc -config MCRouting.cfg MCAttemptCoordinator` and check proofs with
`tlapm WorkerLeaseProofs.tla`. `PROJECT.json` lists the runs, the properties with
the mutation each must detect, the source lines behind every definition, the
hazards and the theorems.


## 1. Inventory

For each component: the state it keeps, its operations, what it talks to, what
is hard about it, and what makes it correct.

### Attempt coordinator — `gateway-core/src/engine/coordinator.rs`, `connection.rs`, `response_commit.rs`
*State*: the routing position (candidate provider, excluded accounts, pins,
continuation stage), five retry budgets, the connection budget, the current
attempt, the delivery gate (replay barrier, pending delivery, the shared
`ResponseCommit` cell), the send-state watermark, pending failures, the
finalization. *Operations*: `next_event`, `collect_uncommitted`,
`commit_downstream`, `defer_downstream_commit`, `fail_delivery`,
`cancel_and_finalize`. *Talks to*: the provider (account selection and stream),
the execution store, the client-retry store, the budget, the adapter that calls
it and the keepalive encoder that shares the commit cell. *Hard*: every await is
a point at which the caller may drop the call; the heartbeat commits the response
behind its back; five kinds of retry are decided in one function from facts of
the error, and combine over several failures. *Correct when*: nothing is replayed
once the client has seen it; retries are bounded; an account is left only after a
failure that was proved safe to replay or that asks for another account; the record
says what was delivered, sent and charged; an interrupted request is finalized.

### Execution write buffer — `gateway-store/src/postgres/execution_buffer.rs`
*State*: two reservation counters, four statistics, an unbounded channel whose
length the counters bound, the writer task. *Operations*: the `ExecutionStore`
methods (each a non-blocking `enqueue`), the writer's loop and its drain.
*Talks to*: all sessions, PostgreSQL, the worker supervisor. *Hard*: the reserve
of items and bytes is two atomic updates; the send races the close of the
receiver; a statement may take effect and its answer be lost; the drain has a
deadline and the supervisor an abort. *Correct when*: reservations neither leak
nor are returned twice, the reserved quarter is really kept for failures,
observations of a request are applied at most once and in order, and what is lost
never makes a later record wrong.

### Execution records — `gateway-store/src/postgres/execution.rs`, `lease_renewal.rs`, `workers.rs`
*State*: the `model_requests` row (outcome, attempt count, send state, commit,
client status, provider columns, `deadline_at`), `ops_events`. *Operations*:
conditional inserts and updates; the renewal of `deadline_at`; the recovery of
rows whose deadline passed. *Hard*: the recovery races a finalization that still
waits in the buffer, and renewals of a live request may not arrive. *Correct
when*: a row that ended stays as it ended, and every row ends.

### Client retry marker — `gateway-core/src/engine/client_retry.rs`, `gateway-store/src/redis/client_retry.rs`
*State*: per client turn, a Redis marker that names the request that failed last,
with a TTL; per request, what it loaded and whether it is settled. *Operations*:
load, record, clear (compare and delete). *Hard*: several requests of the same
turn; commands cut off after 100 ms that still run; a dropped session whose
detached finalization reports its failure again. *Correct when*: a success
clears only a failure it observed, and a request that succeeded is never marked.

### Execution sessions and admission — `engine/execution.rs`, `engine/admission.rs`, `engine/key_wait.rs`
*State*: admission leases of a client key, waiters, the settlement of a session
(lease release, budget charge, client-retry outcome). *Hard*: settlement on drop,
a waiter cancelled as it is admitted, recovery of admissions at start.
*Correct when*: a lease is released exactly once and admissions never exceed the
key's concurrency.

### Account capacity — `gateway-store/src/redis/capacity_wait.rs`, `gateway-store/src/lease_renewal.rs`, `gateway-core/src/engine/capacity_wait.rs`
*State*: Redis sorted sets of waiters and places with expiry, tombstones of
cleaned-up owners; per owner a renewal task and a cleanup; the cleanup writer's
queue. *Operations*: enter directly, wait, promote, renew, release, clean up.
*Hard*: expiry against renewal, scripts that run after their caller gave up,
callers dropped at any await, several processes. *Correct when*: places are not
given away while they are used, waiters are not overtaken, an owner that is gone
leaves nothing behind for longer than a lease.

### Cooldowns and error protection — `account/error_protection.rs`, `gateway-store/src/redis/account_error_protection.rs`
*State*: cooldowns, error windows and probes per account, the policy revision.
*Correct when*: a cooldown is not shortened by an older result.

### Runtime snapshot — `gateway-core/src/runtime/mod.rs`, `runtime/account_concurrency.rs`, `routing/snapshot.rs`
*State*: the published configuration with its revision, its suspension and fence,
pending commits. *Operations*: committed refresh, notification, reconciliation,
suspension. *Hard*: two refreshes and a suspension in flight, lost notifications,
a policy publication whose answer is lost, a database restored to a backup, an
administration call dropped half-way. *Correct when*: what was confirmed as
committed is served or the snapshot is suspended, the revision requests see only
rises, a suspension is not ended by what was loaded before it, and the process
converges to the database.

### Host, shutdown and workers — `gateway-host/src/lib.rs`, `serve.rs`, `workers/mod.rs`, `gateway-core/src/task/mod.rs`
*State*: cancellation tokens, the connection tracker (a count and a draining bit
in one word), worker handles, leader leases in Redis. *Hard*: lost wakeups in the
drain, connections registered while draining, owners that write to Redis while
the cleanup writer stops, a leader lease that ends while its cycle runs, crashes
with a lease. *Correct when*: the drain ends when the last connection does and
stays drained, the writers outlive the requests, the process exits, and a
scheduled task runs in one process at a time.

### System update — `gateway-host/src/system_update/`
*State*: the executable and the web assets, each with a backup and a swap path; a
state file (previous and current version, status of the last operation); a lock
file; a restart that has been accepted. *Operations*: update, rollback, restart,
status with recovery. *Hard*: every file operation may fail and every undo too;
the process may be killed between any two, or in the middle of a copy; the lock
file survives. *Correct when*: a program that can be started remains, both parts
are replaced or neither, the state file names what is on disk, and no operation
stays recorded as running.

### Others
OpenAI account selection, credential refresh and affinity; the WebSocket
pool; administration tasks (import, relogin, backup, notifications); adapters and
wire types; stores of accounts, keys, usage and settings; frontend and
deployment. `PROJECT.json` says of each why it is not modelled or when it is
planned.


## 2. Plan

Ordered by how much of the gateway's promise to its clients rests on the part.

1. `AttemptCoordinator`. *Done; its safety is proved.*
2. `ExecutionBuffer` over `ModelRequestRow`, refining `OrderedDelivery`. *Done;
   its safety and the refinement are proved.*
3. `ClientRetry`: the requests of one turn over the Redis marker. *Done, proved.*
4. `CapacityWait`: the account's places. *Done; its safety is proved.* Left: the
   admission of client keys (`engine/admission.rs`, `engine/key_wait.rs`), whose
   leases follow the same protocol.
5. `HostShutdown` and `WorkerLease`. *Done; their safety is proved.* Left: the
   composition of the host's shutdown with the writer of `ExecutionBuffer`, whose
   own drain is modelled there.
6. `RuntimeSnapshot`. *Done; its safety is proved.*
7. `SystemUpdate`. *Done; its safety is proved.*
8. Error windows, probes and cooldowns of an account; OpenAI account selection
   and credential refresh; the WebSocket pool; administration tasks.

Every safety property of the passing runs is now a theorem. What is left to prove
comes with the parts that are left to model.


## 3. The attempt coordinator

### Correspondence
`pc` is the await point at which the call in flight is suspended and `call` the
public method it belongs to; one action takes the session from one await to the
next and does everything the code does in between, in its order. The fields of
`ResponseExecutionSession` are the variables of the same name. The locals of
`prepare_attempt` that live across its awaits are in `attempt`; `current` is
`CurrentAttempt`. `exposed` and `costed` are history variables, read only by
properties.

| code | actions |
|---|---|
| `start`, loading the client-retry guard | `Start` |
| `next_event`, `collect_uncommitted` | `NextEvent`, `CollectUncommitted` |
| `prepare_attempt` (delay, selection, `Provider::execute`, record) | `PrepareAttempt`, `DelayElapsed`, `SelectAccount`, `ExecuteOk`, `ExecuteMismatch`, `ExecuteError`, `AttemptRecorded` |
| the stream of the attempt | `OpenConnection`, `ConnectionWindowExpires`, `StreamItem`, `SendObserved`, `StreamEnd` |
| `begin_stream_failure`, `resume_stream_failure` | `BeginStreamFailure`, `ResumeStreamFailure` |
| `next_terminal_failure`, `finalize_pending_terminal_failure` | `TerminalFailureSettled` |
| cancellation and deadline in the reads | `Interrupted` |
| `commit_downstream`, `defer_downstream_commit` | `CommitDownstream`, `CommitRecorded`, `DeferDownstreamCommit` |
| `cancel_and_finalize`, `fail_delivery`, the finalizing write | `CancelAndFinalize`, `FailDelivery`, `FinalizationWritten`, `Close` |
| the surroundings | `DropCall`, `DropAtCompletion`, `Keepalive`, `Environment` |

The decision of `begin_stream_failure` is split into one predicate per kind of
retry (`ContinuationRetry`, `AccountRotationRetry`, `ConnectionRecovery`,
`TransportRecovery`, `TransientRetry`, `SameAccountRetry`, `OrdinaryRetry`) and
`FollowUp`, which states their precedence.

### Abstractions
* A provider error is the ten facts the coordinator reads. TLC enumerates errors
  that the providers really build (`MCAttemptCoordinator` names each for the
  place that builds it); the theorems hold for any set of errors in which a
  failed connection opening carries no client events.
* An event is `Metering`, `Prelude`, `Semantic` or `Completed`. Its content,
  timings and diagnostics are left out.
* The provider's choice of account is any account the code's checks accept;
  `ExecuteMismatch` is the answer they refuse. A provider that is not registered,
  or that cannot resolve the profile of the key, is the fault `unroutable` of
  `SelectAccount`. The plan has a candidate and `candidate_index` never passes the
  last one, so the branch of a missing candidate is not taken.
* Where the session only returns an error (no failure to keep, an unregistered
  provider), the call of `fail_delivery` with which the adapters answer it is part
  of the step.
* The commands of the client-retry guard are awaits like the others: a call may be
  dropped while its failure is recorded (`settling`, or at the end of a selection),
  while a completed event clears the marker (`DropAtCompletion`), and between a
  commit and the success that follows it. What becomes of the marker is the
  subject of `ClientRetry`.
* The batch an error carries costs nothing, has its cost among its canonical
  facts, or only in a metering checkpoint (`Batches`). A terminal failure takes
  either cost; a failure that is retried takes the facts only, and
  `finish_retained_failure` then marks the batch as counted: a cost that is only
  metered is never charged. No provider builds such a batch today.
* A connection retry goes to the transport the provider names; the only one that
  asks (`openai/src/provider/execution.rs`) names the fallback.
* `HasSessionState` is a constant: the operation keeps or lacks its provider
  session state for the whole request.
* Store writes are awaits of their own, at which the call may be dropped. The
  buffered store never suspends, so this allows more than the deployed process
  does, and what is proved or checked with drops holds a fortiori.
* Client requests have no deadline (`engine/execution.rs`); diagnostic and
  quality requests do, which is what the fault `deadline` stands for.

### Runs
| run | instance | what it shows |
|---|---|---|
| `routing` | 3 accounts, 2 providers, a pinned continuation with session state, 4 attempts, 1 account switch, rejections with batches of every kind, replay dispositions, refused selections, metered events, a provider that is missing or answers with a wrong account | one charge per cost, the replay that leaves its owner |
| `delivery` | 2 accounts, prelude, semantic and terminal events, a client-retry guard, lost writes, drops, heartbeats, cancellation, deadline; fair | commit record, send state, replay barrier, decided failures, finalization |
| `transport` | no continuation; transient, credential, transport and connection errors and requests for another account, 4 openings (the code's `MAX_OPENINGS`), 2 attempts, 1 switch, 1 transient and 2 transport retries, drops, cancellation | budgets, reserved openings, when an account is left |
| `replay_pin` | 2 accounts, an external continuation | a counterexample, see below |

Two accounts are the fewest with a change of account and three the fewest in
which an exclusion matters after a change; two attempts are the fewest with a
retry, and the larger budgets are there so that different kinds of retry follow
one another. In `transport` all of them do: `AttemptBound` is 11 there, and TLC
reaches 11 attempts. The sets of errors are split between the runs because retries of
unrelated kinds multiply states without meeting in a decision.

`replay_pin` ends in a counterexample on purpose: a transport fallback during the
replay of an external continuation both excludes and pins the account, so that no
selection can succeed (`findings`). Two more places where the code does something
else than `docs/architecture.md` says were met while modelling and are kept as
observations, without a run: a committed response whose events are all
replaceable preludes may still be retried (line 208 against `coordinator.rs:518`),
and the next provider is tried after an unproved send when the selection on the
current one then fails (line 211 against `coordinator.rs:1197`).

### Fairness
`FairSpec` is weakly fair to the session's own steps and to the caller. The
session's awaits are timers and store writes that return; the runtime polls the
task that holds the session; the adapters drive a session until it is finalized,
by their drop guards if the client left. Nothing is assumed of the provider: its
stream may stay silent for ever, which is the case `InterruptionFinalizes` is
about.

### Proofs
`AttemptCoordinatorProofs` proves the types first, `TypeCorrect`. `TypeOK` alone
is not inductive: that counters and pins keep their types while an error is being
decided needs `ReadsCurrent`, which says that an attempt is current whenever its
stream is read. There is one lemma per action and one per finishing function the
actions share (`FinishType`, `EndWithFailureType`, ...).

On the types and the inductive invariant `PhaseInv /\ DeliveryInv /\ ExposureInv`
rest
* `ExposureEndsAttempts` — `NoReplayAfterExposure`. An attempt begins only in the
  preparing phases, so it is enough that these are never entered with exposed
  output. Exposed output closed the replay barrier or completed the upstream
  (`ExposureInv`); every retry needs the barrier open and nothing pending; a
  retry that was decided and then suspended has shown nothing (`DeliveryInv`).
* `RecordMatchesTransport` — `CommitRecordedAsDelivered`: every finishing function
  closes the commit cell before it copies it, and afterwards neither a heartbeat
  nor a commit can change it.
* `DecidedFailureRecorded` — `DecidedFailureStands`, with drops at every await.

Each of the others adds an invariant of its own:
* `OpeningReserved` — `ReservedOpeningKept`, from `PendingInv` (a pending retry is
  taken by the next attempt only, and the locals of an attempt are gone when it
  starts) and `OpeningInv`: a retry that holds an opening back left one more for
  itself in the budget, and nobody else opens a connection before its attempt does.
* `OwnerLeft` — `ReplayLeavesOwner`, from `OwnerInv`: until a pinned continuation is
  replayed anywhere every attempt is on its owner, and from then on the owner is
  excluded; only a request without a continuation is moved for its connection.
* `SendStateOnlyRises` — `SendNeverTakenBack`, from `SendInv`: a row never says more
  than the watermark, except for a mark whose call was dropped before the
  watermark was raised. Such a session is detached and ends by
  `finish_local_failure`, which takes a started attempt as possibly sent.
* `ChargedForEachCost` — `ChargedOncePerCost`, from `CostInv`: the charge is the
  number of attempts whose cost the session took, the current one through `observed_cost`
  and the earlier ones through the prior total, and what is left of an attempt
  after it ended is marked as counted already.
* `RetriesBounded` — `RetryBudgets`, from `CountersInv` (each counter is within its
  own budget), `PinsInv` (every pin is the last selected account, so only an
  attempt that was checked against the switch limit can change it) and `ChainInv`,
  which pays for attempts that no counter counts: `Spent` allows every routing
  attempt one chain of transports and every connection retry one attempt, and the
  steps of the chain the current attempt may still go through are not spent yet.

They hold for all sets of accounts and providers, all budgets and all errors
satisfying the named assumptions.

* `AccountKept` — `AccountLeftOnlyWhenSafe`, under the hypothesis `OneRoute`, from
  `KeepInv`: after a failure that is neither proved safe to replay nor asks for
  another account, the failed attempt is followed by a retry on its account, whose
  pin `prepare_attempt` takes over, or by the end; a selection that then fails ends
  the request or returns to the connection it had.

`OneRoute` says where the property holds, and the instance of `transport` satisfies
it: one provider, and no owner of a continuation with its session state. With a
second provider a failed selection moves on to it, as said above; with a pinned
continuation the selection on the owner may fail after a fallback for a message
that was too big, and the continuation is then replayed elsewhere
(`coordinator.rs:1185`).

The property is about the attempt just before a change of account, as the gates of
`begin_stream_failure` are: they read the attempt's own send state, not the
watermark of the request. A message that was too big for the socket (an ambiguous
send) is tried again over the fallback on the same account; if that attempt is
safely rejected, the request goes to another account although the first send may
have arrived. So a request that may have reached one account can be sent to
another one, which line 211 of the architecture document does not allow for.


## 4. The execution buffer

### Correspondence
Each request has a session, reduced to the order in which the coordinator calls
the store (created at the first attempt, or together with its failure before one;
attempts, marks and commit; finalization; the client's status last), and a
producer, which is the position of that call inside `enqueue`. The steps of
`enqueue` are those that other threads can see between: the item, the bytes, the
send; and on the way back the bytes, the item.

| code | actions |
|---|---|
| the `ExecutionStore` methods | `CreateModelRequest` ... `RecordClientStatus` |
| `reserve`, `enqueue` | `ReserveItem`, `ReserveBytes`, `Send`, `ReturnBytes`, `ReturnItem` |
| `run`, `persist_queued`, `Drop` of an observation | `Receive`, `Persist`, `StoreUnavailable`, `Answered`, `ReleaseBytes`, `ReleaseItem` |
| `drain_on_shutdown` | `CloseReceiver`, `Drained`, `PersistTimedOut`, `Discard`, `Stop` |
| host, time, recovery | `ShutDown`, `DrainTimeElapses`, `Abort`, `DeadlinePasses`, `RecoverExpired` |

`ModelRequestRow` gives for each write the `where` clause of its statement
(`Matches`) and the row it leaves (`Updated`). A write that matches nothing is an
error of the port. `Persist` and `Answered` are separate: between them the effect
stands and the answer is on its way, and may be lost.

### Abstractions
* The bytes of an observation are a constant per kind; failures of probes and of
  the process are observations without a request and behave like
  `RecordOpsEvent` as far as the queue goes.
* The renewal of `deadline_at` is the condition of `DeadlinePasses`: a row lapses
  after its session is over, or under the fault `lapse`. A lapsed row cannot be
  renewed, as in the statement's `deadline_at > now()`.
* The statistics (enqueued, dropped, persisted, failed) are only reported and are
  left out; the history variable `lost` says whether an observation was refused or
  failed to be written. A panic of the writer and its restart are not modelled.
* A statement whose future is dropped may take effect later at the server;
  nothing is written after it, so this is the same as before the drop.

### Runs
| run | instance | what it shows |
|---|---|---|
| `buffer` | 2 sessions, 4 items with a reserve of one, 4 bytes, more uncritical observations than fit, drain with its deadline, abort | reservations, refinement of `OrderedDelivery` |
| `buffer_rows` | 1 session, 2 attempts, 1 item, failing store, lapsing row, shutdown; fair | the row against the session, rows end, the writer stops |

Four items are the fewest with a reserve (`limit / 4`). Two sessions suffice for
the races on the counters, since each step of `enqueue` touches one counter. The
rows need one session: the statements of different requests share no row; with
one item an observation is refused whenever the writer has not caught up, so any
of them may be the one that is lost. The
sessions of `buffer` are symmetric.

Deadlock is not checked: when all sessions have ended and the queue is empty,
nothing is left to do.

`FinalRowTruthful` has an exception that a reader of the table should know:
`finalize_model_request` does not rewrite the provider and account columns, so if
the observation of a later attempt was lost, the finalized row names the account
of an earlier one.

### Fairness
`enqueue` never awaits, so a producer inside it finishes. The writer task, the
recovery worker and time go on; a session finalizes its request, which for the
coordinator is `InterruptionFinalizes` and its adapters' drop guards. Nothing is
assumed of the store, whose failures end a write.

### The abstract specification
`OrderedDelivery` has sources that offer items one after the other, and a queue
that accepts or refuses each while it is open, delivers at most once and in
order, and may lose items; its length is bounded, with the last quarter for
critical items. The mapping takes the observation in the writer's hand, until its
statement has run, for the head of the queue. It is checked by TLC in `buffer` and
proved.

### Proofs
`ExecutionBufferProofs` proves for any finite set of requests, any limits, sizes
and number of attempts, and any faults:
* `TypeCorrect`, and `OrderKept` (`OrderInv`): the observations of a request lie in
  the order of its calls with the writer, in the channel and with its producer,
  although producers of other requests send in between.
* `FinalizedRowTruthful` — `FinalRowTruthful`, from `BufferInvariant`. The invariant
  speaks of the observations that may still be written: they say nothing
  the session has not reached, a later one never less than an earlier one, a
  finalization all of it, and the row no more than any of them (`WriteInv`); a
  running row names the account of the attempt it counts (`RowInv`); and while
  nothing was lost, the account of the last attempt is in the row or in an
  observation that comes no later than the one that relies on it (`AliveInv`).
* `RowsAdvance` — `RowOnlyAdvances`, from the same invariant: no pending observation
  knows less of the send than the row.
* `ItemsCounted` (`ItemsInv`): `queued_items` is the number of observations held,
  within the limit and its reserve, of which the uncritical ones are within the
  limit. Each reservation is one exchange that compares and adds.
* `ImplementsOrderedDelivery` — `DeliversInOrder`. Every step of the buffer is
  mapped to a step of `OrderedDelivery` or to none: the order comes from `OrderInv`,
  the bound of the abstract queue from `ItemsInv`.
* `ReservationsCounted` — `ReservationsHeld`: both counters are, between any two
  steps, what the producers, the channel and the writer hold. `Total` states the
  sum of several sizes as the number of their bytes (pairs of a holder and one of
  its bytes), so that a step adds or removes the bytes of one holder, and the
  channel's are renumbered when its head is received; a recursive sum would need
  an induction that the provers cannot do.


## 5. Account capacity

### Correspondence
`waiting`, `order`, `active`, `cancelled` and `lastStarted` are the keys of one
concurrency pool in Redis; `net` holds the scripts that were sent and have not
run. `live` says who still waits for the answer of a script: a script whose
caller gave up stays in `net` and may run at any later time.

| code | actions |
|---|---|
| the enqueue, execution, renewal and cancel scripts | `EnqueueRuns`, `ExecutionRuns`, `RenewalRuns`, `CancelRuns` |
| `acquire`, `acquire_scheduling`, `try_promote` and their answers | `Acquire`, `AcquireScheduling`, `TryPromote`, `Enqueued`, `Granted`, `StillBusy`, `TurnedAway` |
| `release`, `Drop for Ownership` | `Release`, `Released`, `Finish`, `Abandon` |
| `LeaseRenewal` | `RenewCall`, `Renewed`, `RenewFails`, `RenewWakes`, `LeaseFails`, `RequestCancelled` |
| the cleanup writer | `CleanupReceive`, `CleanupAnswered`, `CleanupFails`, `CleanupRetry` |

### Abstractions
* One clock for the processes and Redis: clock skew is not modelled. A local
  timer fires before the clock passes it, which a runtime only approximates.
* `RenewedLeaseCovers` and `ConcurrencyHeld` speak of requests whose lease has
  been renewed. The first lease is counted from the answer to the grant, the
  server's from the request; the first renewal is sent at once and closes the gap.
* The sequence number of a waiter is kept only relative to the others.
* A promotion that finds the cleanup writer stopping is refused; the shutdown of
  the writer is modelled in `HostShutdown`, and here the process goes on.
* The pool for quality checks, an explicit request deadline and the counts shown
  to administrators are left out.

### Run
`capacity`: 2 owners, 1 place, waiting limits 1 and 2, TTL 3, a wait of 2, an
interval of 1, a cleanup queue and concurrency of 1, one fault, clock up to 5;
owners are symmetric. Two owners on one place are the fewest that compete; the
clock reaches beyond the expiry of a first lease and its renewal; TTL 3 is the
least whose third is not zero. Deadlock is not checked: owners end.

### Proofs
`CapacityWaitProofs` proves for any finite set of owners, any number of places and
any lease times of the assumption (a TTL of at least 3, which makes the renewal
interval positive). The invariant, `CapacityInvariant`, says of each owner by itself
where it is, against its renewal task and its cleanup (`Stage`); what every script
sent for it, however late, may still be (`UnderWay`); what Redis holds for it
against its deadlines (`Kept`): until it executes nothing outlasts its cleanup
deadline, and once it is cleaned up nothing is held and the tombstone lasts as long
as the wait did; and what the renewal
task believes of its lease (`Held`). Beside it, the queue holds ended owners and
the places are counted (`Places`). From it follow
* `NeverComesBack` — `CleanedStaysGone`: a late enqueue or grant finds the tombstone or
  its own deadline past, a late renewal needs a place;
* `RenewedKeepsPlace` — `RenewedLeaseCovers`, and with it `ConcurrencyBound` —
  `ConcurrencyHeld`: a confirmed lease is no longer than the one in Redis, so the
  requests that execute on one are among the places that are counted;
* `WaitersInOrder` — `NoOvertaking`; a waiter's number is one more than the largest in
  use, which exists because the owners are finitely many;
* `CleanupReachesPast` — `CleanupOutlastsPlace`.


## 6. The client retry marker

Each request of the turn has a `ClientRetryGuard` (`observed`, `settled`), a
stage that orders the calls the coordinator makes of it (`Completes`,
`TerminalFailure`, `FinishSuccess`, `FinishError`, `FinishSilently`), and at most
one store call it waits for. A call ends with its answer, an error or after
100 ms (`Loaded`, `Settle`); its command is in `net` until Redis runs it (`Run`).
`Drop` is the request's future dropped, at which a session that may hold a decided
failure goes to a detached task (`finalize_detached`); the task finalizes it and, if
the guard is not settled, reports the failure once more (`FinishError`). `Expire` is
the TTL. Versions of the marker
are the requests that set it. `recorded`, `before` and `completed` are history.

`client_retry` checks three requests, which are symmetric: an older success, the
failure it saw and a newer failure. `ClientRetryProofs` proves for any set of
requests, from one inductive invariant (`MarkerInvariant`: what a request has
observed, has on its way to it or is about to delete had been recorded when it
loaded; a request sends one SET at most and its detached task another, none of
them after a success, and no SET under way has been recorded already), that a
clear deletes only what its sender had seen (`DeletesOnlyOlder`), that a request
that reported success is not marked (`CompletedNotMarked`), and that the marker of
a request comes back once it is gone only if the request was dropped, and then
once (`RecordedOncePerOwner`): the failure of a dropped call can be recorded a
second time after a newer request has deleted it.


## 7. The shutdown of the host

### Correspondence
Every atomic operation, notification and channel operation is a step.

| code | actions |
|---|---|
| `ConnectionTracker::register`, upgrade, `Drop for ActiveConnection` | `RegisterLoad`, `RegisterExchange`, `Detach`, `Leave`, `NotifyIdle` |
| `serve_router`, `wait_idle` | `Cancel`, `BeginDraining`, `ServeReturns`, `Enable`, `CheckIdle`, `Poll`, `Notified`, `DrainTimeout`, `ServeFails` |
| the end of `HostBundle::serve` | `Stop`, `Join`, `AbortWorkers`, `StopProxy` |
| `Ownership` of `capacity_wait.rs` | `OwnershipCheck`, `OwnershipCount`, `OwnershipRecheck`, `HandOver`, `Uncount`, `NotifyWriter` |
| `CapacityWaitCleanupWriter::run` | `LoopHead`, `CloseReceiver`, `SelectCancelled`, `SelectChanged`, `SelectCleaned`, `SelectReceived` |

Memory is sequentially consistent in the model, as the code demands (`SeqCst`) of
the owners' count and the writer's flag; the tracker is one word, on which
acquire/release suffices. Of the workers the cleanup writer is modelled; the
others are cancelled and joined like it. What a cleanup does is in `CapacityWait`.

### Run, fairness and proofs
`host_shutdown`: 2 connections, 2 owners, a tracker that is full with 2 and a
cleanup concurrency of 1, so that limits and races between two of each kind
occur. Timers fire and tasks that can run do; clients may keep their connections
and requests their places for ever, and `ShutdownEnds` holds all the same, by the
drain deadline and the abort. Deadlock is not checked: the process exits.

`HostShutdownProofs` proves for all finite sets of connections and owners:
* `TypeCorrect`, for which the counters must be what they count (`Counted`:
  `count` is the number of connections that registered and have not left, `owners`
  that of the owners between counting and uncounting, the cleanup queue no longer
  than the owners that handed over), or they could leave their range;
* `IdleNoticed`: a host that waits with no connection left has its wakeup or a
  connection about to send it. The waiter is registered before the count is read,
  so whoever brings the count to zero afterwards notifies it (`DrainInv`);
* `IdleStays`: draining is set before the drain ends, and an exchange that would
  register compares the word with the draining bit in it;
* `PlacesCleanedUp`: an owner that may write counted itself and then saw the writer
  not stopping; the writer closes its receiver only after it set `stopping` and
  then read a count of zero.


## 8. Worker leases

### Correspondence
A process supervises the worker: `TryAcquire`, `Busy`, `BeginCycle`,
`AcquireFails`; the cycle with its renewals `RenewCall`, `Renewed`, `RenewFails`,
`SeeShutdown`, `EndCycle`; the release `Released`; the end `Stop`. The scripts are
`AcquireRuns`, `RenewRuns` and `ReleaseRuns`, late ones included. A process may
`Crash` and start again. Leases and timers hold the time they have left.

### Abstractions
The cycle itself does nothing here but end when it likes. While a renewal is under
way the cycle is not polled, as in the code's `select!`. Backoff, sleep times and
health reports are left out. Ids are reused when nothing remembers them. The
assumption `3 * Renewal <= TTL` holds for the schedules in the repository (30/10,
900/300 and 600/60 seconds); `WorkerSchedule::try_new` demands only
`Renewal < TTL`, which would not be enough for `LeaseCoversCycle`.

`OneCycle` excludes a cycle that has been cancelled: it may run on without a lease
until it notices, and `docs/architecture.md:466`, which promises mutual exclusion
of single cycles, is to be read with that exception.

### Run, fairness and proofs
`worker_lease`: 2 processes, 3 ids, TTL 3, renewal and response of 1, one fault,
which is the smallest schedule the assumption allows. Three ids let a late script
of a forgotten guard exist beside two live ones. Deadlock is not checked: both
processes may be told to stop. Fairness:
tasks run, time goes on, Redis runs the script of a caller that waits, and a
cancelled cycle comes to an end, which is what the tasks' cancellation checks are
for; a cycle that is not cancelled may run for ever. `ShutdownStops` and
`CyclesGoOn` rest on it.

`WorkerLeaseProofs` proves `LeaseCoversCycle` and `OneCycle` for any processes,
ids and schedule within the assumption. The inductive invariant says that a
supervisor has an id of its own exactly while it asks for a lease or has one
(`Owned`, `Unique`), which scripts can still answer it or take its lease away
(`Posted`, `Quiet`), that Redis has one member at most (`OneMember`), and that every
timer the supervisor may still wait for fits into what is left of its lease, also
while a yes is on its way (`Covered`).


## 9. The runtime snapshot

### Correspondence
Three kinds of task refresh: administration calls that commit (`Commit`,
`PublishCommitted`, `Notify`, and `DropCommit` when the client leaves), the
subscription (`Notified`) and the reconciliation (`ReconcileStarts`,
`LockBackground`, `ReadRevision`, `ReadRevisionFails`, `Preempted`). One of them
holds `refresh_lock`; `work` is its refresh.

| code | actions |
|---|---|
| `CommittedRefreshGuard::begin`, the lock, `BackgroundRefreshGuard::begin` | `BeginCommitted`, `LockCommitted`, `LockBackground` |
| `compile_inner`, its stability loop | `LoadFacts`, `Observe`, `Query`, `Verify`, `CompileFails` |
| the publication of the policy, bounded by one second | `PublishPolicy`, `PolicyTimesOut`, `LatePolicy` |
| the end of `refresh_locked` | `Apply` |
| `suspend` | `Suspend` |
| surroundings | `RemoteCommit`, `CatalogChanges`, `Restore` |

### Abstractions
* The database is the list of committed configurations; the revision is its
  length and a restore shortens it. Of a configuration its account limits are
  kept, which is what a publication compares; the catalogs of all providers are
  one generation. How routing tables are built is data.
* The fence is a fact of the refresh (`fenced`: it changed since it was read);
  `old` is history (the facts were loaded before the last suspension).
* The grace period of a suspended snapshot decides nothing here: a snapshot whose
  period is over is suspended, which makes a reconciliation reload it.
* A catalog query that fails keeps the models of the previous snapshot and still
  records the generation; `asked` is the generation the catalogs were asked in,
  not the one whose answer is served.
* `refresh` without a commit is used by tests only and left out. `suspend` is
  public and has no caller outside reconciliation in the repository; `Suspend`
  allows it at any time.

`Converges` has an exception a reader should know: after a restore the database
may reach the published revision again with another content, and revisions alone
do not tell the two apart. Then the process goes on serving what it had, unless a
later refresh finds the limits different, which suspends it.

### Run, fairness and proofs
`runtime_snapshot`: one committing call, 2 limits, 2 attempts of the stability
loop, 2 revisions, 2 catalog generations, one notification, 2 faults; deadlock is
checked. Two revisions are the fewest with a commit and a restore; two faults let
a failed call and a suspension or restore meet. Fairness: every task is polled,
reconciliation starts again after its interval, a call that is not dropped goes
on. Notifications may all be lost. The bounds on commits and faults are what makes
"without further commits" true in the end.

`RuntimeSnapshotProofs` proves the four safety properties for all constants within
the assumption. The invariant: one task at most refreshes (`OneHolder`); snapshot
and concurrency handle carry the same configuration (`HandlesAgree`); a
refresh that is about to be applied has its policy in Redis (`PolicyReady`, for
`PolicyPrecedesSnapshot`); catalogs are asked in order (`AskedInOrder`, for
`PublishedNeverFalls`); a refresh whose facts are older than a suspension is fenced
(`FencedWhenOld`, for `SuspensionHolds`); and for `CommittedIsServed`, what was
served and what the calls committed lies in the history of the database
(`InHistory`), a refresh past its load has loaded what was served and, in a
committing call, its own commit (`LoadedCovers`), a changed fence means that the
handles are suspended, and a committed refresh suspends when it does not publish
(`Suspending`). The steps are first sorted into those beside the refresh
(`Aside`), those after which no facts are loaded (`Between`) and those of the
refresh itself (`Gathers`), so that each part is proved against three kinds of
step.


## 10. The system update

### Correspondence
`files` holds, for the executable (`bin`) and the web assets (`web`), what is at
the path (`cur`), its backup, its swap path and in the temporary directory: the
version it came with, nothing, or the remains of a copy or of a removed directory
(`Broken`). `record` is the state file, `lock` the lock file. `pc` is the next
file operation of the operation under way; one action is one file operation with
both its outcomes.

| code | actions |
|---|---|
| `lock_operation`, `OperationFileLock::acquire` | the guard `MayOperate`, `LockAges` |
| `start_update`, `rollback` up to `set_running` | `StartUpdate`, `RefuseUpdate`, `StartRollback` |
| `perform_update_inner`, `install_release` | `Download` |
| `replace_dir`, `restore_dir` | `WebClear`, `WebBackup`, `WebInstall`, `WebUndo`, `WebRestore` |
| `replace_release_files` | `BinClear`, `BinBackup`, `BinInstall`, `BinUndoClear`, `BinUndo` |
| `rollback_release`, `swap_file`, `swap_dir`, `swap_paths` | `Rollback`, `SwapClear`, `SwapOut`, `SwapIn`, `SwapBack`, `SwapBackUndo`, `SwapUndo`, `SwapEnds` |
| `finish`, `Drop for UpdateOperation`, `recover_interrupted` | `Finish`, `Dropped`, `Recover` |
| `restart`, `RestartGuard`, the replacement process | `Restart`, `Exit`, `Boot` |
| surroundings | `Cancel`, `Crash` |

A failing file operation is a fault, counted in `faults`; a kill is counted in
`crashes`. Taking the lock and recording `running` are one step, as are recording
the outcome and removing the lock; the kill between the two is an alternative of
`Crash`, which leaves a fresh lock beside a state file that is not running.
`before` (the files when the operation began) and `lost` (an operation was killed,
or its outcome was not recorded) are history.

### Abstractions
* A path and its backup are in one directory, so a move between them is a rename;
  a move out of the temporary directory may be a copy, which is not atomic.
* The state file is replaced by a rename and is whole at any time.
* How a release is found, downloaded, verified and unpacked is one step that
  succeeds or fails; only it awaits, so only there does a cancellation interrupt.
* One process of the gateway at a time, started again by its supervisor. The
  restart inside a container keeps the process and is left out, as are a lock file
  that cannot be removed and the comparison of operation ids in `finish`, which
  differ only when two processes write one state file.

### Run and fairness
`system_update`: releases 1 to 3, of which 3 has no web assets, one fault, one
kill. Three releases are the fewest with a backup that is neither the version
before nor the one after; a fault and a kill can meet in one operation. An
operation goes on, a stopped process is started if an executable can be, the lock
grows old; and someone asks for the status again and again (strong fairness of
`Recover`, since a restart or another operation may come between), without which
`OperationsSettle` fails: nothing but `update_status` recovers. Deadlock is not
checked: without an executable nothing starts.

### Proofs
`SystemUpdateProofs` proves for any number of releases, faults and crashes:
* `TypeCorrect`;
* `ExecutableKept` — `BinaryKept`, from `UpdateInvariant` (`Kept`): while no process
  runs some path holds an intact executable; while one runs it is at its own path,
  at the backup between the steps that replace it, or where `Exchanging` says in
  the middle of a swap (`InPlace`), and the compensating steps run only after the
  one fault, so that they succeed;
* `UpdatedTogether` — `AllOrNothing`, from `OperationInvariant`, whose part `Exact`
  compares the files at every step with `before`: what has been moved where, and
  what the steps still to come can restore (`Updating`, `RollingBack`, `Exchange`);
* `StateFileTruthful` — `VersionsTruthful`, from its part `Truthful`: between
  operations the recorded versions are those of the files, during one those of
  `before`, and `finish` records what `Exact` gives for the files at the end.

### What the exceptions mean
The properties say where they stop, and the code does what they leave out:
* *A lost outcome* (`lost` in `VersionsTruthful`). If the process is killed after
  the files were replaced and before `finish` wrote the state file, the recovery
  records a failure and keeps the old `current_version`, which `set_running`
  (`state.rs:270`) never corrects. Update 1 to 2, killed; start, update 2 to 3,
  restart, roll back, restart: the process runs 2, the state file says 1, the
  status asks for a restart however often one is made, and `start_update` refuses
  every update (`mod.rs:280`). The tests expect that a process which was started
  from the installed version needs none (`tests/system_update/mod.rs:1567`).
* *Two faults* (`faults <= 1`). If the new executable cannot be installed and its
  undo fails as well, the only intact executable is the backup, which the next
  update removes first.
* *No web assets at the beginning* (`before.web.cur # Absent` in `AllOrNothing`),
  which a kill between their backup and their replacement leaves: an update that
  then fails at the executable leaves the new web assets beside the old program.
* A rollback after an update without web assets exchanges the web assets with the
  backup of an earlier update, if there is one, and `Target` says so: the program
  and the assets then come from different releases.


## 11. What is only model-checked
Liveness under fairness (`InterruptionFinalizes`, `RowsEnd`, `WriterStops`,
`ShutdownEnds`, `ShutdownStops`, `CyclesGoOn`, `Converges`, `OperationsSettle`) is
outside the prover.
Every safety property of the passing runs is stated by a theorem, for
`AccountLeftOnlyWhenSafe` under the hypothesis `OneRoute` (section 3).
`RetryPinSelectable`, of the run `replay_pin`, is refuted.


## 12. What is not modelled
Parsing and encoding, SQL and Redis access that is one statement per operation,
the providers' wire protocols, the administration's create, read, update and
delete, the frontend and the deployment scripts have no ordering to check; they
are most of the repository's lines. The items the plan marks as left (client-key
admission, cooldowns, account selection and credentials, the
WebSocket pool, administration tasks) have state and ordering of their own and
are not modelled yet; `PROJECT.json` says of each component what is missing.
