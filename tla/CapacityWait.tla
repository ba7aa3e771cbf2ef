---------------------------- MODULE CapacityWait ----------------------------
(***************************************************************************)
(* The capacity of one upstream account (one concurrency pool of it), kept *)
(* in Redis and shared by every process of the gateway.                    *)
(*                                                                         *)
(* An owner asks for an execution place directly (acquire_scheduling) or   *)
(* enters a bounded waiting room first and is promoted from it (acquire,   *)
(* try_promote).  Each of these is one Lua script.  The owner's token is   *)
(* made, and its cleanup armed, before the first script is sent; however   *)
(* the owner ends (answer, error, release, a future dropped while a script *)
(* is under way) its token is cleaned up by CANCEL_SCRIPT, directly or     *)
(* through the queue of the cleanup writer.  While an owner executes, a    *)
(* task renews its place and cancels the request when it cannot.           *)
(*                                                                         *)
(* Scripts travel: a script sent by a caller that gave up may still run,   *)
(* at any later time.  Clocks of the processes and of Redis are one clock. *)
(* A local timer fires before the clock moves past it.                     *)
(***************************************************************************)
EXTENDS Integers, Sequences, FiniteSets, FiniteSetsExt

CONSTANTS
    Tokens,             \* the ownerships created, one token each
    MaxConcurrent,      \* places for execution
    WaitingLimits,      \* max_waiting a call may carry: places in the waiting room
    TTL,                \* REQUEST_LEASE_TTL
    WaitTimes,          \* how far ahead a caller may set its wait deadline
    RetryDelay,         \* pause after a renewal that answered with an error
    Interval,           \* request_interval
    QueueCapacity,      \* QUEUE_CAPACITY of the cleanup queue
    CleanupConcurrency, \* CLEANUP_CONCURRENCY
    Entries,            \* how owners enter: subset of {"wait", "direct"}
    MaxFaults,          \* bound on failed calls and abandoned futures
    MaxTime             \* bound on the clock

ASSUME CapacityAssumption ==
    /\ IsFiniteSet(Tokens)
    /\ MaxConcurrent \in Nat \ {0}
    /\ WaitingLimits \subseteq Nat \ {0}
    /\ TTL \in Nat /\ TTL >= 3
    /\ WaitTimes \subseteq Nat
    /\ RetryDelay \in Nat \ {0}
    /\ Interval \in Nat
    /\ QueueCapacity \in Nat /\ CleanupConcurrency \in Nat \ {0}
    /\ Entries \subseteq {"wait", "direct"}
    /\ MaxFaults \in Nat
    /\ MaxTime \in Nat

VARIABLES
    clock,
    (* Redis *)
    waiting,     \* waiting set: deadline of each token, 0 when absent
    order,       \* waiting:order set: sequence number of each token, 0 when absent
    active,      \* active set: expiry of each token, 0 when absent
    cancelled,   \* expiry of the tombstone of each token, 0 when absent
    lastStarted, \* time of the last grant
    net,         \* scripts sent and not yet run
    (* the owners *)
    pc,          \* where each owner is: idle, one of Awaiting, queued, executing,
                 \* stopping or ended
    reply,       \* the answer on its way to the owner: none, yes, full or refused
    waitDeadline, cleanupDeadline,
    renewal,     \* the LeaseRenewal task of each owner
    (* the cleanup writer *)
    queue,       \* cleanups accepted by try_send
    cleanup,     \* what became of each owner's cleanup: none, armed, queued, call,
                 \* answered, retry, done or lost
    (* history *)
    cleaned,     \* tokens CANCEL_SCRIPT has run for
    faults

redis == <<waiting, order, active, cancelled, lastStarted>>
owners == <<pc, reply, waitDeadline, cleanupDeadline, renewal>>
writer == <<queue, cleanup>>
vars == <<clock, redis, net, owners, writer, cleaned, faults>>

(* Steps of an owner that wait for the answer of a script. *)
Awaiting == {"enqueue", "execute", "promote", "release"}
(* What is left of a renewal task: whether it waits for an answer, which    *)
(* one is on its way, or sleeps; until when it takes the place to be held.  *)
NoRenewal == [phase |-> "off", expires |-> 0, until |-> 0, wake |-> 0, confirmed |-> FALSE]

Command(c, t, live, until, wait) ==
    [cmd |-> c, tok |-> t, live |-> live, until |-> until, wait |-> wait]

(* Scripts of a caller that no longer waits run all the same. *)
Abandoned(msgs, t, caller) ==
    {IF m.tok = t /\ m.live = caller THEN [m EXCEPT !.live = "nobody"] ELSE m : m \in msgs}

-----------------------------------------------------------------------------
(* The scripts.  Those that admit begin by forgetting what has expired.     *)

Alive(set) == {t \in Tokens : set[t] > clock}
Purged(set) == [t \in Tokens |-> IF set[t] <= clock THEN 0 ELSE set[t]]
PurgedOrder == [t \in Tokens |-> IF waiting[t] > 0 /\ waiting[t] <= clock THEN 0 ELSE order[t]]
(* INCR of the sequence: only the order of its values is kept. *)
NextSequence(seq) == 1 + Max({0} \cup {seq[t] : t \in Tokens})
Tombstone(t) == cancelled[t] > clock

EnqueueResult(t, limit) ==
    IF waitDeadline[t] <= clock \/ Tombstone(t) THEN "refused"
    ELSE IF t \in Alive(waiting) THEN "yes"
    ELSE IF Cardinality(Alive(waiting)) >= limit THEN "full"
    ELSE "added"

RunEnqueue(t, limit) ==
    LET added == EnqueueResult(t, limit) = "added" IN
    /\ waiting' = [Purged(waiting) EXCEPT ![t] = IF added THEN waitDeadline[t] ELSE @]
    /\ order' = [PurgedOrder EXCEPT ![t] = IF added THEN NextSequence(PurgedOrder) ELSE @]
    /\ UNCHANGED <<active, cancelled, lastStarted>>

(* MUTANT: the waiting room is not asked *)
IgnoresWaiters(t) ==
    /\ Cardinality(Alive(active)) < MaxConcurrent
    /\ ~(lastStarted > 0 /\ clock - lastStarted < Interval)

(* MUTANT: one place too many *)
OneTooMany(t) ==
    /\ \A u \in Tokens \ {t} : PurgedOrder[u] > 0 => 0 < PurgedOrder[t] /\ PurgedOrder[t] < PurgedOrder[u]
    /\ Cardinality(Alive(active)) <= MaxConcurrent
    /\ ~(lastStarted > 0 /\ clock - lastStarted < Interval)

(* The account's waiters go first, in their order; a place must be free and *)
(* the interval since the last grant must have passed.                      *)
MayStart(t) ==
    /\ \A u \in Tokens \ {t} : PurgedOrder[u] > 0 => 0 < PurgedOrder[t] /\ PurgedOrder[t] < PurgedOrder[u]
    /\ Cardinality(Alive(active)) < MaxConcurrent
    /\ ~(lastStarted > 0 /\ clock - lastStarted < Interval)

ExecutionResult(t, until, wait) ==
    IF waitDeadline[t] <= clock \/ until <= clock \/ Tombstone(t) THEN "refused"
    ELSE IF wait /\ t \notin Alive(waiting) THEN "refused"
    ELSE IF t \in Alive(active) THEN "yes"
    ELSE IF MayStart(t) THEN "granted" ELSE "full"

RunExecution(t, until, wait) ==
    LET granted == ExecutionResult(t, until, wait) = "granted" IN
    /\ waiting' = [Purged(waiting) EXCEPT ![t] = IF granted THEN 0 ELSE @]
    /\ order' = [PurgedOrder EXCEPT ![t] = IF granted THEN 0 ELSE @]
    /\ active' = [Purged(active) EXCEPT ![t] = IF granted THEN until ELSE @]
    /\ lastStarted' = IF granted THEN clock ELSE lastStarted
    /\ UNCHANGED cancelled

(* MUTANT: no tombstone is left for a script that is still on its way *)
CancelForgets(t) ==
    /\ waiting' = [waiting EXCEPT ![t] = 0]
    /\ active' = [active EXCEPT ![t] = 0]
    /\ order' = [order EXCEPT ![t] = 0]
    /\ cleaned' = cleaned \cup {t}
    /\ UNCHANGED <<cancelled, lastStarted>>

RunCancel(t) ==
    /\ cancelled' = [cancelled EXCEPT ![t] = IF waitDeadline[t] > clock THEN waitDeadline[t] ELSE @]
    /\ waiting' = [waiting EXCEPT ![t] = 0]
    /\ active' = [active EXCEPT ![t] = 0]
    /\ order' = [order EXCEPT ![t] = 0]
    /\ cleaned' = cleaned \cup {t}
    /\ UNCHANGED lastStarted

Renewable(t) == active[t] > clock /\ ~Tombstone(t)

RunRenewal(t) ==
    /\ active' = [active EXCEPT ![t] = IF Renewable(t) THEN clock + TTL ELSE @]
    /\ UNCHANGED <<waiting, order, cancelled, lastStarted>>

-----------------------------------------------------------------------------
(* Scripts reach Redis, in any order and at any time; the answer starts on  *)
(* its way to a caller that still waits.                                    *)

Answer(m, result) ==
    /\ reply' = IF m.live = "owner" THEN [reply EXCEPT ![m.tok] = result] ELSE reply
    /\ UNCHANGED <<pc, waitDeadline, cleanupDeadline>>

EnqueueRuns == \E m \in net, limit \in WaitingLimits :
    LET result == EnqueueResult(m.tok, limit) IN
    /\ m.cmd = "enqueue"
    /\ net' = net \ {m}
    /\ RunEnqueue(m.tok, limit)
    /\ Answer(m, IF result = "added" THEN "yes" ELSE result)
    /\ UNCHANGED <<clock, renewal, writer, cleaned, faults>>

ExecutionRuns == \E m \in net :
    LET result == ExecutionResult(m.tok, m.until, m.wait) IN
    /\ m.cmd = "execute"
    /\ net' = net \ {m}
    /\ RunExecution(m.tok, m.until, m.wait)
    /\ Answer(m, IF result = "granted" THEN "yes" ELSE result)
    /\ UNCHANGED <<clock, renewal, writer, cleaned, faults>>

RenewalRuns == \E m \in net :
    /\ m.cmd = "renew"
    /\ net' = net \ {m}
    /\ RunRenewal(m.tok)
    /\ renewal' = IF m.live = "renewal"
                  THEN [renewal EXCEPT ![m.tok].phase = IF Renewable(m.tok) THEN "yes" ELSE "no"]
                  ELSE renewal
    /\ UNCHANGED <<clock, pc, reply, waitDeadline, cleanupDeadline, writer, cleaned, faults>>

CancelRuns == \E m \in net :
    /\ m.cmd = "cancel"
    /\ net' = net \ {m}
    /\ RunCancel(m.tok)
    /\ Answer(m, "yes")
    /\ cleanup' = IF m.live = "writer" THEN [cleanup EXCEPT ![m.tok] = "answered"] ELSE cleanup
    /\ UNCHANGED <<clock, renewal, queue, faults>>

-----------------------------------------------------------------------------
(* The owner.                                                               *)

Send(t, c, until, wait) == net' = net \cup {Command(c, t, "owner", until, wait)}

(* acquire: the wait deadline is the caller's. *)
Acquire(t) ==
    /\ pc[t] = "idle" /\ "wait" \in Entries
    /\ pc' = [pc EXCEPT ![t] = "enqueue"]
    /\ \E w \in WaitTimes :
          /\ waitDeadline' = [waitDeadline EXCEPT ![t] = clock + w]
          /\ cleanupDeadline' = [cleanupDeadline EXCEPT ![t] = clock + w]
    /\ cleanup' = [cleanup EXCEPT ![t] = "armed"]
    /\ Send(t, "enqueue", 0, TRUE)
    /\ UNCHANGED <<clock, redis, reply, renewal, queue, cleaned, faults>>

(* acquire_scheduling: the wait deadline is the lease deadline. *)
AcquireScheduling(t) ==
    /\ pc[t] = "idle" /\ "direct" \in Entries
    /\ pc' = [pc EXCEPT ![t] = "execute"]
    /\ waitDeadline' = [waitDeadline EXCEPT ![t] = clock + TTL]
    /\ cleanupDeadline' = [cleanupDeadline EXCEPT ![t] = clock + TTL]
    /\ cleanup' = [cleanup EXCEPT ![t] = "armed"]
    /\ Send(t, "execute", clock + TTL, FALSE)
    /\ UNCHANGED <<clock, redis, reply, renewal, queue, cleaned, faults>>

(* MUTANT: the cleanup keeps the horizon of the wait *)
PromoteKeepsHorizon(t) ==
    /\ pc[t] = "queued"
    /\ pc' = [pc EXCEPT ![t] = "promote"]
    /\ Send(t, "execute", clock + TTL, TRUE)
    /\ UNCHANGED <<clock, redis, reply, waitDeadline, cleanupDeadline, renewal, writer, cleaned, faults>>

TryPromote(t) ==
    /\ pc[t] = "queued"
    /\ pc' = [pc EXCEPT ![t] = "promote"]
    /\ cleanupDeadline' = [cleanupDeadline EXCEPT ![t] = IF @ < clock + TTL THEN clock + TTL ELSE @]
    /\ Send(t, "execute", clock + TTL, TRUE)
    /\ UNCHANGED <<clock, redis, reply, waitDeadline, renewal, writer, cleaned, faults>>

(* maintain: the task starts with the answer, not with the request. *)
Granted(t) ==
    /\ pc[t] \in {"execute", "promote"} /\ reply[t] = "yes"
    /\ pc' = [pc EXCEPT ![t] = "executing"]
    /\ reply' = [reply EXCEPT ![t] = "none"]
    /\ renewal' = [renewal EXCEPT ![t] = [NoRenewal EXCEPT !.phase = "ready", !.expires = clock + TTL]]
    /\ UNCHANGED <<clock, redis, net, waitDeadline, cleanupDeadline, writer, cleaned, faults>>

Enqueued(t) ==
    /\ pc[t] = "enqueue" /\ reply[t] = "yes"
    /\ pc' = [pc EXCEPT ![t] = "queued"]
    /\ reply' = [reply EXCEPT ![t] = "none"]
    /\ UNCHANGED <<clock, redis, net, waitDeadline, cleanupDeadline, renewal, writer, cleaned, faults>>

StillBusy(t) ==
    /\ pc[t] = "promote" /\ reply[t] = "full"
    /\ pc' = [pc EXCEPT ![t] = "queued"]
    /\ reply' = [reply EXCEPT ![t] = "none"]
    /\ UNCHANGED <<clock, redis, net, waitDeadline, cleanupDeadline, renewal, writer, cleaned, faults>>

(* Full or Busy: nothing was written, the cleanup is disarmed. *)
TurnedAway(t) ==
    /\ pc[t] \in {"enqueue", "execute"} /\ reply[t] = "full"
    /\ pc' = [pc EXCEPT ![t] = "ended"]
    /\ reply' = [reply EXCEPT ![t] = "none"]
    /\ cleanup' = [cleanup EXCEPT ![t] = "none"]
    /\ cleanupDeadline' = [cleanupDeadline EXCEPT ![t] = 0]
    /\ UNCHANGED <<clock, redis, net, waitDeadline, renewal, queue, cleaned, faults>>

(* release: by the caller while it waits, or after a refusal. *)
Release(t) ==
    /\ \/ pc[t] = "queued"
       \/ pc[t] \in {"enqueue", "execute", "promote"} /\ reply[t] = "refused"
    /\ pc' = [pc EXCEPT ![t] = "release"]
    /\ reply' = [reply EXCEPT ![t] = "none"]
    /\ Send(t, "cancel", 0, FALSE)
    /\ UNCHANGED <<clock, redis, waitDeadline, cleanupDeadline, renewal, writer, cleaned, faults>>

Released(t) ==
    /\ pc[t] = "release" /\ reply[t] = "yes"
    /\ pc' = [pc EXCEPT ![t] = "ended"]
    /\ reply' = [reply EXCEPT ![t] = "none"]
    /\ cleanup' = [cleanup EXCEPT ![t] = "none"]
    /\ cleanupDeadline' = [cleanupDeadline EXCEPT ![t] = 0]
    /\ UNCHANGED <<clock, redis, net, waitDeadline, renewal, queue, cleaned, faults>>

(* Drop for Ownership: stop_renewal, then the cleanup goes to the queue if  *)
(* there is room; what was sent is not called back.                         *)
Dropped(t) ==
    LET queued == Len(queue) < QueueCapacity IN
    /\ pc' = [pc EXCEPT ![t] = "ended"]
    /\ reply' = [reply EXCEPT ![t] = "none"]
    /\ net' = Abandoned(Abandoned(net, t, "owner"), t, "renewal")
    /\ renewal' = [renewal EXCEPT ![t] = NoRenewal]
    /\ cleanupDeadline' = [cleanupDeadline EXCEPT ![t] =
            IF pc[t] \in {"executing", "stopping"} /\ @ < clock + TTL THEN clock + TTL ELSE @]
    /\ queue' = IF queued THEN Append(queue, t) ELSE queue
    /\ cleanup' = [cleanup EXCEPT ![t] = IF queued THEN "queued" ELSE "lost"]
    /\ UNCHANGED <<clock, redis, waitDeadline, cleaned>>

(* The request ends, or has been stopped, and drops its place. *)
Finish(t) ==
    /\ pc[t] \in {"executing", "stopping"}
    /\ Dropped(t)
    /\ UNCHANGED faults

(* The waiting caller goes away, or its script answers with an error (which *)
(* says nothing of whether it ran, or will).                                *)
Abandon(t) ==
    /\ pc[t] \in Awaiting \cup {"queued"}
    /\ faults < MaxFaults
    /\ Dropped(t)
    /\ faults' = faults + 1

-----------------------------------------------------------------------------
(* The renewal task.                                                        *)

Sleeping(expires, wake, confirmed) ==
    [phase |-> "sleep", expires |-> expires, until |-> 0, wake |-> wake, confirmed |-> confirmed]
OnlyRenewal == UNCHANGED <<clock, redis, reply, waitDeadline, cleanupDeadline, writer, cleaned>>

(* MUTANT: the renewed lease is counted from the answer *)
CountsFromAnswer(t) ==
    /\ renewal[t].phase = "yes"
    /\ renewal' = [renewal EXCEPT ![t] = Sleeping(clock + TTL, clock + TTL \div 3, TRUE)]
    /\ UNCHANGED <<net, pc, faults>> /\ OnlyRenewal

RenewCall(t) ==
    /\ renewal[t].phase = "ready"
    /\ renewal' = [renewal EXCEPT ![t].phase = "call", ![t].until = clock + TTL]
    /\ net' = net \cup {Command("renew", t, "renewal", 0, FALSE)}
    /\ UNCHANGED <<pc, faults>> /\ OnlyRenewal

Renewed(t) ==
    /\ renewal[t].phase = "yes"
    /\ renewal' = [renewal EXCEPT ![t] = Sleeping(@.until, clock + TTL \div 3, TRUE)]
    /\ UNCHANGED <<net, pc, faults>> /\ OnlyRenewal

RenewFails(t) ==
    /\ renewal[t].phase \in {"call", "yes", "no"} /\ faults < MaxFaults
    /\ renewal' = [renewal EXCEPT ![t] = Sleeping(@.expires, clock + RetryDelay, @.confirmed)]
    /\ net' = Abandoned(net, t, "renewal")
    /\ faults' = faults + 1
    /\ UNCHANGED pc /\ OnlyRenewal

RenewWakes(t) ==
    /\ renewal[t].phase = "sleep"
    /\ renewal[t].wake <= clock /\ clock < renewal[t].expires
    /\ renewal' = [renewal EXCEPT ![t].phase = "ready", ![t].wake = 0]
    /\ UNCHANGED <<net, pc, faults>> /\ OnlyRenewal

(* Lost, RenewalTimedOut or Expired: the request is cancelled. *)
LeaseFails(t) ==
    /\ \/ renewal[t].phase = "no"
       \/ renewal[t].phase \in {"call", "yes", "no", "sleep"} /\ renewal[t].expires <= clock
    /\ renewal' = [renewal EXCEPT ![t] = NoRenewal]
    /\ net' = Abandoned(net, t, "renewal")
    /\ pc' = [pc EXCEPT ![t] = "stopping"]
    /\ UNCHANGED faults /\ OnlyRenewal

(* The request is cancelled by someone else: the task returns at once, and  *)
(* the request keeps its place until it has stopped.                        *)
RequestCancelled(t) ==
    /\ pc[t] = "executing"
    /\ renewal' = [renewal EXCEPT ![t] = NoRenewal]
    /\ net' = Abandoned(net, t, "renewal")
    /\ pc' = [pc EXCEPT ![t] = "stopping"]
    /\ UNCHANGED faults /\ OnlyRenewal

-----------------------------------------------------------------------------
(* The cleanup writer: cleanup_until_expired for each cleanup it receives,  *)
(* some of them at a time.                                                  *)

InProgress == {t \in Tokens : cleanup[t] \in {"call", "answered", "retry"}}
OnlyWriter == UNCHANGED <<clock, redis, pc, reply, waitDeadline, renewal, cleaned>>
(* The Cleanup, and its deadline with it, is gone. *)
Forget(t) == cleanupDeadline' = [cleanupDeadline EXCEPT ![t] = 0]

CleanupCall(t) == net' = net \cup {Command("cancel", t, "writer", 0, FALSE)}

CleanupReceive ==
    /\ queue # <<>> /\ Cardinality(InProgress) < CleanupConcurrency
    /\ queue' = Tail(queue)
    /\ cleanup' = [cleanup EXCEPT ![Head(queue)] = "call"]
    /\ CleanupCall(Head(queue))
    /\ UNCHANGED <<cleanupDeadline, faults>> /\ OnlyWriter

CleanupAnswered(t) ==
    /\ cleanup[t] = "answered"
    /\ cleanup' = [cleanup EXCEPT ![t] = "done"]
    /\ Forget(t)
    /\ UNCHANGED <<net, queue, faults>> /\ OnlyWriter

(* An error, IO_TIMEOUT or the cleanup deadline. *)
CleanupFails(t) ==
    /\ cleanup[t] \in {"call", "answered"} /\ faults < MaxFaults
    /\ \/ /\ cleanupDeadline[t] <= clock
          /\ cleanup' = [cleanup EXCEPT ![t] = "lost"]
          /\ Forget(t)
       \/ /\ cleanupDeadline[t] > clock
          /\ cleanup' = [cleanup EXCEPT ![t] = "retry"]
          /\ UNCHANGED cleanupDeadline
    /\ net' = Abandoned(net, t, "writer")
    /\ faults' = faults + 1
    /\ UNCHANGED queue /\ OnlyWriter

CleanupRetry(t) ==
    /\ cleanup[t] = "retry"
    /\ cleanup' = [cleanup EXCEPT ![t] = "call"]
    /\ CleanupCall(t)
    /\ UNCHANGED <<queue, cleanupDeadline, faults>> /\ OnlyWriter

-----------------------------------------------------------------------------
(* The clock does not move past a local timer that is due. *)
TimerDue(t) ==
    \/ renewal[t].phase = "ready"
    \/ renewal[t].phase # "off" /\ renewal[t].expires <= clock
    \/ renewal[t].phase = "sleep" /\ renewal[t].wake <= clock

Tick ==
    /\ clock < MaxTime
    /\ \A t \in Tokens : ~TimerDue(t)
    /\ clock' = clock + 1
    /\ UNCHANGED <<redis, net, owners, writer, cleaned, faults>>

Init ==
    /\ clock = 1
    /\ waiting = [t \in Tokens |-> 0] /\ order = [t \in Tokens |-> 0]
    /\ active = [t \in Tokens |-> 0] /\ cancelled = [t \in Tokens |-> 0]
    /\ lastStarted = 0 /\ net = {}
    /\ pc = [t \in Tokens |-> "idle"] /\ reply = [t \in Tokens |-> "none"]
    /\ waitDeadline = [t \in Tokens |-> 0] /\ cleanupDeadline = [t \in Tokens |-> 0]
    /\ renewal = [t \in Tokens |-> NoRenewal]
    /\ queue = <<>> /\ cleanup = [t \in Tokens |-> "none"]
    /\ cleaned = {} /\ faults = 0

Owner(t) ==
    \/ Acquire(t) \/ AcquireScheduling(t) \/ TryPromote(t) \/ Granted(t) \/ Enqueued(t)
    \/ StillBusy(t) \/ TurnedAway(t) \/ Release(t) \/ Released(t) \/ Finish(t) \/ Abandon(t)
Renewal(t) ==
    \/ RenewCall(t) \/ Renewed(t) \/ RenewFails(t) \/ RenewWakes(t) \/ LeaseFails(t)
    \/ RequestCancelled(t)
Cleanup(t) == CleanupAnswered(t) \/ CleanupFails(t) \/ CleanupRetry(t)

Next ==
    \/ \E t \in Tokens : Owner(t) \/ Renewal(t) \/ Cleanup(t)
    \/ CleanupReceive
    \/ EnqueueRuns \/ ExecutionRuns \/ RenewalRuns \/ CancelRuns
    \/ Tick

Spec == Init /\ [][Next]_vars

-----------------------------------------------------------------------------
(* A token that has been cleaned up never comes back: a script its owner    *)
(* gave up on, however late it runs, finds the tombstone or its own         *)
(* deadline past (CANCEL_SCRIPT, capacity_wait.rs:142).                     *)
CleanedStaysGone ==
    \A t \in cleaned : waiting[t] = 0 /\ active[t] = 0 /\ order[t] = 0

(* A request that executes, and whose place has been renewed at least once, *)
(* still holds it in Redis when its own timer is about to stop it: the      *)
(* lease is counted from before the renewal was sent (lease_renewal.rs:35). *)
RenewedLeaseCovers ==
    \A t \in Tokens :
        pc[t] = "executing" /\ renewal[t].confirmed /\ renewal[t].expires > clock
        => active[t] >= renewal[t].expires

(* The requests that execute on a renewed lease, with the places Redis      *)
(* counts, never exceed the account's concurrency.                          *)
ConcurrencyHeld ==
    Cardinality(Alive(active) \cup
        {t \in Tokens : /\ pc[t] = "executing" /\ renewal[t].confirmed
                        /\ renewal[t].expires > clock}) <= MaxConcurrent

(* A place is never granted past an owner that waits for it, neither to a   *)
(* later waiter nor to a request that never waited.                         *)
NoOvertaking ==
    [][\A t, u \in Tokens :
          /\ active[t] <= clock /\ active'[t] > clock'
          /\ u # t /\ waiting[u] > clock
          => waiting[t] > clock /\ order[t] < order[u]]_vars

(* When an owner hands its cleanup over, the time until which the writer    *)
(* tries (cleanup_deadline) reaches past whatever Redis holds for it, a     *)
(* grant whose answer never arrived and a renewal included.                 *)
CleanupOutlastsPlace ==
    [][\A t \in Tokens :
          cleanup[t] = "armed" /\ cleanup'[t] \in {"queued", "lost"}
          => active[t] <= cleanupDeadline'[t] /\ waiting[t] <= cleanupDeadline'[t]]_vars
=============================================================================
