-------------------------- MODULE ExecutionBuffer --------------------------
(***************************************************************************)
(* BufferedExecutionStore and its ExecutionObservationWriter               *)
(* (gateway-store/src/postgres/execution_buffer.rs): the bounded queue     *)
(* between the request sessions, which never wait for PostgreSQL, and the  *)
(* single background writer that persists their observations; with the     *)
(* model_requests rows the writes end in, the lease renewal that keeps a   *)
(* running row's deadline in the future and the recovery of expired rows.  *)
(*                                                                         *)
(* A session (one per request) calls the store's methods one after the     *)
(* other, sessions run in parallel.  enqueue takes several atomic steps    *)
(* (reserve an item, reserve the bytes, send), which interleave with those *)
(* of other sessions and of the writer.  The statistics are left out.      *)
(***************************************************************************)
EXTENDS ModelRequestRow, Integers, Sequences, FiniteSets

CONSTANTS
    Requests,      \* requests whose sessions share the buffer
    MaxItems,      \* maximum_queued_items
    MaxBytes,      \* maximum_queued_bytes
    Size,          \* write kind -> estimated_bytes
    MaxAttempts,   \* attempts a session may make
    Calls,         \* calls a session makes between its creation and its end
    OpsEvents,     \* intermediate failures a session may record
    Faults         \* subset of FaultKinds

FaultKinds == {"store_error",   \* a statement fails, before or after its effect
               "shutdown",      \* the host cancels the writer
               "drain_timeout", \* SHUTDOWN_DRAIN_TIMEOUT elapses while draining
               "abort",         \* the supervisor aborts a writer that is too slow
               "lapse"}         \* a live session's renewals do not reach the row

Kinds == {"Create", "CreateWithAttempt", "Attempt", "MarkSend", "Commit",
          "ClientStatus", "OpsEvent", "Finalize"}

ASSUME BufferAssumption ==
    /\ MaxItems \in Nat \ {0} /\ MaxBytes \in Nat \ {0} /\ MaxAttempts \in Nat \ {0}
    /\ OpsEvents \in Nat /\ Calls \subseteq Kinds /\ Faults \subseteq FaultKinds
    /\ IsFiniteSet(Requests) /\ Size \in [Kinds -> Nat \ {0}]

VARIABLES
    session,              \* what the coordinator knows of each request
    producer,             \* where each session is inside enqueue
    queued_items, queued_bytes,
    channel,              \* the unbounded mpsc channel
    closed,               \* receiver.close() was called, or the receiver is gone
    writer,               \* the ExecutionObservationWriter task
    cancelled, drain_elapsed, aborted,
    rows,                 \* model_requests
    lapsed,               \* rows whose deadline_at has passed
    (* history *)
    last_applied,         \* index of the last write of r that took effect
    lost                  \* an observation was refused or its write failed

stateVars == <<queued_items, queued_bytes>>
hostVars  == <<cancelled, drain_elapsed, aborted>>
dbVars    == <<rows, lapsed, last_applied>>
vars == <<session, producer, stateVars, channel, closed, writer, hostVars, dbVars, lost>>

NoWrite == [kind |-> "None"]

Rank(s) == CASE s = "NotSent" -> 0 [] s = "Ambiguous" -> 1 [] s = "Sent" -> 2

-----------------------------------------------------------------------------
(* ExecutionBufferState.                                                   *)

(* Failures, and finalizations that carry an error, may use a quarter more  *)
(* than the configured limits.                                              *)
IsCritical(write) ==
    \/ write.kind = "OpsEvent"
    \/ write.kind = "Finalize" /\ write.outcome = "Failed"

Reserve(limit, critical) == limit + (IF critical THEN limit \div 4 ELSE 0)
ItemLimit(write) == Reserve(MaxItems, IsCritical(write))
ByteLimit(write) == Reserve(MaxBytes, IsCritical(write))
Bytes(write) == Size[write.kind]

-----------------------------------------------------------------------------
(* The sessions, as far as the writes they offer go (coordinator.rs).      *)

Enqueue(r, kind, new) ==
    /\ producer[r].pc = "idle"
    /\ session' = [session EXCEPT ![r] = [new EXCEPT !.issued = @ + 1]]
    /\ producer' = [producer EXCEPT ![r] =
         [pc |-> "reserve_item",
          write |-> [request |-> r, kind |-> kind, index |-> new.issued + 1,
                     attempts |-> new.attempts, send_state |-> new.send_state,
                     committed |-> new.committed, status |-> new.status,
                     outcome |-> new.outcome]]]
    /\ UNCHANGED <<stateVars, channel, closed, writer, hostVars, dbVars, lost>>

(* A request that ends before its first attempt is created by its           *)
(* finalization.                                                            *)
CreateModelRequest(r) ==
    /\ session[r].phase = "new"
    /\ Enqueue(r, "Create", [session[r] EXCEPT !.phase = "created"])

CreateModelRequestWithAttempt(r) ==
    /\ session[r].phase = "new"
    /\ Enqueue(r, "CreateWithAttempt",
               [session[r] EXCEPT !.phase = "running", !.attempts = 1])

RecordAttempt(r) ==
    /\ "Attempt" \in Calls
    /\ session[r].phase = "running" /\ session[r].attempts < MaxAttempts
    /\ Enqueue(r, "Attempt", [session[r] EXCEPT !.attempts = @ + 1])

(* mark_send_state is called with the watermark, which only rises.          *)
MarkSendState(r) ==
    /\ "MarkSend" \in Calls
    /\ session[r].phase = "running"
    /\ \E s \in SendStates :
         /\ Rank(s) > Rank(session[r].send_state)
         /\ Enqueue(r, "MarkSend", [session[r] EXCEPT !.send_state = s])

MarkDownstreamCommitted(r) ==
    /\ "Commit" \in Calls
    /\ session[r].phase = "running" /\ ~session[r].committed
    /\ \E status \in BOOLEAN :
         Enqueue(r, "Commit", [session[r] EXCEPT !.committed = TRUE, !.status = status])

(* record_intermediate_failure.  The failures of probes and of the process  *)
(* take the same way and name no request.                                   *)
RecordOpsEvent(r) ==
    /\ "OpsEvent" \in Calls
    /\ session[r].phase = "running" /\ session[r].events < OpsEvents
    /\ Enqueue(r, "OpsEvent", [session[r] EXCEPT !.events = @ + 1])

FinalizeModelRequest(r) ==
    /\ session[r].phase \in {"created", "running"}
    /\ \E o \in {"Succeeded", "Failed"} :
         /\ session[r].phase = "created" => o = "Failed"
         /\ Enqueue(r, "Finalize", [session[r] EXCEPT !.phase = "done", !.outcome = o])

(* The status of a response that was committed without one or never, which  *)
(* is reported afterwards.                                                  *)
RecordClientStatus(r) ==
    /\ "ClientStatus" \in Calls
    /\ session[r].phase = "done" /\ ~session[r].status
    /\ Enqueue(r, "ClientStatus",
               [session[r] EXCEPT !.phase = "reported", !.status = TRUE])

-----------------------------------------------------------------------------
(* BufferedExecutionStore::enqueue.                                        *)

Goto(r, at) == producer' = [producer EXCEPT ![r].pc = at]
Return(r) == producer' = [producer EXCEPT ![r] = [pc |-> "idle", write |-> NoWrite]]

(* What does not fit is dropped, which the caller is not told of.           *)
Refused(r) == Return(r) /\ lost' = TRUE

ReserveItem(r) ==
    /\ producer[r].pc = "reserve_item"
    /\ \/ /\ queued_items + 1 <= ItemLimit(producer[r].write)
          /\ queued_items' = queued_items + 1
          /\ Goto(r, "reserve_bytes") /\ UNCHANGED lost
       \/ /\ queued_items + 1 > ItemLimit(producer[r].write)
          /\ Refused(r) /\ UNCHANGED queued_items
    /\ UNCHANGED <<session, queued_bytes, channel, closed, writer, hostVars, dbVars>>

(* MUTANT: a refusal for bytes keeps the item it reserved. *)
RefusalKeepsItem(r) ==
    LET bytes == Bytes(producer[r].write) IN
    /\ producer[r].pc = "reserve_bytes"
    /\ \/ /\ queued_bytes + bytes <= ByteLimit(producer[r].write)
          /\ queued_bytes' = queued_bytes + bytes
          /\ Goto(r, "send") /\ UNCHANGED lost
       \/ /\ queued_bytes + bytes > ByteLimit(producer[r].write)
          /\ Refused(r) /\ UNCHANGED queued_bytes
    /\ UNCHANGED <<session, queued_items, channel, closed, writer, hostVars, dbVars>>

ReserveBytes(r) ==
    LET bytes == Bytes(producer[r].write) IN
    /\ producer[r].pc = "reserve_bytes"
    /\ \/ /\ queued_bytes + bytes <= ByteLimit(producer[r].write)
          /\ queued_bytes' = queued_bytes + bytes
          /\ Goto(r, "send")
       \/ /\ queued_bytes + bytes > ByteLimit(producer[r].write)
          /\ Goto(r, "return_item") /\ UNCHANGED queued_bytes
    /\ UNCHANGED <<session, queued_items, channel, closed, writer, hostVars, dbVars, lost>>

(* The send fails once the receiver is closed; the rejected observation is  *)
(* dropped and gives its reservation back.                                  *)
SendResult(r) ==
    /\ closed => channel' = channel /\ Goto(r, "return_bytes")
    /\ ~closed => channel' = Append(channel, producer[r].write) /\ Return(r)

Send(r) ==
    /\ producer[r].pc = "send"
    /\ SendResult(r)
    /\ UNCHANGED <<session, stateVars, closed, writer, hostVars, dbVars, lost>>

ReturnBytes(r) ==
    /\ producer[r].pc = "return_bytes"
    /\ queued_bytes' = queued_bytes - Bytes(producer[r].write)
    /\ Goto(r, "return_item")
    /\ UNCHANGED <<session, queued_items, channel, closed, writer, hostVars, dbVars, lost>>

ReturnItem(r) ==
    /\ producer[r].pc = "return_item"
    /\ queued_items' = queued_items - 1
    /\ Refused(r)
    /\ UNCHANGED <<session, queued_bytes, channel, closed, writer, hostVars, dbVars>>

-----------------------------------------------------------------------------
(* ExecutionObservationWriter::run, persist_queued and drain_on_shutdown.  *)

EmptyHanded == writer.queued = NoWrite

(* The next observation; one received after the drain deadline is dropped   *)
(* and ends the drain.                                                      *)
Received(queued) ==
    IF closed /\ drain_elapsed
    THEN [writer EXCEPT !.pc = "release_bytes", !.queued = queued, !.next = "discard"]
    ELSE [writer EXCEPT !.pc = "persist", !.queued = queued]

(* MUTANT: the newest observation is written first. *)
ReceivesNewest ==
    /\ writer.pc = "receive" /\ channel # <<>>
    /\ writer' = Received(channel[Len(channel)])
    /\ channel' = SubSeq(channel, 1, Len(channel) - 1)
    /\ UNCHANGED <<session, producer, stateVars, closed, hostVars, dbVars, lost>>

Receive ==
    /\ writer.pc = "receive" /\ channel # <<>>
    /\ writer' = Received(Head(channel))
    /\ channel' = Tail(channel)
    /\ UNCHANGED <<session, producer, stateVars, closed, hostVars, dbVars, lost>>

(* The statement takes effect, or matches no row and is an error.           *)
Statement(write) ==
    LET r == write.request
        effective == Matches(rows[r], write) IN
    /\ rows' = [rows EXCEPT ![r] = IF effective THEN Updated(@, write) ELSE @]
    /\ last_applied' = [last_applied EXCEPT ![r] = IF effective THEN write.index ELSE @]

Persist ==
    /\ writer.pc = "persist"
    /\ Statement(writer.queued)
    /\ writer' = [writer EXCEPT !.pc = "answer",
                                !.ok = Matches(rows[writer.queued.request], writer.queued)]
    /\ UNCHANGED <<session, producer, stateVars, channel, closed, hostVars, lapsed, lost>>

(* The database is unreachable: the statement fails without an effect, or   *)
(* its effect stands and the answer is lost.  Neither is retried.           *)
StoreUnavailable ==
    /\ "store_error" \in Faults
    /\ writer.pc \in {"persist", "answer"}
    /\ writer' = [writer EXCEPT !.pc = "answer", !.ok = FALSE]
    /\ writer' # writer
    /\ UNCHANGED <<session, producer, stateVars, channel, closed, hostVars, dbVars, lost>>

(* Then the observation is dropped and releases its bytes and its item.     *)
Answered ==
    /\ writer.pc = "answer"
    /\ lost' = (lost \/ ~writer.ok)
    /\ writer' = [writer EXCEPT !.pc = "release_bytes", !.next = "receive"]
    /\ UNCHANGED <<session, producer, stateVars, channel, closed, hostVars, dbVars>>

ReleaseBytes ==
    /\ writer.pc = "release_bytes"
    /\ queued_bytes' = queued_bytes - Bytes(writer.queued)
    /\ writer' = [writer EXCEPT !.pc = "release_item"]
    /\ UNCHANGED <<session, producer, queued_items, channel, closed, hostVars, dbVars, lost>>

ReleaseItem ==
    /\ writer.pc = "release_item"
    /\ queued_items' = queued_items - 1
    /\ writer' = [writer EXCEPT !.pc = writer.next, !.queued = NoWrite]
    /\ UNCHANGED <<session, producer, queued_bytes, channel, closed, hostVars, dbVars, lost>>

(* MUTANT: the receiver is closed only when something waits in it. *)
ClosesWhenBusy ==
    /\ writer.pc = "receive" /\ cancelled /\ ~closed /\ channel # <<>>
    /\ closed' = TRUE
    /\ UNCHANGED <<session, producer, stateVars, channel, writer, hostVars, dbVars, lost>>

(* The cancelled branch of the select: the receiver is closed, what it      *)
(* holds is still received.                                                 *)
CloseReceiver ==
    /\ writer.pc = "receive" /\ cancelled /\ ~closed
    /\ closed' = TRUE
    /\ UNCHANGED <<session, producer, stateVars, channel, writer, hostVars, dbVars, lost>>

(* recv returns None: closed and empty.                                     *)
Drained ==
    /\ writer.pc = "receive" /\ closed /\ channel = <<>>
    /\ writer' = [writer EXCEPT !.pc = "discard"]
    /\ UNCHANGED <<session, producer, stateVars, channel, closed, hostVars, dbVars, lost>>

(* The drain deadline passes while a statement runs: its future is dropped, *)
(* whether or not it took effect.                                           *)
PersistTimedOut ==
    /\ writer.pc \in {"persist", "answer"} /\ closed /\ drain_elapsed
    /\ writer' = [writer EXCEPT !.pc = "release_bytes", !.next = "discard"]
    /\ UNCHANGED <<session, producer, stateVars, channel, closed, hostVars, dbVars, lost>>

(* What is still in the channel after the drain is dropped.                 *)
Discard ==
    /\ writer.pc = "discard" /\ channel # <<>>
    /\ writer' = [writer EXCEPT !.pc = "release_bytes", !.queued = Head(channel),
                                !.next = "discard"]
    /\ channel' = Tail(channel)
    /\ UNCHANGED <<session, producer, stateVars, closed, hostVars, dbVars, lost>>

Stop ==
    /\ writer.pc = "discard" /\ channel = <<>>
    /\ writer' = [writer EXCEPT !.pc = "stopped"]
    /\ UNCHANGED <<session, producer, stateVars, channel, closed, hostVars, dbVars, lost>>

-----------------------------------------------------------------------------
(* The host, time and the recovery worker.                                 *)

ShutDown ==
    /\ "shutdown" \in Faults /\ ~cancelled
    /\ cancelled' = TRUE
    /\ UNCHANGED <<session, producer, stateVars, channel, closed, writer,
                   drain_elapsed, aborted, dbVars, lost>>

DrainTimeElapses ==
    /\ "drain_timeout" \in Faults /\ closed /\ ~drain_elapsed /\ writer.pc # "stopped"
    /\ drain_elapsed' = TRUE
    /\ UNCHANGED <<session, producer, stateVars, channel, closed, writer,
                   cancelled, aborted, dbVars, lost>>

(* WorkerSupervisor::shutdown aborts a task that outlives the shutdown      *)
(* budget: the observation it holds and the channel are dropped with it.    *)
Abort ==
    /\ "abort" \in Faults /\ cancelled /\ ~aborted
    /\ writer.pc \in {"receive", "persist", "answer"}
    /\ aborted' = TRUE /\ closed' = TRUE
    /\ writer' = IF EmptyHanded THEN [writer EXCEPT !.pc = "discard"]
                 ELSE [writer EXCEPT !.pc = "release_bytes", !.next = "discard"]
    /\ UNCHANGED <<session, producer, stateVars, channel, cancelled, drain_elapsed,
                   dbVars, lost>>

(* deadline_at passes.  The session renews it until it has finalized (the   *)
(* lease guard is dropped then); the renewals of a live session miss it     *)
(* only when they cannot reach the database in time.                        *)
DeadlinePasses(r) ==
    /\ Exists(rows[r]) /\ Running(rows[r]) /\ r \notin lapsed
    /\ \/ session[r].phase \in {"done", "reported"}
       \/ "lapse" \in Faults
    /\ lapsed' = lapsed \cup {r}
    /\ UNCHANGED <<session, producer, stateVars, channel, closed, writer, hostVars,
                   rows, last_applied, lost>>

(* MUTANT: recovery skips the rows of sessions that have ended. *)
RecoversOnlyLive ==
    /\ \E r \in lapsed : Running(rows[r]) /\ session[r].phase # "done"
    /\ rows' = [r \in Requests |-> IF r \in lapsed /\ Running(rows[r])
                                   THEN Recovered(rows[r]) ELSE rows[r]]
    /\ UNCHANGED <<session, producer, stateVars, channel, closed, writer, hostVars,
                   lapsed, last_applied, lost>>

(* recover_expired, of this process or of the next one's start.             *)
RecoverExpired ==
    /\ \E r \in lapsed : Running(rows[r])
    /\ rows' = [r \in Requests |-> IF r \in lapsed /\ Running(rows[r])
                                   THEN Recovered(rows[r]) ELSE rows[r]]
    /\ UNCHANGED <<session, producer, stateVars, channel, closed, writer, hostVars,
                   lapsed, last_applied, lost>>

-----------------------------------------------------------------------------

Init ==
    /\ session = [r \in Requests |->
         [phase |-> "new", attempts |-> 0, send_state |-> "NotSent", committed |-> FALSE,
          status |-> FALSE, outcome |-> "Running", events |-> 0, issued |-> 0]]
    /\ producer = [r \in Requests |-> [pc |-> "idle", write |-> NoWrite]]
    /\ queued_items = 0 /\ queued_bytes = 0
    /\ channel = <<>> /\ closed = FALSE
    /\ writer = [pc |-> "receive", queued |-> NoWrite, ok |-> FALSE, next |-> "receive"]
    /\ cancelled = FALSE /\ drain_elapsed = FALSE /\ aborted = FALSE
    /\ rows = [r \in Requests |-> NoRow] /\ lapsed = {}
    /\ last_applied = [r \in Requests |-> 0] /\ lost = FALSE

Call(r) ==
    \/ CreateModelRequest(r) \/ CreateModelRequestWithAttempt(r) \/ RecordAttempt(r)
    \/ MarkSendState(r) \/ MarkDownstreamCommitted(r) \/ RecordOpsEvent(r)
    \/ FinalizeModelRequest(r) \/ RecordClientStatus(r)

EnqueueStep(r) ==
    \/ ReserveItem(r) \/ ReserveBytes(r) \/ Send(r) \/ ReturnBytes(r) \/ ReturnItem(r)

WriterStep ==
    \/ Receive \/ Persist \/ Answered \/ ReleaseBytes \/ ReleaseItem
    \/ CloseReceiver \/ Drained \/ PersistTimedOut \/ Discard \/ Stop

Next ==
    \/ \E r \in Requests : Call(r) \/ EnqueueStep(r) \/ DeadlinePasses(r)
    \/ WriterStep \/ StoreUnavailable
    \/ ShutDown \/ DrainTimeElapses \/ Abort \/ RecoverExpired

Spec == Init /\ [][Next]_vars

(* enqueue runs to its end without awaiting; the writer task, the recovery  *)
(* worker and time do not stop; a session finalizes its request (the        *)
(* coordinator's InterruptionFinalizes).                                    *)
Fairness ==
    /\ \A r \in Requests : /\ WF_vars(EnqueueStep(r))
                           /\ WF_vars(FinalizeModelRequest(r))
                           /\ WF_vars(DeadlinePasses(r))
    /\ WF_vars(WriterStep) /\ WF_vars(RecoverExpired)

FairSpec == Spec /\ Fairness

-----------------------------------------------------------------------------
(* Properties.                                                             *)

HoldsItem(r)  == producer[r].pc \in {"reserve_bytes", "send", "return_bytes", "return_item"}
HoldsBytes(r) == producer[r].pc \in {"send", "return_bytes"}
ItemHolders == {r \in Requests : HoldsItem(r)}
ByteHolders == {r \in Requests : HoldsBytes(r)}
InHand == IF EmptyHanded THEN 0 ELSE 1

(* The sizes of the observations somebody holds, and the bytes of several   *)
(* together, each counted.                                                  *)
ProducerSizes == [r \in ByteHolders |-> Bytes(producer[r].write)]
ChannelSizes  == [i \in DOMAIN channel |-> Bytes(channel[i])]
HandSize == IF EmptyHanded \/ writer.pc = "release_item" THEN 0 ELSE Bytes(writer.queued)
Total(size) == Cardinality(UNION {{x} \X (1..size[x]) : x \in DOMAIN size})

(* The counters are exactly the reservations of observations somebody       *)
(* holds: none is leaked on a refusal, a rejected send, a timeout or an     *)
(* abort, none is given back twice (Drop for QueuedExecutionObservation).   *)
ItemsHeld == queued_items = Cardinality(ItemHolders) + Len(channel) + InHand
BytesHeld == queued_bytes = Total(ProducerSizes) + Total(ChannelSizes) + HandSize
ReservationsHeld == ItemsHeld /\ BytesHeld

(* A finalized row tells what the session finalized, whichever observations *)
(* before it were lost; the account it names is that of the last attempt    *)
(* unless one was lost (finalize_model_request leaves those columns alone). *)
FinalRowTruthful ==
    \A r \in Requests : rows[r].outcome \in {"Succeeded", "Failed"} =>
        /\ rows[r].outcome = session[r].outcome
        /\ rows[r].send_state = session[r].send_state
        /\ rows[r].attempt_count = session[r].attempts
        /\ rows[r].committed = session[r].committed
        /\ ~lost => rows[r].provider = session[r].attempts

(* A row only moves on.  Its send state is a watermark that no observation  *)
(* lowers which is lost, late or superseded (the comment in                 *)
(* begin_model_request_attempt), and once it has ended it stands: a         *)
(* finalization that comes after the recovery of its row does not undo it,  *)
(* nor the recovery a finalization.                                         *)
RowOnlyAdvances ==
    [][\A r \in Requests : Exists(rows[r]) =>
          /\ Rank(rows[r].send_state) <= Rank(rows'[r].send_state)
          /\ Running(rows[r])
             \/ rows'[r] = [rows[r] EXCEPT !.client_status = rows'[r].client_status]]_vars

(* Every row ends, also one whose finalization was lost: its session stops  *)
(* renewing it and the recovery worker finds it.                            *)
RowsEnd == \A r \in Requests : Running(rows[r]) ~> ~Running(rows[r])

Undelivered == IF writer.pc = "persist" THEN <<writer.queued>> \o channel ELSE channel

(* The buffer implements OrderedDelivery: at most once, in the order of the *)
(* request's calls, nothing taken after the receiver is closed, and never   *)
(* more waiting than the limits allow, whatever enqueue, the writer, the    *)
(* drain and an abort interleave to.                                        *)
Waiting(write) ==
    [source |-> write.request, index |-> write.index, critical |-> IsCritical(write)]
Delivery ==
    INSTANCE OrderedDelivery WITH
        Sources <- Requests,
        Limit   <- MaxItems,
        offered <- [r \in Requests |-> session[r].issued],
        pending <- {r \in Requests :
                      producer[r].pc \in {"reserve_item", "reserve_bytes", "send"}},
        queue   <- [i \in DOMAIN Undelivered |-> Waiting(Undelivered[i])],
        last    <- last_applied,
        open    <- ~closed
DeliversInOrder == Delivery!Spec

(* A cancelled writer stops, with everything that was in its channel        *)
(* persisted or dropped.                                                    *)
WriterStops == cancelled ~> (writer.pc = "stopped" /\ channel = <<>>)

=============================================================================
