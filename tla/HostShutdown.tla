---------------------------- MODULE HostShutdown ----------------------------
(***************************************************************************)
(* The end of a gateway process.  The host drains the connections that     *)
(* have registered with its ConnectionTracker, bounded by a deadline       *)
(* counted from the cancellation; then it cancels and joins its workers,   *)
(* aborting what is late; then it stops the managed proxy the workers and  *)
(* requests send through.                                                  *)
(*                                                                         *)
(* Among the workers is the capacity cleanup writer.  An owner of a place  *)
(* in Redis counts itself before it writes anything, and the writer, once  *)
(* cancelled, keeps its receiver open until the count is zero.             *)
(*                                                                         *)
(* Every step on an atomic, a Notify or a channel is a step of its own.    *)
(***************************************************************************)
EXTENDS Naturals, FiniteSets

CONSTANTS
    Conns,        \* connections that try to register
    Owners,       \* owners of places in Redis (Ownership of capacity_wait.rs)
    MaxActive,    \* ACTIVE_MASK: the largest count the tracker can hold
    Concurrency   \* CLEANUP_CONCURRENCY

ASSUME HostAssumption ==
    /\ IsFiniteSet(Conns) /\ IsFiniteSet(Owners)
    /\ MaxActive \in Nat \ {0} /\ Concurrency \in Nat \ {0}

VARIABLES
    (* ConnectionTracker *)
    draining, count,   \* the two parts of the tracker's one atomic word
    conn,              \* each connection
    observed,          \* the word each connection read last
    attached,          \* connections axum still waits for
    enabled, woken,    \* the server's registration with idle, and its wakeup
    (* HostBundle::serve *)
    cancelled,         \* the host's cancellation token
    signal,            \* the shutdown future given to axum
    srv,               \* where serve is
    outcome,           \* how the drain ended
    (* the capacity cleanup writer and its owners *)
    workersCancelled,  \* the supervisor's cancellation token
    owner,             \* each owner
    owners, stopping,  \* CleanupLifecycle
    permit,            \* CleanupLifecycle.changed holds a permit
    queue, closed,     \* the cleanup channel: cleanups in it, receiver closed
    wr,                \* where the writer is
    wrStopping, inputClosed, pending,
    kernel             \* the managed proxy runs

tracker == <<draining, count, conn, observed, attached, enabled, woken>>
server == <<cancelled, signal, srv, outcome>>
channel == <<owner, owners, permit, queue>>
writer == <<stopping, closed, wr, wrStopping, inputClosed, pending>>
vars == <<tracker, server, channel, writer, workersCancelled, kernel>>

ConnStates == {"new", "loaded", "active", "leaving", "left", "refused"}
ServerStates == {"serving", "enable", "check", "poll", "await",
                 "stop", "join", "proxy", "exited"}
OwnerStates == {"new", "checked", "counted", "holding", "denied", "leaving", "notifying", "left"}
WriterStates == {"head", "close", "select", "done", "aborted"}

Running == srv # "exited"
Word == [draining |-> draining, count |-> count]
NoWord == [draining |-> FALSE, count |-> 0]

Init ==
    /\ draining = FALSE /\ count = 0
    /\ conn = [c \in Conns |-> "new"]
    /\ observed = [c \in Conns |-> NoWord]
    /\ attached = {} /\ enabled = FALSE /\ woken = FALSE
    /\ cancelled = FALSE /\ signal = "waiting" /\ srv = "serving" /\ outcome = "none"
    /\ workersCancelled = FALSE
    /\ owner = [o \in Owners |-> "new"] /\ owners = 0 /\ permit = FALSE
    /\ queue = 0 /\ closed = FALSE /\ stopping = FALSE
    /\ wr = "head" /\ wrStopping = FALSE /\ inputClosed = FALSE /\ pending = 0
    /\ kernel = TRUE

-----------------------------------------------------------------------------
(* Connections.                                                             *)

OnlyTracker == UNCHANGED <<server, channel, writer, workersCancelled, kernel>>

(* notify_waiters wakes who is registered now and keeps nothing for later. *)
NotifyWaiters == woken' = (woken \/ enabled)

RegisterLoad(c) ==
    /\ Running /\ conn[c] = "new"
    /\ conn' = [conn EXCEPT ![c] = "loaded"]
    /\ observed' = [observed EXCEPT ![c] = Word]
    /\ UNCHANGED <<draining, count, attached, enabled, woken>> /\ OnlyTracker

(* MUTANT: the draining bit is looked at once, then the count is raised *)
CheckThenAdd(c) ==
    /\ Running /\ conn[c] = "loaded"
    /\ IF observed[c].draining
       THEN conn' = [conn EXCEPT ![c] = "refused"] /\ UNCHANGED <<count, attached>>
       ELSE /\ conn' = [conn EXCEPT ![c] = "active"]
            /\ count' = count + 1
            /\ attached' = attached \cup {c}
    /\ UNCHANGED <<draining, observed, enabled, woken>> /\ OnlyTracker

RegisterExchange(c) ==
    /\ Running /\ conn[c] = "loaded"
    /\ \/ /\ observed[c].draining \/ observed[c].count = MaxActive
          /\ conn' = [conn EXCEPT ![c] = "refused"]
          /\ observed' = [observed EXCEPT ![c] = NoWord]
          /\ UNCHANGED <<count, attached>>
       \/ /\ ~observed[c].draining /\ observed[c].count # MaxActive
          /\ observed[c] = Word
          /\ conn' = [conn EXCEPT ![c] = "active"]
          /\ count' = count + 1
          /\ attached' = attached \cup {c}
          /\ observed' = [observed EXCEPT ![c] = NoWord]
       \/ /\ ~observed[c].draining /\ observed[c].count # MaxActive
          /\ observed[c] # Word
          /\ observed' = [observed EXCEPT ![c] = Word]
          /\ UNCHANGED <<count, conn, attached>>
    /\ UNCHANGED <<draining, enabled, woken>> /\ OnlyTracker

(* An upgraded connection is no longer one of axum's. *)
Detach(c) ==
    /\ Running /\ conn[c] = "active" /\ c \in attached
    /\ attached' = attached \ {c}
    /\ UNCHANGED <<draining, count, conn, observed, enabled, woken>> /\ OnlyTracker

(* Drop for ActiveConnection: the count falls, and the last one notifies. *)
Leave(c) ==
    /\ Running /\ conn[c] = "active"
    /\ conn' = [conn EXCEPT ![c] = IF count = 1 THEN "leaving" ELSE "left"]
    /\ count' = count - 1
    /\ attached' = attached \ {c}
    /\ UNCHANGED <<draining, observed, enabled, woken>> /\ OnlyTracker

NotifyIdle(c) ==
    /\ Running /\ conn[c] = "leaving"
    /\ conn' = [conn EXCEPT ![c] = "left"]
    /\ NotifyWaiters
    /\ UNCHANGED <<draining, count, observed, attached, enabled>> /\ OnlyTracker

-----------------------------------------------------------------------------
(* serve_router.                                                            *)

OnlyServer == UNCHANGED <<count, conn, observed, attached, channel, writer, workersCancelled, kernel>>

(* A signal, or an administrator's restart. *)
Cancel ==
    /\ ~cancelled /\ Running
    /\ cancelled' = TRUE
    /\ UNCHANGED <<draining, enabled, woken, signal, srv, outcome>> /\ OnlyServer

(* The shutdown future: begin_draining; nobody waits for idle yet. *)
BeginDraining ==
    /\ cancelled /\ signal = "waiting" /\ Running
    /\ draining' = TRUE /\ signal' = "done"
    /\ UNCHANGED <<enabled, woken, cancelled, srv, outcome>> /\ OnlyServer

(* axum returns; begin_draining once more. *)
ServeReturns ==
    /\ srv = "serving" /\ signal = "done" /\ attached = {}
    /\ srv' = "enable"
    /\ draining' = TRUE
    /\ UNCHANGED <<enabled, woken, cancelled, signal, outcome>> /\ OnlyServer

(* MUTANT: the count is read before the waiter is registered *)
ReadsBeforeEnable ==
    /\ srv = "enable"
    /\ srv' = "check"
    /\ UNCHANGED <<enabled, woken, draining, cancelled, signal, outcome>> /\ OnlyServer

Enable ==
    /\ srv = "enable"
    /\ enabled' = TRUE /\ UNCHANGED woken
    /\ srv' = "check"
    /\ UNCHANGED <<draining, cancelled, signal, outcome>> /\ OnlyServer

CheckIdle ==
    /\ srv = "check"
    /\ \/ /\ count = 0
          /\ srv' = "stop" /\ outcome' = "drained" /\ enabled' = FALSE /\ woken' = FALSE
       \/ /\ count # 0
          /\ srv' = "poll" /\ UNCHANGED <<outcome, enabled, woken>>
    /\ UNCHANGED <<draining, cancelled, signal>> /\ OnlyServer

(* The first poll would register a waiter that is not registered yet. *)
Poll ==
    /\ srv = "poll"
    /\ srv' = "await" /\ enabled' = TRUE
    /\ UNCHANGED <<woken, draining, cancelled, signal, outcome>> /\ OnlyServer

Notified ==
    /\ srv = "await" /\ woken
    /\ srv' = "enable" /\ enabled' = FALSE /\ woken' = FALSE
    /\ UNCHANGED <<draining, cancelled, signal, outcome>> /\ OnlyServer

(* The drain deadline, counted from the cancellation. *)
DrainTimeout ==
    /\ cancelled /\ srv \in {"serving", "enable", "check", "poll", "await"}
    /\ srv' = "stop" /\ outcome' = "timed out" /\ enabled' = FALSE /\ woken' = FALSE
    /\ UNCHANGED <<draining, cancelled, signal>> /\ OnlyServer

(* The listener cannot be bound, or axum fails. *)
ServeFails ==
    /\ srv = "serving"
    /\ srv' = "stop" /\ outcome' = "failed"
    /\ UNCHANGED <<enabled, woken, draining, cancelled, signal>> /\ OnlyServer

-----------------------------------------------------------------------------
(* The rest of HostBundle::serve.                                           *)

Stop ==
    /\ srv = "stop"
    /\ cancelled' = TRUE /\ workersCancelled' = TRUE
    /\ srv' = "join"
    /\ UNCHANGED <<tracker, signal, outcome, channel, writer, kernel>>

Join ==
    /\ srv = "join" /\ wr \in {"done", "aborted"}
    /\ srv' = "proxy"
    /\ UNCHANGED <<tracker, cancelled, signal, outcome, channel, writer, workersCancelled, kernel>>

(* MUTANT: a late worker is waited for *)
NeverAborts == FALSE /\ UNCHANGED vars

(* The worker shutdown timeout: what still runs is aborted. *)
AbortWorkers ==
    /\ srv = "join" /\ wr \notin {"done", "aborted"}
    /\ wr' = "aborted" /\ closed' = TRUE /\ queue' = 0 /\ pending' = 0 \* receiver and cleanups dropped
    /\ UNCHANGED <<tracker, server, owner, owners, permit, stopping, wrStopping, inputClosed,
                   workersCancelled, kernel>>

StopProxy ==
    /\ srv = "proxy"
    /\ kernel' = FALSE
    /\ srv' = "exited"
    /\ UNCHANGED <<tracker, cancelled, signal, outcome, channel, writer, workersCancelled>>

-----------------------------------------------------------------------------
(* Owners of places in Redis.                                               *)

OnlyOwner == UNCHANGED <<tracker, server, writer, workersCancelled, kernel>>

(* ownership: refused at once when the writer stops or has stopped. *)
OwnershipCheck(o) ==
    /\ Running /\ owner[o] = "new"
    /\ owner' = [owner EXCEPT ![o] = IF closed \/ stopping THEN "left" ELSE "checked"]
    /\ UNCHANGED <<owners, permit, queue>> /\ OnlyOwner

OwnershipCount(o) ==
    /\ Running /\ owner[o] = "checked"
    /\ owner' = [owner EXCEPT ![o] = "counted"]
    /\ owners' = owners + 1
    /\ UNCHANGED <<permit, queue>> /\ OnlyOwner

(* MUTANT: the second look is left out *)
LooksOnce(o) ==
    /\ Running /\ owner[o] = "counted"
    /\ owner' = [owner EXCEPT ![o] = "holding"]
    /\ UNCHANGED <<owners, permit, queue>> /\ OnlyOwner

OwnershipRecheck(o) ==
    /\ Running /\ owner[o] = "counted"
    /\ owner' = [owner EXCEPT ![o] = IF stopping THEN "denied" ELSE "holding"]
    /\ UNCHANGED <<owners, permit, queue>> /\ OnlyOwner

(* Drop for Ownership, of an owner that is done or was denied: try_send,   *)
(* fetch_sub, notify_one.                                                   *)
HandOver(o) ==
    /\ Running /\ owner[o] \in {"holding", "denied"}
    /\ owner' = [owner EXCEPT ![o] = "leaving"]
    /\ queue' = IF closed THEN queue ELSE queue + 1
    /\ UNCHANGED <<owners, permit>> /\ OnlyOwner

Uncount(o) ==
    /\ Running /\ owner[o] = "leaving"
    /\ owner' = [owner EXCEPT ![o] = "notifying"]
    /\ owners' = owners - 1
    /\ UNCHANGED <<permit, queue>> /\ OnlyOwner

NotifyWriter(o) ==
    /\ Running /\ owner[o] = "notifying"
    /\ owner' = [owner EXCEPT ![o] = "left"]
    /\ permit' = TRUE
    /\ UNCHANGED <<owners, queue>> /\ OnlyOwner

-----------------------------------------------------------------------------
(* CapacityWaitCleanupWriter::run.                                          *)

OnlyWriter == UNCHANGED <<tracker, server, owner, owners, workersCancelled, kernel>>

LoopHead ==
    /\ Running /\ wr = "head"
    /\ wr' = IF wrStopping /\ owners = 0 THEN "close"
             ELSE IF inputClosed /\ pending = 0 THEN "done" ELSE "select"
    /\ UNCHANGED <<permit, queue, stopping, closed, wrStopping, inputClosed, pending>> /\ OnlyWriter

CloseReceiver ==
    /\ Running /\ wr = "close"
    /\ closed' = TRUE
    /\ wr' = IF inputClosed /\ pending = 0 THEN "done" ELSE "select"
    /\ UNCHANGED <<permit, queue, stopping, wrStopping, inputClosed, pending>> /\ OnlyWriter

SelectCancelled ==
    /\ Running /\ wr = "select" /\ workersCancelled /\ ~wrStopping
    /\ stopping' = TRUE /\ wrStopping' = TRUE
    /\ wr' = "head"
    /\ UNCHANGED <<permit, queue, closed, inputClosed, pending>> /\ OnlyWriter

SelectChanged ==
    /\ Running /\ wr = "select" /\ wrStopping /\ permit
    /\ permit' = FALSE
    /\ wr' = "head"
    /\ UNCHANGED <<queue, stopping, closed, wrStopping, inputClosed, pending>> /\ OnlyWriter

SelectCleaned ==
    /\ Running /\ wr = "select" /\ pending > 0
    /\ pending' = pending - 1
    /\ wr' = "head"
    /\ UNCHANGED <<permit, queue, stopping, closed, wrStopping, inputClosed>> /\ OnlyWriter

SelectReceived ==
    /\ Running /\ wr = "select" /\ ~inputClosed /\ pending < Concurrency
    /\ \/ /\ queue > 0
          /\ queue' = queue - 1 /\ pending' = pending + 1 /\ UNCHANGED inputClosed
       \/ /\ queue = 0 /\ closed
          /\ inputClosed' = TRUE /\ UNCHANGED <<queue, pending>>
    /\ wr' = "head"
    /\ UNCHANGED <<permit, stopping, closed, wrStopping>> /\ OnlyWriter

-----------------------------------------------------------------------------
Connection(c) ==
    RegisterLoad(c) \/ RegisterExchange(c) \/ Detach(c) \/ Leave(c) \/ NotifyIdle(c)
Server == BeginDraining \/ ServeReturns \/ Enable \/ CheckIdle \/ Poll \/ Notified
Finish == Stop \/ Join \/ StopProxy
Owner(o) ==
    \/ OwnershipCheck(o) \/ OwnershipCount(o) \/ OwnershipRecheck(o)
    \/ HandOver(o) \/ Uncount(o) \/ NotifyWriter(o)
Writer == LoopHead \/ CloseReceiver \/ SelectCancelled \/ SelectChanged \/ SelectCleaned
          \/ SelectReceived

Next ==
    \/ \E c \in Conns : Connection(c)
    \/ Cancel \/ Server \/ DrainTimeout \/ ServeFails
    \/ Finish \/ AbortWorkers
    \/ \E o \in Owners : Owner(o)
    \/ Writer

Spec == Init /\ [][Next]_vars

(* Timers fire, and tasks that can run do.  A client may keep its           *)
(* connection and a request its place for ever.                             *)
Fairness ==
    /\ WF_vars(Server) /\ WF_vars(DrainTimeout) /\ WF_vars(Finish) /\ WF_vars(AbortWorkers)
    /\ WF_vars(Writer)
FairSpec == Spec /\ Fairness

-----------------------------------------------------------------------------
(* Each variable keeps to its domain. *)
TypeOK ==
    /\ draining \in BOOLEAN /\ count \in 0 .. MaxActive
    /\ conn \in [Conns -> ConnStates]
    /\ observed \in [Conns -> [draining : BOOLEAN, count : 0 .. MaxActive]]
    /\ attached \subseteq Conns /\ enabled \in BOOLEAN /\ woken \in BOOLEAN
    /\ cancelled \in BOOLEAN /\ signal \in {"waiting", "done"} /\ srv \in ServerStates
    /\ outcome \in {"none", "drained", "timed out", "failed"}
    /\ workersCancelled \in BOOLEAN
    /\ owner \in [Owners -> OwnerStates] /\ owners \in 0 .. Cardinality(Owners)
    /\ permit \in BOOLEAN /\ queue \in 0 .. Cardinality(Owners) /\ closed \in BOOLEAN
    /\ stopping \in BOOLEAN /\ wr \in WriterStates /\ wrStopping \in BOOLEAN
    /\ inputClosed \in BOOLEAN /\ pending \in 0 .. Concurrency
    /\ kernel \in BOOLEAN

(* The drain never sleeps through the end of the last connection: when the  *)
(* host waits and none is left, its wakeup is there or on its way (the      *)
(* comment at serve.rs:53).                                                 *)
IdleIsNoticed ==
    srv = "await" /\ count = 0 => woken \/ \E c \in Conns : conn[c] = "leaving"

(* Once the drain has found the host idle it stays idle: no connection is   *)
(* registered then or later, and the writers, which are stopped next,       *)
(* outlive every admitted request (lib.rs:59).                              *)
DrainedStaysIdle ==
    outcome = "drained" => \A c \in Conns : conn[c] # "active"

(* An owner that may write to Redis finds the cleanup channel open, unless  *)
(* the writer was aborted: no place is taken that nobody will clean up      *)
(* (the comment at capacity_wait.rs:268).                                   *)
WritesAreCleanedUp ==
    \A o \in Owners : owner[o] = "holding" => ~closed \/ wr = "aborted"

(* A cancelled process exits, whatever its clients and requests do. *)
ShutdownEnds == cancelled ~> srv = "exited"
=============================================================================
