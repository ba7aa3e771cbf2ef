---------------------------- MODULE ClientRetry ----------------------------
(***************************************************************************)
(* The failure marker of one client turn.  A client that fails a turn      *)
(* calls again; the requests of one turn share a marker in Redis that      *)
(* names the request that failed last.  A request loads the marker when it *)
(* begins (a marker stops it from hiding failures behind retries of its    *)
(* own), sets it when it fails with an error the client will retry, and    *)
(* deletes what it loaded when it succeeds.                                *)
(*                                                                         *)
(* Each store call is given 100 ms.  A call that runs out of time is as    *)
(* good as answered for the request, but its command may still run later.  *)
(* A marker expires by itself.  A request may be dropped at any time: a    *)
(* session that was started is then finalized by a task of its own, which  *)
(* reports a failure that was already decided once more.                   *)
(***************************************************************************)
EXTENDS Naturals

CONSTANTS
    Requests,   \* the requests of the turn
    NoRequest   \* no marker

ASSUME NoRequestAssumption == NoRequest \notin Requests

VARIABLES
    marker,    \* Redis: the request named by the marker, or NoRequest
    net,       \* commands sent and not yet run
    stage,     \* how far each request is
    call,      \* the store call each request waits for
    answer,    \* the value a GET has on its way
    observed,  \* ClientRetryGuard.observed
    settled,   \* ClientRetryGuard.settled
    detached,  \* requests dropped and handed to detach_finalize
    (* history *)
    recorded,  \* who has named a request as failed, itself or its detached task
    before,    \* for each request, what had been recorded when it loaded
    completed  \* requests that have reported their success

vars == <<marker, net, stage, call, answer, observed, settled, detached,
          recorded, before, completed>>
history == <<recorded, before, completed>>

Stages == {"new", "running", "completed", "failing", "detached", "ended"}
Calls == {"none", "load", "loaded", "record", "clear"}
Senders == {"call", "detached"}
Commands == [cmd : {"get"}, req : Requests]
            \cup [cmd : {"set"}, req : Requests, by : Senders]
            \cup [cmd : {"clear"}, req : Requests, expected : Requests]

Get(r) == [cmd |-> "get", req |-> r]
Set(r) == [cmd |-> "set", req |-> r, by |-> IF r \in detached THEN "detached" ELSE "call"]
Clear(r) == [cmd |-> "clear", req |-> r, expected |-> observed[r]]

(* The requests that have been named by the marker. *)
Named == {r \in Requests : \E s \in Senders : <<r, s>> \in recorded}

Init ==
    /\ marker = NoRequest /\ net = {}
    /\ stage = [r \in Requests |-> "new"]
    /\ call = [r \in Requests |-> "none"]
    /\ answer = [r \in Requests |-> NoRequest]
    /\ observed = [r \in Requests |-> NoRequest]
    /\ settled = [r \in Requests |-> FALSE]
    /\ detached = {} /\ recorded = {} /\ completed = {}
    /\ before = [r \in Requests |-> {}]

-----------------------------------------------------------------------------
(* The guard.                                                               *)

Load(r) ==
    /\ stage[r] = "new"
    /\ stage' = [stage EXCEPT ![r] = "running"]
    /\ call' = [call EXCEPT ![r] = "load"]
    /\ net' = net \cup {Get(r)}
    /\ UNCHANGED <<marker, answer, observed, settled, detached, history>>

(* MUTANT: a request without a marker to delete is not settled by success *)
SuccessOnlySettlesClear(r) ==
    /\ completed' = completed \cup {r}
    /\ IF settled[r] \/ observed[r] = NoRequest
       THEN UNCHANGED <<call, net, settled>>
       ELSE /\ call' = [call EXCEPT ![r] = "clear"]
            /\ net' = net \cup {Clear(r)}
            /\ UNCHANGED settled

(* success: deletes the marker the request has loaded, if any. *)
Success(r) ==
    /\ completed' = completed \cup {r}
    /\ IF settled[r] THEN UNCHANGED <<call, net, settled>>
       ELSE IF observed[r] = NoRequest
       THEN settled' = [settled EXCEPT ![r] = TRUE] /\ UNCHANGED <<call, net>>
       ELSE /\ call' = [call EXCEPT ![r] = "clear"]
            /\ net' = net \cup {Clear(r)}
            /\ UNCHANGED settled

(* failure: sets the marker to this request. *)
Failure(r) ==
    /\ UNCHANGED <<settled, completed>>
    /\ IF settled[r] THEN UNCHANGED <<call, net>>
       ELSE /\ call' = [call EXCEPT ![r] = "record"]
            /\ net' = net \cup {Set(r)}

(* bounded, around record_failure and clear_failure: answered, failed or    *)
(* out of time, the request has done its part.                              *)
Settle(r) ==
    /\ call[r] \in {"record", "clear"}
    /\ call' = [call EXCEPT ![r] = "none"]
    /\ settled' = [settled EXCEPT ![r] = TRUE]
    /\ UNCHANGED <<marker, net, stage, answer, observed, detached, history>>

(* bounded, around load: an error or the timeout leaves nothing observed. *)
Loaded(r) ==
    /\ call[r] \in {"load", "loaded"}
    /\ call' = [call EXCEPT ![r] = "none"]
    /\ observed' \in {[observed EXCEPT ![r] = v] :
                        v \in {NoRequest} \cup (IF call[r] = "loaded" THEN {answer[r]} ELSE {})}
    /\ answer' = [answer EXCEPT ![r] = NoRequest]
    /\ UNCHANGED <<marker, net, stage, settled, detached, history>>

-----------------------------------------------------------------------------
(* The request, as far as it concerns the guard.                            *)

Idle(r) == call[r] = "none"
Enter(r, from, to) ==
    /\ Idle(r) /\ stage[r] \in from
    /\ stage' = [stage EXCEPT ![r] = to]
    /\ UNCHANGED <<marker, answer, observed, detached, recorded, before>>

(* The upstream reports completion; the stream may still fail after it. *)
Completes(r) == Enter(r, {"running"}, "completed") /\ Success(r)

FinishSuccess(r) == Enter(r, {"running", "completed"}, "ended") /\ Success(r)

(* The events of a failure are delivered before the request is finalized, *)
(* which reports the failure once more.                                   *)
TerminalFailure(r) == Enter(r, {"running", "completed"}, "failing") /\ Failure(r)

FinishError(r) ==
    Enter(r, {"running", "completed", "failing", "detached"}, "ended") /\ Failure(r)

(* An error the client does not retry, none was attempted, or a detached    *)
(* session without a decided failure (finish_interruption).                 *)
FinishSilently(r) ==
    /\ Enter(r, {"running", "completed", "failing", "detached"}, "ended")
    /\ UNCHANGED <<call, net, settled, completed>>

(* The request is dropped, a call under way included.  A session that has   *)
(* not begun to delete its marker may hold a decided failure, which its     *)
(* detached task reports again unless the guard is settled; a task is       *)
(* dropped with the process.                                                *)
Drop(r) ==
    /\ stage[r] # "new" /\ (stage[r] # "ended" \/ call[r] # "none")
    /\ \/ /\ r \notin detached /\ call[r] \in {"none", "record"}
          /\ stage' = [stage EXCEPT ![r] = "detached"]
          /\ detached' = detached \cup {r}
       \/ /\ r \in detached \/ call[r] \notin {"none", "record"}
          /\ stage' = [stage EXCEPT ![r] = "ended"]
          /\ UNCHANGED detached
    /\ call' = [call EXCEPT ![r] = "none"]
    /\ answer' = [answer EXCEPT ![r] = NoRequest]
    /\ UNCHANGED <<marker, net, observed, settled, history>>

-----------------------------------------------------------------------------
(* Redis runs the commands in any order.                                    *)

GetRuns(m) ==
    /\ m.cmd = "get"
    /\ before' = [before EXCEPT ![m.req] = Named]
    /\ IF call[m.req] = "load"
       THEN /\ call' = [call EXCEPT ![m.req] = "loaded"]
            /\ answer' = [answer EXCEPT ![m.req] = marker]
       ELSE UNCHANGED <<call, answer>>
    /\ UNCHANGED <<marker, stage, observed, settled, detached, recorded, completed>>

SetRuns(m) ==
    /\ m.cmd = "set"
    /\ marker' = m.req
    /\ recorded' = recorded \cup {<<m.req, m.by>>}
    /\ UNCHANGED <<stage, call, answer, observed, settled, detached, before, completed>>

(* MUTANT: the marker is deleted whoever it names *)
ClearsAny(m) ==
    /\ m.cmd = "clear"
    /\ marker' = NoRequest
    /\ UNCHANGED <<stage, call, answer, observed, settled, detached, history>>

(* CLEAR_SCRIPT compares and deletes in one step. *)
ClearRuns(m) ==
    /\ m.cmd = "clear"
    /\ marker' = IF marker = m.expected THEN NoRequest ELSE marker
    /\ UNCHANGED <<stage, call, answer, observed, settled, detached, history>>

Run == \E m \in net : net' = net \ {m} /\ (GetRuns(m) \/ SetRuns(m) \/ ClearRuns(m))

(* The marker's time to live runs out. *)
Expire ==
    /\ marker # NoRequest
    /\ marker' = NoRequest
    /\ UNCHANGED <<net, stage, call, answer, observed, settled, detached, history>>

Next ==
    \/ \E r \in Requests :
          \/ Load(r) \/ Loaded(r) \/ Settle(r) \/ Completes(r) \/ FinishSuccess(r)
          \/ TerminalFailure(r) \/ FinishError(r) \/ FinishSilently(r) \/ Drop(r)
    \/ Run
    \/ Expire

Spec == Init /\ [][Next]_vars

-----------------------------------------------------------------------------
(* Each variable keeps to its domain. *)
TypeOK ==
    /\ marker \in Requests \cup {NoRequest}
    /\ net \subseteq Commands
    /\ stage \in [Requests -> Stages] /\ call \in [Requests -> Calls]
    /\ answer \in [Requests -> Requests \cup {NoRequest}]
    /\ observed \in [Requests -> Requests \cup {NoRequest}]
    /\ settled \in [Requests -> BOOLEAN]
    /\ detached \subseteq Requests /\ completed \subseteq Requests
    /\ recorded \subseteq Requests \X Senders
    /\ before \in [Requests -> SUBSET Requests]

(* A command that deletes the marker of f while it is there was sent by a   *)
(* request that loaded after f had failed: a late success never deletes a   *)
(* newer failure (client_retry.rs:36).                                      *)
DeletesOnlyOlder ==
    [][\A m \in net, f \in Requests :
          /\ m.cmd = "clear" /\ net' = net \ {m}
          /\ marker = f /\ marker' # f
          => f \in before[m.req]]_vars

(* The marker of a request that was deleted, expired or replaced comes back *)
(* only when the request was dropped: the request sets it once, whatever    *)
(* ran out of time, and its detached task at most once more.                *)
RecordedOncePerOwner ==
    [][\A f \in Requests : marker' = f /\ marker # f =>
          \E s \in Senders :
             /\ <<f, s>> \in recorded' \ recorded
             /\ s = "detached" => f \in detached]_vars

(* A request that reported its success is never named as failed, even if    *)
(* its stream fails after the answer was complete.                          *)
CompletedNotMarked ==
    /\ marker \notin completed
    /\ \A m \in net : m.cmd = "set" => m.req \notin completed
=============================================================================
