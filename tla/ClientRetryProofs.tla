------------------------- MODULE ClientRetryProofs -------------------------
(***************************************************************************)
(* The marker of a turn, for any requests.  The argument rests on when a   *)
(* request may still record a failure: not before it fails, not after it   *)
(* has reported its success, and once, or once more by the detached task of *)
(* a dropped request; and on what a request has loaded having been recorded *)
(* before.                                                                 *)
(***************************************************************************)
EXTENDS ClientRetry, TLAPS

(* Nobody has named r as failed and no command to do so is under way. *)
Unmarked(r) ==
    /\ \A s \in Senders : <<r, s>> \notin recorded
    /\ \A m \in net : ~(m.cmd = "set" /\ m.req = r)

(* The same for one of the two senders. *)
NotSentBy(r, s) ==
    /\ <<r, s>> \notin recorded
    /\ \A m \in net : ~(m.cmd = "set" /\ m.req = r /\ m.by = s)

(* A request that has not failed has recorded nothing and is about to       *)
(* record nothing.                                                          *)
NotYetFailed ==
    \A r \in Requests : stage[r] \in {"new", "running", "completed"} => Unmarked(r)

(* A request that failed has sent its command, waits for it or is settled. *)
FailingOnce ==
    \A r \in Requests : stage[r] = "failing" => settled[r] \/ call[r] = "record"

(* A detached task has not reported before it ends, and nobody reports for  *)
(* the task of a request that was not dropped.                              *)
DetachedOnce ==
    \A r \in Requests :
        /\ stage[r] = "detached" \/ r \notin detached => NotSentBy(r, "detached")
        /\ stage[r] = "detached" => r \in detached
        /\ r \in detached => stage[r] \in {"detached", "ended"}

(* A request that reported its success will not record a failure. *)
SucceededOnly ==
    \A r \in completed :
        /\ Unmarked(r) /\ stage[r] # "new" /\ call[r] # "record"
        /\ settled[r] \/ call[r] = "clear" \/ stage[r] = "ended"

(* The marker names a recorded request, and a command to record has not     *)
(* been run before.                                                         *)
RecordedMarker ==
    /\ marker \in Named \cup {NoRequest}
    /\ \A m \in net : m.cmd = "set" => <<m.req, m.by>> \notin recorded

(* What a request loads, keeps and deletes had been recorded when it        *)
(* loaded.                                                                  *)
LoadedBefore ==
    /\ \A r \in Requests : before[r] \subseteq Named
    /\ \A r \in Requests : answer[r] # NoRequest => answer[r] \in before[r]
    /\ \A r \in Requests : observed[r] # NoRequest => observed[r] \in before[r]
    /\ \A m \in net : m.cmd = "clear" => m.expected \in before[m.req]

Inv ==
    /\ TypeOK /\ NotYetFailed /\ FailingOnce /\ DetachedOnce /\ SucceededOnly
    /\ RecordedMarker /\ LoadedBefore

USE NoRequestAssumption

LEMMA InitInv == Init => Inv
  BY DEF Init, Inv, TypeOK, NotYetFailed, FailingOnce, DetachedOnce, SucceededOnly,
         RecordedMarker, LoadedBefore, Unmarked, NotSentBy, Stages, Calls, Senders, Commands

(* Every step keeps the variables in their domains. *)
LEMMA TypeStep == TypeOK /\ [Next]_vars => TypeOK'
<1> SUFFICES ASSUME TypeOK, [Next]_vars PROVE TypeOK'
  OBVIOUS
<1> USE DEF TypeOK, history
<1>1. ASSUME NEW r \in Requests, Completes(r) \/ FinishSuccess(r)
      PROVE TypeOK'
  <2>1. observed[r] # NoRequest => Clear(r) \in Commands
    BY DEF Clear, Commands
  <2>2. net' \subseteq Commands
    BY <1>1, <2>1 DEF Completes, FinishSuccess, Success
  <2>3. stage' \in [Requests -> Stages] /\ call' \in [Requests -> Calls]
    BY <1>1 DEF Completes, FinishSuccess, Enter, Success, Stages, Calls
  <2>4. settled' \in [Requests -> BOOLEAN] /\ completed' \subseteq Requests
    BY <1>1 DEF Completes, FinishSuccess, Success
  <2>5. QED
    BY <1>1, <2>2, <2>3, <2>4 DEF Completes, FinishSuccess, Enter
<1>2. ASSUME NEW r \in Requests,
             TerminalFailure(r) \/ FinishError(r) \/ FinishSilently(r)
      PROVE TypeOK'
  <2>1. Set(r) \in Commands
    BY DEF Set, Commands, Senders
  <2>2. net' \subseteq Commands
    BY <1>2, <2>1 DEF TerminalFailure, FinishError, FinishSilently, Failure
  <2>3. stage' \in [Requests -> Stages] /\ call' \in [Requests -> Calls]
    BY <1>2 DEF TerminalFailure, FinishError, FinishSilently, Enter, Failure, Stages, Calls
  <2>4. QED
    BY <1>2, <2>2, <2>3 DEF TerminalFailure, FinishError, FinishSilently, Enter, Failure
<1>3. ASSUME NEW r \in Requests, Load(r) \/ Settle(r) \/ Drop(r)
      PROVE TypeOK'
  <2>1. Get(r) \in Commands
    BY DEF Get, Commands
  <2>2. CASE Load(r)
    BY <2>1, <2>2 DEF Load, Stages, Calls
  <2>3. CASE Settle(r)
    BY <2>3 DEF Settle, Calls
  <2>4. CASE Drop(r)
    BY <2>4 DEF Drop, Stages, Calls
  <2>5. QED
    BY <1>3, <2>2, <2>3, <2>4
<1>4. ASSUME NEW r \in Requests, Loaded(r)
      PROVE TypeOK'
  BY <1>4 DEF Loaded, Stages, Calls
<1>5. CASE Run
  <2>1. PICK m \in net : net' = net \ {m} /\ (GetRuns(m) \/ SetRuns(m) \/ ClearRuns(m))
    BY <1>5 DEF Run
  <2>2. m.req \in Requests /\ (m.cmd = "set" => m.by \in Senders)
    BY <2>1 DEF Commands
  <2>3. CASE GetRuns(m)
    BY <2>1, <2>2, <2>3 DEF GetRuns, Named, Calls
  <2>4. CASE SetRuns(m)
    BY <2>1, <2>2, <2>4 DEF SetRuns
  <2>5. CASE ClearRuns(m)
    BY <2>1, <2>5 DEF ClearRuns
  <2>6. QED
    BY <2>1, <2>3, <2>4, <2>5
<1>6. CASE Expire
  BY <1>6 DEF Expire
<1>7. CASE UNCHANGED vars
  BY <1>7 DEF vars
<1>8. QED
  BY <1>1, <1>2, <1>3, <1>4, <1>5, <1>6, <1>7 DEF Next

(* Reporting success. *)
LEMMA SuccessStep ==
    ASSUME Inv, NEW r \in Requests, Completes(r) \/ FinishSuccess(r)
    PROVE  Inv'
<1>1. TypeOK'
  BY TypeStep DEF Inv, Next
<1> USE DEF Inv, TypeOK, Unmarked, NotSentBy
<1>2. /\ stage[r] \in {"running", "completed"} /\ call[r] = "none"
      /\ stage' \in {[stage EXCEPT ![r] = "completed"], [stage EXCEPT ![r] = "ended"]}
      /\ UNCHANGED <<marker, answer, observed, detached, recorded, before>>
      /\ completed' = completed \cup {r}
      /\ \/ UNCHANGED <<call, net>> /\ settled' = [settled EXCEPT ![r] = TRUE]
         \/ UNCHANGED settled /\ call' = [call EXCEPT ![r] = "clear"]
              /\ observed[r] # NoRequest /\ net' = net \cup {Clear(r)}
  BY DEF Completes, FinishSuccess, Enter, Idle, Success
<1>3. Clear(r).cmd = "clear" /\ Clear(r).req = r /\ Clear(r).expected = observed[r]
  BY DEF Clear
<1>4. \A m \in net' : m.cmd = "set" => m \in net
  BY <1>2, <1>3
<1>5. NotYetFailed' /\ FailingOnce' /\ DetachedOnce'
  BY <1>2, <1>4 DEF NotYetFailed, FailingOnce, DetachedOnce
<1>6. SucceededOnly'
  BY <1>2, <1>4 DEF NotYetFailed, SucceededOnly
<1>7. RecordedMarker'
  BY <1>2, <1>4 DEF RecordedMarker, Named
<1>8. LoadedBefore'
  BY <1>2, <1>3 DEF LoadedBefore, Named
<1>9. QED
  BY <1>1, <1>5, <1>6, <1>7, <1>8

(* Reporting a failure, and ending without a report. *)
LEMMA FailureStep ==
    ASSUME Inv, NEW r \in Requests, TerminalFailure(r) \/ FinishError(r) \/ FinishSilently(r)
    PROVE  Inv'
<1>1. TypeOK'
  BY TypeStep DEF Inv, Next
<1> USE DEF Inv, TypeOK, Unmarked, NotSentBy
<1>2. /\ call[r] = "none" /\ stage[r] \in {"running", "completed", "failing", "detached"}
      /\ \/ stage' = [stage EXCEPT ![r] = "ended"]
         \/ /\ stage[r] \in {"running", "completed"}
            /\ stage' = [stage EXCEPT ![r] = "failing"]
            /\ settled[r] \/ call' = [call EXCEPT ![r] = "record"]
      /\ UNCHANGED <<marker, answer, observed, settled, detached, history>>
      /\ \/ UNCHANGED <<call, net>>
         \/ /\ ~settled[r] /\ call' = [call EXCEPT ![r] = "record"]
            /\ net' = net \cup {Set(r)}
  BY DEF TerminalFailure, FinishError, FinishSilently, Enter, Idle, Failure, history
<1>3. /\ Set(r).cmd = "set" /\ Set(r).req = r
      /\ Set(r).by = IF r \in detached THEN "detached" ELSE "call"
  BY DEF Set
<1>4. ~settled[r] => NotSentBy(r, Set(r).by)
  <2>1. CASE stage[r] = "detached"
    BY <1>3, <2>1 DEF DetachedOnce
  <2>2. CASE stage[r] \in {"running", "completed"}
    <3>1. Unmarked(r) /\ Set(r).by \in Senders
      BY <1>3, <2>2 DEF NotYetFailed, Senders
    <3> QED BY <3>1
  <2>3. CASE stage[r] = "failing"
    BY <1>2, <2>3 DEF FailingOnce
  <2> QED BY <1>2, <2>1, <2>2, <2>3
<1>5. ~settled[r] => r \notin completed
  BY <1>2 DEF SucceededOnly
<1> USE DEF history
<1>6. NotYetFailed' /\ FailingOnce'
  BY <1>2, <1>3 DEF NotYetFailed, FailingOnce
<1>7. DetachedOnce'
  <2> SUFFICES ASSUME NEW q \in Requests
               PROVE  /\ stage'[q] = "detached" \/ q \notin detached => NotSentBy(q, "detached")'
                      /\ stage'[q] = "detached" => q \in detached
                      /\ q \in detached => stage'[q] \in {"detached", "ended"}
    BY <1>2 DEF DetachedOnce
  <2>1. CASE q = r
    <3>1. stage'[r] # "detached" /\ (r \in detached => stage'[r] = "ended")
      BY <1>2 DEF DetachedOnce
    <3>2. r \notin detached => NotSentBy(r, "detached")'
      BY <1>2, <1>3 DEF DetachedOnce
    <3> QED BY <2>1, <3>1, <3>2
  <2>2. CASE q # r
    <3>1. stage'[q] = stage[q]
      BY <1>2, <2>2
    <3>2. NotSentBy(q, "detached") => NotSentBy(q, "detached")'
      BY <1>2, <1>3, <2>2
    <3> QED BY <3>1, <3>2 DEF DetachedOnce
  <2> QED BY <2>1, <2>2
<1>8. SucceededOnly'
  BY <1>2, <1>3, <1>5 DEF SucceededOnly
<1>9. RecordedMarker' /\ LoadedBefore'
  BY <1>2, <1>3, <1>4 DEF RecordedMarker, LoadedBefore, Named
<1>10. QED
  BY <1>1, <1>6, <1>7, <1>8, <1>9

(* The other steps of a request. *)
LEMMA GuardStep ==
    ASSUME Inv, NEW r \in Requests, Load(r) \/ Loaded(r) \/ Settle(r) \/ Drop(r)
    PROVE  Inv'
<1>1. TypeOK'
  BY TypeStep DEF Inv, Next
<1> USE DEF Inv, TypeOK, Unmarked, NotSentBy, history
<1>2. CASE Load(r)
  <2>1. /\ \A m \in net' : m.cmd \in {"set", "clear"} => m \in net
        /\ Named' = Named
    BY <1>2 DEF Load, Get, Named
  <2>2. QED
    BY <1>1, <1>2, <2>1 DEF Load, NotYetFailed, FailingOnce, DetachedOnce, SucceededOnly,
                            RecordedMarker, LoadedBefore
<1>3. CASE Loaded(r)
  <2>1. Named' = Named
    BY <1>3 DEF Loaded, Named
  <2>2. NotYetFailed' /\ FailingOnce' /\ DetachedOnce' /\ SucceededOnly' /\ RecordedMarker'
    BY <1>3, <2>1 DEF Loaded, NotYetFailed, FailingOnce, DetachedOnce, SucceededOnly,
                      RecordedMarker
  <2>3. LoadedBefore'
    BY <1>3, <2>1 DEF Loaded, LoadedBefore
  <2>4. QED
    BY <1>1, <2>2, <2>3
<1>4. CASE Settle(r)
  <2>1. /\ UNCHANGED <<marker, net, stage, answer, observed, detached, history>>
        /\ Named' = Named
        /\ call[r] \in {"record", "clear"} /\ call' = [call EXCEPT ![r] = "none"]
        /\ settled' = [settled EXCEPT ![r] = TRUE]
    BY <1>4 DEF Settle, Named
  <2>2. NotYetFailed' /\ FailingOnce' /\ DetachedOnce'
    BY <2>1 DEF NotYetFailed, FailingOnce, DetachedOnce
  <2>3. SucceededOnly'
    BY <2>1 DEF SucceededOnly
  <2>4. RecordedMarker' /\ LoadedBefore'
    BY <2>1 DEF RecordedMarker, LoadedBefore
  <2>5. QED
    BY <1>1, <2>2, <2>3, <2>4
<1>5. CASE Drop(r)
  <2>1. /\ UNCHANGED <<marker, net, observed, settled, history>> /\ Named' = Named
        /\ \/ /\ r \notin detached /\ call[r] \in {"none", "record"}
              /\ stage' = [stage EXCEPT ![r] = "detached"] /\ detached' = detached \cup {r}
           \/ stage' = [stage EXCEPT ![r] = "ended"] /\ UNCHANGED detached
        /\ call' = [call EXCEPT ![r] = "none"] /\ stage[r] # "new"
        /\ answer' = [answer EXCEPT ![r] = NoRequest]
        /\ stage[r] # "ended" \/ call[r] # "none"
    BY <1>5 DEF Drop, Named
  <2>2. NotYetFailed' /\ FailingOnce'
    BY <2>1 DEF NotYetFailed, FailingOnce
  <2>3. DetachedOnce'
    <3> SUFFICES ASSUME NEW q \in Requests
                 PROVE  /\ stage'[q] = "detached" \/ q \notin detached'
                             => NotSentBy(q, "detached")
                        /\ stage'[q] = "detached" => q \in detached'
                        /\ q \in detached' => stage'[q] \in {"detached", "ended"}
      BY <2>1 DEF DetachedOnce
    <3>1. CASE q # r
      BY <2>1, <3>1 DEF DetachedOnce
    <3>2. CASE q = r /\ stage' = [stage EXCEPT ![r] = "detached"] /\ r \notin detached
      <4>1. stage'[q] = "detached" /\ q \in detached' /\ NotSentBy(q, "detached")
        BY <2>1, <3>2 DEF DetachedOnce
      <4> QED BY <4>1
    <3>3. CASE q = r /\ stage' = [stage EXCEPT ![r] = "ended"] /\ UNCHANGED detached
      BY <3>3 DEF DetachedOnce
    <3> QED BY <2>1, <3>1, <3>2, <3>3
  <2>4. SucceededOnly'
    BY <2>1 DEF SucceededOnly
  <2>5. RecordedMarker' /\ LoadedBefore'
    BY <2>1 DEF RecordedMarker, LoadedBefore
  <2>6. QED
    BY <1>1, <2>2, <2>3, <2>4, <2>5
<1>6. QED
  BY <1>2, <1>3, <1>4, <1>5

(* Redis runs a command, or the marker expires. *)
LEMMA RedisStep == Inv /\ (Run \/ Expire) => Inv'
<1> SUFFICES ASSUME Inv, Run \/ Expire PROVE Inv'
  OBVIOUS
<1>1. TypeOK'
  BY TypeStep DEF Inv, Next
<1> USE DEF Inv, TypeOK, Unmarked, NotSentBy, history
<1>2. ASSUME NEW m \in net, net' = net \ {m}, GetRuns(m)
      PROVE Inv'
  <2>1. m.req \in Requests /\ m.cmd = "get" /\ Named' = Named
    BY <1>2 DEF GetRuns, Commands, Named
  <2>2. NotYetFailed' /\ FailingOnce' /\ DetachedOnce' /\ SucceededOnly' /\ RecordedMarker'
    BY <1>2, <2>1 DEF GetRuns, NotYetFailed, FailingOnce, DetachedOnce, SucceededOnly,
                      RecordedMarker
  <2>3. LoadedBefore'
    BY <1>2, <2>1 DEF GetRuns, RecordedMarker, LoadedBefore
  <2>4. QED
    BY <1>1, <2>2, <2>3
<1>3. ASSUME NEW m \in net, net' = net \ {m}, SetRuns(m)
      PROVE Inv'
  <2>1. /\ m.cmd = "set" /\ m.req \in Requests /\ m.by \in Senders
        /\ m = [cmd |-> "set", req |-> m.req, by |-> m.by]
    BY <1>3 DEF SetRuns, Commands
  <2>2. \A n \in net : n.cmd = "set" /\ n.req = m.req /\ n.by = m.by => n = m
    BY <2>1 DEF Commands
  <2>3. /\ marker' = m.req /\ recorded' = recorded \cup {<<m.req, m.by>>}
        /\ UNCHANGED <<stage, call, answer, observed, settled, detached, before, completed>>
    BY <1>3 DEF SetRuns
  <2>4. Named' = Named \cup {m.req}
    BY <2>1, <2>3 DEF Named
  <2>5. NotYetFailed' /\ FailingOnce'
    BY <1>3, <2>1, <2>3 DEF NotYetFailed, FailingOnce
  <2>6. DetachedOnce'
    BY <1>3, <2>1, <2>3 DEF DetachedOnce
  <2>7. SucceededOnly'
    BY <1>3, <2>1, <2>3 DEF SucceededOnly
  <2>8. RecordedMarker'
    BY <1>3, <2>1, <2>2, <2>3, <2>4 DEF RecordedMarker, Commands
  <2>9. LoadedBefore'
    BY <1>3, <2>3, <2>4 DEF LoadedBefore
  <2>10. QED
    BY <1>1, <2>5, <2>6, <2>7, <2>8, <2>9
<1>4. ASSUME NEW m \in net, net' = net \ {m}, ClearRuns(m)
      PROVE Inv'
  BY <1>1, <1>4 DEF ClearRuns, NotYetFailed, FailingOnce, DetachedOnce, SucceededOnly,
                    RecordedMarker, LoadedBefore, Named
<1>5. CASE Expire
  BY <1>1, <1>5 DEF Expire, NotYetFailed, FailingOnce, DetachedOnce, SucceededOnly,
                    RecordedMarker, LoadedBefore, Named
<1>6. QED
  BY <1>2, <1>3, <1>4, <1>5 DEF Run

LEMMA InvStep == Inv /\ [Next]_vars => Inv'
<1> SUFFICES ASSUME Inv, [Next]_vars PROVE Inv'
  OBVIOUS
<1>1. CASE UNCHANGED vars
  BY <1>1 DEF vars, Inv, TypeOK, NotYetFailed, FailingOnce, DetachedOnce, SucceededOnly,
              RecordedMarker, LoadedBefore, Unmarked, NotSentBy, Named
<1>2. QED
  BY <1>1, SuccessStep, FailureStep, GuardStep, RedisStep DEF Next

(* The invariant, and the type of the variables with it, in every state: a  *)
(* request and the task it is detached to each send one command to record   *)
(* its failure, and none after its success was reported.                    *)
THEOREM MarkerInvariant == Spec => []Inv
  BY InitInv, InvStep, PTL DEF Spec

(* A request that reported its success is never named as failed, whichever  *)
(* of its calls ran out of time.                                            *)
THEOREM CompletedUnmarked == Spec => []CompletedNotMarked
<1>1. Inv => CompletedNotMarked
  BY DEF Inv, TypeOK, SucceededOnly, RecordedMarker, CompletedNotMarked, Unmarked, Named
<1>2. QED
  BY <1>1, MarkerInvariant, PTL

(* A late success deletes only a failure that had been recorded when its    *)
(* request began.                                                           *)
THEOREM OnlyOlderDeleted == Spec => DeletesOnlyOlder
<1>1. ASSUME Inv, [Next]_vars, NEW m \in net, NEW f \in Requests,
             m.cmd = "clear", net' = net \ {m}, marker = f, marker' # f
      PROVE f \in before[m.req]
  <2>1. m.expected \in before[m.req]
    BY <1>1 DEF Inv, LoadedBefore
  <2>2. PICK n \in net : net' = net \ {n} /\ (GetRuns(n) \/ SetRuns(n) \/ ClearRuns(n))
    BY <1>1 DEF Next, Run, vars, Load, Loaded, Settle, Completes, FinishSuccess, TerminalFailure,
         FinishError, FinishSilently, Drop, Enter, Success, Failure, Expire
  <2>3. n = m
    BY <1>1, <2>2
  <2>4. QED
    BY <1>1, <2>1, <2>2, <2>3 DEF GetRuns, SetRuns, ClearRuns
<1>2. Inv /\ [Next]_vars =>
        [\A m \in net, f \in Requests :
            /\ m.cmd = "clear" /\ net' = net \ {m}
            /\ marker = f /\ marker' # f
            => f \in before[m.req]]_vars
  BY <1>1
<1>3. QED
  BY <1>2, MarkerInvariant, PTL DEF Spec, DeletesOnlyOlder

(* The marker of a request is set once by the request and once more at most *)
(* by its detached task, and only of a request that was dropped.            *)
THEOREM FailureRecordedOncePerOwner == Spec => RecordedOncePerOwner
<1>1. ASSUME Inv, [Next]_vars, NEW f \in Requests, marker' = f, marker # f
      PROVE  \E s \in Senders :
                /\ <<f, s>> \in recorded' \ recorded
                /\ s = "detached" => f \in detached
  <2>1. PICK m \in net : SetRuns(m)
    BY <1>1 DEF Next, Run, vars, Load, Loaded, Settle, Completes, FinishSuccess, TerminalFailure,
         FinishError, FinishSilently, Drop, Enter, Expire, GetRuns, ClearRuns
  <2>2. /\ m.cmd = "set" /\ m.req = f /\ m.by \in Senders
        /\ recorded' = recorded \cup {<<f, m.by>>}
    BY <1>1, <2>1 DEF SetRuns, Inv, TypeOK, Commands
  <2>3. <<f, m.by>> \notin recorded
    BY <1>1, <2>1, <2>2 DEF Inv, RecordedMarker
  <2>4. m.by = "detached" => f \in detached
    BY <1>1, <2>1, <2>2 DEF Inv, DetachedOnce, NotSentBy
  <2>5. QED
    BY <2>2, <2>3, <2>4
<1>2. Inv /\ [Next]_vars =>
        [\A f \in Requests : marker' = f /\ marker # f =>
            \E s \in Senders :
               /\ <<f, s>> \in recorded' \ recorded
               /\ s = "detached" => f \in detached]_vars
  BY <1>1
<1>3. QED
  BY <1>2, MarkerInvariant, PTL DEF Spec, RecordedOncePerOwner
=============================================================================
