---------------------------- MODULE WorkerLease ----------------------------
(***************************************************************************)
(* The leader lease of one scheduled worker.  Each process supervises the  *)
(* worker: it tries to acquire the lease, runs one cycle of the task while *)
(* it renews the lease, releases it and sleeps.  When the lease cannot be  *)
(* renewed the cycle is cancelled, and runs without a lease until it       *)
(* notices.  Two processes overlap while one replaces the other.           *)
(*                                                                         *)
(* Time is counted down: a lease holds the time it has left, a timer the   *)
(* time until it fires, and a timer that is due fires before time goes on. *)
(* A script sent by a caller that no longer waits may run at any later     *)
(* time.  A process may crash and start again.                             *)
(***************************************************************************)
EXTENDS Naturals, FiniteSets

CONSTANTS
    Procs,      \* processes
    Ids,        \* lease ids (fresh UUIDs; an id is reused when forgotten)
    NoId,       \* no lease
    TTL,        \* leader_lease_ttl
    Renewal,    \* leader_lease_renewal_interval, also the limit of a renewal
    Response,   \* how long the Redis client waits for the answer to ACQUIRE
    MaxFaults   \* bound on calls that fail and on crashes

(* What WorkerSchedule::try_new demands is Renewal < TTL; the schedules of  *)
(* the repository (30/10, 900/300 and 600/60 seconds) keep three intervals  *)
(* within the TTL.                                                          *)
ASSUME ScheduleAssumption ==
    /\ TTL \in Nat /\ Renewal \in Nat \ {0} /\ Response \in Nat
    /\ 3 * Renewal <= TTL
    /\ Response + 2 * Renewal <= TTL
    /\ MaxFaults \in Nat
    /\ NoId \notin Ids

VARIABLES
    lease,     \* Redis: time left of the member of each id, 0 when absent
    net,       \* scripts sent and not yet run
    pc,        \* the supervisor of each process
    id,        \* the id it acquires or holds
    reply,     \* the answer on its way
    timer,     \* its timer
    shutdown,  \* its cancellation token
    faults

vars == <<lease, net, pc, id, reply, timer, shutdown, faults>>

States == {"idle", "acquiring", "running", "renewing", "cancelled", "releasing", "stopped"}
Replies == {"none", "yes", "no"}
Commands == [cmd : {"acquire", "renew", "release"}, proc : Procs, id : Ids, live : BOOLEAN]
Timers == 0 .. TTL

Command(c, p, i) == [cmd |-> c, proc |-> p, id |-> i, live |-> TRUE]
Abandoned(p) == {[m EXCEPT !.live = m.live /\ m.proc # p] : m \in net}
(* No member, no script under way and no guard has the id. *)
Fresh(i) ==
    /\ lease[i] = 0
    /\ \A m \in net : m.id # i
    /\ \A p \in Procs : id[p] # i

Init ==
    /\ lease = [i \in Ids |-> 0] /\ net = {}
    /\ pc = [p \in Procs |-> "idle"]
    /\ id = [p \in Procs |-> NoId]
    /\ reply = [p \in Procs |-> "none"]
    /\ timer = [p \in Procs |-> 0]
    /\ shutdown = [p \in Procs |-> FALSE]
    /\ faults = 0

-----------------------------------------------------------------------------
(* The scripts.                                                             *)

Answer(m, result) == reply' = IF m.live THEN [reply EXCEPT ![m.proc] = result] ELSE reply

(* MUTANT: one member is not enough to refuse *)
AcquireSecond(m) ==
    LET free == Cardinality({i \in Ids : lease[i] > 0}) <= 1 IN
    /\ m.cmd = "acquire"
    /\ net' = net \ {m}
    /\ lease' = IF free THEN [lease EXCEPT ![m.id] = TTL] ELSE lease
    /\ Answer(m, IF free THEN "yes" ELSE "no")
    /\ UNCHANGED <<pc, id, timer, shutdown, faults>>

AcquireRuns(m) ==
    LET free == \A i \in Ids : lease[i] = 0 IN
    /\ m.cmd = "acquire"
    /\ net' = net \ {m}
    /\ lease' = IF free THEN [lease EXCEPT ![m.id] = TTL] ELSE lease
    /\ Answer(m, IF free THEN "yes" ELSE "no")
    /\ UNCHANGED <<pc, id, timer, shutdown, faults>>

RenewRuns(m) ==
    /\ m.cmd = "renew"
    /\ net' = net \ {m}
    /\ lease' = [lease EXCEPT ![m.id] = IF @ = 0 THEN 0 ELSE TTL]
    /\ Answer(m, IF lease[m.id] = 0 THEN "no" ELSE "yes")
    /\ UNCHANGED <<pc, id, timer, shutdown, faults>>

(* MUTANT: the lease is released by whoever had it before *)
ReleasesAny(m) ==
    /\ m.cmd = "release"
    /\ net' = net \ {m}
    /\ lease' = [i \in Ids |-> 0]
    /\ Answer(m, "yes")
    /\ UNCHANGED <<pc, id, timer, shutdown, faults>>

ReleaseRuns(m) ==
    /\ m.cmd = "release"
    /\ net' = net \ {m}
    /\ lease' = [lease EXCEPT ![m.id] = 0]
    /\ Answer(m, "yes")
    /\ UNCHANGED <<pc, id, timer, shutdown, faults>>

-----------------------------------------------------------------------------
(* The supervisor.                                                          *)

Goto(p, state) == pc' = [pc EXCEPT ![p] = state]
SetTimer(p, t) == timer' = [timer EXCEPT ![p] = t]
TakeReply(p) == reply' = [reply EXCEPT ![p] = "none"]

(* Calls that fail or are not answered in time, and crashes, are bounded:   *)
(* once they are used up an answer comes before its timer.                  *)
Fault == faults < MaxFaults /\ faults' = faults + 1

TryAcquire(p) ==
    /\ pc[p] = "idle" /\ ~shutdown[p]
    /\ \E i \in Ids : Fresh(i)
    /\ LET new == CHOOSE i \in Ids : Fresh(i) IN
          /\ id' = [id EXCEPT ![p] = new]
          /\ net' = net \cup {Command("acquire", p, new)}
    /\ Goto(p, "acquiring") /\ SetTimer(p, Response)
    /\ UNCHANGED <<lease, reply, shutdown, faults>>

(* The lease is busy: sleep. *)
Busy(p) ==
    /\ pc[p] = "acquiring" /\ reply[p] = "no"
    /\ Goto(p, "idle") /\ TakeReply(p) /\ SetTimer(p, 0)
    /\ id' = [id EXCEPT ![p] = NoId]
    /\ UNCHANGED <<lease, net, shutdown, faults>>

(* run_leased_cycle: the task's cycle begins. *)
BeginCycle(p) ==
    /\ pc[p] = "acquiring" /\ reply[p] = "yes"
    /\ Goto(p, "running") /\ TakeReply(p) /\ SetTimer(p, Renewal)
    /\ UNCHANGED <<lease, net, id, shutdown, faults>>

(* An error, or no answer in time; ACQUIRE may have run, or may yet. *)
AcquireFails(p) ==
    /\ pc[p] = "acquiring"
    /\ Fault
    /\ Goto(p, "idle") /\ TakeReply(p) /\ SetTimer(p, 0)
    /\ net' = Abandoned(p)
    /\ id' = [id EXCEPT ![p] = NoId]
    /\ UNCHANGED <<lease, shutdown>>

(* The cycle is not polled while the renewal is under way. *)
RenewCall(p) ==
    /\ pc[p] = "running" /\ timer[p] = 0
    /\ Goto(p, "renewing") /\ SetTimer(p, Renewal)
    /\ net' = net \cup {Command("renew", p, id[p])}
    /\ UNCHANGED <<lease, id, reply, shutdown, faults>>

Renewed(p) ==
    /\ pc[p] = "renewing" /\ reply[p] = "yes"
    /\ Goto(p, "running") /\ TakeReply(p) /\ SetTimer(p, Renewal)
    /\ UNCHANGED <<lease, net, id, shutdown, faults>>

(* Lost, an error, or no answer within the interval: cycle_cancel. *)
RenewFails(p) ==
    /\ pc[p] = "renewing"
    /\ \/ reply[p] = "no" /\ UNCHANGED faults
       \/ Fault
    /\ Goto(p, "cancelled") /\ TakeReply(p) /\ SetTimer(p, 0)
    /\ net' = Abandoned(p)
    /\ UNCHANGED <<lease, id, shutdown>>

(* The process is told to stop: it cancels the cycle and waits for it. *)
SeeShutdown(p) ==
    /\ pc[p] = "running" /\ shutdown[p]
    /\ Goto(p, "cancelled") /\ SetTimer(p, 0)
    /\ UNCHANGED <<lease, net, id, reply, shutdown, faults>>

(* The cycle ends, by itself or because it was cancelled: release_guard. *)
EndCycle(p) ==
    /\ pc[p] \in {"running", "cancelled"}
    /\ Goto(p, "releasing") /\ SetTimer(p, Renewal)
    /\ net' = net \cup {Command("release", p, id[p])}
    /\ UNCHANGED <<lease, id, reply, shutdown, faults>>

(* MUTANT: a supervisor told to stop tries the lease again after its cycle *)
StopsOnlyAsking(p) ==
    /\ shutdown[p] /\ pc[p] = "acquiring"
    /\ Goto(p, "stopped") /\ TakeReply(p) /\ SetTimer(p, 0)
    /\ net' = Abandoned(p)
    /\ id' = [id EXCEPT ![p] = NoId]
    /\ UNCHANGED <<lease, shutdown, faults>>

(* Released, failed or out of time. *)
Released(p) ==
    /\ pc[p] = "releasing"
    /\ \/ reply[p] = "yes" /\ UNCHANGED faults
       \/ Fault
    /\ Goto(p, "idle") /\ TakeReply(p) /\ SetTimer(p, 0)
    /\ net' = Abandoned(p)
    /\ id' = [id EXCEPT ![p] = NoId]
    /\ UNCHANGED <<lease, shutdown>>

(* supervise_scheduled ends between cycles, or while it asks for the lease. *)
Stop(p) ==
    /\ shutdown[p] /\ pc[p] \in {"idle", "acquiring"}
    /\ Goto(p, "stopped") /\ TakeReply(p) /\ SetTimer(p, 0)
    /\ net' = Abandoned(p)
    /\ id' = [id EXCEPT ![p] = NoId]
    /\ UNCHANGED <<lease, shutdown, faults>>

ShutDown(p) ==
    /\ ~shutdown[p]
    /\ shutdown' = [shutdown EXCEPT ![p] = TRUE]
    /\ UNCHANGED <<lease, net, pc, id, reply, timer, faults>>

(* The process dies and is started again. *)
Crash(p) ==
    /\ Fault /\ pc[p] # "idle"
    /\ Goto(p, "idle") /\ TakeReply(p) /\ SetTimer(p, 0)
    /\ shutdown' = [shutdown EXCEPT ![p] = FALSE]
    /\ net' = Abandoned(p)
    /\ id' = [id EXCEPT ![p] = NoId]
    /\ UNCHANGED lease

(* A timer is due, or a cancellation is there to be seen. *)
Due(p) ==
    \/ timer[p] = 0 /\ pc[p] \in {"acquiring", "running", "renewing", "releasing"}
    \/ shutdown[p] /\ pc[p] \in {"idle", "acquiring", "running"}
Down(t) == IF t = 0 THEN 0 ELSE t - 1

(* MUTANT: the members of the lease do not expire *)
TickKeepsLease ==
    /\ \A p \in Procs : ~Due(p)
    /\ \E p \in Procs : timer[p] > 0
    /\ timer' = [p \in Procs |-> Down(timer[p])]
    /\ UNCHANGED <<lease, net, pc, id, reply, shutdown, faults>>

Tick ==
    /\ \A p \in Procs : ~Due(p)
    /\ (\E i \in Ids : lease[i] > 0) \/ (\E p \in Procs : timer[p] > 0)
    /\ lease' = [i \in Ids |-> Down(lease[i])]
    /\ timer' = [p \in Procs |-> Down(timer[p])]
    /\ UNCHANGED <<net, pc, id, reply, shutdown, faults>>

Supervise(p) ==
    \/ TryAcquire(p) \/ Busy(p) \/ BeginCycle(p) \/ AcquireFails(p)
    \/ RenewCall(p) \/ Renewed(p) \/ RenewFails(p) \/ SeeShutdown(p)
    \/ Released(p) \/ Stop(p)

Script(m) == AcquireRuns(m) \/ RenewRuns(m) \/ ReleaseRuns(m)

Next ==
    \/ \E p \in Procs : Supervise(p) \/ EndCycle(p) \/ ShutDown(p) \/ Crash(p)
    \/ \E m \in net : Script(m)
    \/ Tick

Spec == Init /\ [][Next]_vars

(* Tasks that can run do, time goes on, Redis answers who waits, and a      *)
(* cycle that has been cancelled comes to an end.                           *)
Fairness ==
    /\ \A p \in Procs :
          /\ WF_vars(Supervise(p))
          /\ WF_vars(pc[p] = "cancelled" /\ EndCycle(p))
          /\ WF_vars(\E m \in net : m.proc = p /\ m.live /\ Script(m))
    /\ WF_vars(Tick)
FairSpec == Spec /\ Fairness

-----------------------------------------------------------------------------
(* Each variable keeps to its domain. *)
TypeOK ==
    /\ lease \in [Ids -> Timers] /\ net \subseteq Commands
    /\ pc \in [Procs -> States] /\ id \in [Procs -> Ids \cup {NoId}]
    /\ reply \in [Procs -> Replies] /\ timer \in [Procs -> Timers]
    /\ shutdown \in [Procs -> BOOLEAN] /\ faults \in 0 .. MaxFaults

(* Redis never has two members: neither a late script of an earlier guard   *)
(* nor a renewal of an expired one makes a second.                          *)
OneMember ==
    \A i, j \in Ids : lease[i] > 0 /\ lease[j] > 0 => i = j

(* A cycle that has not been cancelled runs on a lease that outlasts its    *)
(* timers: renewal and the limit of a renewal included (workers/mod.rs:541).*)
LeaseCoversCycle ==
    \A p \in Procs :
        /\ pc[p] = "running" => lease[id[p]] >= timer[p] + Renewal
        /\ pc[p] = "renewing" => lease[id[p]] >= timer[p]

(* Two processes never run a cycle at the same time, but for one that has   *)
(* been cancelled.                                                          *)
OneCycle ==
    \A p, q \in Procs : pc[p] = "running" /\ pc[q] = "running" => p = q

(* A process that is told to stop stops supervising, whatever Redis does,   *)
(* unless it is started again.                                              *)
ShutdownStops ==
    \A p \in Procs : shutdown[p] ~> pc[p] = "stopped" \/ ~shutdown[p]

(* Cycles go on: no lost answer, crash or late script keeps the lease from  *)
(* everyone for good.                                                       *)
CyclesGoOn ==
    []<>(\/ \E p \in Procs : pc[p] = "running"
         \/ \A p \in Procs : shutdown[p])
=============================================================================
