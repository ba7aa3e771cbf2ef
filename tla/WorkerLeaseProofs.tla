-------------------------- MODULE WorkerLeaseProofs --------------------------
(***************************************************************************)
(* The leader lease covers the cycle, for any number of processes and any  *)
(* schedule that keeps three renewal intervals within the TTL.             *)
(***************************************************************************)
EXTENDS WorkerLease, TLAPS

LEMMA Schedule ==
    /\ TTL \in Nat /\ Renewal \in Nat /\ Renewal > 0 /\ Response \in Nat /\ MaxFaults \in Nat
    /\ 3 * Renewal <= TTL /\ Response + 2 * Renewal <= TTL /\ Renewal <= TTL /\ Response <= TTL
    /\ Timers = 0 .. TTL /\ 0 \in Timers /\ TTL \in Timers
    /\ Renewal \in Timers /\ Response \in Timers
  BY ScheduleAssumption DEF Timers

LEMMA Commanded ==
    ASSUME NEW p \in Procs, NEW i \in Ids, NEW c \in {"acquire", "renew", "release"}
    PROVE  /\ Command(c, p, i) \in Commands
           /\ Command(c, p, i).cmd = c /\ Command(c, p, i).proc = p
           /\ Command(c, p, i).id = i /\ Command(c, p, i).live
  BY DEF Command, Commands

(* An abandoned command differs only in that nobody waits for it. *)
LEMMA AbandonedCommands ==
    ASSUME net \subseteq Commands, NEW p \in Procs, NEW m \in Abandoned(p)
    PROVE  /\ m \in Commands
           /\ m.live => m \in net /\ m.proc # p
           /\ \E n \in net : n.cmd = m.cmd /\ n.id = m.id
<1>1. PICK n \in net : m = [n EXCEPT !.live = n.live /\ n.proc # p]
  BY DEF Abandoned
<1>2. n \in Commands
  OBVIOUS
<1>3. /\ m \in Commands /\ m.cmd = n.cmd /\ m.id = n.id /\ m.proc = n.proc
      /\ m.live = (n.live /\ n.proc # p)
  BY <1>1, <1>2 DEF Commands
<1>4. m.live => m = n
  BY <1>1, <1>2, <1>3 DEF Commands
<1>5. QED
  BY <1>3, <1>4

-----------------------------------------------------------------------------
LEMMA InitType == Init => TypeOK
  BY Schedule DEF Init, TypeOK, States, Replies

LEMMA ScriptType ==
    ASSUME TypeOK, NEW m \in net, Script(m)
    PROVE  TypeOK'
<1>1. m \in Commands /\ m.proc \in Procs /\ m.id \in Ids /\ m.cmd \in {"acquire", "renew", "release"}
  BY DEF TypeOK, Commands
<1>2. lease' \in [Ids -> Timers] /\ net' \subseteq Commands
  BY <1>1, Schedule DEF Script, AcquireRuns, RenewRuns, ReleaseRuns, TypeOK
<1>3. reply' \in [Procs -> Replies]
  BY <1>1 DEF Script, AcquireRuns, RenewRuns, ReleaseRuns, Answer, TypeOK, Replies
<1>4. QED
  BY <1>2, <1>3 DEF Script, AcquireRuns, RenewRuns, ReleaseRuns, TypeOK

(* The id of a new lease belongs to nobody. *)
LEMMA FreshId ==
    ASSUME NEW p \in Procs, TryAcquire(p)
    PROVE  \E i \in Ids :
             /\ Fresh(i) /\ id' = [id EXCEPT ![p] = i]
             /\ net' = net \cup {Command("acquire", p, i)}
<1> DEFINE new == CHOOSE i \in Ids : Fresh(i)
<1>1. new \in Ids /\ Fresh(new)
  BY DEF TryAcquire
<1>2. QED
  BY <1>1 DEF TryAcquire

(* A supervisor has an id exactly while it asks for a lease or has one. *)
Holds(p) == pc[p] \notin {"idle", "stopped"}
Owned == \A p \in Procs : id[p] = NoId <=> ~Holds(p)

LEMMA SuperviseType ==
    ASSUME TypeOK, Owned, NEW p \in Procs, Supervise(p) \/ EndCycle(p) \/ ShutDown(p) \/ Crash(p)
    PROVE  TypeOK'
<1> USE Schedule DEF States, Replies
<1>1. Holds(p) => id[p] \in Ids
  BY DEF Owned, TypeOK
<1>2. net' \subseteq Commands
  <2>1. CASE TryAcquire(p)
    BY <2>1, FreshId, Commanded DEF TypeOK
  <2>2. CASE RenewCall(p) \/ EndCycle(p)
    BY <1>1, <2>2, Commanded DEF RenewCall, EndCycle, Holds, TypeOK
  <2>3. CASE net' = net \/ net' = Abandoned(p)
    BY <2>3, AbandonedCommands DEF TypeOK
  <2>4. QED
    BY <2>1, <2>2, <2>3 DEF Supervise, Busy, BeginCycle, AcquireFails, Renewed, RenewFails,
          SeeShutdown, Released, Stop, ShutDown, Crash
<1>3. id' \in [Procs -> Ids \cup {NoId}]
  <2>1. CASE TryAcquire(p)
    BY <2>1, FreshId DEF TypeOK
  <2>2. CASE ~TryAcquire(p)
    BY <2>2 DEF Supervise, Busy, BeginCycle, AcquireFails, RenewCall, Renewed, RenewFails,
          SeeShutdown, Released, Stop, EndCycle, ShutDown, Crash, TypeOK
  <2>3. QED
    BY <2>1, <2>2
<1>4. pc' \in [Procs -> States]
  <2>1. pc' = pc \/ \E s \in States : Goto(p, s)
    BY DEF Supervise, TryAcquire, Busy, BeginCycle, AcquireFails, RenewCall, Renewed, RenewFails,
           SeeShutdown, Released, Stop, EndCycle, ShutDown, Crash
  <2>2. QED
    BY <2>1 DEF Goto, TypeOK
<1>5. timer' \in [Procs -> Timers] /\ reply' \in [Procs -> Replies]
  <2>1. timer' = timer \/ \E t \in Timers : SetTimer(p, t)
    BY DEF Supervise, TryAcquire, Busy, BeginCycle, AcquireFails, RenewCall, Renewed, RenewFails,
           SeeShutdown, Released, Stop, EndCycle, ShutDown, Crash
  <2>2. reply' = reply \/ TakeReply(p)
    BY DEF Supervise, TryAcquire, Busy, BeginCycle, AcquireFails, RenewCall, Renewed, RenewFails,
           SeeShutdown, Released, Stop, EndCycle, ShutDown, Crash
  <2>3. timer' \in [Procs -> Timers]
    BY <2>1 DEF SetTimer, TypeOK
  <2>4. "none" \in Replies
    BY DEF Replies
  <2>5. reply' \in [Procs -> Replies]
    BY <2>2, <2>4 DEF TakeReply, TypeOK
  <2>6. QED
    BY <2>3, <2>5
<1>6. lease' = lease /\ (faults' = faults \/ Fault)
  BY DEF Supervise, TryAcquire, Busy, BeginCycle, AcquireFails, RenewCall, Renewed, RenewFails,
           SeeShutdown, Released, Stop, EndCycle, ShutDown, Crash
<1>7. shutdown' = shutdown \/ \E b \in BOOLEAN : shutdown' = [shutdown EXCEPT ![p] = b]
  BY DEF Supervise, TryAcquire, Busy, BeginCycle, AcquireFails, RenewCall, Renewed, RenewFails,
           SeeShutdown, Released, Stop, EndCycle, ShutDown, Crash
<1>8. shutdown' \in [Procs -> BOOLEAN]
  BY <1>7 DEF TypeOK
<1>9. faults' \in 0 .. MaxFaults
  BY <1>6 DEF Fault, TypeOK
<1>10. QED
  BY <1>2, <1>3, <1>4, <1>5, <1>6, <1>8, <1>9 DEF TypeOK

LEMMA TickType ==
    ASSUME TypeOK, Tick
    PROVE  TypeOK'
  BY Schedule DEF Tick, Down, TypeOK

LEMMA TypeStep == TypeOK /\ Owned /\ [Next]_vars => TypeOK'
<1> SUFFICES ASSUME TypeOK, Owned, [Next]_vars PROVE TypeOK'
  OBVIOUS
<1>1. CASE UNCHANGED vars
  BY <1>1 DEF vars, TypeOK
<1>2. QED
  BY <1>1, ScriptType, SuperviseType, TickType DEF Next

LEMMA OwnedStep == TypeOK /\ Owned /\ [Next]_vars => Owned'
<1> SUFFICES ASSUME TypeOK, Owned, [Next]_vars PROVE Owned'
  OBVIOUS
<1> USE ScheduleAssumption DEF Holds, Owned
<1>1. CASE UNCHANGED <<pc, id>>
  BY <1>1
<1>2. ASSUME NEW p \in Procs, Supervise(p) \/ EndCycle(p) \/ ShutDown(p) \/ Crash(p)
      PROVE Owned'
  <2>1. CASE TryAcquire(p)
    BY <2>1, FreshId DEF TryAcquire, Goto, TypeOK
  <2>2. CASE BeginCycle(p) \/ RenewCall(p) \/ Renewed(p) \/ RenewFails(p) \/ SeeShutdown(p)
             \/ EndCycle(p)
    BY <2>2 DEF BeginCycle, RenewCall, Renewed, RenewFails, SeeShutdown, EndCycle, Goto, TypeOK
  <2>3. CASE Busy(p) \/ AcquireFails(p) \/ Released(p) \/ Stop(p) \/ Crash(p)
    BY <2>3 DEF Busy, AcquireFails, Released, Stop, Crash, Goto, TypeOK
  <2>4. CASE ShutDown(p)
    BY <1>1, <2>4 DEF ShutDown
  <2>5. QED
    BY <1>2, <2>1, <2>2, <2>3, <2>4 DEF Supervise
<1>3. ASSUME NEW m \in net, Script(m) PROVE Owned'
  BY <1>1, <1>3 DEF Script, AcquireRuns, RenewRuns, ReleaseRuns
<1>4. QED
  BY <1>1, <1>2, <1>3 DEF Next, Tick, vars

-----------------------------------------------------------------------------
(* Redis has one member at most.                                            *)

LEMMA MemberStep == TypeOK /\ OneMember /\ [Next]_vars => OneMember'
<1> SUFFICES ASSUME TypeOK, OneMember, [Next]_vars PROVE OneMember'
  OBVIOUS
<1> USE Schedule DEF OneMember
<1>1. CASE UNCHANGED lease
  BY <1>1
<1>2. ASSUME NEW m \in net, Script(m) PROVE OneMember'
  BY <1>2 DEF Script, AcquireRuns, RenewRuns, ReleaseRuns, TypeOK
<1>3. CASE Tick
  BY <1>3 DEF Tick, Down, TypeOK
<1>4. ASSUME NEW p \in Procs, Supervise(p) \/ EndCycle(p) \/ ShutDown(p) \/ Crash(p)
      PROVE OneMember'
  BY <1>1, <1>4 DEF Supervise, TryAcquire, Busy, BeginCycle, AcquireFails, RenewCall, Renewed,
           RenewFails, SeeShutdown, Released, Stop, EndCycle, ShutDown, Crash
<1>5. QED
  BY <1>1, <1>2, <1>3, <1>4 DEF Next, vars

-----------------------------------------------------------------------------
(* Whom a script answers, and whose lease it can take away.                 *)

Unique == \A p, q \in Procs : id[p] = id[q] /\ id[p] # NoId => p = q

Waiting(m) ==
    /\ id[m.proc] = m.id /\ reply[m.proc] = "none"
    /\ \/ m.cmd = "acquire" /\ pc[m.proc] = "acquiring"
       \/ m.cmd = "renew" /\ pc[m.proc] = "renewing"
       \/ m.cmd = "release" /\ pc[m.proc] = "releasing"

Posted ==
    \A m \in net :
        /\ m.live => Waiting(m)
        /\ m.cmd = "release" => \A p \in Procs : id[p] = m.id => pc[p] = "releasing"

(* An answer is kept only for a call that is under way. *)
Quiet ==
    \A p \in Procs : pc[p] \in {"idle", "running", "cancelled", "stopped"} => reply[p] = "none"

(* A step of one supervisor leaves the others alone. *)
Alone(p) ==
    /\ \A q \in Procs : q # p => /\ pc'[q] = pc[q] /\ id'[q] = id[q]
                                 /\ reply'[q] = reply[q] /\ timer'[q] = timer[q]
    /\ lease' = lease

LEMMA StepsAlone ==
    ASSUME TypeOK, NEW p \in Procs, Supervise(p) \/ EndCycle(p) \/ ShutDown(p) \/ Crash(p)
    PROVE  Alone(p)
<1>1. (pc' = pc \/ \E s : Goto(p, s)) /\ (reply' = reply \/ TakeReply(p)) /\ lease' = lease
  BY DEF Supervise, TryAcquire, Busy, BeginCycle, AcquireFails, RenewCall, Renewed, RenewFails,
         SeeShutdown, Released, Stop, EndCycle, ShutDown, Crash
<1>2. timer' = timer \/ \E t : SetTimer(p, t)
  BY DEF Supervise, TryAcquire, Busy, BeginCycle, AcquireFails, RenewCall, Renewed, RenewFails,
         SeeShutdown, Released, Stop, EndCycle, ShutDown, Crash
<1>3. id' = id \/ \E i : id' = [id EXCEPT ![p] = i]
  <2>1. CASE TryAcquire(p)
    BY <2>1, FreshId
  <2>2. QED
    BY <2>1 DEF Supervise, Busy, BeginCycle, AcquireFails, RenewCall, Renewed, RenewFails,
         SeeShutdown, Released, Stop, EndCycle, ShutDown, Crash
<1>4. QED
  BY <1>1, <1>2, <1>3 DEF Alone, Goto, SetTimer, TakeReply, TypeOK

LEMMA UniqueStep == TypeOK /\ Unique /\ [Next]_vars => Unique'
<1> SUFFICES ASSUME TypeOK, Unique, [Next]_vars PROVE Unique'
  OBVIOUS
<1> USE DEF Unique
<1>1. CASE UNCHANGED id
  BY <1>1
<1>2. ASSUME NEW p \in Procs, Supervise(p) \/ EndCycle(p) \/ ShutDown(p) \/ Crash(p)
      PROVE Unique'
  <2>1. CASE TryAcquire(p)
    BY <2>1, FreshId DEF Fresh, TypeOK
  <2>2. CASE id' = [id EXCEPT ![p] = NoId]
    BY <2>2 DEF TypeOK
  <2>3. QED
    BY <1>1, <1>2, <2>1, <2>2
       DEF Supervise, Busy, BeginCycle, AcquireFails, RenewCall, Renewed, RenewFails,
           SeeShutdown, Released, Stop, EndCycle, ShutDown, Crash
<1>3. ASSUME NEW m \in net, Script(m) PROVE Unique'
  BY <1>1, <1>3 DEF Script, AcquireRuns, RenewRuns, ReleaseRuns
<1>4. QED
  BY <1>1, <1>2, <1>3 DEF Next, Tick, vars

LEMMA QuietStep == TypeOK /\ Posted /\ Quiet /\ [Next]_vars => Quiet'
<1> SUFFICES ASSUME TypeOK, Posted, Quiet, [Next]_vars PROVE Quiet'
  OBVIOUS
<1> USE DEF Quiet
<1>1. CASE UNCHANGED <<pc, reply>>
  BY <1>1
<1>2. ASSUME NEW p \in Procs, Supervise(p) \/ EndCycle(p) \/ ShutDown(p) \/ Crash(p)
      PROVE Quiet'
  <2>1. CASE TakeReply(p)
    BY <1>2, <2>1, StepsAlone DEF Alone, TakeReply, TypeOK
  <2>2. CASE TryAcquire(p) \/ RenewCall(p) \/ EndCycle(p) \/ SeeShutdown(p)
    BY <2>2 DEF TryAcquire, RenewCall, EndCycle, SeeShutdown, Goto, TypeOK
  <2>3. CASE ShutDown(p)
    BY <1>1, <2>3 DEF ShutDown
  <2>4. QED
    BY <1>2, <2>1, <2>2, <2>3 DEF Supervise, Busy, BeginCycle, AcquireFails, Renewed, RenewFails,
           Released, Stop, Crash
<1>3. ASSUME NEW m \in net, Script(m) PROVE Quiet'
  <2>1. m.live => pc[m.proc] \in {"acquiring", "renewing", "releasing"}
    BY DEF Posted, Waiting
  <2>2. QED
    BY <1>3, <2>1 DEF Script, AcquireRuns, RenewRuns, ReleaseRuns, Answer, TypeOK
<1>4. QED
  BY <1>1, <1>2, <1>3 DEF Next, Tick, vars

(* A supervisor gives up its calls, or has none. *)
LEMMA PostedLeaves ==
    ASSUME TypeOK, Posted, NEW p \in Procs, Alone(p),
           \/ net' = Abandoned(p)
           \/ net' = net /\ \A m \in net : m.live => m.proc # p,
           id'[p] = NoId \/ (id'[p] = id[p] /\ pc[p] # "releasing")
    PROVE  Posted'
<1> SUFFICES ASSUME NEW m \in net'
             PROVE  /\ m.live => Waiting(m)'
                    /\ m.cmd = "release" => \A q \in Procs : id'[q] = m.id => pc'[q] = "releasing"
  BY DEF Posted
<1>1. /\ m \in Commands /\ (m.live => m \in net /\ m.proc # p)
      /\ \E n \in net : n.cmd = m.cmd /\ n.id = m.id
  BY AbandonedCommands DEF TypeOK
<1>2. m.proc \in Procs /\ m.id \in Ids /\ m.id # NoId
  BY <1>1, ScheduleAssumption DEF Commands
<1>3. m.live => Waiting(m)'
  BY <1>1, <1>2 DEF Posted, Waiting, Alone
<1>4. ASSUME m.cmd = "release", NEW q \in Procs, id'[q] = m.id PROVE pc'[q] = "releasing"
  BY <1>1, <1>2, <1>4 DEF Posted, Alone
<1>5. QED
  BY <1>3, <1>4

(* A supervisor without a call makes one. *)
LEMMA PostedCalls ==
    ASSUME TypeOK, Posted, Quiet, Unique, Owned, NEW p \in Procs,
           TryAcquire(p) \/ RenewCall(p) \/ EndCycle(p)
    PROVE  Posted'
<1>0. Alone(p) /\ pc[p] \in {"idle", "running", "cancelled"} /\ reply[p] = "none"
  BY StepsAlone DEF Supervise, TryAcquire, RenewCall, EndCycle, Quiet
<1>1. PICK i \in Ids, c \in {"acquire", "renew", "release"} :
        /\ net' = net \cup {Command(c, p, i)} /\ id'[p] = i /\ reply'[p] = "none"
        /\ \/ c = "acquire" /\ pc'[p] = "acquiring" /\ Fresh(i)
           \/ c = "renew" /\ pc'[p] = "renewing" /\ id[p] = i
           \/ c = "release" /\ pc'[p] = "releasing" /\ id[p] = i
  <2>1. CASE TryAcquire(p)
    BY <1>0, <2>1, FreshId DEF TryAcquire, Goto, TypeOK
  <2>2. CASE RenewCall(p) \/ EndCycle(p)
    <3>1. id[p] \in Ids
      BY <2>2 DEF RenewCall, EndCycle, Owned, Holds, TypeOK
    <3>2. QED
      BY <1>0, <2>2, <3>1 DEF RenewCall, EndCycle, Goto, TypeOK
  <2>3. QED
    BY <2>1, <2>2
<1>2. ASSUME NEW m \in net'
      PROVE  /\ m.live => Waiting(m)'
             /\ m.cmd = "release" => \A q \in Procs : id'[q] = m.id => pc'[q] = "releasing"
  <2>1. CASE m \in net
    <3>1. m.proc \in Procs /\ m.id \in Ids
      BY <2>1 DEF TypeOK, Commands
    <3>2. m.live => m.proc # p
      BY <1>0, <2>1 DEF Posted, Waiting
    <3>3. m.live => Waiting(m)'
      BY <1>0, <2>1, <3>1, <3>2 DEF Posted, Waiting, Alone
    <3>4. ASSUME m.cmd = "release", NEW q \in Procs, id'[q] = m.id PROVE pc'[q] = "releasing"
      BY <1>0, <1>1, <2>1, <3>4 DEF Posted, Alone, Fresh
    <3>5. QED
      BY <3>3, <3>4
  <2>2. CASE m = Command(c, p, i)
    <3>1. m.cmd = c /\ m.proc = p /\ m.id = i
      BY <2>2, Commanded
    <3>2. m.live => Waiting(m)'
      BY <1>1, <3>1 DEF Waiting
    <3>3. ASSUME m.cmd = "release", NEW q \in Procs, id'[q] = m.id PROVE pc'[q] = "releasing"
      <4>1. q = p
        BY <1>0, <1>1, <3>1, <3>3, ScheduleAssumption DEF Alone, Unique
      <4>2. QED
        BY <1>1, <3>1, <3>3, <4>1
    <3>4. QED
      BY <3>2, <3>3
  <2>3. QED
    BY <1>1, <1>2, <2>1, <2>2
<1>3. QED
  BY <1>2 DEF Posted

LEMMA PostedScript ==
    ASSUME TypeOK, Posted, NEW m \in net, Script(m)
    PROVE  Posted'
<1>1. /\ net' = net \ {m} /\ pc' = pc /\ id' = id
      /\ \E r : Answer(m, r)
  BY DEF Script, AcquireRuns, RenewRuns, ReleaseRuns
<1>2. ASSUME NEW n \in net', n.live PROVE Waiting(n)'
  <2>1. n \in net /\ n # m /\ n \in Commands /\ m \in Commands /\ Waiting(n)
    BY <1>1, <1>2 DEF Posted, TypeOK
  <2>2. m.live => n.proc # m.proc
    <3>1. SUFFICES ASSUME m.live, n.proc = m.proc PROVE FALSE
      OBVIOUS
    <3>2. n.id = m.id /\ n.cmd = m.cmd
      BY <2>1, <3>1 DEF Posted, Waiting
    <3>3. n = m
      BY <1>2, <2>1, <3>1, <3>2 DEF Commands
    <3>4. QED
      BY <2>1, <3>3
  <2>3. reply'[n.proc] = reply[n.proc]
    BY <1>1, <2>1, <2>2 DEF Answer, TypeOK, Commands
  <2>4. QED
    BY <1>1, <2>1, <2>3 DEF Waiting
<1>3. QED
  BY <1>1, <1>2 DEF Posted

LEMMA PostedStep ==
    TypeOK /\ Owned /\ Unique /\ Quiet /\ Posted /\ [Next]_vars => Posted'
<1> SUFFICES ASSUME TypeOK, Owned, Unique, Quiet, Posted, [Next]_vars PROVE Posted'
  OBVIOUS
<1>1. CASE UNCHANGED <<net, pc, id, reply>>
  BY <1>1 DEF Posted, Waiting
<1>2. ASSUME NEW p \in Procs, Supervise(p) \/ EndCycle(p) \/ ShutDown(p) \/ Crash(p)
      PROVE Posted'
  <2>1. CASE TryAcquire(p) \/ RenewCall(p) \/ EndCycle(p)
    BY <2>1, PostedCalls
  <2>2. CASE AcquireFails(p) \/ Released(p) \/ Stop(p) \/ Crash(p)
    <3>1. net' = Abandoned(p) /\ id'[p] = NoId
      BY <2>2 DEF AcquireFails, Released, Stop, Crash, TypeOK
    <3>2. QED
      BY <1>2, <3>1, StepsAlone, PostedLeaves
  <2>3. CASE RenewFails(p)
    BY <1>2, <2>3, StepsAlone, PostedLeaves DEF RenewFails
  <2>4. CASE Busy(p) \/ BeginCycle(p) \/ Renewed(p) \/ SeeShutdown(p)
    <3>1. net' = net /\ \A m \in net : m.live => m.proc # p
      BY <2>4 DEF Busy, BeginCycle, Renewed, SeeShutdown, Posted, Waiting
    <3>2. id'[p] = NoId \/ (id'[p] = id[p] /\ pc[p] # "releasing")
      BY <2>4 DEF Busy, BeginCycle, Renewed, SeeShutdown, TypeOK
    <3>3. QED
      BY <1>2, <3>1, <3>2, StepsAlone, PostedLeaves
  <2>5. CASE ShutDown(p)
    BY <1>1, <2>5 DEF ShutDown
  <2>6. QED
    BY <1>2, <2>1, <2>2, <2>3, <2>4, <2>5 DEF Supervise
<1>3. QED
  BY <1>1, <1>2, PostedScript DEF Next, Tick, vars

-----------------------------------------------------------------------------
(* What is left of the lease of a supervisor that has not cancelled its     *)
(* cycle: every timer it may still wait for fits in.                        *)

Covered(p) ==
    /\ pc[p] = "acquiring" =>
         /\ timer[p] <= Response
         /\ reply[p] = "yes" => lease[id[p]] >= timer[p] + 2 * Renewal
    /\ pc[p] = "running" => lease[id[p]] >= timer[p] + Renewal
    /\ pc[p] = "renewing" =>
         /\ timer[p] <= Renewal /\ lease[id[p]] >= timer[p]
         /\ reply[p] = "yes" => lease[id[p]] >= timer[p] + 2 * Renewal

LEMMA CoveredTypes ==
    ASSUME TypeOK, Owned, NEW p \in Procs
    PROVE  /\ timer[p] \in Nat /\ (pc[p] \in {"acquiring", "running", "renewing"} => id[p] \in Ids)
           /\ \A i \in Ids : lease[i] \in Nat /\ lease[i] <= TTL
  BY Schedule DEF TypeOK, Owned, Holds, Timers

LEMMA CoveredScript ==
    ASSUME TypeOK, Owned, Posted, NEW m \in net, Script(m), NEW p \in Procs, Covered(p)
    PROVE  Covered(p)'
<1> USE Schedule, CoveredTypes
<1>1. m.id \in Ids /\ m.proc \in Procs /\ pc' = pc /\ id' = id /\ timer' = timer
  BY DEF Script, AcquireRuns, RenewRuns, ReleaseRuns, TypeOK, Commands
<1>0. \A i \in Ids : lease'[i] \in Nat
  BY ScriptType DEF TypeOK
<1>2. CASE AcquireRuns(m)
  <2>1. \A i \in Ids : lease'[i] >= lease[i]
    BY <1>1, <1>2 DEF AcquireRuns, TypeOK
  <2>2. reply'[p] = reply[p] \/ (m.live /\ m.proc = p)
    BY <1>1, <1>2 DEF AcquireRuns, Answer, TypeOK
  <2>3. m.live /\ m.proc = p =>
          pc[p] = "acquiring" /\ id[p] = m.id /\ (reply'[p] = "yes" => lease'[m.id] = TTL)
    BY <1>1, <1>2 DEF AcquireRuns, Answer, Posted, Waiting, TypeOK
  <2>4. CASE pc[p] \in {"acquiring", "running", "renewing"}
    <3>1. lease'[id[p]] \in Nat /\ lease'[id[p]] >= lease[id[p]] /\ id[p] \in Ids
      BY <1>0, <2>1, <2>4
    <3>2. CASE reply'[p] = reply[p]
      BY <1>1, <3>1, <3>2 DEF Covered
    <3>3. CASE m.live /\ m.proc = p
      BY <1>1, <2>3, <3>1, <3>3 DEF Covered
    <3>4. QED
      BY <2>2, <3>2, <3>3
  <2>5. CASE pc[p] \notin {"acquiring", "running", "renewing"}
    BY <1>1, <2>5 DEF Covered
  <2>6. QED
    BY <2>4, <2>5
<1>3. CASE RenewRuns(m)
  <2>1. \A i \in Ids : lease'[i] >= lease[i]
    BY <1>1, <1>3 DEF RenewRuns, TypeOK
  <2>2. reply'[p] = reply[p] \/ (m.live /\ m.proc = p)
    BY <1>1, <1>3 DEF RenewRuns, Answer, TypeOK
  <2>3. m.live /\ m.proc = p =>
          pc[p] = "renewing" /\ id[p] = m.id /\ (reply'[p] = "yes" => lease'[m.id] = TTL)
    BY <1>1, <1>3 DEF RenewRuns, Answer, Posted, Waiting, TypeOK
  <2>4. CASE pc[p] \in {"acquiring", "running", "renewing"}
    <3>1. lease'[id[p]] \in Nat /\ lease'[id[p]] >= lease[id[p]] /\ id[p] \in Ids
      BY <1>0, <2>1, <2>4
    <3>2. CASE reply'[p] = reply[p]
      BY <1>1, <3>1, <3>2 DEF Covered
    <3>3. CASE m.live /\ m.proc = p
      <4>1. /\ pc'[p] = "renewing" /\ timer'[p] <= Renewal /\ lease'[id'[p]] >= timer'[p]
            /\ reply'[p] = "yes" => lease'[id'[p]] = TTL
        BY <1>1, <2>3, <3>1, <3>3 DEF Covered
      <4>2. QED
        BY <1>1, <4>1 DEF Covered
    <3>4. QED
      BY <2>2, <3>2, <3>3
  <2>5. CASE pc[p] \notin {"acquiring", "running", "renewing"}
    BY <1>1, <2>5 DEF Covered
  <2>6. QED
    BY <2>4, <2>5
<1>4. CASE ReleaseRuns(m)
  <2>1. id[p] = m.id => pc[p] = "releasing"
    BY <1>4 DEF ReleaseRuns, Posted
  <2>2. m.live /\ m.proc = p => pc[p] = "releasing"
    BY <1>4 DEF ReleaseRuns, Posted, Waiting
  <2>3. \A i \in Ids : i # m.id => lease'[i] = lease[i]
    BY <1>1, <1>4 DEF ReleaseRuns, TypeOK
  <2>4. reply'[p] = reply[p] \/ (m.live /\ m.proc = p)
    BY <1>1, <1>4 DEF ReleaseRuns, Answer, TypeOK
  <2>5. QED
    BY <1>1, <2>1, <2>2, <2>3, <2>4 DEF Covered
<1>5. QED
  BY <1>2, <1>3, <1>4 DEF Script

LEMMA CoveredSupervise ==
    ASSUME TypeOK, Owned, Quiet, NEW p \in Procs, Covered(p),
           Supervise(p) \/ EndCycle(p) \/ ShutDown(p) \/ Crash(p)
    PROVE  Covered(p)'
<1> USE Schedule, CoveredTypes
<1>1. CASE TryAcquire(p)
  BY <1>1 DEF TryAcquire, Goto, SetTimer, Quiet, Covered, TypeOK
<1>2. CASE BeginCycle(p) \/ Renewed(p)
  BY <1>2 DEF BeginCycle, Renewed, Goto, SetTimer, Covered, TypeOK
<1>3. CASE RenewCall(p)
  BY <1>3 DEF RenewCall, Goto, SetTimer, Quiet, Covered, TypeOK
<1>4. CASE \E s \in {"idle", "stopped", "cancelled", "releasing"} : Goto(p, s)
  BY <1>4 DEF Goto, Covered, TypeOK
<1>5. CASE ShutDown(p)
  BY <1>5 DEF ShutDown, Covered
<1>6. QED
  BY <1>1, <1>2, <1>3, <1>4, <1>5 DEF Supervise, Busy, AcquireFails, RenewFails, SeeShutdown,
        Released, Stop, EndCycle, Crash

LEMMA CoveredStep ==
    ASSUME TypeOK, Owned, Quiet, Posted, \A p \in Procs : Covered(p), [Next]_vars
    PROVE  \A p \in Procs : Covered(p)'
<1> TAKE p \in Procs
<1>1. CASE UNCHANGED vars
  BY <1>1 DEF vars, Covered
<1>2. CASE Tick
  <2>1. /\ lease' = [i \in Ids |-> Down(lease[i])] /\ timer'[p] = Down(timer[p])
        /\ pc' = pc /\ id' = id /\ reply' = reply
        /\ pc[p] \in {"acquiring", "running", "renewing"} => timer[p] > 0
    BY <1>2, CoveredTypes DEF Tick, Due, TypeOK
  <2>2. CASE pc[p] \in {"acquiring", "running", "renewing"}
    <3>1. /\ id[p] \in Ids /\ timer'[p] = timer[p] - 1 /\ timer[p] \in Nat
          /\ lease[id[p]] \in Nat /\ lease'[id[p]] = IF lease[id[p]] = 0 THEN 0 ELSE lease[id[p]] - 1
      BY <2>1, <2>2, CoveredTypes DEF Down
    <3>2. CASE pc[p] = "acquiring"
      BY <2>1, <3>1, <3>2, Schedule DEF Covered
    <3>3. CASE pc[p] = "running"
      BY <2>1, <3>1, <3>3, Schedule DEF Covered
    <3>4. CASE pc[p] = "renewing"
      BY <2>1, <3>1, <3>4, Schedule DEF Covered
    <3>5. QED
      BY <2>2, <3>2, <3>3, <3>4
  <2>3. CASE pc[p] \notin {"acquiring", "running", "renewing"}
    BY <2>1, <2>3 DEF Covered
  <2>4. QED
    BY <2>2, <2>3
<1>3. ASSUME NEW q \in Procs, Supervise(q) \/ EndCycle(q) \/ ShutDown(q) \/ Crash(q)
      PROVE Covered(p)'
  <2>1. CASE q = p
    BY <1>3, <2>1, CoveredSupervise
  <2>2. CASE q # p
    BY <1>3, <2>2, StepsAlone DEF Alone, Covered
  <2>3. QED
    BY <2>1, <2>2
<1>4. QED
  BY <1>1, <1>2, <1>3, CoveredScript DEF Next

-----------------------------------------------------------------------------
Inv ==
    /\ TypeOK /\ Owned /\ OneMember /\ Unique /\ Quiet /\ Posted
    /\ \A p \in Procs : Covered(p)

(* What holds between any two steps of the supervisors, the scripts and the *)
(* clock: the lease has one member, late scripts hit only what is over, and *)
(* what is left of a lease covers the timers of its holder.                 *)
THEOREM LeaseInvariant == Spec => []Inv
<1>1. Init => Inv
  <2> SUFFICES ASSUME Init PROVE Inv
    OBVIOUS
  <2>1. Owned /\ Unique /\ Quiet /\ Posted /\ OneMember
    BY DEF Init, Owned, Holds, Unique, Quiet, Posted, OneMember
  <2>2. \A p \in Procs : Covered(p)
    BY DEF Init, Covered
  <2>3. QED
    BY <2>1, <2>2, InitType DEF Inv
<1>2. Inv /\ [Next]_vars => Inv'
  <2> SUFFICES ASSUME Inv, [Next]_vars PROVE Inv'
    OBVIOUS
  <2>1. (\A p \in Procs : Covered(p))'
    BY CoveredStep DEF Inv
  <2>2. QED
    BY <2>1, TypeStep, OwnedStep, MemberStep, UniqueStep, QuietStep, PostedStep DEF Inv
<1>3. QED
  BY <1>1, <1>2, PTL DEF Spec

(* The lease of a cycle that has not been cancelled outlasts its timers,    *)
(* whatever scripts of earlier guards run late.                             *)
THEOREM CycleCovered == Spec => []LeaseCoversCycle
<1>1. Inv => LeaseCoversCycle
  BY DEF Inv, Covered, LeaseCoversCycle
<1>2. QED
  BY <1>1, LeaseInvariant, PTL

(* Two processes never run a cycle at the same time unless one has been     *)
(* told to stop its own.                                                    *)
THEOREM CycleAlone == Spec => []OneCycle
<1>1. Inv => OneCycle
  <2> SUFFICES ASSUME Inv, NEW p \in Procs, NEW q \in Procs, pc[p] = "running", pc[q] = "running"
               PROVE  p = q
    BY DEF OneCycle
  <2>1. id[p] \in Ids /\ id[q] \in Ids
    BY CoveredTypes DEF Inv
  <2>2. ASSUME NEW r \in Procs, pc[r] = "running", id[r] \in Ids PROVE lease[id[r]] > 0
    <3>1. lease[id[r]] >= timer[r] + Renewal /\ timer[r] \in Nat /\ lease[id[r]] \in Nat
      BY <2>2, CoveredTypes DEF Inv, Covered
    <3>2. QED
      BY <3>1, Schedule
  <2>3. QED
    BY <2>1, <2>2, ScheduleAssumption DEF Inv, OneMember, Unique
<1>2. QED
  BY <1>1, LeaseInvariant, PTL
=============================================================================
