-------------------------- MODULE HostShutdownProofs --------------------------
(***************************************************************************)
(* The shutdown of a process with any number of connections and of owners  *)
(* of places in Redis, for any limit of the connection count and of the    *)
(* cleanups under way.                                                     *)
(***************************************************************************)
EXTENDS HostShutdown, FiniteSetTheorems, TLAPS

Active == {c \in Conns : conn[c] = "active"}
Counting == {o \in Owners : owner[o] \in {"counted", "holding", "denied", "leaving"}}
Gone == {o \in Owners : owner[o] \in {"leaving", "notifying", "left"}}

LEMMA Finite ==
    /\ IsFiniteSet(Active) /\ Cardinality(Active) \in Nat
    /\ IsFiniteSet(Counting) /\ Cardinality(Counting) \in Nat
    /\ Cardinality(Counting) <= Cardinality(Owners)
    /\ IsFiniteSet(Gone) /\ Cardinality(Gone) \in Nat
    /\ Cardinality(Gone) <= Cardinality(Owners)
    /\ Cardinality(Owners) \in Nat
<1>1. Active \subseteq Conns /\ Counting \subseteq Owners /\ Gone \subseteq Owners
  BY DEF Active, Counting, Gone
<1>2. QED
  BY <1>1, HostAssumption, FS_Subset, FS_CardinalityType

(* The counters count what they are meant to. *)
Counted ==
    /\ count = Cardinality(Active)
    /\ owners = Cardinality(Counting)
    /\ queue <= Cardinality(Gone)

-----------------------------------------------------------------------------
(* Types and counters.                                                      *)

(* What becomes of a set when one member joins or leaves it. *)
LEMMA OneMore ==
    ASSUME NEW S, IsFiniteSet(S), NEW x, x \notin S, NEW T, T = S \cup {x}
    PROVE  Cardinality(T) = Cardinality(S) + 1
  BY FS_AddElement

LEMMA OneLess ==
    ASSUME NEW S, IsFiniteSet(S), NEW x, x \in S, NEW T, T = S \ {x}
    PROVE  Cardinality(S) >= 1 /\ Cardinality(T) = Cardinality(S) - 1
<1>1. Cardinality(S) \in Nat /\ Cardinality(S) # 0
  BY FS_CardinalityType, FS_EmptySet
<1>2. QED
  BY <1>1, FS_RemoveElement

(* The types of the tracker, and of the rest. *)
Observations == [draining : BOOLEAN, count : 0 .. MaxActive]
TrackerOK ==
    /\ draining \in BOOLEAN /\ count \in 0 .. MaxActive
    /\ conn \in [Conns -> ConnStates] /\ observed \in [Conns -> Observations]
    /\ attached \subseteq Conns /\ enabled \in BOOLEAN /\ woken \in BOOLEAN
ServerOK ==
    /\ cancelled \in BOOLEAN /\ signal \in {"waiting", "done"} /\ srv \in ServerStates
    /\ outcome \in {"none", "drained", "timed out", "failed"}
    /\ workersCancelled \in BOOLEAN /\ kernel \in BOOLEAN
OwnersOK ==
    /\ owner \in [Owners -> OwnerStates] /\ owners \in 0 .. Cardinality(Owners)
    /\ queue \in 0 .. Cardinality(Owners)
WriterOK ==
    /\ permit \in BOOLEAN /\ closed \in BOOLEAN
    /\ stopping \in BOOLEAN /\ wr \in WriterStates /\ wrStopping \in BOOLEAN
    /\ inputClosed \in BOOLEAN /\ pending \in 0 .. Concurrency

Typed == TrackerOK /\ ServerOK /\ OwnersOK /\ WriterOK

LEMMA Parts == Typed => TypeOK
  BY DEF Typed, TypeOK, TrackerOK, ServerOK, OwnersOK, WriterOK, Observations

LEMMA ConnectionStep ==
    ASSUME TrackerOK, count = Cardinality(Active), NEW c \in Conns, Connection(c)
    PROVE  TrackerOK' /\ count' = Cardinality(Active')
<1>1. MaxActive \in Nat /\ count \in Nat /\ count <= MaxActive
  BY HostAssumption DEF TrackerOK
<1>2. draining' = draining /\ enabled' = enabled
  BY DEF Connection, RegisterLoad, RegisterExchange, Detach, Leave, NotifyIdle
<1>3. Word \in Observations /\ NoWord \in Observations
  BY <1>1 DEF Word, NoWord, TrackerOK, Observations
<1>4. attached' \subseteq Conns
  BY DEF Connection, RegisterLoad, RegisterExchange, Detach, Leave, NotifyIdle, TrackerOK
<1>5. woken' \in BOOLEAN
  <2>1. woken' = woken \/ NotifyWaiters
    BY DEF Connection, RegisterLoad, RegisterExchange, Detach, Leave, NotifyIdle
  <2>2. QED
    BY <2>1 DEF NotifyWaiters, TrackerOK
<1>6. conn' = conn \/ \E s \in ConnStates : conn' = [conn EXCEPT ![c] = s]
  BY DEF Connection, RegisterLoad, RegisterExchange, Detach, Leave, NotifyIdle, ConnStates
<1>7. observed' = observed \/ \E w \in Observations : observed' = [observed EXCEPT ![c] = w]
  BY <1>3 DEF Connection, RegisterLoad, RegisterExchange, Detach, Leave, NotifyIdle
<1>8. conn' \in [Conns -> ConnStates] /\ observed' \in [Conns -> Observations]
  BY <1>6, <1>7 DEF TrackerOK
<1>9. count' \in 0 .. MaxActive /\ count' = Cardinality(Active')
  <2>1. CASE RegisterExchange(c) /\ observed[c] = Word /\ ~observed[c].draining
             /\ observed[c].count # MaxActive
    <3>1. conn[c] = "loaded" /\ conn'= [conn EXCEPT ![c] = "active"] /\ count' = count + 1
      BY <2>1 DEF RegisterExchange
    <3>2. count # MaxActive
      BY <2>1 DEF Word
    <3>3. Active' = Active \cup {c} /\ c \notin Active
      BY <3>1 DEF Active, TrackerOK
    <3>4. Cardinality(Active') = Cardinality(Active) + 1
      BY <3>3, Finite, OneMore
    <3>5. QED
      BY <1>1, <3>1, <3>2, <3>4
  <2>2. CASE Leave(c)
    <3>1. Active' = Active \ {c} /\ c \in Active /\ count' = count - 1
      BY <2>2 DEF Leave, Active, TrackerOK
    <3>2. Cardinality(Active) >= 1 /\ Cardinality(Active') = Cardinality(Active) - 1
      BY <3>1, Finite, OneLess
    <3>3. QED
      BY <1>1, <3>1, <3>2
  <2>3. CASE RegisterExchange(c) /\ ~(/\ observed[c] = Word /\ ~observed[c].draining
                                      /\ observed[c].count # MaxActive)
    <3>1. conn[c] = "loaded" /\ (conn' = conn \/ conn'= [conn EXCEPT ![c] = "refused"])
          /\ count' = count
      BY <2>3 DEF RegisterExchange
    <3>2. Active' = Active
      BY <3>1 DEF Active, TrackerOK
    <3>3. QED
      BY <1>1, <3>1, <3>2
  <2>4. CASE RegisterLoad(c) \/ Detach(c) \/ NotifyIdle(c)
    <3>1. Active' = Active /\ count' = count
      BY <2>4 DEF RegisterLoad, Detach, NotifyIdle, Active, TrackerOK
    <3>2. QED
      BY <1>1, <3>1
  <2>5. QED
    BY <2>1, <2>2, <2>3, <2>4 DEF Connection
<1>10. QED
  BY <1>2, <1>4, <1>5, <1>8, <1>9 DEF TrackerOK

LEMMA ServerType ==
    ASSUME TrackerOK, ServerOK, Cancel \/ Server \/ DrainTimeout \/ ServeFails
    PROVE  TrackerOK' /\ ServerOK'
<1>1. OnlyServer
  BY DEF Cancel, Server, DrainTimeout, ServeFails, BeginDraining, ServeReturns, Enable, CheckIdle,
         Poll, Notified
<1>2. /\ draining' \in {draining, TRUE} /\ enabled' \in {enabled, TRUE, FALSE}
      /\ woken' \in {woken, FALSE} /\ cancelled' \in {cancelled, TRUE}
  BY DEF Cancel, Server, DrainTimeout, ServeFails, BeginDraining, ServeReturns, Enable, CheckIdle,
         Poll, Notified
<1>3. signal' \in {signal, "done"} /\ outcome' \in {outcome, "drained", "timed out", "failed"}
      /\ srv' \in {srv, "enable", "check", "poll", "await", "stop"}
  BY DEF Cancel, Server, DrainTimeout, ServeFails, BeginDraining, ServeReturns, Enable, CheckIdle,
         Poll, Notified
<1>4. TrackerOK'
  BY <1>1, <1>2 DEF OnlyServer, TrackerOK
<1>5. ServerOK'
  BY <1>1, <1>2, <1>3 DEF OnlyServer, ServerOK, ServerStates
<1>6. QED
  BY <1>4, <1>5

LEMMA FinishType ==
    ASSUME ServerOK, OwnersOK, WriterOK, Finish \/ AbortWorkers
    PROVE  /\ ServerOK' /\ OwnersOK' /\ WriterOK'
           /\ UNCHANGED <<tracker, owner, owners>> /\ queue' \in {queue, 0}
<1>1. CASE Stop \/ Join \/ StopProxy
  <2>1. UNCHANGED <<tracker, channel, writer>>
    BY <1>1 DEF Stop, Join, StopProxy
  <2>2. ServerOK'
    BY <1>1 DEF Stop, Join, StopProxy, ServerOK, ServerStates
  <2>3. QED
    BY <2>1, <2>2 DEF channel, writer, OwnersOK, WriterOK
<1>2. CASE AbortWorkers
  <2>1. ServerOK'
    BY <1>2 DEF AbortWorkers, server, ServerOK
  <2>2. OwnersOK' /\ UNCHANGED <<tracker, owner, owners>> /\ queue' = 0
    BY <1>2, Finite DEF AbortWorkers, OwnersOK
  <2>3. WriterOK'
    BY <1>2, HostAssumption DEF AbortWorkers, WriterOK, WriterStates
  <2>4. QED
    BY <2>1, <2>2, <2>3
<1>3. QED
  BY <1>1, <1>2 DEF Finish

LEMMA OwnerType ==
    ASSUME OwnersOK, owners = Cardinality(Counting), queue <= Cardinality(Gone),
           NEW o \in Owners, Owner(o)
    PROVE  OwnersOK' /\ owners' = Cardinality(Counting') /\ queue' <= Cardinality(Gone')
<1>1. owner' \in [Owners -> OwnerStates]
  <2>1. \E s \in OwnerStates : owner' = [owner EXCEPT ![o] = s]
    BY DEF Owner, OwnershipCheck, OwnershipCount, OwnershipRecheck, HandOver, Uncount, NotifyWriter,
           OwnerStates
  <2>2. QED
    BY <2>1 DEF OwnersOK
<1>2. owners' = Cardinality(Counting')
  <2>1. CASE OwnershipCount(o)
    <3>1. Counting' = Counting \cup {o} /\ o \notin Counting /\ owners' = owners + 1
      BY <2>1 DEF OwnershipCount, Counting, OwnersOK
    <3>2. QED
      BY <3>1, Finite, OneMore
  <2>2. CASE Uncount(o)
    <3>1. Counting' = Counting \ {o} /\ o \in Counting /\ owners' = owners - 1
      BY <2>2 DEF Uncount, Counting, OwnersOK
    <3>2. QED
      BY <3>1, Finite, OneLess
  <2>3. CASE ~OwnershipCount(o) /\ ~Uncount(o)
    <3>1. Counting' = Counting /\ owners' = owners
      BY <2>3 DEF Owner, OwnershipCheck, OwnershipRecheck, HandOver, NotifyWriter, Counting, OwnersOK
    <3>2. QED
      BY <3>1
  <2>4. QED
    BY <2>1, <2>2, <2>3
<1>3. queue \in Nat /\ Cardinality(Gone) \in Nat
  BY Finite DEF OwnersOK
<1>4. queue' \in Nat /\ queue' <= Cardinality(Gone')
  <2>1. CASE HandOver(o)
    <3>1. Gone' = Gone \cup {o} /\ o \notin Gone /\ queue' \in {queue, queue + 1}
      BY <2>1 DEF HandOver, Gone, OwnersOK
    <3>2. Cardinality(Gone') = Cardinality(Gone) + 1
      BY <3>1, Finite, OneMore
    <3>3. QED
      BY <1>3, <3>1, <3>2
  <2>2. CASE OwnershipCheck(o)
    <3>1. queue' = queue /\ (Gone' = Gone \/ (Gone' = Gone \cup {o} /\ o \notin Gone))
      BY <2>2 DEF OwnershipCheck, Gone, OwnersOK
    <3>2. Cardinality(Gone') = Cardinality(Gone) \/ Cardinality(Gone') = Cardinality(Gone) + 1
      BY <3>1, Finite, OneMore
    <3>3. QED
      BY <1>3, <3>1, <3>2
  <2>3. CASE ~HandOver(o) /\ ~OwnershipCheck(o)
    <3>1. queue' = queue /\ Gone' = Gone
      BY <2>3 DEF Owner, OwnershipCount, OwnershipRecheck, Uncount, NotifyWriter, Gone, OwnersOK
    <3>2. QED
      BY <1>3, <3>1
  <2>4. QED
    BY <2>1, <2>2, <2>3
<1>5. /\ Cardinality(Counting') <= Cardinality(Owners) /\ Cardinality(Counting') \in Nat
      /\ Cardinality(Gone') <= Cardinality(Owners) /\ Cardinality(Gone') \in Nat
  <2>1. Counting' \subseteq Owners /\ Gone' \subseteq Owners
    BY DEF Counting, Gone
  <2>2. QED
    BY <2>1, HostAssumption, FS_Subset, FS_CardinalityType
<1>6. owners' \in 0 .. Cardinality(Owners) /\ queue' \in 0 .. Cardinality(Owners)
  BY <1>2, <1>4, <1>5, Finite
<1>7. QED
  BY <1>1, <1>2, <1>4, <1>6 DEF OwnersOK

LEMMA WriterType ==
    ASSUME OwnersOK, WriterOK, Writer
    PROVE  OwnersOK' /\ WriterOK' /\ queue' <= queue /\ OnlyWriter
<1>1. OnlyWriter
  BY DEF Writer, LoopHead, CloseReceiver, SelectCancelled, SelectChanged, SelectCleaned, SelectReceived
<1>2. /\ permit' \in {permit, FALSE} /\ closed' \in {closed, TRUE} /\ stopping' \in {stopping, TRUE}
      /\ wrStopping' \in {wrStopping, TRUE} /\ inputClosed' \in {inputClosed, TRUE}
  BY DEF Writer, LoopHead, CloseReceiver, SelectCancelled, SelectChanged, SelectCleaned, SelectReceived
<1>3. wr' \in WriterStates
  BY DEF Writer, LoopHead, CloseReceiver, SelectCancelled, SelectChanged, SelectCleaned,
         SelectReceived, WriterStates
<1>4. queue \in Nat /\ pending \in Nat /\ pending <= Concurrency /\ Concurrency \in Nat
  BY HostAssumption, Finite DEF OwnersOK, WriterOK
<1>5. queue' \in 0 .. queue /\ pending' \in 0 .. Concurrency
  BY <1>4 DEF Writer, LoopHead, CloseReceiver, SelectCancelled, SelectChanged, SelectCleaned,
         SelectReceived
<1>6. OwnersOK' /\ queue' <= queue
  BY <1>1, <1>4, <1>5, Finite DEF OnlyWriter, OwnersOK
<1>7. WriterOK'
  BY <1>2, <1>3, <1>5 DEF WriterOK
<1>8. QED
  BY <1>1, <1>6, <1>7

LEMMA TypeStep == Typed /\ Counted /\ [Next]_vars => Typed' /\ Counted'
<1> SUFFICES ASSUME TrackerOK, ServerOK, OwnersOK, WriterOK, Counted, [Next]_vars
             PROVE  TrackerOK' /\ ServerOK' /\ OwnersOK' /\ WriterOK' /\ Counted'
  BY DEF Typed
<1>1. queue \in Nat /\ Cardinality(Gone) \in Nat
  BY Finite DEF OwnersOK
<1>2. ASSUME NEW c \in Conns, Connection(c)
      PROVE  TrackerOK' /\ ServerOK' /\ OwnersOK' /\ WriterOK' /\ Counted'
  <2>1. OnlyTracker
    BY <1>2 DEF Connection, RegisterLoad, RegisterExchange, Detach, Leave, NotifyIdle
  <2>2. ServerOK' /\ OwnersOK' /\ WriterOK'
    BY <2>1 DEF OnlyTracker, server, channel, writer, ServerOK, OwnersOK, WriterOK
  <2>3. Counting' = Counting /\ Gone' = Gone /\ owners' = owners /\ queue' = queue
    BY <2>1 DEF OnlyTracker, server, channel, writer, Counting, Gone
  <2>4. QED
    BY <1>2, <2>2, <2>3, ConnectionStep DEF Counted
<1>3. CASE Cancel \/ Server \/ DrainTimeout \/ ServeFails
  <2>1. OnlyServer
    BY <1>3 DEF Cancel, Server, DrainTimeout, ServeFails, BeginDraining, ServeReturns, Enable,
                CheckIdle, Poll, Notified
  <2>2. OwnersOK' /\ WriterOK' /\ Counted'
    BY <2>1 DEF OnlyServer, channel, writer, OwnersOK, WriterOK, Counted, Active, Counting, Gone
  <2>3. QED
    BY <1>3, <2>2, ServerType
<1>4. CASE Finish \/ AbortWorkers
  <2>1. TrackerOK' /\ Active' = Active /\ Counting' = Counting /\ Gone' = Gone /\ count' = count
        /\ owners' = owners
    BY <1>4, FinishType DEF tracker, TrackerOK, Active, Counting, Gone
  <2>2. Counted'
    BY <1>1, <1>4, <2>1, FinishType DEF Counted
  <2>3. QED
    BY <1>4, <2>1, <2>2, FinishType
<1>5. ASSUME NEW o \in Owners, Owner(o)
      PROVE  TrackerOK' /\ ServerOK' /\ OwnersOK' /\ WriterOK' /\ Counted'
  <2>1. OnlyOwner /\ permit' \in {permit, TRUE}
    BY <1>5 DEF Owner, OwnershipCheck, OwnershipCount, OwnershipRecheck, HandOver, Uncount, NotifyWriter
  <2>2. TrackerOK' /\ ServerOK' /\ count' = count /\ Active' = Active
    BY <2>1 DEF OnlyOwner, tracker, server, TrackerOK, ServerOK, Active
  <2>3. WriterOK'
    BY <2>1 DEF OnlyOwner, writer, WriterOK
  <2>4. QED
    BY <1>5, <2>2, <2>3, OwnerType DEF Counted
<1>6. CASE Writer
  <2>1. OnlyWriter /\ OwnersOK' /\ WriterOK' /\ queue' <= queue
    BY <1>6, WriterType
  <2>2. TrackerOK' /\ ServerOK' /\ Active' = Active /\ Counting' = Counting /\ Gone' = Gone
        /\ count' = count /\ owners' = owners
    BY <2>1 DEF OnlyWriter, tracker, server, TrackerOK, ServerOK, Active, Counting, Gone
  <2>3. queue' \in Nat
    BY <2>1, Finite DEF OwnersOK
  <2>4. QED
    BY <1>1, <2>1, <2>2, <2>3 DEF Counted
<1>7. CASE UNCHANGED vars
  <2>1. UNCHANGED <<tracker, server, channel, writer, workersCancelled, kernel>>
    BY <1>7 DEF vars
  <2>2. TrackerOK' /\ ServerOK'
    BY <2>1 DEF tracker, server, TrackerOK, ServerOK
  <2>3. OwnersOK' /\ WriterOK'
    BY <2>1 DEF channel, writer, OwnersOK, WriterOK
  <2>4. Counted'
    BY <2>1 DEF tracker, channel, Counted, Active, Counting, Gone
  <2>5. QED
    BY <2>2, <2>3, <2>4
<1>8. QED
  BY <1>2, <1>3, <1>4, <1>5, <1>6, <1>7 DEF Next

LEMMA InitType == Init => Typed /\ Counted
<1> SUFFICES ASSUME Init PROVE Typed /\ Counted
  OBVIOUS
<1>0. 0 \in 0 .. MaxActive /\ 0 \in 0 .. Concurrency
  BY HostAssumption
<1>1. Active = {} /\ Counting = {} /\ Gone = {}
  BY DEF Init, Active, Counting, Gone
<1>2. Counted
  BY <1>1, FS_EmptySet DEF Init, Counted
<1>3. TrackerOK
  <2>1. NoWord \in Observations
    BY <1>0 DEF NoWord, Observations
  <2>2. QED
    BY <1>0, <2>1 DEF Init, TrackerOK, ConnStates
<1>4. ServerOK
  BY DEF Init, ServerOK, ServerStates
<1>5. OwnersOK
  BY Finite DEF Init, OwnersOK, OwnerStates
<1>6. WriterOK
  BY <1>0 DEF Init, WriterOK, WriterStates
<1>7. QED
  BY <1>2, <1>3, <1>4, <1>5, <1>6 DEF Typed

(* The state has its type: neither the count of the tracker nor that of the *)
(* cleanup lifecycle falls below zero or rises above what it can hold.      *)
THEOREM TypeCorrect == Spec => []TypeOK
  BY InitType, TypeStep, Parts, PTL DEF Spec

-----------------------------------------------------------------------------
(* The drain.                                                               *)

Waiting == srv \in {"check", "poll", "await"}

DrainInv ==
    /\ Waiting \/ srv = "enable" => draining
    /\ Waiting => enabled
    /\ srv \in {"poll", "await"} /\ count = 0 => woken \/ \E c \in Conns : conn[c] = "leaving"
    /\ outcome = "drained" => draining /\ count = 0

LEMMA DrainConnection ==
    ASSUME Typed, Counted, DrainInv, NEW c \in Conns, Connection(c)
    PROVE  DrainInv'
<1> USE DEF Waiting
<1>1. srv' = srv /\ outcome' = outcome /\ draining' = draining /\ enabled' = enabled
  BY DEF Connection, RegisterLoad, RegisterExchange, Detach, Leave, NotifyIdle, OnlyTracker, server
<1>2. conn \in [Conns -> ConnStates] /\ count \in Nat
  BY HostAssumption DEF Typed, TrackerOK
<1>3. CASE RegisterLoad(c) \/ Detach(c)
  <2>1. count' = count /\ woken' = woken /\ \A d \in Conns : conn[d] = "leaving" => conn'[d] = "leaving"
    BY <1>2, <1>3 DEF RegisterLoad, Detach
  <2>2. QED
    BY <1>1, <2>1 DEF DrainInv
<1>4. CASE RegisterExchange(c)
  <2>1. woken' = woken /\ \A d \in Conns : conn[d] = "leaving" => conn'[d] = "leaving"
    BY <1>2, <1>4 DEF RegisterExchange
  <2>2. count' = count \/ (~draining /\ count' = count + 1)
    BY <1>4 DEF RegisterExchange, Word
  <2>3. QED
    BY <1>1, <1>2, <2>1, <2>2 DEF DrainInv
<1>5. CASE Leave(c)
  <2>1. /\ count' = count - 1 /\ woken' = woken /\ conn[c] = "active"
        /\ conn'[c] = IF count = 1 THEN "leaving" ELSE "left"
    BY <1>2, <1>5 DEF Leave
  <2>2. count >= 1
    <3>1. c \in Active
      BY <2>1 DEF Active
    <3>2. QED
      BY <3>1, Finite, OneLess DEF Counted
  <2>3. QED
    BY <1>1, <1>2, <2>1, <2>2 DEF DrainInv
<1>6. CASE NotifyIdle(c)
  <2>1. count' = count /\ (enabled => woken')
    BY <1>6 DEF NotifyIdle, NotifyWaiters
  <2>2. QED
    BY <1>1, <2>1 DEF DrainInv
<1>7. QED
  BY <1>3, <1>4, <1>5, <1>6 DEF Connection

LEMMA DrainServer ==
    ASSUME Typed, DrainInv, Cancel \/ Server \/ DrainTimeout \/ ServeFails
    PROVE  DrainInv'
<1> USE DEF Waiting
<1>1. count' = count /\ conn' = conn
  BY DEF Cancel, Server, DrainTimeout, ServeFails, BeginDraining, ServeReturns, Enable, CheckIdle,
         Poll, Notified, OnlyServer
<1>2. CASE Cancel \/ BeginDraining
  BY <1>1, <1>2 DEF Cancel, BeginDraining, DrainInv
<1>3. CASE ServeReturns
  BY <1>1, <1>3 DEF ServeReturns, DrainInv
<1>4. CASE Enable \/ Poll
  BY <1>1, <1>4 DEF Enable, Poll, DrainInv
<1>5. CASE CheckIdle
  <2>1. draining
    BY <1>5 DEF CheckIdle, DrainInv
  <2>2. draining'
    BY <1>5, <2>1, Zenon DEF CheckIdle
  <2>3. CASE count = 0
    <3>1. srv' = "stop" /\ count' = 0
      BY <1>1, <1>5, <2>3 DEF CheckIdle
    <3>2. QED
      BY <2>2, <3>1 DEF DrainInv
  <2>4. CASE count # 0
    <3>1. srv' = "poll" /\ outcome' = outcome /\ enabled' = enabled /\ count' # 0
      BY <1>1, <1>5, <2>4 DEF CheckIdle
    <3>2. enabled /\ outcome # "drained"
      BY <1>5, <2>4 DEF CheckIdle, DrainInv
    <3>3. enabled'
      BY <3>1, <3>2, Zenon
    <3>4. QED
      BY <2>2, <3>1, <3>2, <3>3 DEF DrainInv
  <2>5. QED
    BY <2>3, <2>4
<1>6. CASE Notified
  BY <1>1, <1>6 DEF Notified, DrainInv
<1>7. CASE DrainTimeout \/ ServeFails
  BY <1>1, <1>7 DEF DrainTimeout, ServeFails, DrainInv
<1>8. QED
  BY <1>2, <1>3, <1>4, <1>5, <1>6, <1>7 DEF Server

LEMMA DrainStep == Typed /\ Counted /\ DrainInv /\ [Next]_vars => DrainInv'
<1> SUFFICES ASSUME Typed, Counted, DrainInv, [Next]_vars PROVE DrainInv'
  OBVIOUS
<1>1. CASE UNCHANGED <<tracker, srv, outcome>>
  BY <1>1 DEF tracker, DrainInv, Waiting
<1>2. CASE Finish
  <2>1. UNCHANGED <<tracker, outcome>> /\ srv' \in {"join", "proxy", "exited"}
    BY <1>2 DEF Finish, Stop, Join, StopProxy
  <2>2. QED
    BY <2>1 DEF tracker, DrainInv, Waiting
<1>3. ASSUME NEW o \in Owners, Owner(o) PROVE UNCHANGED <<tracker, srv, outcome>>
  BY <1>3 DEF Owner, OwnershipCheck, OwnershipCount, OwnershipRecheck, HandOver, Uncount,
              NotifyWriter, OnlyOwner, server
<1>4. ASSUME Writer \/ AbortWorkers \/ UNCHANGED vars PROVE UNCHANGED <<tracker, srv, outcome>>
  BY <1>4 DEF Writer, LoopHead, CloseReceiver, SelectCancelled, SelectChanged, SelectCleaned,
              SelectReceived, OnlyWriter, AbortWorkers, vars, server
<1>5. QED
  BY <1>1, <1>2, <1>3, <1>4, DrainConnection, DrainServer DEF Next

LEMMA DrainInit == Init => DrainInv
  BY DEF Init, DrainInv, Waiting

(* The drain never sleeps through the end of the last connection, for any   *)
(* number of connections.                                                   *)
THEOREM IdleNoticed == Spec => []IdleIsNoticed
<1>1. DrainInv => IdleIsNoticed
  BY DEF DrainInv, IdleIsNoticed
<1>2. QED
  BY <1>1, InitType, DrainInit, TypeStep, DrainStep, PTL DEF Spec

(* A host that was found idle stays idle: no connection is admitted once    *)
(* the drain has begun.                                                     *)
THEOREM IdleStays == Spec => []DrainedStaysIdle
<1>1. Counted /\ DrainInv => DrainedStaysIdle
  <2> SUFFICES ASSUME Counted, DrainInv, outcome = "drained", NEW c \in Conns, conn[c] = "active"
               PROVE  FALSE
    BY DEF DrainedStaysIdle
  <2>1. c \in Active /\ Cardinality(Active) = 0
    BY DEF Active, Counted, DrainInv
  <2>2. QED
    BY <2>1, Finite, FS_EmptySet
<1>2. QED
  BY <1>1, InitType, DrainInit, TypeStep, DrainStep, PTL DEF Spec

-----------------------------------------------------------------------------
(* The cleanup writer and its owners.                                       *)

NoHolder == \A o \in Owners : owner[o] # "holding"

CleanupInv ==
    /\ wrStopping => stopping
    /\ wr = "close" \/ (closed /\ wr # "aborted") => wrStopping /\ NoHolder

LEMMA CleanupOwner ==
    ASSUME Typed, CleanupInv, NEW o \in Owners, Owner(o)
    PROVE  CleanupInv'
<1>1. UNCHANGED <<stopping, closed, wr, wrStopping>>
  BY DEF Owner, OwnershipCheck, OwnershipCount, OwnershipRecheck, HandOver, Uncount, NotifyWriter,
         OnlyOwner, writer
<1>2. stopping /\ NoHolder => NoHolder'
  BY DEF Owner, OwnershipCheck, OwnershipCount, OwnershipRecheck, HandOver, Uncount, NotifyWriter,
         NoHolder, Typed, OwnersOK
<1>3. QED
  BY <1>1, <1>2 DEF CleanupInv

LEMMA CleanupWriter ==
    ASSUME Counted, CleanupInv, Writer
    PROVE  CleanupInv'
<1>1. owner' = owner
  BY DEF Writer, LoopHead, CloseReceiver, SelectCancelled, SelectChanged, SelectCleaned,
         SelectReceived, OnlyWriter
<1>2. NoHolder' <=> NoHolder
  BY <1>1 DEF NoHolder
<1>3. CASE LoopHead
  <2>1. owners = 0 => NoHolder
    <3>1. owners = 0 => Counting = {}
      BY Finite, FS_EmptySet DEF Counted
    <3>2. QED
      BY <3>1 DEF Counting, NoHolder
  <2>2. QED
    BY <1>2, <1>3, <2>1 DEF LoopHead, CleanupInv
<1>4. CASE CloseReceiver
  BY <1>2, <1>4 DEF CloseReceiver, CleanupInv
<1>5. CASE SelectCancelled
  BY <1>2, <1>5 DEF SelectCancelled, CleanupInv
<1>6. CASE SelectChanged \/ SelectCleaned \/ SelectReceived
  BY <1>2, <1>6 DEF SelectChanged, SelectCleaned, SelectReceived, CleanupInv
<1>7. QED
  BY <1>3, <1>4, <1>5, <1>6 DEF Writer

LEMMA CleanupStep == Typed /\ Counted /\ CleanupInv /\ [Next]_vars => CleanupInv'
<1> SUFFICES ASSUME Typed, Counted, CleanupInv, [Next]_vars PROVE CleanupInv'
  OBVIOUS
<1>1. CASE UNCHANGED <<owner, writer>>
  BY <1>1 DEF writer, CleanupInv, NoHolder
<1>2. ASSUME NEW c \in Conns, Connection(c) PROVE UNCHANGED <<owner, writer>>
  BY <1>2 DEF Connection, RegisterLoad, RegisterExchange, Detach, Leave, NotifyIdle, OnlyTracker,
              channel
<1>3. ASSUME Cancel \/ Server \/ DrainTimeout \/ ServeFails PROVE UNCHANGED <<owner, writer>>
  BY <1>3 DEF Cancel, Server, DrainTimeout, ServeFails, BeginDraining, ServeReturns, Enable,
              CheckIdle, Poll, Notified, OnlyServer, channel
<1>4. ASSUME Finish \/ UNCHANGED vars PROVE UNCHANGED <<owner, writer>>
  BY <1>4 DEF Finish, Stop, Join, StopProxy, channel, vars
<1>5. CASE AbortWorkers
  BY <1>5 DEF AbortWorkers, CleanupInv, NoHolder
<1>6. QED
  BY <1>1, <1>2, <1>3, <1>4, <1>5, CleanupOwner, CleanupWriter DEF Next

(* Nobody writes a place to Redis once the channel that would clean it up   *)
(* is closed, for any number of owners: the count and the flag are looked   *)
(* at in opposite order by the two sides.                                   *)
THEOREM PlacesCleanedUp == Spec => []WritesAreCleanedUp
<1>1. Init => CleanupInv
  BY DEF Init, CleanupInv
<1>2. CleanupInv => WritesAreCleanedUp
  BY DEF CleanupInv, NoHolder, WritesAreCleanedUp
<1>3. QED
  BY <1>1, <1>2, InitType, TypeStep, CleanupStep, PTL DEF Spec
=============================================================================
