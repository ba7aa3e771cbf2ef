----------------------- MODULE ExecutionBufferProofs -----------------------
(***************************************************************************)
(* The theorems of ExecutionBuffer, for every set of requests, every limit *)
(* and size and every set of faults.  First the types and the order of the *)
(* observations somebody holds; then what the observations that may still  *)
(* be written say about the session and its row, from which the safety of  *)
(* the rows follows; last the number of observations held and the          *)
(* refinement of OrderedDelivery.                                          *)
(***************************************************************************)
EXTENDS ExecutionBuffer, TLAPS, FiniteSetTheorems, SequenceTheorems

USE DEF stateVars, hostVars, dbVars

Ends == {"Succeeded", "Failed"}
Writes ==
    [request : Requests, kind : Kinds, index : Nat, attempts : Nat, send_state : SendStates,
     committed : BOOLEAN, status : BOOLEAN, outcome : Ends \cup {"Running"}]
Rows ==
    [outcome : Ends \cup {"Running", "Interrupted"}, send_state : SendStates,
     attempt_count : Nat, provider : Nat, committed : BOOLEAN, client_status : BOOLEAN]
Sessions ==
    [phase : {"new", "created", "running", "done", "reported"}, attempts : Nat,
     send_state : SendStates, committed : BOOLEAN, status : BOOLEAN,
     outcome : Ends \cup {"Running"}, events : Nat, issued : Nat]

(* Where an observation may still become a write, and where a producer or   *)
(* the writer holds one.                                                    *)
Offering  == {"reserve_item", "reserve_bytes", "send"}
Returning == {"return_bytes", "return_item"}
Busy      == {"persist", "answer", "release_bytes", "release_item"}

SessionTypes ==
    /\ session \in [Requests -> Sessions]
    /\ \A r \in Requests : session[r].phase = "new" => session[r].attempts = 0
    /\ producer \in [Requests -> [pc : {"idle"} \cup Offering \cup Returning,
                                  write : Writes \cup {NoWrite}]]
    /\ \A r \in Requests : producer[r].pc # "idle" =>
         producer[r].write \in Writes /\ producer[r].write.request = r
QueueTypes ==
    /\ queued_items \in Int /\ queued_bytes \in Int
    /\ channel \in Seq(Writes) /\ closed \in BOOLEAN /\ drain_elapsed \in BOOLEAN
WriterTypes ==
    /\ writer \in [pc : {"receive", "discard", "stopped"} \cup Busy,
                   queued : Writes \cup {NoWrite}, ok : BOOLEAN, next : {"receive", "discard"}]
    /\ writer.queued \in Writes <=> writer.pc \in Busy
RowTypes ==
    /\ rows \in [Requests -> Rows \cup {NoRow}] /\ lapsed \subseteq Requests
    /\ last_applied \in [Requests -> Nat] /\ lost \in BOOLEAN
TypeOK == SessionTypes /\ QueueTypes /\ WriterTypes /\ RowTypes

-----------------------------------------------------------------------------
(* What is missing is neither a write nor a row.                            *)
LEMMA Absent == NoWrite \notin Writes /\ NoRow \notin Rows
<1>1. NoWrite.kind \notin Kinds BY DEF NoWrite, Kinds
<1>2. NoRow.outcome \notin Ends \cup {"Running", "Interrupted"} BY DEF NoRow, Ends
<1> QED BY <1>1, <1>2 DEF Writes, Rows

(* A statement leaves a row behind.                                         *)
LEMMA UpdatedType ==
    ASSUME NEW row \in Rows \cup {NoRow}, NEW w \in Writes, Matches(row, w)
    PROVE  Updated(row, w) \in Rows
<1>0. w.kind \in Kinds /\ w.attempts \in Nat /\ w.send_state \in SendStates
      /\ w.committed \in BOOLEAN /\ w.status \in BOOLEAN /\ w.outcome \in Ends \cup {"Running"}
  BY DEF Writes
<1>1. CASE w.kind \in {"Create", "CreateWithAttempt"}
  <2>1. Updated(row, w) = Inserted(w.attempts) BY <1>1 DEF Updated
  <2> QED BY <1>0, <2>1 DEF Inserted, Rows, SendStates, Ends
<1>2. CASE w.kind \notin {"Create", "CreateWithAttempt"}
  <2>0. ~Running(NoRow) BY DEF Running, NoRow
  <2>1. row \in Rows
    <3>1. Running(row) \/ Exists(row)
      BY <1>0, <1>2 DEF Matches, Kinds
    <3> QED BY <2>0, <3>1 DEF Exists
  <2>2. row.committed \in BOOLEAN /\ row.client_status \in BOOLEAN BY <2>1 DEF Rows
  <2>3. CASE w.kind = "Attempt" BY <1>0, <2>1, <2>3 DEF Updated, Rows
  <2>4. CASE w.kind = "MarkSend" BY <1>0, <2>1, <2>4 DEF Updated, Rows
  <2>5. CASE w.kind = "Commit" BY <1>0, <2>1, <2>5 DEF Updated, Rows
  <2>6. CASE w.kind = "ClientStatus" BY <1>0, <2>1, <2>6 DEF Updated, Rows
  <2>7. CASE w.kind = "OpsEvent" BY <1>0, <2>1, <2>7 DEF Updated, Rows
  <2>8. CASE w.kind = "Finalize"
    <3> DEFINE u == [row EXCEPT !.outcome = w.outcome, !.send_state = w.send_state,
                        !.attempt_count = w.attempts, !.committed = w.committed,
                        !.client_status = @ \/ w.status]
    <3>1. Updated(row, w) = u BY <2>8 DEF Updated
    <3>2. (row.client_status \/ w.status) \in BOOLEAN OBVIOUS
    <3>3. u \in Rows BY <1>0, <2>1, <3>2 DEF Rows
    <3> QED BY <3>1, <3>3
  <2> QED BY <1>0, <1>2, <2>3, <2>4, <2>5, <2>6, <2>7, <2>8 DEF Kinds
<1> QED BY <1>1, <1>2

-----------------------------------------------------------------------------
(* The calls of a session.                                                  *)

Ended   == {"done", "reported"}
Bearing == {"Create", "CreateWithAttempt", "Attempt"}

(* What a call does to the session it belongs to: only a call that bears an *)
(* attempt changes their number, the send state only rises, and after the   *)
(* finalization only the status is reported.                                *)
Follows(old, kind, new) ==
    /\ new \in Sessions /\ kind \in Kinds /\ new.issued = old.issued /\ new.phase # "new"
    /\ old.attempts <= new.attempts /\ Rank(old.send_state) <= Rank(new.send_state)
    /\ kind \notin Bearing => new.attempts = old.attempts /\ old.phase # "new"
    /\ kind = "Finalize" => new.phase = "done" /\ new.outcome \in Ends
    /\ old.phase \in Ended =>
         /\ kind \notin Bearing /\ new.phase \in Ended /\ new.outcome = old.outcome
         /\ new.send_state = old.send_state /\ new.committed = old.committed

(* The ranks of the send states.                                            *)
LEMMA Ranks ==
    /\ Rank("NotSent") = 0 /\ Rank("Ambiguous") = 1 /\ Rank("Sent") = 2
    /\ \A s \in SendStates : Rank(s) \in 0..2
    /\ \A s \in SendStates : Rank("NotSent") <= Rank(s) /\ Rank(s) <= Rank(s)
BY DEF Rank, SendStates

(* Every call of a session enqueues one observation and follows from the    *)
(* session's state.                                                         *)
LEMMA CallFollows ==
    ASSUME TypeOK, NEW r \in Requests, Call(r)
    PROVE  \E kind, new : Follows(session[r], kind, new) /\ Enqueue(r, kind, new)
<1> DEFINE s == session[r]
<1>0. s \in Sessions BY DEF TypeOK, SessionTypes
<1>1. /\ s.attempts \in Nat /\ s.issued \in Nat /\ s.events \in Nat /\ s.send_state \in SendStates
      /\ s.committed \in BOOLEAN /\ s.status \in BOOLEAN /\ s.outcome \in Ends \cup {"Running"}
      /\ s.phase \in {"new", "created", "running", "done", "reported"}
      /\ s.phase = "new" => s.attempts = 0
  BY <1>0 DEF Sessions, TypeOK, SessionTypes
<1>2. Rank(s.send_state) <= Rank(s.send_state) BY <1>1, Ranks
<1> HIDE DEF s
<1>3. CASE CreateModelRequest(r)
  <2> DEFINE n == [s EXCEPT !.phase = "created"]
  <2>1. Enqueue(r, "Create", n) /\ s.phase = "new" BY <1>3 DEF CreateModelRequest, s
  <2>2. n \in Sessions BY <1>0 DEF Sessions
  <2>3. /\ n.phase = "created" /\ n.attempts = s.attempts /\ n.send_state = s.send_state
        /\ n.issued = s.issued
    BY <1>0 DEF Sessions
  <2>4. Follows(s, "Create", n)
    <3> HIDE DEF n
    <3> QED BY <1>1, <1>2, <2>1, <2>2, <2>3 DEF Follows, Kinds, Bearing, Ended
  <2> QED BY <2>1, <2>4 DEF s
<1>4. CASE CreateModelRequestWithAttempt(r)
  <2> DEFINE n == [s EXCEPT !.phase = "running", !.attempts = 1]
  <2>1. Enqueue(r, "CreateWithAttempt", n) /\ s.phase = "new"
    BY <1>4 DEF CreateModelRequestWithAttempt, s
  <2>2. n \in Sessions BY <1>0 DEF Sessions
  <2>3. /\ n.phase = "running" /\ n.attempts = 1 /\ n.send_state = s.send_state
        /\ n.issued = s.issued
    BY <1>0 DEF Sessions
  <2>4. Follows(s, "CreateWithAttempt", n)
    <3> HIDE DEF n
    <3> QED BY <1>1, <1>2, <2>1, <2>2, <2>3 DEF Follows, Kinds, Bearing, Ended
  <2> QED BY <2>1, <2>4 DEF s
<1>5. CASE RecordAttempt(r)
  <2> DEFINE n == [s EXCEPT !.attempts = @ + 1]
  <2>1. Enqueue(r, "Attempt", n) /\ s.phase = "running"
    BY <1>5 DEF RecordAttempt, s
  <2>2. n \in Sessions BY <1>0, <1>1 DEF Sessions
  <2>3. /\ n.issued = s.issued
        /\ n.attempts = s.attempts + 1
        /\ n.phase = s.phase
        /\ n.send_state = s.send_state
    BY <1>0 DEF Sessions
  <2>4. Follows(s, "Attempt", n)
    <3> HIDE DEF n
    <3> QED BY <1>1, <1>2, <2>1, <2>2, <2>3, Ranks DEF Follows, Kinds, Bearing, Ended, Ends
  <2> QED BY <2>1, <2>4 DEF s
<1>6. CASE MarkSendState(r)
  <2>0. PICK t \in SendStates : Rank(t) > Rank(s.send_state) /\ Enqueue(r, "MarkSend", [s EXCEPT !.send_state = t])
    BY <1>6 DEF MarkSendState, s
  <2> DEFINE n == [s EXCEPT !.send_state = t]
  <2>1. Enqueue(r, "MarkSend", n) /\ s.phase = "running"
    BY <2>0, <1>6 DEF MarkSendState, s
  <2>2. n \in Sessions BY <2>0, <1>0, <1>1 DEF Sessions
  <2>3. /\ n.issued = s.issued
        /\ n.send_state = t
        /\ n.phase = s.phase
        /\ n.attempts = s.attempts
    BY <2>0, <1>0 DEF Sessions
  <2>4. Follows(s, "MarkSend", n)
    <3> HIDE DEF n
    <3> QED BY <2>0, <1>1, <1>2, <2>1, <2>2, <2>3, Ranks DEF Follows, Kinds, Bearing, Ended, Ends
  <2> QED BY <2>1, <2>4 DEF s
<1>7. CASE MarkDownstreamCommitted(r)
  <2>0. PICK b \in BOOLEAN : Enqueue(r, "Commit", [s EXCEPT !.committed = TRUE, !.status = b])
    BY <1>7 DEF MarkDownstreamCommitted, s
  <2> DEFINE n == [s EXCEPT !.committed = TRUE, !.status = b]
  <2>1. Enqueue(r, "Commit", n) /\ s.phase = "running"
    BY <2>0, <1>7 DEF MarkDownstreamCommitted, s
  <2>2. n \in Sessions BY <2>0, <1>0, <1>1 DEF Sessions
  <2>3. /\ n.issued = s.issued
        /\ n.phase = s.phase
        /\ n.attempts = s.attempts
        /\ n.send_state = s.send_state
    BY <2>0, <1>0 DEF Sessions
  <2>4. Follows(s, "Commit", n)
    <3> HIDE DEF n
    <3> QED BY <2>0, <1>1, <1>2, <2>1, <2>2, <2>3, Ranks DEF Follows, Kinds, Bearing, Ended, Ends
  <2> QED BY <2>1, <2>4 DEF s
<1>8. CASE RecordOpsEvent(r)
  <2> DEFINE n == [s EXCEPT !.events = @ + 1]
  <2>1. Enqueue(r, "OpsEvent", n) /\ s.phase = "running"
    BY <1>8 DEF RecordOpsEvent, s
  <2>2. n \in Sessions BY <1>0, <1>1 DEF Sessions
  <2>3. /\ n.issued = s.issued
        /\ n.phase = s.phase
        /\ n.attempts = s.attempts
        /\ n.send_state = s.send_state
    BY <1>0 DEF Sessions
  <2>4. Follows(s, "OpsEvent", n)
    <3> HIDE DEF n
    <3> QED BY <1>1, <1>2, <2>1, <2>2, <2>3, Ranks DEF Follows, Kinds, Bearing, Ended, Ends
  <2> QED BY <2>1, <2>4 DEF s
<1>9. CASE FinalizeModelRequest(r)
  <2>0. PICK o \in {"Succeeded", "Failed"} : Enqueue(r, "Finalize", [s EXCEPT !.phase = "done", !.outcome = o])
    BY <1>9 DEF FinalizeModelRequest, s
  <2> DEFINE n == [s EXCEPT !.phase = "done", !.outcome = o]
  <2>1. Enqueue(r, "Finalize", n) /\ s.phase \in {"created", "running"}
    BY <2>0, <1>9 DEF FinalizeModelRequest, s
  <2>2. n \in Sessions BY <2>0, <1>0, <1>1 DEF Sessions, Ends
  <2>3. /\ n.issued = s.issued
        /\ n.phase = "done"
        /\ n.outcome = o
        /\ n.attempts = s.attempts
        /\ n.send_state = s.send_state
    BY <2>0, <1>0 DEF Sessions
  <2>4. Follows(s, "Finalize", n)
    <3> HIDE DEF n
    <3> QED BY <2>0, <1>1, <1>2, <2>1, <2>2, <2>3, Ranks DEF Follows, Kinds, Bearing, Ended, Ends
  <2> QED BY <2>1, <2>4 DEF s
<1>10. CASE RecordClientStatus(r)
  <2> DEFINE n == [s EXCEPT !.phase = "reported", !.status = TRUE]
  <2>1. Enqueue(r, "ClientStatus", n) /\ s.phase = "done"
    BY <1>10 DEF RecordClientStatus, s
  <2>2. n \in Sessions BY <1>0, <1>1 DEF Sessions
  <2>3. /\ n.issued = s.issued
        /\ n.phase = "reported"
        /\ n.attempts = s.attempts
        /\ n.send_state = s.send_state
        /\ n.outcome = s.outcome
        /\ n.committed = s.committed
    BY <1>0 DEF Sessions
  <2>4. Follows(s, "ClientStatus", n)
    <3> HIDE DEF n
    <3> QED BY <1>1, <1>2, <2>1, <2>2, <2>3, Ranks DEF Follows, Kinds, Bearing, Ended, Ends
  <2> QED BY <2>1, <2>4 DEF s
<1> QED BY <1>3, <1>4, <1>5, <1>6, <1>7, <1>8, <1>9, <1>10 DEF Call

(* The session and its observation after a call.                            *)
LEMMA Enqueued ==
    ASSUME TypeOK, NEW r \in Requests, NEW kind, NEW new,
           Follows(session[r], kind, new), Enqueue(r, kind, new)
    PROVE  LET s == session'[r]
               w == producer'[r].write IN
           /\ s \in Sessions /\ s.issued = session[r].issued + 1 /\ s.attempts = new.attempts
           /\ s.send_state = new.send_state /\ s.phase = new.phase /\ s.outcome = new.outcome
           /\ s.committed = new.committed
           /\ w \in Writes /\ w.request = r /\ w.kind = kind /\ w.index = s.issued
           /\ w.attempts = s.attempts /\ w.send_state = s.send_state /\ w.outcome = s.outcome
           /\ w.committed = s.committed
           /\ producer[r].pc = "idle" /\ producer'[r].pc = "reserve_item"
           /\ \A q \in Requests : q # r => session'[q] = session[q] /\ producer'[q] = producer[q]
           /\ UNCHANGED <<stateVars, channel, closed, writer, hostVars, dbVars, lost>>
<1> DEFINE w == [request |-> r, kind |-> kind, index |-> new.issued + 1,
                 attempts |-> new.attempts, send_state |-> new.send_state,
                 committed |-> new.committed, status |-> new.status, outcome |-> new.outcome]
           s == [new EXCEPT !.issued = @ + 1]
<1>1. /\ new \in Sessions /\ kind \in Kinds /\ new.issued = session[r].issued
  BY DEF Follows
<1>2. /\ new.attempts \in Nat /\ new.issued \in Nat /\ new.send_state \in SendStates
      /\ new.committed \in BOOLEAN /\ new.status \in BOOLEAN
      /\ new.outcome \in Ends \cup {"Running"}
  BY <1>1 DEF Sessions
<1>3. w \in Writes BY <1>1, <1>2 DEF Writes
<1>4. s \in Sessions BY <1>1, <1>2 DEF Sessions
<1>5. /\ s.issued = new.issued + 1 /\ s.attempts = new.attempts /\ s.send_state = new.send_state
      /\ s.phase = new.phase /\ s.outcome = new.outcome /\ s.committed = new.committed
  BY <1>1 DEF Sessions
<1>6. /\ w.request = r /\ w.kind = kind /\ w.index = new.issued + 1 /\ w.attempts = new.attempts
      /\ w.send_state = new.send_state /\ w.outcome = new.outcome /\ w.committed = new.committed
  OBVIOUS
<1>7. session' = [session EXCEPT ![r] = s] BY DEF Enqueue
<1>8. producer' = [producer EXCEPT ![r] = [pc |-> "reserve_item", write |-> w]] BY DEF Enqueue
<1>9. session'[r] = s /\ \A q \in Requests : q # r => session'[q] = session[q]
  <2> HIDE DEF s
  <2> QED BY <1>7 DEF TypeOK, SessionTypes
<1>10. /\ producer'[r].pc = "reserve_item" /\ producer'[r].write = w
       /\ \A q \in Requests : q # r => producer'[q] = producer[q]
  <2> HIDE DEF w
  <2> QED BY <1>8 DEF TypeOK, SessionTypes
<1>11. /\ producer[r].pc = "idle"
       /\ UNCHANGED <<stateVars, channel, closed, writer, hostVars, dbVars, lost>>
  BY DEF Enqueue
<1> HIDE DEF s, w
<1> QED BY <1>1, <1>3, <1>4, <1>5, <1>6, <1>9, <1>10, <1>11

(* Each group of types is kept by the steps that leave its variables alone. *)
LEMMA KeepTypes ==
    ASSUME TypeOK
    PROVE  /\ UNCHANGED <<session, producer>> => SessionTypes'
           /\ UNCHANGED <<stateVars, channel, closed, hostVars>> => QueueTypes'
           /\ UNCHANGED writer => WriterTypes'
           /\ UNCHANGED <<dbVars, lost>> => RowTypes'
BY DEF TypeOK, SessionTypes, QueueTypes, WriterTypes, RowTypes

(* The types after a call.                                                  *)
LEMMA CallTypes ==
    ASSUME TypeOK, NEW r \in Requests, Call(r) PROVE TypeOK'
<1>0. PICK kind, new : Follows(session[r], kind, new) /\ Enqueue(r, kind, new)
  BY CallFollows
<1>1. /\ session'[r] \in Sessions /\ session'[r].phase # "new"
      /\ producer'[r].write \in Writes /\ producer'[r].write.request = r
      /\ producer'[r].pc = "reserve_item"
      /\ \A q \in Requests : q # r => session'[q] = session[q] /\ producer'[q] = producer[q]
      /\ UNCHANGED <<stateVars, channel, closed, writer, hostVars, dbVars, lost>>
  <2>1. new.phase # "new" BY <1>0 DEF Follows
  <2> QED BY <1>0, <2>1, Enqueued
<1>2. session' \in [Requests -> Sessions]
  <2>1. session' = [session EXCEPT ![r] = session'[r]]
    BY <1>0, <1>1 DEF Enqueue, TypeOK, SessionTypes
  <2> QED BY <1>1, <2>1 DEF TypeOK, SessionTypes
<1>3. producer' = [producer EXCEPT ![r] = [pc |-> "reserve_item", write |-> producer'[r].write]]
  BY <1>0, <1>1 DEF Enqueue, TypeOK, SessionTypes
<1>4. SessionTypes'
  BY <1>1, <1>2, <1>3 DEF TypeOK, SessionTypes, Offering
<1> QED BY <1>1, <1>4, KeepTypes DEF TypeOK

-----------------------------------------------------------------------------
(* Types after the steps of enqueue and of the writer.                      *)

(* A producer moves on with its observation.                                *)
LEMMA Went ==
    ASSUME TypeOK, NEW r \in Requests, NEW at \in Offering \cup Returning,
           producer[r].pc # "idle", Goto(r, at), UNCHANGED session
    PROVE  /\ SessionTypes'
           /\ producer'[r].pc = at /\ producer'[r].write = producer[r].write
           /\ \A q \in Requests : q # r => producer'[q] = producer[q]
<1>1. /\ producer' = [producer EXCEPT ![r] = [producer[r] EXCEPT !.pc = at]]
      /\ producer[r] \in [pc : {"idle"} \cup Offering \cup Returning,
                          write : Writes \cup {NoWrite}]
  BY DEF Goto, TypeOK, SessionTypes
<1>2. /\ producer'[r].pc = at /\ producer'[r].write = producer[r].write
      /\ \A q \in Requests : q # r => producer'[q] = producer[q]
  BY <1>1 DEF TypeOK, SessionTypes
<1>3. producer' \in [Requests -> [pc : {"idle"} \cup Offering \cup Returning,
                                  write : Writes \cup {NoWrite}]]
  BY <1>1 DEF TypeOK, SessionTypes
<1> QED BY <1>2, <1>3 DEF TypeOK, SessionTypes

(* A producer returns to its session.                                       *)
LEMMA Returned ==
    ASSUME TypeOK, NEW r \in Requests, Return(r), UNCHANGED session
    PROVE  /\ SessionTypes'
           /\ producer'[r].pc = "idle"
           /\ \A q \in Requests : q # r => producer'[q] = producer[q]
<1>1. /\ producer'[r].pc = "idle"
      /\ \A q \in Requests : q # r => producer'[q] = producer[q]
  BY DEF Return, TypeOK, SessionTypes
<1>2. producer' \in [Requests -> [pc : {"idle"} \cup Offering \cup Returning,
                                  write : Writes \cup {NoWrite}]]
  BY DEF Return, TypeOK, SessionTypes
<1> QED BY <1>1, <1>2 DEF TypeOK, SessionTypes

(* The size of an observation is a number.                                  *)
LEMMA BytesType == ASSUME NEW w \in Writes PROVE Bytes(w) \in Nat
BY BufferAssumption DEF Bytes, Writes

(* The types after a step of enqueue.                                       *)
LEMMA EnqueueTypes ==
    ASSUME TypeOK, NEW r \in Requests, EnqueueStep(r) PROVE TypeOK'
<1>1. CASE ReserveItem(r)
  <2>1. SessionTypes' BY <1>1, Went, Returned DEF ReserveItem, Refused, Offering
  <2>2. queued_items' \in Int BY <1>1 DEF ReserveItem, TypeOK, QueueTypes
  <2>3. QueueTypes' BY <1>1, <2>2 DEF ReserveItem, TypeOK, QueueTypes
  <2>4. lost' \in BOOLEAN BY <1>1 DEF ReserveItem, Refused, TypeOK, RowTypes
  <2>5. RowTypes' BY <1>1, <2>4 DEF ReserveItem, TypeOK, RowTypes
  <2> QED BY <1>1, <2>1, <2>3, <2>5, KeepTypes DEF ReserveItem, TypeOK
<1>2. CASE ReserveBytes(r)
  <2>1. SessionTypes' BY <1>2, Went DEF ReserveBytes, Offering, Returning
  <2>2. Bytes(producer[r].write) \in Nat
    BY <1>2, BytesType DEF ReserveBytes, TypeOK, SessionTypes
  <2>3. QueueTypes'
    BY <1>2, <2>2 DEF ReserveBytes, TypeOK, QueueTypes
  <2> QED BY <1>2, <2>1, <2>3, KeepTypes DEF ReserveBytes, TypeOK
<1>3. CASE Send(r)
  <2>1. SessionTypes' BY <1>3, Went, Returned DEF Send, SendResult, Returning, TypeOK, QueueTypes
  <2>2. producer[r].write \in Writes BY <1>3 DEF Send, TypeOK, SessionTypes
  <2>3. channel' \in Seq(Writes)
    BY <1>3, <2>2 DEF Send, SendResult, TypeOK, QueueTypes
  <2>4. QueueTypes' BY <1>3, <2>3 DEF Send, TypeOK, QueueTypes
  <2> QED BY <1>3, <2>1, <2>4, KeepTypes DEF Send, TypeOK
<1>4. CASE ReturnBytes(r)
  <2>1. SessionTypes' BY <1>4, Went DEF ReturnBytes, Returning
  <2>2. Bytes(producer[r].write) \in Nat
    BY <1>4, BytesType DEF ReturnBytes, TypeOK, SessionTypes
  <2>3. QueueTypes' BY <1>4, <2>2 DEF ReturnBytes, TypeOK, QueueTypes
  <2> QED BY <1>4, <2>1, <2>3, KeepTypes DEF ReturnBytes, TypeOK
<1>5. CASE ReturnItem(r)
  <2>1. SessionTypes' BY <1>5, Returned DEF ReturnItem, Refused
  <2>2. QueueTypes' /\ RowTypes'
    BY <1>5 DEF ReturnItem, Refused, TypeOK, QueueTypes, RowTypes
  <2> QED BY <1>5, <2>1, <2>2, KeepTypes DEF ReturnItem, TypeOK
<1> QED BY <1>1, <1>2, <1>3, <1>4, <1>5 DEF EnqueueStep

(* The writer takes an observation from the channel.                        *)
LEMMA HeadTail ==
    ASSUME TypeOK, channel # <<>>
    PROVE  /\ Head(channel) \in Writes /\ Tail(channel) \in Seq(Writes)
           /\ Len(channel) > 0 /\ Len(Tail(channel)) = Len(channel) - 1
           /\ Head(channel) = channel[1]
           /\ \A i \in 1..Len(Tail(channel)) : Tail(channel)[i] = channel[i + 1]
BY DEF TypeOK, QueueTypes

(* The statement of a write.                                                *)
LEMMA StatementTypes ==
    ASSUME TypeOK, NEW w \in Writes, Statement(w), UNCHANGED <<lapsed, lost>>
    PROVE  /\ RowTypes'
           /\ rows'[w.request] = IF Matches(rows[w.request], w) THEN Updated(rows[w.request], w)
                                 ELSE rows[w.request]
           /\ \A q \in Requests : q # w.request => rows'[q] = rows[q]
<1> DEFINE r == w.request
           u == IF Matches(rows[r], w) THEN Updated(rows[r], w) ELSE rows[r]
           a == IF Matches(rows[r], w) THEN w.index ELSE last_applied[r]
<1>1. r \in Requests /\ w.index \in Nat BY DEF Writes
<1>2. rows[r] \in Rows \cup {NoRow} BY <1>1 DEF TypeOK, RowTypes
<1>3. u \in Rows \cup {NoRow} BY <1>2, UpdatedType
<1>4. a \in Nat BY <1>1 DEF TypeOK, RowTypes
<1>5. rows' = [rows EXCEPT ![r] = u] /\ last_applied' = [last_applied EXCEPT ![r] = a]
  BY DEF Statement
<1>6. rows'[r] = u /\ \A q \in Requests : q # r => rows'[q] = rows[q]
  <2> HIDE DEF u, r
  <2> QED BY <1>1, <1>5 DEF TypeOK, RowTypes
<1>7. RowTypes'
  <2> HIDE DEF u, r, a
  <2> QED BY <1>1, <1>3, <1>4, <1>5 DEF TypeOK, RowTypes
<1> QED BY <1>6, <1>7

(* A statement matches or it does not.                                      *)
LEMMA MatchesType ==
    ASSUME NEW row, NEW w \in Writes PROVE Matches(row, w) \in BOOLEAN
<1>0. w.kind \in Kinds BY DEF Writes
<1>1. CASE w.kind \in {"Create", "CreateWithAttempt"} BY <1>1 DEF Matches
<1>2. CASE w.kind = "Attempt" BY <1>2 DEF Matches
<1>3. CASE w.kind = "MarkSend" BY <1>3 DEF Matches
<1>4. CASE w.kind = "Commit" BY <1>4 DEF Matches
<1>5. CASE w.kind = "ClientStatus" BY <1>5 DEF Matches
<1>6. CASE w.kind = "Finalize" BY <1>6 DEF Matches, Running
<1>7. CASE w.kind = "OpsEvent" BY <1>7 DEF Matches, Exists
<1> QED BY <1>0, <1>1, <1>2, <1>3, <1>4, <1>5, <1>6, <1>7 DEF Kinds

(* The parts of the writer's record.                                        *)
LEMMA WriterParts ==
    ASSUME TypeOK
    PROVE  /\ writer.pc \in {"receive", "discard", "stopped"} \cup Busy
           /\ writer.queued \in Writes \cup {NoWrite} /\ writer.ok \in BOOLEAN
           /\ writer.next \in {"receive", "discard"}
           /\ writer.pc \in Busy => writer.queued \in Writes
           /\ writer.pc \notin Busy => writer.queued = NoWrite
BY DEF TypeOK, WriterTypes

(* The writer after a step that sets some of its parts.                     *)
LEMMA WriterSet ==
    ASSUME TypeOK, NEW p \in {"receive", "discard", "stopped"} \cup Busy,
           NEW queued \in Writes \cup {NoWrite}, NEW ok \in BOOLEAN,
           NEW next \in {"receive", "discard"}, queued \in Writes <=> p \in Busy,
           writer' = [writer EXCEPT !.pc = p, !.queued = queued, !.ok = ok, !.next = next]
    PROVE  /\ WriterTypes' /\ writer'.pc = p /\ writer'.queued = queued
           /\ writer'.ok = ok /\ writer'.next = next
<1>1. /\ writer'.pc = p /\ writer'.queued = queued /\ writer'.ok = ok /\ writer'.next = next
      /\ writer' \in [pc : {"receive", "discard", "stopped"} \cup Busy,
                      queued : Writes \cup {NoWrite}, ok : BOOLEAN, next : {"receive", "discard"}]
  BY DEF TypeOK, WriterTypes
<1> QED BY <1>1 DEF WriterTypes

(* The writer after Receive.                                                *)
LEMMA Taken ==
    ASSUME TypeOK, Receive
    PROVE  /\ WriterTypes' /\ writer'.queued = Head(channel)
           /\ closed /\ drain_elapsed => writer'.pc = "release_bytes" /\ writer'.next = "discard"
           /\ ~(closed /\ drain_elapsed) => writer'.pc = "persist"
<1>1. Head(channel) \in Writes BY HeadTail DEF Receive
<1>2. CASE closed /\ drain_elapsed
  <2>1. writer' = [writer EXCEPT !.pc = "release_bytes", !.queued = Head(channel),
                                 !.next = "discard"]
    BY <1>2 DEF Receive, Received
  <2> QED BY <1>1, <1>2, <2>1 DEF TypeOK, WriterTypes, Busy
<1>3. CASE ~(closed /\ drain_elapsed)
  <2>1. writer' = [writer EXCEPT !.pc = "persist", !.queued = Head(channel)]
    BY <1>3 DEF Receive, Received
  <2> QED BY <1>1, <1>3, <2>1 DEF TypeOK, WriterTypes, Busy
<1> QED BY <1>2, <1>3

(* After Persist.                                                           *)
LEMMA Persisted ==
    ASSUME TypeOK, Persist
    PROVE  /\ WriterTypes' /\ writer'.queued = writer.queued /\ writer'.pc = "answer"
           /\ writer'.ok = Matches(rows[writer.queued.request], writer.queued)
           /\ writer'.next = writer.next
<1>1. writer.queued \in Writes BY WriterParts DEF Persist, Busy
<1>2. Matches(rows[writer.queued.request], writer.queued) \in BOOLEAN BY <1>1, MatchesType
<1> DEFINE m == Matches(rows[writer.queued.request], writer.queued)
<1>3. writer' = [writer EXCEPT !.pc = "answer", !.ok = m] BY DEF Persist
<1> HIDE DEF m
<1>4. m \in BOOLEAN BY <1>2 DEF m
<1>5. WriterTypes' /\ writer'.queued = writer.queued /\ writer'.pc = "answer"
      /\ writer'.ok = m /\ writer'.next = writer.next
  BY <1>1, <1>3, <1>4 DEF TypeOK, WriterTypes, Busy
<1> QED BY <1>5 DEF m

(* After a statement that failed.                                           *)
LEMMA StoreFailed ==
    ASSUME TypeOK, StoreUnavailable
    PROVE  WriterTypes' /\ writer'.queued = writer.queued /\ writer'.pc = "answer" /\ ~writer'.ok
BY DEF StoreUnavailable, TypeOK, WriterTypes, Busy

(* After an answer.                                                         *)
LEMMA AnswerHandled ==
    ASSUME TypeOK, Answered
    PROVE  /\ WriterTypes' /\ writer'.queued = writer.queued
           /\ writer'.pc = "release_bytes" /\ writer'.next = "receive"
BY DEF Answered, TypeOK, WriterTypes, Busy

(* After it gave the bytes back.                                            *)
LEMMA ReleasedBytes ==
    ASSUME TypeOK, ReleaseBytes
    PROVE  /\ WriterTypes' /\ writer'.queued = writer.queued
           /\ writer'.pc = "release_item" /\ writer'.next = writer.next
BY DEF ReleaseBytes, TypeOK, WriterTypes, Busy

(* After it gave the item back: it holds nothing.                           *)
LEMMA ReleasedItem ==
    ASSUME TypeOK, ReleaseItem PROVE WriterTypes' /\ writer'.pc = writer.next
<1>1. writer'.queued = NoWrite /\ writer'.pc = writer.next
      /\ writer' \in [pc : {"receive", "discard", "stopped"} \cup Busy,
                      queued : Writes \cup {NoWrite}, ok : BOOLEAN, next : {"receive", "discard"}]
  BY DEF ReleaseItem, TypeOK, WriterTypes
<1>2. writer.next \notin Busy BY WriterParts DEF Busy
<1> QED BY <1>1, <1>2, Absent DEF WriterTypes

(* After a drain that timed out.                                            *)
LEMMA TimedOut ==
    ASSUME TypeOK, PersistTimedOut
    PROVE  /\ WriterTypes' /\ writer'.queued = writer.queued
           /\ writer'.pc = "release_bytes" /\ writer'.next = "discard"
BY DEF PersistTimedOut, TypeOK, WriterTypes, Busy

(* After an observation it dropped.                                         *)
LEMMA Discarded ==
    ASSUME TypeOK, Discard
    PROVE  /\ WriterTypes' /\ writer'.queued = Head(channel)
           /\ writer'.pc = "release_bytes" /\ writer'.next = "discard"
<1>1. Head(channel) \in Writes BY HeadTail DEF Discard
<1> QED BY <1>1 DEF Discard, TypeOK, WriterTypes, Busy

(* After its end.                                                           *)
LEMMA Stopped ==
    ASSUME TypeOK, Drained \/ Stop
    PROVE  WriterTypes' /\ writer'.pc \in {"discard", "stopped"}
BY DEF Drained, Stop, TypeOK, WriterTypes, Busy

(* After an abort, with or without an observation in hand.                  *)
LEMMA Aborted ==
    ASSUME TypeOK, Abort
    PROVE  /\ WriterTypes'
           /\ \/ writer.pc \notin Busy /\ writer'.pc = "discard"
              \/ /\ writer.pc \in Busy /\ writer'.queued = writer.queued
                 /\ writer'.pc = "release_bytes" /\ writer'.next = "discard"
<1>1. CASE EmptyHanded
  <2>1. writer.pc \notin Busy BY <1>1, WriterParts, Absent DEF EmptyHanded
  <2> QED BY <1>1, <2>1 DEF Abort, TypeOK, WriterTypes, Busy
<1>2. CASE ~EmptyHanded
  <2>1. writer.pc \in Busy BY <1>2, WriterParts DEF EmptyHanded
  <2> QED BY <1>2, <2>1 DEF Abort, TypeOK, WriterTypes, Busy
<1> QED BY <1>1, <1>2

(* The types after a step of the writer or of the store.                    *)
LEMMA WriterStepTypes ==
    ASSUME TypeOK, WriterStep \/ StoreUnavailable PROVE TypeOK'
<1>1. CASE Receive
  <2>1. QueueTypes' BY <1>1, HeadTail DEF Receive, TypeOK, QueueTypes
  <2> QED BY <1>1, <2>1, Taken, KeepTypes DEF Receive, TypeOK
<1>2. CASE Persist
  <2>1. RowTypes'
    BY <1>2, WriterParts, StatementTypes DEF Persist, Busy
  <2> QED BY <1>2, <2>1, Persisted, KeepTypes DEF Persist, TypeOK
<1>3. CASE Answered
  <2>1. RowTypes' BY <1>3 DEF Answered, TypeOK, RowTypes
  <2> QED BY <1>3, <2>1, AnswerHandled, KeepTypes DEF Answered, TypeOK
<1>4. CASE ReleaseBytes
  <2>1. Bytes(writer.queued) \in Nat BY <1>4, WriterParts, BytesType DEF ReleaseBytes, Busy
  <2>2. QueueTypes' BY <1>4, <2>1 DEF ReleaseBytes, TypeOK, QueueTypes
  <2> QED BY <1>4, <2>2, ReleasedBytes, KeepTypes DEF ReleaseBytes, TypeOK
<1>5. CASE ReleaseItem
  <2>1. QueueTypes' BY <1>5 DEF ReleaseItem, TypeOK, QueueTypes
  <2> QED BY <1>5, <2>1, ReleasedItem, KeepTypes DEF ReleaseItem, TypeOK
<1>6. CASE CloseReceiver
  <2>1. QueueTypes' BY <1>6 DEF CloseReceiver, TypeOK, QueueTypes
  <2> QED BY <1>6, <2>1, KeepTypes DEF CloseReceiver, TypeOK
<1>7. CASE Drained
  BY <1>7, Stopped, KeepTypes DEF Drained, TypeOK
<1>8. CASE PersistTimedOut
  BY <1>8, TimedOut, KeepTypes DEF PersistTimedOut, TypeOK
<1>9. CASE Discard
  <2>1. QueueTypes' BY <1>9, HeadTail DEF Discard, TypeOK, QueueTypes
  <2> QED BY <1>9, <2>1, Discarded, KeepTypes DEF Discard, TypeOK
<1>10. CASE Stop
  BY <1>10, Stopped, KeepTypes DEF Stop, TypeOK
<1>11. CASE StoreUnavailable
  BY <1>11, StoreFailed, KeepTypes DEF StoreUnavailable, TypeOK
<1> QED BY <1>1, <1>2, <1>3, <1>4, <1>5, <1>6, <1>7, <1>8, <1>9, <1>10, <1>11 DEF WriterStep

(* What recovery makes of a row: the same row, or an interrupted one that   *)
(* keeps everything but the outcome.                                        *)
LEMMA RecoveredRows ==
    ASSUME TypeOK, RecoverExpired
    PROVE  /\ RowTypes'
           /\ \A r \in Requests :
                \/ rows'[r] = rows[r]
                \/ /\ Running(rows[r]) /\ rows[r] \in Rows /\ rows'[r] \in Rows
                   /\ rows'[r] = [rows[r] EXCEPT !.outcome = "Interrupted"]
<1>0. ~Running(NoRow) BY DEF Running, NoRow
<1>1. \A r \in Requests : Running(rows[r]) => rows[r] \in Rows
  BY <1>0 DEF TypeOK, RowTypes
<1>2. \A row \in Rows : Recovered(row) \in Rows
  BY DEF Recovered, Rows, Ends
<1>3. \A r \in Requests : rows'[r] = IF r \in lapsed /\ Running(rows[r])
                                     THEN Recovered(rows[r]) ELSE rows[r]
  BY DEF RecoverExpired
<1>4. RowTypes'
  <2>1. \A r \in Requests : rows'[r] \in Rows \cup {NoRow}
    BY <1>1, <1>2, <1>3 DEF TypeOK, RowTypes
  <2>2. rows' \in [Requests -> Rows \cup {NoRow}] BY <2>1 DEF RecoverExpired
  <2> QED BY <2>2 DEF RecoverExpired, TypeOK, RowTypes
<1> QED BY <1>1, <1>2, <1>3, <1>4 DEF Recovered

(* The types after a step of the host, of time or of recovery.              *)
LEMMA HostTypes ==
    ASSUME TypeOK, \/ ShutDown \/ DrainTimeElapses \/ Abort \/ RecoverExpired
                   \/ \E r \in Requests : DeadlinePasses(r)
    PROVE  TypeOK'
<1>1. CASE ShutDown
  <2>1. QueueTypes' BY <1>1 DEF ShutDown, TypeOK, QueueTypes
  <2> QED BY <1>1, <2>1, KeepTypes DEF ShutDown, TypeOK
<1>2. CASE DrainTimeElapses
  <2>1. QueueTypes' BY <1>2 DEF DrainTimeElapses, TypeOK, QueueTypes
  <2> QED BY <1>2, <2>1, KeepTypes DEF DrainTimeElapses, TypeOK
<1>3. CASE Abort
  <2>1. QueueTypes' BY <1>3 DEF Abort, TypeOK, QueueTypes
  <2> QED BY <1>3, <2>1, Aborted, KeepTypes DEF Abort, TypeOK
<1>4. CASE RecoverExpired
  BY <1>4, RecoveredRows, KeepTypes DEF RecoverExpired, TypeOK
<1>5. CASE \E r \in Requests : DeadlinePasses(r)
  <2>1. RowTypes' BY <1>5 DEF DeadlinePasses, TypeOK, RowTypes
  <2> QED BY <1>5, <2>1, KeepTypes DEF DeadlinePasses, TypeOK
<1> QED BY <1>1, <1>2, <1>3, <1>4, <1>5

(* The types of the initial state.                                          *)
LEMMA InitTypes == Init => TypeOK
<1> SUFFICES ASSUME Init PROVE TypeOK OBVIOUS
<1>1. \A r \in Requests : session[r] \in Sessions /\ session[r].attempts = 0
  BY DEF Init, Sessions, SendStates
<1>2. SessionTypes
  <2>1. session \in [Requests -> Sessions] BY <1>1 DEF Init
  <2> QED BY <1>1, <2>1 DEF Init, SessionTypes
<1>3. QueueTypes
  <2>1. channel \in Seq(Writes) BY DEF Init
  <2>2. queued_items \in Int /\ queued_bytes \in Int BY DEF Init
  <2>3. closed \in BOOLEAN /\ drain_elapsed \in BOOLEAN BY DEF Init
  <2> QED BY <2>1, <2>2, <2>3 DEF QueueTypes
<1>4. WriterTypes
  <2>1. /\ writer.pc = "receive" /\ writer.queued = NoWrite
        /\ writer \in [pc : {"receive", "discard", "stopped"} \cup Busy,
                       queued : Writes \cup {NoWrite}, ok : BOOLEAN, next : {"receive", "discard"}]
    BY DEF Init
  <2> QED BY <2>1, Absent DEF WriterTypes, Busy
<1>5. RowTypes BY DEF Init, RowTypes
<1> QED BY <1>2, <1>3, <1>4, <1>5 DEF TypeOK

(* Every step keeps the types.                                              *)
LEMMA StepTypes == ASSUME TypeOK, [Next]_vars PROVE TypeOK'
<1>1. CASE UNCHANGED vars BY <1>1, KeepTypes DEF vars, TypeOK
<1> QED BY <1>1, CallTypes, EnqueueTypes, WriterStepTypes, HostTypes DEF Next

(* Every variable of the buffer keeps its type: in particular a producer    *)
(* and the writer hold an observation exactly while they are at a step that *)
(* needs one.                                                               *)
THEOREM TypeCorrect == Spec => []TypeOK
BY InitTypes, StepTypes, PTL DEF Spec

-----------------------------------------------------------------------------
(* The order of the observations.                                           *)

(* The observations of a request are held in the order of its calls: those  *)
(* in the channel one after the other, the writer's before them, and that   *)
(* of the call under way, the last one issued, behind them.                 *)
OrderInv ==
    /\ \A i, j \in 1..Len(channel) : i < j /\ channel[i].request = channel[j].request
         => channel[i].index < channel[j].index
    /\ \A i \in 1..Len(channel) : channel[i].index <= session[channel[i].request].issued
    /\ writer.pc \in Busy =>
         /\ writer.queued.index <= session[writer.queued.request].issued
         /\ \A i \in 1..Len(channel) : channel[i].request = writer.queued.request
              => writer.queued.index < channel[i].index
    /\ \A r \in Requests : producer[r].pc # "idle" =>
         /\ producer[r].write.index = session[r].issued
         /\ \A i \in 1..Len(channel) : channel[i].request = r
              => channel[i].index < session[r].issued
         /\ writer.pc \in Busy /\ writer.queued.request = r
              => writer.queued.index < session[r].issued

(* A step that takes no observation: those held are moved on or let go.     *)
Onward ==
    /\ UNCHANGED <<session, channel>>
    /\ \A r \in Requests : producer'[r].pc # "idle" =>
         producer[r].pc # "idle" /\ producer'[r].write = producer[r].write
    /\ writer'.pc \in Busy => writer.pc \in Busy /\ writer'.queued = writer.queued

(* The fields of an observation.                                            *)
LEMMA WriteParts ==
    ASSUME NEW w \in Writes
    PROVE  /\ w.request \in Requests /\ w.kind \in Kinds /\ w.index \in Nat /\ w.attempts \in Nat
           /\ w.send_state \in SendStates /\ w.outcome \in Ends \cup {"Running"}
           /\ w.committed \in BOOLEAN
BY DEF Writes

(* The fields of a session.                                                 *)
LEMMA SessionParts ==
    ASSUME TypeOK, NEW r \in Requests
    PROVE  /\ session[r] \in Sessions /\ session[r].issued \in Nat /\ session[r].attempts \in Nat
           /\ session[r].send_state \in SendStates
           /\ session[r].outcome \in Ends \cup {"Running"}
           /\ session[r].committed \in BOOLEAN
           /\ session[r].phase \in {"new", "created", "running", "done", "reported"}
BY DEF TypeOK, SessionTypes, Sessions

(* What the channel holds.                                                  *)
LEMMA ChannelParts ==
    ASSUME TypeOK
    PROVE  Len(channel) \in Nat /\ \A i \in 1..Len(channel) : channel[i] \in Writes
BY DEF TypeOK, QueueTypes

(* What a producer offers.                                                  *)
LEMMA ProducerParts ==
    ASSUME TypeOK, NEW r \in Requests
    PROVE  /\ producer[r].pc \in {"idle"} \cup Offering \cup Returning
           /\ producer[r].pc # "idle" =>
                producer[r].write \in Writes /\ producer[r].write.request = r
BY DEF TypeOK, SessionTypes

(* Moving on keeps the order.                                               *)
LEMMA OnwardOrder == ASSUME OrderInv, Onward PROVE OrderInv'
BY DEF OrderInv, Onward

(* A call keeps the order: its observation is the last one issued.          *)
LEMMA CallOrder ==
    ASSUME TypeOK, OrderInv, NEW r \in Requests, Call(r) PROVE OrderInv'
<1>0. PICK kind, new : Follows(session[r], kind, new) /\ Enqueue(r, kind, new)
  BY CallFollows
<1>1. /\ session'[r].issued = session[r].issued + 1
      /\ producer'[r].write.index = session'[r].issued
      /\ \A q \in Requests : q # r => session'[q] = session[q] /\ producer'[q] = producer[q]
      /\ UNCHANGED <<channel, writer>>
  BY <1>0, Enqueued
<1>2. \A q \in Requests : session[q].issued \in Nat BY SessionParts
<1>3. \A i \in 1..Len(channel) : channel[i].request \in Requests /\ channel[i].index \in Nat
  BY ChannelParts, WriteParts
<1>4. writer.pc \in Busy => writer.queued.request \in Requests /\ writer.queued.index \in Nat
  BY WriterParts, WriteParts
<1>5. \A i \in 1..Len(channel) : channel[i].index <= session'[channel[i].request].issued
  BY <1>1, <1>2, <1>3 DEF OrderInv
<1>6. writer.pc \in Busy => writer.queued.index <= session'[writer.queued.request].issued
  BY <1>1, <1>2, <1>4 DEF OrderInv
<1>7. ASSUME NEW q \in Requests, producer'[q].pc # "idle"
      PROVE  /\ producer'[q].write.index = session'[q].issued
             /\ \A i \in 1..Len(channel) : channel[i].request = q
                  => channel[i].index < session'[q].issued
             /\ writer.pc \in Busy /\ writer.queued.request = q
                  => writer.queued.index < session'[q].issued
  <2>1. CASE q = r
    <3>1. \A i \in 1..Len(channel) : channel[i].request = q
            => channel[i].index < session'[q].issued
      BY <1>1, <1>2, <1>3, <2>1 DEF OrderInv
    <3>2. writer.pc \in Busy /\ writer.queued.request = q
            => writer.queued.index < session'[q].issued
      BY <1>1, <1>2, <1>4, <2>1 DEF OrderInv
    <3> QED BY <1>1, <2>1, <3>1, <3>2
  <2>2. CASE q # r BY <1>1, <1>7, <2>2 DEF OrderInv
  <2> QED BY <2>1, <2>2
<1> QED BY <1>1, <1>5, <1>6, <1>7 DEF OrderInv

(* An observation that is sent goes behind those of its request.            *)
LEMMA SendOrder ==
    ASSUME TypeOK, OrderInv, NEW r \in Requests, Send(r), ~closed PROVE OrderInv'
<1> DEFINE w == producer[r].write
           n == Len(channel)
<1>1. /\ channel' = Append(channel, w) /\ Return(r) /\ UNCHANGED <<session, writer>>
      /\ producer[r].pc # "idle"
  BY DEF Send, SendResult
<1>2. /\ producer'[r].pc = "idle"
      /\ \A q \in Requests : q # r => producer'[q] = producer[q]
  BY <1>1, Returned
<1>3. w \in Writes /\ w.request = r /\ w.index = session[r].issued
  BY <1>1, ProducerParts DEF OrderInv
<1>4. /\ Len(channel') = n + 1 /\ n \in Nat /\ channel'[n + 1] = w
      /\ \A i \in 1..n : channel'[i] = channel[i]
  BY <1>1, <1>3 DEF TypeOK, QueueTypes
<1>5. \A i \in 1..n : channel[i].request = r => channel[i].index < session[r].issued
  BY <1>1 DEF OrderInv
<1>6. writer.pc \in Busy /\ writer.queued.request = r => writer.queued.index < session[r].issued
  BY <1>1 DEF OrderInv
<1> HIDE DEF w, n
<1>7. \A i \in 1..(n + 1) : i \in 1..n \/ i = n + 1 BY <1>4
<1>8. session[r].issued \in Nat BY SessionParts
<1>9. \A i, j \in 1..Len(channel') : i < j /\ channel'[i].request = channel'[j].request
         => channel'[i].index < channel'[j].index
  <2> SUFFICES ASSUME NEW i \in 1..(n + 1), NEW j \in 1..(n + 1), i < j,
                      channel'[i].request = channel'[j].request
               PROVE  channel'[i].index < channel'[j].index
    BY <1>4
  <2>1. i \in 1..n BY <1>4
  <2>2. CASE j \in 1..n BY <1>4, <2>1, <2>2 DEF OrderInv, n
  <2>3. CASE j = n + 1 BY <1>3, <1>4, <1>5, <2>1, <2>3
  <2> QED BY <1>7, <2>2, <2>3
<1>10. \A i \in 1..Len(channel') : channel'[i].index <= session[channel'[i].request].issued
  BY <1>3, <1>4, <1>7, <1>8 DEF OrderInv, n
<1>11. writer.pc \in Busy => \A i \in 1..Len(channel') : channel'[i].request = writer.queued.request
              => writer.queued.index < channel'[i].index
  BY <1>3, <1>4, <1>6, <1>7 DEF OrderInv, n
<1>12. \A q \in Requests : producer'[q].pc # "idle" =>
         /\ producer'[q].write.index = session[q].issued
         /\ \A i \in 1..Len(channel') : channel'[i].request = q
              => channel'[i].index < session[q].issued
         /\ writer.pc \in Busy /\ writer.queued.request = q
              => writer.queued.index < session[q].issued
  BY <1>2, <1>3, <1>4, <1>7 DEF OrderInv, n
<1>13. writer.pc \in Busy => writer.queued.index <= session[writer.queued.request].issued
  BY DEF OrderInv
<1> QED BY <1>1, <1>9, <1>10, <1>11, <1>12, <1>13 DEF OrderInv

(* The writer takes the first observation of the channel.                   *)
LEMMA TakeOrder ==
    ASSUME TypeOK, OrderInv, channel # <<>>, channel' = Tail(channel),
           UNCHANGED <<session, producer>>, writer'.queued = Head(channel)
    PROVE  OrderInv'
<1> DEFINE n == Len(channel)
<1>1. /\ n \in Nat /\ n > 0 /\ Len(channel') = n - 1 /\ writer'.queued = channel[1]
      /\ \A i \in 1..(n - 1) : channel'[i] = channel[i + 1]
  BY HeadTail, ChannelParts
<1>2. \A i \in 1..(n - 1) : i + 1 \in 1..n /\ 1 < i + 1 BY <1>1
<1>3. 1 \in 1..n BY <1>1
<1>4. \A i, j \in 1..(n - 1) : i < j => i + 1 < j + 1 BY <1>1
<1> HIDE DEF n
<1>5. \A i, j \in 1..Len(channel') : i < j /\ channel'[i].request = channel'[j].request
         => channel'[i].index < channel'[j].index
  BY <1>1, <1>2, <1>4 DEF OrderInv, n
<1>6. \A i \in 1..Len(channel') : channel'[i].index <= session[channel'[i].request].issued
  BY <1>1, <1>2 DEF OrderInv, n
<1>7. /\ writer'.queued.index <= session[writer'.queued.request].issued
      /\ \A i \in 1..Len(channel') : channel'[i].request = writer'.queued.request
              => writer'.queued.index < channel'[i].index
  BY <1>1, <1>2, <1>3 DEF OrderInv, n
<1>8. \A q \in Requests : producer[q].pc # "idle" =>
         /\ producer[q].write.index = session[q].issued
         /\ \A i \in 1..Len(channel') : channel'[i].request = q
              => channel'[i].index < session[q].issued
         /\ writer'.queued.request = q => writer'.queued.index < session[q].issued
  BY <1>1, <1>2, <1>3 DEF OrderInv, n
<1> QED BY <1>5, <1>6, <1>7, <1>8 DEF OrderInv

-----------------------------------------------------------------------------
(* The observations that may still become a write.                          *)

Live ==
    {w \in Writes : \/ \E r \in Requests : producer[r].pc \in Offering /\ w = producer[r].write
                    \/ \E i \in 1..Len(channel) : w = channel[i]
                    \/ writer.pc = "persist" /\ w = writer.queued}

(* Nothing has been lost, and nothing in hand is about to be.               *)
Alive ==
    /\ ~lost /\ writer.pc \notin {"discard", "stopped"}
    /\ writer.pc \in {"release_bytes", "release_item"} => writer.next = "receive"
    /\ writer.pc = "answer" => writer.ok

(* The same row, or the interrupted one recovery makes of it.               *)
SameRows ==
    \A r \in Requests :
        \/ rows'[r] = rows[r]
        \/ /\ Running(rows[r]) /\ rows[r] \in Rows /\ rows'[r] \in Rows
           /\ rows'[r] = [rows[r] EXCEPT !.outcome = "Interrupted"]

(* A step of neither a session nor a statement.  While nothing is lost, an  *)
(* observation leaves only with its producer, which is to report that.      *)
Quiet ==
    /\ UNCHANGED session /\ Live' \subseteq Live /\ SameRows
    /\ lost => lost'
    /\ Alive' => /\ Alive
                 /\ \A v \in Live : v \in Live' \/ \E r \in Requests :
                      /\ v = producer[r].write /\ producer[r].pc # "idle"
                      /\ producer'[r].pc \in Returning
                 /\ \A r \in Requests :
                      producer'[r].pc \notin Returning => producer[r].pc \notin Returning

(* Nobody takes an observation that was not offered.                        *)
LEMMA LiveShrinks ==
    ASSUME UNCHANGED channel,
           \A r \in Requests : producer'[r].pc \in Offering =>
               producer[r].pc \in Offering /\ producer'[r].write = producer[r].write,
           writer'.pc = "persist" => writer.pc = "persist" /\ writer'.queued = writer.queued
    PROVE  Live' \subseteq Live
BY DEF Live

(* The other direction, but for the producers that were refused.            *)
LEMMA LiveStays ==
    ASSUME UNCHANGED channel,
           \A r \in Requests : producer[r].pc \in Offering =>
               \/ producer'[r].pc \in Offering /\ producer'[r].write = producer[r].write
               \/ producer'[r].pc \in Returning,
           writer.pc = "persist" => writer'.pc = "persist" /\ writer'.queued = writer.queued
    PROVE  \A v \in Live : v \in Live' \/ \E r \in Requests :
               /\ v = producer[r].write /\ producer[r].pc # "idle"
               /\ producer'[r].pc \in Returning
BY DEF Live, Offering

(* The producers' steps are disjoint.                                       *)
LEMMA StepNames ==
    /\ Offering \cap Returning = {} /\ "idle" \notin Offering \cup Returning
    /\ {"reserve_item", "reserve_bytes", "send"} \subseteq Offering
    /\ {"return_bytes", "return_item"} \subseteq Returning
BY DEF Offering, Returning

(* A producer moves on: towards the channel, or to report a refusal.        *)
LEMMA GoesQuietly ==
    ASSUME TypeOK, NEW r \in Requests, NEW at \in Offering \cup Returning, Goto(r, at),
           producer[r].pc # "idle",
           at \in Offering => producer[r].pc \in Offering,
           at \notin Returning => producer[r].pc \notin Returning,
           UNCHANGED <<session, channel, writer, rows, lost>>
    PROVE  Onward /\ Quiet
<1>1. /\ producer'[r].pc = at /\ producer'[r].write = producer[r].write
      /\ \A q \in Requests : q # r => producer'[q] = producer[q]
  BY Went
<1>2. Onward BY <1>1 DEF Onward
<1>3. Live' \subseteq Live
  <2>1. \A q \in Requests : producer'[q].pc \in Offering =>
               producer[q].pc \in Offering /\ producer'[q].write = producer[q].write
    BY <1>1
  <2> QED BY <2>1, LiveShrinks
<1>4. \A v \in Live : v \in Live' \/ \E q \in Requests :
         v = producer[q].write /\ producer[q].pc # "idle" /\ producer'[q].pc \in Returning
  <2>1. \A q \in Requests : producer[q].pc \in Offering =>
               \/ producer'[q].pc \in Offering /\ producer'[q].write = producer[q].write
               \/ producer'[q].pc \in Returning
    BY <1>1
  <2> QED BY <2>1, LiveStays
<1>5. Alive' = Alive BY DEF Alive
<1>6. \A q \in Requests : producer'[q].pc \notin Returning => producer[q].pc \notin Returning
  BY <1>1
<1> QED BY <1>2, <1>3, <1>4, <1>5, <1>6 DEF Quiet, SameRows

(* A refused observation: its producer reports it.                          *)
LEMMA RefusedQuietly ==
    ASSUME TypeOK, NEW r \in Requests, Refused(r), UNCHANGED <<session, channel, writer, rows>>
    PROVE  Onward /\ Quiet
<1>1. /\ producer'[r].pc = "idle" /\ lost'
      /\ \A q \in Requests : q # r => producer'[q] = producer[q]
  BY Returned DEF Refused
<1>2. Onward BY <1>1 DEF Onward
<1>3. Live' \subseteq Live
  <2>1. \A q \in Requests : producer'[q].pc \in Offering =>
               producer[q].pc \in Offering /\ producer'[q].write = producer[q].write
    BY <1>1, StepNames
  <2> QED BY <2>1, LiveShrinks
<1>4. ~Alive' BY <1>1 DEF Alive
<1> QED BY <1>1, <1>2, <1>3, <1>4 DEF Quiet, SameRows

(* A sent observation is in the channel instead of in its producer's hand.  *)
LEMMA SendQuietly ==
    ASSUME TypeOK, NEW r \in Requests, Send(r), ~closed PROVE Quiet
<1> DEFINE w == producer[r].write
           n == Len(channel)
<1>1. /\ channel' = Append(channel, w) /\ Return(r)
      /\ UNCHANGED <<session, writer, rows, lost>> /\ producer[r].pc = "send"
  BY DEF Send, SendResult
<1>2. /\ producer'[r].pc = "idle"
      /\ \A q \in Requests : q # r => producer'[q] = producer[q]
  BY <1>1, Returned
<1>3. w \in Writes BY <1>1, ProducerParts
<1>4. /\ Len(channel') = n + 1 /\ n \in Nat /\ channel'[n + 1] = w
      /\ \A i \in 1..n : channel'[i] = channel[i]
  BY <1>1, <1>3 DEF TypeOK, QueueTypes
<1>5. \A i \in 1..(n + 1) : i \in 1..n \/ i = n + 1 BY <1>4
<1>6. \A i \in 1..n : i \in 1..(n + 1) BY <1>4
<1>7. n + 1 \in 1..(n + 1) BY <1>4
<1>8. Live' = Live
  <2>1. ASSUME NEW v \in Live' PROVE v \in Live
    <3>1. CASE \E q \in Requests : producer'[q].pc \in Offering /\ v = producer'[q].write
      BY <1>2, <2>1, <3>1, StepNames DEF Live
    <3>2. CASE \E i \in 1..Len(channel') : v = channel'[i]
      BY <1>1, <1>3, <1>4, <1>5, <3>2, <2>1, StepNames DEF Live
    <3>3. CASE writer'.pc = "persist" /\ v = writer'.queued
      BY <1>1, <2>1, <3>3 DEF Live
    <3> QED BY <2>1, <3>1, <3>2, <3>3 DEF Live
  <2>2. ASSUME NEW v \in Live PROVE v \in Live'
    <3>1. CASE \E q \in Requests : producer[q].pc \in Offering /\ v = producer[q].write
      <4>1. PICK q \in Requests : producer[q].pc \in Offering /\ v = producer[q].write BY <3>1
      <4>2. CASE q = r BY <1>4, <1>7, <2>2, <4>1, <4>2 DEF Live
      <4>3. CASE q # r BY <1>2, <2>2, <4>1, <4>3 DEF Live
      <4> QED BY <4>2, <4>3
    <3>2. CASE \E i \in 1..Len(channel) : v = channel[i]
      BY <1>4, <1>6, <2>2, <3>2 DEF Live
    <3>3. CASE writer.pc = "persist" /\ v = writer.queued
      BY <1>1, <2>2, <3>3 DEF Live
    <3> QED BY <2>2, <3>1, <3>2, <3>3 DEF Live
  <2> QED BY <2>1, <2>2
<1>9. Alive' = Alive BY <1>1 DEF Alive
<1>10. \A q \in Requests : producer'[q].pc \notin Returning => producer[q].pc \notin Returning
  BY <1>1, <1>2, StepNames
<1> QED BY <1>1, <1>8, <1>9, <1>10 DEF Quiet, SameRows

(* The steps of enqueue move their observation on, or let it go.            *)
LEMMA EnqueueQuietly ==
    ASSUME TypeOK, OrderInv, NEW r \in Requests, EnqueueStep(r)
    PROVE  OrderInv' /\ Quiet
<1>1. CASE ReserveItem(r)
  <2>1. Onward /\ Quiet
    <3>1. CASE Goto(r, "reserve_bytes") /\ UNCHANGED lost
      BY <1>1, <3>1, GoesQuietly, StepNames DEF ReserveItem
    <3>2. CASE Refused(r) BY <1>1, <3>2, RefusedQuietly DEF ReserveItem
    <3> QED BY <1>1, <3>1, <3>2 DEF ReserveItem
  <2> QED BY <2>1, OnwardOrder
<1>2. CASE ReserveBytes(r)
  <2>1. PICK at \in {"send", "return_item"} : Goto(r, at) BY <1>2 DEF ReserveBytes
  <2>2. at \in Offering \cup Returning /\ (at \in Returning => at \notin Offering)
    BY <2>1, StepNames
  <2>3. Onward /\ Quiet
    BY <1>2, <2>1, <2>2, GoesQuietly, StepNames DEF ReserveBytes
  <2> QED BY <2>3, OnwardOrder
<1>3. CASE Send(r)
  <2>1. CASE closed
    <3>1. Onward /\ Quiet
      BY <1>3, <2>1, GoesQuietly, StepNames DEF Send, SendResult
    <3> QED BY <3>1, OnwardOrder
  <2>2. CASE ~closed BY <1>3, <2>2, SendOrder, SendQuietly
  <2> QED BY <2>1, <2>2
<1>4. CASE ReturnBytes(r)
  <2>1. Onward /\ Quiet BY <1>4, GoesQuietly, StepNames DEF ReturnBytes
  <2> QED BY <2>1, OnwardOrder
<1>5. CASE ReturnItem(r)
  <2>1. Onward /\ Quiet BY <1>5, RefusedQuietly DEF ReturnItem
  <2> QED BY <2>1, OnwardOrder
<1> QED BY <1>1, <1>2, <1>3, <1>4, <1>5 DEF EnqueueStep

(* A step of the writer that starts no statement and takes nothing.         *)
LEMMA WriterQuietly ==
    ASSUME TypeOK, UNCHANGED <<session, producer, channel>>, SameRows, lost => lost',
           writer'.pc # "persist",
           writer'.pc \in Busy => writer.pc \in Busy /\ writer'.queued = writer.queued,
           Alive' => Alive /\ writer.pc # "persist"
    PROVE  Onward /\ Quiet
<1>1. Onward BY DEF Onward
<1>2. Live' \subseteq Live BY LiveShrinks
<1>3. writer.pc # "persist" => \A v \in Live : v \in Live' BY DEF Live
<1> QED BY <1>1, <1>2, <1>3 DEF Quiet

(* The writer takes an observation in order to write or to drop it.         *)
LEMMA TakeQuietly ==
    ASSUME TypeOK, channel # <<>>, channel' = Tail(channel),
           UNCHANGED <<session, producer, rows, lost>>, writer'.queued = Head(channel),
           writer.pc # "persist", Alive' => Alive /\ writer'.pc = "persist"
    PROVE  Quiet
<1> DEFINE n == Len(channel)
<1>1. /\ n \in Nat /\ n > 0 /\ Len(channel') = n - 1 /\ writer'.queued = channel[1]
      /\ \A i \in 1..(n - 1) : channel'[i] = channel[i + 1]
  BY HeadTail, ChannelParts
<1>2. /\ \A i \in 1..(n - 1) : i + 1 \in 1..n
      /\ \A i \in 1..n : i = 1 \/ (i - 1 \in 1..(n - 1) /\ (i - 1) + 1 = i)
      /\ 1 \in 1..n
  BY <1>1
<1>3. Live' \subseteq Live
  <2>1. ASSUME NEW v \in Live' PROVE v \in Live
    <3>1. CASE \E q \in Requests : producer'[q].pc \in Offering /\ v = producer'[q].write
      BY <2>1, <3>1 DEF Live
    <3>2. CASE \E i \in 1..Len(channel') : v = channel'[i]
      BY <1>1, <1>2, <2>1, <3>2 DEF Live
    <3>3. CASE writer'.pc = "persist" /\ v = writer'.queued
      BY <1>1, <1>2, <2>1, <3>3 DEF Live
    <3> QED BY <2>1, <3>1, <3>2, <3>3 DEF Live
  <2> QED BY <2>1
<1>4. writer'.pc = "persist" => \A v \in Live : v \in Live'
  <2> SUFFICES ASSUME writer'.pc = "persist", NEW v \in Live PROVE v \in Live'
    OBVIOUS
  <2>1. CASE \E q \in Requests : producer[q].pc \in Offering /\ v = producer[q].write
    BY <2>1 DEF Live
  <2>2. CASE \E i \in 1..Len(channel) : v = channel[i]
    <3>1. PICK i \in 1..n : v = channel[i] BY <2>2
    <3>2. CASE i = 1 BY <1>1, <3>1, <3>2 DEF Live
    <3>3. CASE i # 1
      <4>1. i - 1 \in 1..Len(channel') /\ channel'[i - 1] = v BY <1>1, <1>2, <3>1, <3>3
      <4> QED BY <4>1 DEF Live
    <3> QED BY <3>2, <3>3
  <2> QED BY <2>1, <2>2 DEF Live
<1> QED BY <1>3, <1>4 DEF Quiet, SameRows

(* The steps of the writer other than a statement, and a failing store.     *)
LEMMA WriterStepQuietly ==
    ASSUME TypeOK, OrderInv, (WriterStep /\ ~Persist) \/ StoreUnavailable
    PROVE  OrderInv' /\ Quiet
<1>1. CASE Receive
  <2>1. writer'.pc \in {"persist", "release_bytes"} /\ writer'.queued = Head(channel)
        /\ (writer'.pc = "release_bytes" => writer'.next = "discard")
    BY <1>1, Taken
  <2>2. Alive' => Alive /\ writer'.pc = "persist"
    BY <1>1, <2>1 DEF Receive, Alive
  <2> QED BY <1>1, <2>1, <2>2, TakeOrder, TakeQuietly DEF Receive
<1>2. CASE Answered
  <2>1. Alive' => Alive BY <1>2 DEF Answered, Alive
  <2>2. Onward /\ Quiet
    BY <1>2, <2>1, AnswerHandled, WriterQuietly DEF Answered, SameRows, Busy
  <2> QED BY <2>2, OnwardOrder
<1>3. CASE ReleaseBytes
  <2>1. Alive' => Alive BY <1>3, ReleasedBytes DEF ReleaseBytes, Alive
  <2>2. Onward /\ Quiet
    BY <1>3, <2>1, ReleasedBytes, WriterQuietly DEF ReleaseBytes, SameRows, Busy
  <2> QED BY <2>2, OnwardOrder
<1>4. CASE ReleaseItem
  <2>1. Alive' => Alive BY <1>4, ReleasedItem, WriterParts DEF ReleaseItem, Alive
  <2>2. writer.next \notin Busy BY WriterParts DEF Busy
  <2>3. Onward /\ Quiet
    BY <1>4, <2>1, <2>2, ReleasedItem, WriterQuietly DEF ReleaseItem, SameRows, Busy
  <2> QED BY <2>3, OnwardOrder
<1>5. CASE CloseReceiver
  <2>1. Onward /\ Quiet
    BY <1>5, WriterQuietly DEF CloseReceiver, SameRows, Alive
  <2> QED BY <2>1, OnwardOrder
<1>6. CASE Drained \/ Stop
  <2>1. ~Alive' BY <1>6, Stopped DEF Alive
  <2>2. Onward /\ Quiet
    BY <1>6, <2>1, Stopped, WriterQuietly DEF Drained, Stop, SameRows, Busy
  <2> QED BY <2>2, OnwardOrder
<1>7. CASE PersistTimedOut
  <2>1. ~Alive' BY <1>7, TimedOut DEF Alive
  <2>2. Onward /\ Quiet
    BY <1>7, <2>1, TimedOut, WriterQuietly DEF PersistTimedOut, SameRows, Busy
  <2> QED BY <2>2, OnwardOrder
<1>8. CASE Discard
  <2>1. ~Alive' BY <1>8, Discarded DEF Alive
  <2> QED BY <1>8, <2>1, Discarded, TakeOrder, TakeQuietly DEF Discard
<1>9. CASE StoreUnavailable
  <2>1. ~Alive' BY <1>9, StoreFailed DEF Alive
  <2>2. Onward /\ Quiet
    BY <1>9, <2>1, StoreFailed, WriterQuietly DEF StoreUnavailable, SameRows, Busy
  <2> QED BY <2>2, OnwardOrder
<1> QED BY <1>1, <1>2, <1>3, <1>4, <1>5, <1>6, <1>7, <1>8, <1>9 DEF WriterStep

(* A step that touches neither the observations nor the writer.             *)
LEMMA StillQuietly ==
    ASSUME TypeOK, OrderInv, UNCHANGED <<session, producer, channel, writer, lost>>, SameRows
    PROVE  OrderInv' /\ Quiet
<1>1. Onward BY DEF Onward
<1>2. Live' = Live BY DEF Live
<1>3. Alive' = Alive BY DEF Alive
<1> QED BY <1>1, <1>2, <1>3, OnwardOrder DEF Quiet

(* The steps of the host, of time and of recovery.                          *)
LEMMA HostQuietly ==
    ASSUME TypeOK, OrderInv,
           \/ ShutDown \/ DrainTimeElapses \/ Abort \/ RecoverExpired \/ UNCHANGED vars
           \/ \E r \in Requests : DeadlinePasses(r)
    PROVE  OrderInv' /\ Quiet
<1>1. CASE ShutDown BY <1>1, StillQuietly DEF ShutDown, SameRows
<1>2. CASE DrainTimeElapses BY <1>2, StillQuietly DEF DrainTimeElapses, SameRows
<1>3. CASE RecoverExpired BY <1>3, StillQuietly, RecoveredRows DEF RecoverExpired, SameRows
<1>4. CASE UNCHANGED vars BY <1>4, StillQuietly DEF vars, SameRows
<1>5. CASE \E r \in Requests : DeadlinePasses(r)
  BY <1>5, StillQuietly DEF DeadlinePasses, SameRows
<1>6. CASE Abort
  <2>1. ~Alive' BY <1>6, Aborted DEF Alive
  <2>2. Onward /\ Quiet
    BY <1>6, <2>1, Aborted, WriterQuietly DEF Abort, SameRows, Busy
  <2> QED BY <2>2, OnwardOrder
<1> QED BY <1>1, <1>2, <1>3, <1>4, <1>5, <1>6

(* An observation that may still be written is one of the three kinds.      *)
LEMMA LiveParts ==
    ASSUME TypeOK, OrderInv, NEW v \in Live
    PROVE  /\ v \in Writes /\ v.request \in Requests /\ v.index \in Nat
           /\ v.index <= session[v.request].issued
           /\ \/ producer[v.request].pc \in Offering /\ v = producer[v.request].write
              \/ \E i \in 1..Len(channel) : v = channel[i]
              \/ writer.pc = "persist" /\ v = writer.queued
<1>1. v \in Writes BY DEF Live
<1>2. v.request \in Requests /\ v.index \in Nat BY <1>1, WriteParts
<1>3. \/ producer[v.request].pc \in Offering /\ v = producer[v.request].write
      \/ \E i \in 1..Len(channel) : v = channel[i]
      \/ writer.pc = "persist" /\ v = writer.queued
  BY ProducerParts, StepNames DEF Live
<1>4. v.index <= session[v.request].issued
  <2>1. CASE producer[v.request].pc \in Offering /\ v = producer[v.request].write
    BY <1>2, <2>1, SessionParts, StepNames DEF OrderInv
  <2>2. CASE \E i \in 1..Len(channel) : v = channel[i] BY <2>2 DEF OrderInv
  <2>3. CASE writer.pc = "persist" /\ v = writer.queued BY <2>3 DEF OrderInv, Busy
  <2> QED BY <1>3, <2>1, <2>2, <2>3
<1> QED BY <1>1, <1>2, <1>3, <1>4

(* A request and an index name one observation.                             *)
LEMMA LiveUnique ==
    ASSUME TypeOK, OrderInv, NEW v \in Live, NEW w \in Live,
           v.request = w.request, v.index = w.index
    PROVE  v = w
<1> DEFINE AtProducer(x) == producer[x.request].pc \in Offering /\ x = producer[x.request].write
           InChannel(x) == \E i \in 1..Len(channel) : x = channel[i]
           AtWriter(x) == writer.pc = "persist" /\ x = writer.queued
<1>0. /\ AtProducer(v) \/ InChannel(v) \/ AtWriter(v)
      /\ AtProducer(w) \/ InChannel(w) \/ AtWriter(w)
      /\ v.request \in Requests /\ v.index \in Nat /\ w.index \in Nat
  BY LiveParts
<1>1. ASSUME NEW x \in Live, NEW y \in Live, AtProducer(x), InChannel(y) \/ AtWriter(y),
             x.request = y.request, x.request \in Requests, x.index \in Nat, y.index \in Nat
      PROVE  y.index < x.index
  BY <1>1, StepNames DEF OrderInv, Busy
<1>2. ASSUME NEW x \in Live, NEW y \in Live, InChannel(x), AtWriter(y), x.request = y.request
      PROVE  y.index < x.index
  BY <1>2 DEF OrderInv, Busy
<1>3. CASE AtProducer(v) /\ AtProducer(w) BY <1>3
<1>4. CASE AtWriter(v) /\ AtWriter(w) BY <1>4
<1>5. CASE InChannel(v) /\ InChannel(w)
  <2>1. PICK i \in 1..Len(channel), j \in 1..Len(channel) : v = channel[i] /\ w = channel[j]
    BY <1>5
  <2>2. ~(i < j) /\ ~(j < i) BY <1>0, <2>1 DEF OrderInv
  <2>3. i \in Int /\ j \in Int BY ChannelParts
  <2> QED BY <2>1, <2>2, <2>3
<1> HIDE DEF AtProducer, InChannel, AtWriter
<1>6. ~(v.index < w.index) /\ ~(w.index < v.index) BY <1>0
<1> QED BY <1>0, <1>1, <1>2, <1>3, <1>4, <1>5, <1>6

(* A statement takes the first observation of its request from those that   *)
(* may still be written, and leaves the others.                             *)
LEMMA PersistLive ==
    ASSUME TypeOK, OrderInv, Persist
    PROVE  LET w == writer.queued IN
           /\ w \in Live /\ w \in Writes /\ Live' \subseteq Live
           /\ \A v \in Live : v \in Live' \/ v = w
           /\ \A v \in Live' : v.request = w.request => w.index < v.index
           /\ OrderInv'
<1> DEFINE w == writer.queued
<1>1. writer.pc = "persist" /\ w \in Writes BY WriterParts DEF Persist, Busy
<1>2. writer'.pc = "answer" /\ UNCHANGED <<session, producer, channel>>
      /\ writer'.queued = writer.queued
  BY Persisted DEF Persist
<1>3. w \in Live BY <1>1 DEF Live
<1>4. Live' \subseteq Live BY <1>2, LiveShrinks
<1>5. \A v \in Live : v \in Live' \/ v = w BY <1>2 DEF Live
<1>6. ASSUME NEW v \in Live', v.request = w.request PROVE w.index < v.index
  <2>1. w.request \in Requests BY <1>1, WriteParts
  <2>2. CASE \E r \in Requests : producer'[r].pc \in Offering /\ v = producer'[r].write
    <3>1. PICK r \in Requests : producer[r].pc \in Offering /\ v = producer[r].write
      BY <1>2, <2>2
    <3>2. r = w.request BY <1>6, <3>1, ProducerParts, StepNames
    <3> QED BY <1>1, <3>1, <3>2, StepNames DEF OrderInv, Busy
  <2>3. CASE \E i \in 1..Len(channel') : v = channel'[i]
    BY <1>1, <1>2, <1>6, <2>3 DEF OrderInv, Busy
  <2> QED BY <1>2, <1>6, <2>2, <2>3 DEF Live
<1>7. OrderInv'
  <2>1. Onward BY <1>1, <1>2 DEF Onward, Busy
  <2> QED BY <2>1, OnwardOrder
<1> QED BY <1>1, <1>3, <1>4, <1>5, <1>6, <1>7

(* Every step is a call, a statement or quiet, and keeps the order.         *)
LEMMA Steps ==
    ASSUME TypeOK, OrderInv, [Next]_vars
    PROVE  OrderInv' /\ (Quiet \/ Persist \/ \E r \in Requests : Call(r))
<1>1. CASE \E r \in Requests : Call(r) BY <1>1, CallOrder
<1>2. CASE \E r \in Requests : EnqueueStep(r) BY <1>2, EnqueueQuietly
<1>3. CASE Persist BY <1>3, PersistLive
<1>4. CASE (WriterStep /\ ~Persist) \/ StoreUnavailable BY <1>4, WriterStepQuietly
<1>5. CASE \/ ShutDown \/ DrainTimeElapses \/ Abort \/ RecoverExpired \/ UNCHANGED vars
           \/ \E r \in Requests : DeadlinePasses(r)
  BY <1>5, HostQuietly
<1> QED BY <1>1, <1>2, <1>3, <1>4, <1>5 DEF Next

(* The order holds at the beginning.                                        *)
LEMMA InitOrder == Init => OrderInv
<1> SUFFICES ASSUME Init PROVE OrderInv OBVIOUS
<1>1. Len(channel) = 0 BY DEF Init
<1>2. \A i \in 1..Len(channel) : FALSE BY <1>1
<1>3. writer.pc \notin Busy /\ \A r \in Requests : producer[r].pc = "idle" BY DEF Init, Busy
<1> QED BY <1>2, <1>3 DEF OrderInv

(* The order of the observations of a request is that of its calls, in the  *)
(* queue and in the hands of its producer and of the writer.                *)
THEOREM OrderKept == Spec => []OrderInv
<1>1. ASSUME TypeOK, OrderInv, [Next]_vars PROVE OrderInv' BY <1>1, Steps
<1> QED BY <1>1, InitOrder, TypeCorrect, PTL DEF Spec

-----------------------------------------------------------------------------
(* The rows.                                                                *)

(* What an observation says of its session: nothing the session has not     *)
(* reached, a later one never less than an earlier one, and a finalization  *)
(* everything.  A row says no more than what is still to be written.        *)
WriteInv ==
    /\ \A w \in Live :
         /\ w.attempts <= session[w.request].attempts
         /\ Rank(w.send_state) <= Rank(session[w.request].send_state)
         /\ w.kind = "Finalize" =>
              /\ session[w.request].phase \in Ended /\ w.outcome \in Ends
              /\ w.outcome = session[w.request].outcome
              /\ w.send_state = session[w.request].send_state
              /\ w.attempts = session[w.request].attempts
              /\ w.committed = session[w.request].committed
    /\ \A v, w \in Live : v.request = w.request /\ v.index < w.index =>
         v.attempts <= w.attempts /\ Rank(v.send_state) <= Rank(w.send_state)
    /\ \A r \in Requests : rows[r] \in Rows =>
         Rank(rows[r].send_state) <= Rank(session[r].send_state)
    /\ \A w \in Live : rows[w.request] \in Rows =>
         Rank(rows[w.request].send_state) <= Rank(w.send_state)

(* A running row carries the account of the attempt it counts; only an      *)
(* ended session has a finalized row.                                       *)
RowInv ==
    \A r \in Requests :
        /\ rows[r].outcome = "Running" => rows[r].provider = rows[r].attempt_count
        /\ rows[r].outcome \in Ends => session[r].phase \in Ended

(* The account of attempt n is in the row, or an observation that bears it, *)
(* and that is written no later than w, is still to come.                   *)
Brings(r, n) == rows[r] \in Rows /\ rows[r].provider = n
ToCome(r, n, last) ==
    \E v \in Live : v.request = r /\ v.kind \in Bearing /\ v.attempts = n /\ v.index <= last

(* While nothing is lost, no observation and no session is ahead of what    *)
(* the row and the observations before it say about the account.            *)
AliveInv ==
    Alive =>
        /\ \A w \in Live :
             \/ Brings(w.request, w.attempts)
             \/ ToCome(w.request, w.attempts, w.index)
        /\ \A r \in Requests :
             session[r].phase # "new" /\ producer[r].pc \notin Returning =>
                 \/ Brings(r, session[r].attempts)
                 \/ ToCome(r, session[r].attempts, session[r].issued)

(* The fields of a row.                                                     *)
LEMMA RowParts ==
    ASSUME NEW row \in Rows
    PROVE  /\ row.outcome \in Ends \cup {"Running", "Interrupted"} /\ row.send_state \in SendStates
           /\ row.attempt_count \in Nat /\ row.provider \in Nat
           /\ row.committed \in BOOLEAN /\ row.client_status \in BOOLEAN
BY DEF Rows

(* There is no row, or a row with an outcome.                               *)
LEMMA RowOrNone ==
    ASSUME TypeOK, NEW r \in Requests
    PROVE  /\ rows[r] \in Rows \/ rows[r] = NoRow
           /\ rows[r] \notin Rows => rows[r].outcome \notin Ends \cup {"Running", "Interrupted"}
           /\ rows[r] \in Rows <=> Exists(rows[r])
<1>1. rows[r] \in Rows \/ rows[r] = NoRow BY DEF TypeOK, RowTypes
<1>2. NoRow.outcome \notin Ends \cup {"Running", "Interrupted"} BY DEF NoRow, Ends
<1> QED BY <1>1, <1>2, Absent DEF Exists

(* What a quiet step does to the rows.                                      *)
LEMMA SameRowParts ==
    ASSUME TypeOK, SameRows, NEW r \in Requests
    PROVE  /\ rows'[r] \in Rows <=> rows[r] \in Rows
           /\ rows'[r].outcome = rows[r].outcome
              \/ (rows[r].outcome = "Running" /\ rows'[r].outcome = "Interrupted")
           /\ rows[r] \in Rows =>
                /\ rows'[r].send_state = rows[r].send_state /\ rows'[r].provider = rows[r].provider
                /\ rows'[r].attempt_count = rows[r].attempt_count
                /\ rows'[r].committed = rows[r].committed
<1>1. CASE rows'[r] = rows[r] BY <1>1
<1>2. CASE /\ Running(rows[r]) /\ rows[r] \in Rows /\ rows'[r] \in Rows
           /\ rows'[r] = [rows[r] EXCEPT !.outcome = "Interrupted"]
  BY <1>2 DEF Running, Rows
<1> QED BY <1>1, <1>2 DEF SameRows

(* What a statement that matches does to a row: a row that has ended        *)
(* changes at most its status; the send state comes from the row or from    *)
(* the observation; the account from an observation that bears an attempt.  *)
LEMMA Effect ==
    ASSUME NEW row, row \in Rows \/ row = NoRow, NEW w \in Writes, Matches(row, w)
    PROVE  LET u == Updated(row, w) IN
           /\ u \in Rows
           /\ row \in Rows /\ row.outcome # "Running" =>
                u = [row EXCEPT !.client_status = u.client_status] /\ w.kind \notin Bearing
           /\ row \in Rows => u.send_state \in {row.send_state, w.send_state}
           /\ row \notin Rows => u.send_state = "NotSent" /\ u.outcome = "Running"
           /\ w.kind # "Finalize" /\ (row \in Rows => row.provider = row.attempt_count)
                => u.provider = u.attempt_count
           /\ w.kind # "Finalize" /\ row \in Rows => u.outcome = row.outcome
           /\ w.kind = "Finalize" =>
                /\ row \in Rows /\ row.outcome = "Running"
                /\ u.outcome = w.outcome /\ u.send_state = w.send_state
                /\ u.attempt_count = w.attempts /\ u.committed = w.committed
                /\ u.provider = row.provider
           /\ w.kind \in Bearing => u.provider = w.attempts
           /\ w.kind \notin Bearing => row \in Rows /\ u.provider = row.provider
           /\ w.kind = "Attempt" => row \in Rows /\ row.outcome = "Running"
                                    /\ w.attempts = row.attempt_count + 1
           /\ row \in Rows /\ w.kind \in Bearing => w.kind = "Attempt"
<1>0. /\ w.kind \in Kinds /\ w.attempts \in Nat /\ w.send_state \in SendStates
      /\ w.outcome \in Ends \cup {"Running"} /\ w.committed \in BOOLEAN /\ w.status \in BOOLEAN
  BY DEF Writes
<1>1. Updated(row, w) \in Rows BY UpdatedType
<1>2. /\ ~Running(NoRow) /\ ~Exists(NoRow) /\ (row \in Rows => Exists(row))
      /\ NoRow \notin Rows
  BY Absent DEF Running, Exists, NoRow
<1>3. CASE w.kind \in {"Create", "CreateWithAttempt"}
  <2>1. Updated(row, w) = Inserted(w.attempts) /\ ~Exists(row) BY <1>3 DEF Updated, Matches
  <2>2. row \notin Rows BY <1>2, <2>1
  <2>3. /\ Updated(row, w).outcome = "Running" /\ Updated(row, w).send_state = "NotSent"
        /\ Updated(row, w).provider = w.attempts /\ Updated(row, w).attempt_count = w.attempts
    BY <2>1 DEF Inserted
  <2> QED BY <1>1, <1>3, <2>2, <2>3 DEF Bearing
<1>4. CASE w.kind = "Attempt"
  <2>1. /\ Updated(row, w) = [row EXCEPT !.attempt_count = w.attempts, !.provider = w.attempts]
        /\ Running(row) /\ w.attempts = row.attempt_count + 1
    BY <1>4 DEF Updated, Matches
  <2>2. row \in Rows BY <1>2, <2>1
  <2> QED BY <1>1, <1>4, <2>1, <2>2 DEF Rows, Bearing, Running
<1>5. CASE w.kind = "MarkSend"
  <2>1. /\ Updated(row, w) = [row EXCEPT !.send_state = w.send_state] /\ Running(row)
    BY <1>5 DEF Updated, Matches
  <2>2. row \in Rows BY <1>2, <2>1
  <2> QED BY <1>0, <1>1, <1>5, <2>1, <2>2 DEF Rows, Bearing, Running
<1>6. CASE w.kind = "Commit"
  <2>1. /\ Updated(row, w) = [row EXCEPT !.committed = TRUE, !.client_status = w.status]
        /\ Running(row)
    BY <1>6 DEF Updated, Matches
  <2>2. row \in Rows BY <1>2, <2>1
  <2> QED BY <1>0, <1>1, <1>6, <2>1, <2>2 DEF Rows, Bearing, Running
<1>7. CASE w.kind = "ClientStatus"
  <2>1. Updated(row, w) = [row EXCEPT !.client_status = TRUE] /\ Exists(row)
    BY <1>7 DEF Updated, Matches
  <2>2. row \in Rows BY <1>2, <2>1
  <2>3. Updated(row, w).client_status = TRUE BY <2>1, <2>2 DEF Rows
  <2> QED BY <1>0, <1>1, <1>7, <2>1, <2>2, <2>3 DEF Rows, Bearing
<1>8. CASE w.kind = "Finalize"
  <2>0. PICK b : Updated(row, w) =
            [row EXCEPT !.outcome = w.outcome, !.send_state = w.send_state,
                        !.attempt_count = w.attempts, !.committed = w.committed,
                        !.client_status = b]
    BY <1>8 DEF Updated
  <2>1. Running(row) BY <1>8 DEF Matches
  <2>2. row \in Rows BY <1>2, <2>1
  <2>3. row.outcome = "Running" BY <2>1 DEF Running
  <2> DEFINE u == Updated(row, w)
  <2>4. /\ u.outcome = w.outcome /\ u.send_state = w.send_state
        /\ u.attempt_count = w.attempts /\ u.committed = w.committed
        /\ u.provider = row.provider
    BY <2>0, <2>2 DEF Rows
  <2> HIDE DEF u
  <2> QED BY <1>0, <1>1, <1>8, <2>2, <2>3, <2>4 DEF Bearing, u
<1>9. CASE w.kind = "OpsEvent"
  <2>1. Updated(row, w) = row /\ Exists(row) BY <1>9 DEF Updated, Matches
  <2>2. row \in Rows BY <1>2, <2>1
  <2>3. row = [row EXCEPT !.client_status = row.client_status] BY <2>2 DEF Rows
  <2> QED BY <1>1, <1>9, <2>1, <2>2, <2>3 DEF Bearing
<1> QED BY <1>0, <1>3, <1>4, <1>5, <1>6, <1>7, <1>8, <1>9 DEF Kinds

(* The invariant of the rows.                                               *)
Inv == OrderInv /\ WriteInv /\ RowInv /\ AliveInv /\ FinalRowTruthful

(* Quiet steps keep what the observations say.                              *)
LEMMA QuietWrites ==
    ASSUME TypeOK, OrderInv, WriteInv, Quiet PROVE WriteInv'
<1>0. UNCHANGED session /\ Live' \subseteq Live BY DEF Quiet
<1>1. \A r \in Requests : rows'[r] \in Rows =>
        rows[r] \in Rows /\ rows'[r].send_state = rows[r].send_state
  BY SameRowParts DEF Quiet
<1>2. \A w \in Live : w.request \in Requests BY LiveParts
<1> QED BY <1>0, <1>1, <1>2 DEF WriteInv

(* Quiet steps keep the rows' own invariant and the truth of ended ones.    *)
LEMMA QuietRows ==
    ASSUME TypeOK, RowInv, FinalRowTruthful, Quiet PROVE RowInv' /\ FinalRowTruthful'
<1>0. UNCHANGED session /\ (lost => lost') /\ SameRows BY DEF Quiet
<1>1. SUFFICES ASSUME NEW r \in Requests
      PROVE  /\ rows'[r].outcome = "Running" => rows'[r].provider = rows'[r].attempt_count
             /\ rows'[r].outcome \in Ends =>
                  /\ session[r].phase \in Ended
                  /\ rows'[r].outcome = session[r].outcome
                  /\ rows'[r].send_state = session[r].send_state
                  /\ rows'[r].attempt_count = session[r].attempts
                  /\ rows'[r].committed = session[r].committed
                  /\ ~lost' => rows'[r].provider = session[r].attempts
  BY <1>0 DEF RowInv, FinalRowTruthful, Ends
<1>2. /\ rows[r].outcome = "Running" => rows[r].provider = rows[r].attempt_count
      /\ rows[r].outcome \in Ends =>
           /\ session[r].phase \in Ended
           /\ rows[r].outcome = session[r].outcome
           /\ rows[r].send_state = session[r].send_state
           /\ rows[r].attempt_count = session[r].attempts
           /\ rows[r].committed = session[r].committed
           /\ ~lost => rows[r].provider = session[r].attempts
  BY DEF RowInv, FinalRowTruthful, Ends
<1>3. /\ rows'[r].outcome = rows[r].outcome
         \/ (rows[r].outcome = "Running" /\ rows'[r].outcome = "Interrupted")
      /\ rows[r] \in Rows =>
           /\ rows'[r].send_state = rows[r].send_state /\ rows'[r].provider = rows[r].provider
           /\ rows'[r].attempt_count = rows[r].attempt_count
           /\ rows'[r].committed = rows[r].committed
  BY <1>0, SameRowParts
<1>4. rows[r] \notin Rows => rows[r].outcome \notin Ends \cup {"Running", "Interrupted"}
  BY RowOrNone
<1> QED BY <1>0, <1>2, <1>3, <1>4 DEF Ends

(* Quiet steps let nobody get ahead: what leaves is the last of its         *)
(* request, and its producer reports it.                                    *)
LEMMA QuietAlive ==
    ASSUME TypeOK, OrderInv, AliveInv, Quiet PROVE AliveInv'
<1> SUFFICES ASSUME Alive'
             PROVE /\ \A w \in Live' : \/ Brings(w.request, w.attempts)'
                                       \/ ToCome(w.request, w.attempts, w.index)'
                   /\ \A r \in Requests :
                        session'[r].phase # "new" /\ producer'[r].pc \notin Returning =>
                            \/ Brings(r, session[r].attempts)'
                            \/ ToCome(r, session[r].attempts, session[r].issued)'
  BY DEF AliveInv
<1>0. /\ Alive /\ UNCHANGED session /\ Live' \subseteq Live /\ SameRows
      /\ \A v \in Live : v \in Live' \/ \E r \in Requests :
           v = producer[r].write /\ producer[r].pc # "idle" /\ producer'[r].pc \in Returning
      /\ \A r \in Requests :
           producer'[r].pc \notin Returning => producer[r].pc \notin Returning
  BY DEF Quiet
<1>1. ASSUME NEW r \in Requests, NEW n, Brings(r, n) PROVE Brings(r, n)'
  BY <1>0, <1>1, SameRowParts DEF Brings
<1>2. ASSUME NEW w \in Live'
      PROVE  Brings(w.request, w.attempts)' \/ ToCome(w.request, w.attempts, w.index)'
  <2>1. w \in Live /\ w.request \in Requests /\ w.index \in Nat
        /\ w.index <= session[w.request].issued
    BY <1>0, <1>2, LiveParts
  <2>2. CASE Brings(w.request, w.attempts) BY <1>1, <2>1, <2>2
  <2>3. CASE ToCome(w.request, w.attempts, w.index)
    <3>1. PICK v \in Live : /\ v.request = w.request /\ v.kind \in Bearing
                            /\ v.attempts = w.attempts /\ v.index <= w.index
      BY <2>3 DEF ToCome
    <3>2. v.index \in Nat BY LiveParts
    <3>3. v \in Live'
      <4> SUFFICES ASSUME v \notin Live' PROVE FALSE OBVIOUS
      <4>1. PICK r \in Requests : v = producer[r].write /\ producer[r].pc # "idle" BY <1>0
      <4>2. r = w.request /\ v.index = session[r].issued
        BY <3>1, <4>1, ProducerParts DEF OrderInv
      <4>3. v.index = w.index BY <2>1, <3>1, <3>2, <4>2, SessionParts
      <4>4. v = w BY <2>1, <3>1, <4>3, LiveUnique
      <4> QED BY <1>2, <4>4
    <3> QED BY <3>1, <3>3 DEF ToCome
  <2> QED BY <1>0, <2>1, <2>2, <2>3 DEF AliveInv
<1>3. ASSUME NEW r \in Requests, session'[r].phase # "new", producer'[r].pc \notin Returning
      PROVE  Brings(r, session[r].attempts)' \/ ToCome(r, session[r].attempts, session[r].issued)'
  <2>1. CASE Brings(r, session[r].attempts)
    <3>1. Brings(r, session'[r].attempts) BY <1>0, <2>1
    <3> QED BY <1>0, <2>1, SameRowParts DEF Brings
  <2>2. CASE ToCome(r, session[r].attempts, session[r].issued)
    <3>1. PICK v \in Live : /\ v.request = r /\ v.kind \in Bearing
                            /\ v.attempts = session[r].attempts /\ v.index <= session[r].issued
      BY <2>2 DEF ToCome
    <3>2. v \in Live'
      <4> SUFFICES ASSUME v \notin Live' PROVE FALSE OBVIOUS
      <4>1. PICK q \in Requests : /\ v = producer[q].write /\ producer[q].pc # "idle"
                                  /\ producer'[q].pc \in Returning
        BY <1>0
      <4>2. q = r BY <3>1, <4>1, ProducerParts
      <4> QED BY <1>3, <4>1, <4>2
    <3> QED BY <1>0, <3>1, <3>2 DEF ToCome
  <2> QED BY <1>0, <1>3, <2>1, <2>2 DEF AliveInv
<1> QED BY <1>2, <1>3

(* A call adds its observation to those that may still be written.          *)
LEMMA CallLive ==
    ASSUME TypeOK, NEW r \in Requests, NEW kind, NEW new,
           Follows(session[r], kind, new), Enqueue(r, kind, new)
    PROVE  /\ producer'[r].write \in Live' /\ Live \subseteq Live'
           /\ \A v \in Live' : v \in Live \/ v = producer'[r].write
           /\ (Alive' => Alive) /\ (lost' = lost) /\ (rows' = rows)
<1>1. /\ producer'[r].write \in Writes /\ producer'[r].pc = "reserve_item"
      /\ producer[r].pc = "idle"
      /\ \A q \in Requests : q # r => producer'[q] = producer[q]
      /\ UNCHANGED <<channel, writer, dbVars, lost>>
  BY Enqueued
<1>2. producer'[r].write \in Live' BY <1>1, StepNames DEF Live
<1>3. Live \subseteq Live'
  <2> SUFFICES ASSUME NEW v \in Live PROVE v \in Live' OBVIOUS
  <2>1. CASE \E q \in Requests : producer[q].pc \in Offering /\ v = producer[q].write
    <3>1. PICK q \in Requests : producer[q].pc \in Offering /\ v = producer[q].write BY <2>1
    <3>2. q # r BY <1>1, <3>1, StepNames
    <3> QED BY <1>1, <3>1, <3>2 DEF Live
  <2>2. CASE ~\E q \in Requests : producer[q].pc \in Offering /\ v = producer[q].write
    BY <1>1, <2>2 DEF Live
  <2> QED BY <2>1, <2>2
<1>4. ASSUME NEW v \in Live' PROVE v \in Live \/ v = producer'[r].write
  <2>1. CASE \E q \in Requests : producer'[q].pc \in Offering /\ v = producer'[q].write
    <3>1. PICK q \in Requests : producer'[q].pc \in Offering /\ v = producer'[q].write BY <2>1
    <3>2. CASE q # r BY <1>1, <1>4, <3>1, <3>2 DEF Live
    <3> QED BY <3>1, <3>2
  <2>2. CASE ~\E q \in Requests : producer'[q].pc \in Offering /\ v = producer'[q].write
    BY <1>1, <1>4, <2>2 DEF Live
  <2> QED BY <2>1, <2>2
<1>5. (Alive' => Alive) /\ (lost' = lost) /\ (rows' = rows) BY <1>1 DEF Alive
<1> QED BY <1>2, <1>3, <1>4, <1>5

(* A call keeps what the observations say: its own says what the session    *)
(* then knows, which is no less than any before it.                         *)
LEMMA CallWrites ==
    ASSUME TypeOK, OrderInv, WriteInv, NEW r \in Requests, Call(r) PROVE WriteInv'
<1>0. PICK kind, new : Follows(session[r], kind, new) /\ Enqueue(r, kind, new)
  BY CallFollows
<1> DEFINE n == producer'[r].write
           s == session[r]
           t == session'[r]
<1>1. /\ t.issued = s.issued + 1 /\ n.request = r /\ n.kind = kind /\ n.index = t.issued
      /\ n.attempts = t.attempts /\ n.send_state = t.send_state /\ n.outcome = t.outcome
      /\ n.committed = t.committed /\ n \in Writes /\ t \in Sessions
      /\ t.attempts = new.attempts /\ t.send_state = new.send_state /\ t.phase = new.phase
      /\ t.outcome = new.outcome /\ t.committed = new.committed
      /\ \A q \in Requests : q # r => session'[q] = session[q]
  BY <1>0, Enqueued
<1>2. /\ s.attempts <= t.attempts /\ Rank(s.send_state) <= Rank(t.send_state)
      /\ kind = "Finalize" => t.phase \in Ended /\ t.outcome \in Ends
      /\ s.phase \in Ended =>
           /\ t.phase \in Ended /\ t.outcome = s.outcome /\ t.send_state = s.send_state
           /\ t.committed = s.committed /\ t.attempts = s.attempts
  BY <1>0, <1>1 DEF Follows, Ended
<1>3. /\ \A v \in Live' : v \in Live \/ v = n
      /\ rows' = rows
  BY <1>0, CallLive
<1>4. \A v \in Live : /\ v.request \in Requests /\ v.index \in Nat /\ v.attempts \in Nat
                      /\ v.index <= session[v.request].issued /\ Rank(v.send_state) \in Nat
  BY LiveParts, WriteParts, Ranks
<1>5. /\ s.attempts \in Nat /\ s.issued \in Nat /\ t.attempts \in Nat /\ t.issued \in Nat
      /\ Rank(s.send_state) \in Nat /\ Rank(t.send_state) \in Nat
  BY <1>1, SessionParts, Ranks DEF Sessions
<1> HIDE DEF n, t
<1>6. ASSUME NEW w \in Live'
      PROVE  /\ w.attempts <= session'[w.request].attempts
             /\ Rank(w.send_state) <= Rank(session'[w.request].send_state)
             /\ w.kind = "Finalize" =>
                  /\ session'[w.request].phase \in Ended /\ w.outcome \in Ends
                  /\ w.outcome = session'[w.request].outcome
                  /\ w.send_state = session'[w.request].send_state
                  /\ w.attempts = session'[w.request].attempts
                  /\ w.committed = session'[w.request].committed
  <2>1. CASE w = n BY <1>1, <1>2, <1>5, <2>1 DEF t
  <2>2. CASE w \in Live /\ w.request = r
    <3>1. /\ w.attempts <= s.attempts /\ Rank(w.send_state) <= Rank(s.send_state)
          /\ w.kind = "Finalize" =>
               /\ s.phase \in Ended /\ w.outcome \in Ends /\ w.outcome = s.outcome
               /\ w.send_state = s.send_state /\ w.attempts = s.attempts
               /\ w.committed = s.committed
      BY <2>2 DEF WriteInv
    <3>2. w.attempts <= t.attempts /\ Rank(w.send_state) <= Rank(t.send_state)
      BY <1>2, <1>4, <1>5, <2>2, <3>1
    <3> QED BY <1>2, <2>2, <3>1, <3>2 DEF t
  <2>3. CASE w \in Live /\ w.request # r
    BY <1>1, <1>4, <2>3 DEF WriteInv
  <2> QED BY <1>3, <1>6, <2>1, <2>2, <2>3
<1>7. ASSUME NEW v \in Live', NEW w \in Live', v.request = w.request, v.index < w.index
      PROVE  v.attempts <= w.attempts /\ Rank(v.send_state) <= Rank(w.send_state)
  <2>1. CASE v \in Live /\ w \in Live BY <1>7, <2>1 DEF WriteInv
  <2>2. CASE v \in Live /\ w = n
    BY <1>1, <1>6, <1>7, <2>2 DEF t
  <2>3. CASE v = n /\ w \in Live
    <3>1. w.index <= s.issued /\ w.index \in Nat BY <1>1, <1>4, <1>7, <2>3
    <3> QED BY <1>1, <1>5, <1>7, <2>3, <3>1
  <2>4. CASE v = n /\ w = n BY <1>1, <1>5, <1>7, <2>4
  <2> QED BY <1>3, <2>1, <2>2, <2>3, <2>4
<1>8. \A q \in Requests : rows[q] \in Rows => Rank(rows[q].send_state) \in Nat
  BY RowParts, Ranks
<1>9. ASSUME NEW q \in Requests, rows'[q] \in Rows
      PROVE  Rank(rows'[q].send_state) <= Rank(session'[q].send_state)
  <2>1. Rank(rows[q].send_state) <= Rank(session[q].send_state) BY <1>3, <1>9 DEF WriteInv
  <2>2. CASE q = r BY <1>2, <1>3, <1>5, <1>8, <1>9, <2>1, <2>2 DEF t
  <2>3. CASE q # r BY <1>1, <1>3, <2>1, <2>3
  <2> QED BY <2>2, <2>3
<1>10. ASSUME NEW w \in Live', rows'[w.request] \in Rows
       PROVE  Rank(rows'[w.request].send_state) <= Rank(w.send_state)
  <2>1. CASE w \in Live BY <1>3, <1>10, <2>1 DEF WriteInv
  <2>2. CASE w = n BY <1>1, <1>9, <1>10, <2>2 DEF t
  <2> QED BY <1>3, <1>10, <2>1, <2>2
<1> QED BY <1>6, <1>7, <1>9, <1>10 DEF WriteInv

(* A call keeps the rows true: a session that has ended stands.             *)
LEMMA CallRows ==
    ASSUME TypeOK, RowInv, FinalRowTruthful, NEW r \in Requests, Call(r)
    PROVE  RowInv' /\ FinalRowTruthful'
<1>0. PICK kind, new : Follows(session[r], kind, new) /\ Enqueue(r, kind, new)
  BY CallFollows
<1>1. /\ session'[r].attempts = new.attempts /\ session'[r].send_state = new.send_state
      /\ session'[r].phase = new.phase /\ session'[r].outcome = new.outcome
      /\ session'[r].committed = new.committed
      /\ \A q \in Requests : q # r => session'[q] = session[q]
      /\ UNCHANGED <<rows, lost>>
  BY <1>0, Enqueued
<1>2. session[r].phase \in Ended =>
        /\ session'[r].phase \in Ended /\ session'[r].outcome = session[r].outcome
        /\ session'[r].send_state = session[r].send_state
        /\ session'[r].committed = session[r].committed
        /\ session'[r].attempts = session[r].attempts
  BY <1>0, <1>1 DEF Follows, Ended
<1>3. \A q \in Requests : session[q].phase \in Ended =>
        /\ session'[q].phase \in Ended /\ session'[q].outcome = session[q].outcome
        /\ session'[q].send_state = session[q].send_state
        /\ session'[q].committed = session[q].committed
        /\ session'[q].attempts = session[q].attempts
  BY <1>1, <1>2
<1> QED BY <1>1, <1>3 DEF RowInv, FinalRowTruthful, Ends

(* A call does not get ahead: an observation that bears no attempt follows  *)
(* one that does, or the row.                                               *)
LEMMA CallAlive ==
    ASSUME TypeOK, OrderInv, AliveInv, NEW r \in Requests, Call(r) PROVE AliveInv'
<1>0. PICK kind, new : Follows(session[r], kind, new) /\ Enqueue(r, kind, new)
  BY CallFollows
<1> DEFINE n == producer'[r].write
<1>1. /\ session'[r].issued = session[r].issued + 1 /\ n.request = r /\ n.kind = kind
      /\ n.index = session'[r].issued /\ n.attempts = session'[r].attempts
      /\ session'[r].attempts = new.attempts
      /\ producer[r].pc = "idle"
      /\ \A q \in Requests : q # r => session'[q] = session[q] /\ producer'[q] = producer[q]
  BY <1>0, Enqueued
<1>2. /\ n \in Live' /\ Live \subseteq Live' /\ \A v \in Live' : v \in Live \/ v = n
      /\ (Alive' => Alive) /\ rows' = rows
  BY <1>0, CallLive
<1>3. kind \notin Bearing => new.attempts = session[r].attempts /\ session[r].phase # "new"
  BY <1>0 DEF Follows
<1>4. session[r].issued \in Nat BY SessionParts
<1>5. \A v \in Live : v.index \in Nat BY LiveParts
<1> HIDE DEF n
<1>8. ASSUME Alive'
      PROVE  \/ rows[r] \in Rows /\ rows[r].provider = n.attempts
             \/ \E v \in Live' : /\ v.request = r /\ v.kind \in Bearing /\ v.attempts = n.attempts
                                 /\ v.index <= n.index
  <2>1. CASE kind \in Bearing BY <1>1, <1>2, <1>4, <2>1
  <2>2. CASE kind \notin Bearing
    <3>1. Brings(r, session[r].attempts) \/ ToCome(r, session[r].attempts, session[r].issued)
      BY <1>1, <1>2, <1>3, <1>8, <2>2, StepNames DEF AliveInv
    <3>2. n.attempts = session[r].attempts BY <1>1, <1>3, <2>2
    <3>3. CASE Brings(r, session[r].attempts) BY <1>2, <3>2, <3>3 DEF Brings
    <3>4. CASE ToCome(r, session[r].attempts, session[r].issued)
      <4>1. PICK v \in Live : /\ v.request = r /\ v.kind \in Bearing
                              /\ v.attempts = session[r].attempts /\ v.index <= session[r].issued
        BY <3>4 DEF ToCome
      <4>2. v.index <= n.index BY <1>1, <1>4, <1>5, <4>1
      <4> QED BY <1>2, <3>2, <4>1, <4>2
    <3> QED BY <3>1, <3>3, <3>4
  <2> QED BY <2>1, <2>2
<1>9. ASSUME Alive', NEW w \in Live'
      PROVE  Brings(w.request, w.attempts)' \/ ToCome(w.request, w.attempts, w.index)'
  <2>1. CASE w = n BY <1>1, <1>2, <1>8, <1>9, <2>1 DEF ToCome, Brings
  <2>2. CASE w \in Live
    <3>1. Brings(w.request, w.attempts) \/ ToCome(w.request, w.attempts, w.index)
      BY <1>2, <1>9, <2>2 DEF AliveInv
    <3> QED BY <1>2, <3>1 DEF ToCome, Brings
  <2> QED BY <1>2, <1>9, <2>1, <2>2
<1>10. ASSUME Alive', NEW q \in Requests, session'[q].phase # "new",
              producer'[q].pc \notin Returning
       PROVE  \/ Brings(q, session[q].attempts)'
              \/ ToCome(q, session[q].attempts, session[q].issued)'
  <2>1. CASE q = r BY <1>1, <1>2, <1>8, <1>10, <2>1 DEF ToCome, Brings
  <2>2. CASE q # r
    <3>1. Brings(q, session[q].attempts) \/ ToCome(q, session[q].attempts, session[q].issued)
      BY <1>1, <1>2, <1>10, <2>2 DEF AliveInv
    <3> QED BY <1>1, <1>2, <2>2, <3>1 DEF ToCome, Brings
  <2> QED BY <2>1, <2>2
<1> QED BY <1>9, <1>10 DEF AliveInv

(* The row of the observation that is written, and the others.              *)
LEMMA PersistRows ==
    ASSUME TypeOK, Persist
    PROVE  LET w == writer.queued
               r == writer.queued.request IN
           /\ w \in Writes /\ r \in Requests
           /\ rows'[r] = IF Matches(rows[r], w) THEN Updated(rows[r], w) ELSE rows[r]
           /\ \A q \in Requests : q # r => rows'[q] = rows[q]
           /\ UNCHANGED <<session, producer, lost>>
           /\ Alive' => Matches(rows[r], w)
           /\ Alive <=> ~lost
<1>1. writer.pc = "persist" /\ writer.queued \in Writes BY WriterParts DEF Persist, Busy
<1>2. UNCHANGED <<session, producer, lost>> /\ Statement(writer.queued) /\ UNCHANGED lapsed
  BY DEF Persist
<1>3. Alive' => Matches(rows[writer.queued.request], writer.queued)
  BY Persisted DEF Alive
<1>4. Alive <=> ~lost BY <1>1 DEF Alive
<1> QED BY <1>1, <1>2, <1>3, <1>4, WriteParts, StatementTypes

(* A statement keeps what the observations say.                             *)
LEMMA PersistWrites ==
    ASSUME TypeOK, OrderInv, WriteInv, Persist PROVE WriteInv'
<1> DEFINE w == writer.queued
           r == writer.queued.request
<1>1. /\ w \in Writes /\ r \in Requests
      /\ rows'[r] = IF Matches(rows[r], w) THEN Updated(rows[r], w) ELSE rows[r]
      /\ \A q \in Requests : q # r => rows'[q] = rows[q]
      /\ UNCHANGED session
  BY PersistRows
<1>2. /\ w \in Live /\ Live' \subseteq Live
      /\ \A v \in Live' : v.request = r => w.index < v.index
  BY PersistLive
<1>3. rows[r] \in Rows \/ rows[r] = NoRow BY <1>1, RowOrNone
<1>4. Matches(rows[r], w) =>
        /\ rows[r] \in Rows => Updated(rows[r], w).send_state \in {rows[r].send_state, w.send_state}
        /\ rows[r] \notin Rows => Updated(rows[r], w).send_state = "NotSent"
  BY <1>1, <1>3, Effect
<1>5. rows'[r] \in Rows =>
        \/ rows[r] \in Rows /\ rows'[r].send_state = rows[r].send_state
        \/ rows'[r].send_state = w.send_state
        \/ rows'[r].send_state = "NotSent"
  BY <1>1, <1>4
<1>6. /\ Rank(w.send_state) <= Rank(session[r].send_state)
      /\ Rank("NotSent") <= Rank(session[r].send_state)
  BY <1>1, <1>2, SessionParts, Ranks DEF WriteInv
<1>7. \A v \in Live' : /\ v.request \in Requests /\ Rank("NotSent") <= Rank(v.send_state)
                       /\ v.request = r => Rank(w.send_state) <= Rank(v.send_state)
  BY <1>2, LiveParts, WriteParts, Ranks DEF WriteInv
<1> HIDE DEF w, r
<1>8. \A q \in Requests : rows'[q] \in Rows => Rank(rows'[q].send_state) <= Rank(session[q].send_state)
  BY <1>1, <1>5, <1>6 DEF WriteInv
<1>9. \A v \in Live' : rows'[v.request] \in Rows =>
         Rank(rows'[v.request].send_state) <= Rank(v.send_state)
  <2> SUFFICES ASSUME NEW v \in Live', rows'[v.request] \in Rows
               PROVE  Rank(rows'[v.request].send_state) <= Rank(v.send_state)
    OBVIOUS
  <2>1. rows[v.request] \in Rows => Rank(rows[v.request].send_state) <= Rank(v.send_state)
    BY <1>2 DEF WriteInv
  <2> QED BY <1>1, <1>5, <1>7, <2>1
<1>10. UNCHANGED session /\ Live' \subseteq Live BY <1>1, <1>2
<1> QED BY <1>8, <1>9, <1>10 DEF WriteInv

(* A statement keeps the rows true: a finalization says what its session    *)
(* does, and the account is in the row by then unless something was lost.   *)
LEMMA PersistTruthful ==
    ASSUME TypeOK, Inv, Persist PROVE RowInv' /\ FinalRowTruthful'
<1> DEFINE w == writer.queued
           r == writer.queued.request
           u == Updated(rows[r], w)
<1>0. /\ OrderInv /\ WriteInv /\ RowInv /\ AliveInv /\ FinalRowTruthful BY DEF Inv
<1>1. /\ w \in Writes /\ r \in Requests
      /\ rows'[r] = IF Matches(rows[r], w) THEN u ELSE rows[r]
      /\ \A q \in Requests : q # r => rows'[q] = rows[q]
      /\ UNCHANGED <<session, lost>> /\ (Alive <=> ~lost)
  BY PersistRows
<1>2. w \in Live /\ (\A v \in Live : v \in Live' \/ v = w)
      /\ \A v \in Live' : v.request = r => w.index < v.index
  BY <1>0, PersistLive
<1>3. rows[r] \in Rows \/ rows[r] = NoRow BY <1>1, RowOrNone
<1>4. rows[r] \notin Rows => rows[r].outcome \notin Ends \cup {"Running", "Interrupted"}
  BY <1>1, RowOrNone
<1>5. CASE ~Matches(rows[r], w)
  <2>1. \A q \in Requests : rows'[q] = rows[q] BY <1>1, <1>5
  <2> QED BY <1>0, <1>1, <2>1 DEF RowInv, FinalRowTruthful
<1>6. CASE Matches(rows[r], w) /\ w.kind # "Finalize"
  <2>1. /\ u \in Rows
        /\ rows[r] \in Rows /\ rows[r].outcome # "Running" =>
             u = [rows[r] EXCEPT !.client_status = u.client_status]
        /\ rows[r] \in Rows => u.outcome = rows[r].outcome
        /\ rows[r] \notin Rows => u.outcome = "Running"
        /\ (rows[r] \in Rows => rows[r].provider = rows[r].attempt_count)
             => u.provider = u.attempt_count
    BY <1>1, <1>3, <1>6, Effect
  <2>2. rows'[r] = u BY <1>1, <1>6
  <2> HIDE DEF u, w, r
  <2>3. u.outcome = "Running" => u.provider = u.attempt_count
    BY <1>0, <1>1, <2>1 DEF RowInv
  <2>4. u.outcome \in Ends =>
          /\ rows[r] \in Rows /\ rows[r].outcome = u.outcome
          /\ u.send_state = rows[r].send_state /\ u.attempt_count = rows[r].attempt_count
          /\ u.committed = rows[r].committed /\ u.provider = rows[r].provider
    <3> SUFFICES ASSUME u.outcome \in Ends
                 PROVE  /\ rows[r] \in Rows /\ rows[r].outcome = u.outcome
                        /\ u.send_state = rows[r].send_state
                        /\ u.attempt_count = rows[r].attempt_count
                        /\ u.committed = rows[r].committed /\ u.provider = rows[r].provider
      OBVIOUS
    <3>1. rows[r] \in Rows /\ rows[r].outcome = u.outcome BY <2>1 DEF Ends
    <3>2. rows[r].outcome # "Running" BY <3>1 DEF Ends
    <3>3. u = [rows[r] EXCEPT !.client_status = u.client_status] BY <2>1, <3>1, <3>2
    <3>4. \A c, d : d = [rows[r] EXCEPT !.client_status = c] =>
             /\ d.send_state = rows[r].send_state /\ d.attempt_count = rows[r].attempt_count
             /\ d.committed = rows[r].committed /\ d.provider = rows[r].provider
      BY <3>1 DEF Rows
    <3> QED BY <3>1, <3>3, <3>4
  <2>5. RowInv' BY <1>0, <1>1, <2>2, <2>3, <2>4 DEF RowInv
  <2>6. FinalRowTruthful' BY <1>0, <1>1, <2>2, <2>4 DEF FinalRowTruthful, Ends
  <2> QED BY <2>5, <2>6
<1>7. CASE Matches(rows[r], w) /\ w.kind = "Finalize"
  <2>1. /\ rows[r] \in Rows
        /\ u.outcome = w.outcome /\ u.send_state = w.send_state
        /\ u.attempt_count = w.attempts /\ u.committed = w.committed
        /\ u.provider = rows[r].provider
    BY <1>1, <1>3, <1>7, Effect
  <2>2. rows'[r] = u BY <1>1, <1>7
  <2>3. /\ session[r].phase \in Ended /\ w.outcome \in Ends /\ w.outcome = session[r].outcome
        /\ w.send_state = session[r].send_state /\ w.attempts = session[r].attempts
        /\ w.committed = session[r].committed
    BY <1>0, <1>2, <1>7 DEF WriteInv
  <2>4. ~lost => rows[r].provider = w.attempts
    <3> SUFFICES ASSUME ~lost PROVE Brings(r, w.attempts) BY DEF Brings
    <3>1. Brings(r, w.attempts) \/ ToCome(r, w.attempts, w.index)
      BY <1>0, <1>1, <1>2 DEF AliveInv
    <3>2. ASSUME ToCome(r, w.attempts, w.index) PROVE FALSE
      <4>1. PICK v \in Live : v.request = r /\ v.kind \in Bearing /\ v.index <= w.index
        BY <3>2 DEF ToCome
      <4>2. v = w BY <1>0, <1>1, <1>2, <4>1, LiveParts
      <4> QED BY <1>7, <4>1, <4>2 DEF Bearing
    <3> QED BY <3>1, <3>2
  <2> HIDE DEF u, w, r
  <2>5. RowInv' BY <1>0, <1>1, <2>1, <2>2, <2>3 DEF RowInv, Ends
  <2>6. FinalRowTruthful' BY <1>0, <1>1, <2>1, <2>2, <2>3, <2>4 DEF FinalRowTruthful, Ends
  <2> QED BY <2>5, <2>6
<1> QED BY <1>5, <1>6, <1>7

(* A statement that matches lets nobody get ahead: it writes the account it *)
(* bears, and an attempt it bears is not behind that of the row.            *)
LEMMA PersistAlive ==
    ASSUME TypeOK, Inv, Persist PROVE AliveInv'
<1> SUFFICES ASSUME Alive'
             PROVE /\ \A v \in Live' : \/ Brings(v.request, v.attempts)'
                                       \/ ToCome(v.request, v.attempts, v.index)'
                   /\ \A q \in Requests :
                        session'[q].phase # "new" /\ producer'[q].pc \notin Returning =>
                            \/ Brings(q, session[q].attempts)'
                            \/ ToCome(q, session[q].attempts, session[q].issued)'
  BY DEF AliveInv
<1> DEFINE w == writer.queued
           r == writer.queued.request
           u == Updated(rows[r], w)
<1>0. /\ OrderInv /\ WriteInv /\ RowInv /\ AliveInv BY DEF Inv
<1>1. /\ w \in Writes /\ r \in Requests /\ rows'[r] = u /\ Matches(rows[r], w)
      /\ \A q \in Requests : q # r => rows'[q] = rows[q]
      /\ UNCHANGED <<session, producer>>
  BY PersistRows
<1>2. Alive BY PersistRows DEF Alive
<1>3. /\ w \in Live /\ Live' \subseteq Live /\ (\A v \in Live : v \in Live' \/ v = w)
      /\ \A v \in Live' : v.request = r => w.index < v.index
  BY <1>0, PersistLive
<1>4. rows[r] \in Rows \/ rows[r] = NoRow BY <1>1, RowOrNone
<1>5. /\ u \in Rows
      /\ w.kind \in Bearing => u.provider = w.attempts
      /\ w.kind \notin Bearing => u.provider = rows[r].provider
      /\ w.kind = "Attempt" => rows[r].outcome = "Running" /\ w.attempts = rows[r].attempt_count + 1
      /\ rows[r] \in Rows /\ w.kind \in Bearing => w.kind = "Attempt"
  BY <1>1, <1>4, Effect
<1> HIDE DEF u, w, r
<1>6. ASSUME NEW n \in Nat, w.attempts <= n, Brings(r, n) PROVE rows'[r] \in Rows /\ rows'[r].provider = n
  <2>1. rows[r] \in Rows /\ rows[r].provider = n BY <1>6 DEF Brings
  <2>2. rows[r].outcome = "Running" => rows[r].attempt_count = n BY <1>0, <1>1, <2>1 DEF RowInv
  <2>3. w.kind \notin Bearing BY <1>5, <1>6, <2>1, <2>2
  <2> QED BY <1>1, <1>5, <2>1, <2>3
<1>7. ASSUME NEW q \in Requests, NEW n \in Nat, NEW last, q = r => w.attempts <= n,
             Brings(q, n) \/ ToCome(q, n, last)
      PROVE  \/ rows'[q] \in Rows /\ rows'[q].provider = n
             \/ \E v \in Live' : v.request = q /\ v.kind \in Bearing /\ v.attempts = n /\ v.index <= last
  <2>1. CASE Brings(q, n)
    <3>1. CASE q = r BY <1>6, <1>7, <2>1, <3>1
    <3>2. CASE q # r BY <1>1, <2>1, <3>2 DEF Brings
    <3> QED BY <3>1, <3>2
  <2>2. CASE ToCome(q, n, last)
    <3>1. PICK v \in Live : v.request = q /\ v.kind \in Bearing /\ v.attempts = n /\ v.index <= last
      BY <2>2 DEF ToCome
    <3>2. CASE v = w
      <4>1. q = r BY <3>1, <3>2 DEF w, r
      <4> QED BY <1>1, <1>5, <3>1, <3>2, <4>1
    <3>3. CASE v \in Live' BY <3>1, <3>3
    <3> QED BY <1>3, <3>2, <3>3
  <2> QED BY <1>7, <2>1, <2>2
<1>8. ASSUME NEW v \in Live'
      PROVE  Brings(v.request, v.attempts)' \/ ToCome(v.request, v.attempts, v.index)'
  <2>1. /\ v \in Live /\ v.request \in Requests /\ v.attempts \in Nat
    BY <1>0, <1>3, LiveParts, WriteParts
  <2>2. v.request = r => w.attempts <= v.attempts
    <3>1. w.request = r BY DEF w, r
    <3> QED BY <1>0, <1>3, <2>1, <3>1 DEF WriteInv
  <2>3. Brings(v.request, v.attempts) \/ ToCome(v.request, v.attempts, v.index)
    BY <1>0, <1>2, <2>1 DEF AliveInv
  <2> QED BY <1>7, <2>1, <2>2, <2>3 DEF Brings, ToCome
<1>9. ASSUME NEW q \in Requests, session'[q].phase # "new", producer'[q].pc \notin Returning
      PROVE  Brings(q, session[q].attempts)' \/ ToCome(q, session[q].attempts, session[q].issued)'
  <2>1. session[q].attempts \in Nat BY SessionParts
  <2>2. q = r => w.attempts <= session[q].attempts
    <3>1. w.request = r BY DEF w, r
    <3> QED BY <1>0, <1>3, <3>1 DEF WriteInv
  <2>3. Brings(q, session[q].attempts) \/ ToCome(q, session[q].attempts, session[q].issued)
    BY <1>0, <1>1, <1>2, <1>9 DEF AliveInv
  <2> QED BY <1>1, <1>7, <2>1, <2>2, <2>3 DEF Brings, ToCome
<1> QED BY <1>8, <1>9

(* The invariant holds at the beginning.                                    *)
LEMMA InitInv == Init => Inv
<1> SUFFICES ASSUME Init PROVE Inv OBVIOUS
<1>1. /\ Len(channel) = 0 /\ writer.pc = "receive"
      /\ \A r \in Requests : producer[r].pc = "idle" /\ rows[r] = NoRow
                             /\ session[r].phase = "new"
  BY DEF Init
<1>2. \A v \in Live : FALSE
  <2>1. \A i \in 1..Len(channel) : FALSE BY <1>1
  <2> QED BY <1>1, <2>1, StepNames DEF Live
<1>3. \A r \in Requests : /\ rows[r] \notin Rows
                          /\ rows[r].outcome \notin Ends \cup {"Running", "Interrupted"}
  BY <1>1, InitTypes, RowOrNone, Absent
<1>4. WriteInv BY <1>2, <1>3 DEF WriteInv
<1>5. RowInv /\ FinalRowTruthful BY <1>3 DEF RowInv, FinalRowTruthful, Ends
<1>6. AliveInv BY <1>1, <1>2 DEF AliveInv
<1> QED BY <1>4, <1>5, <1>6, InitOrder DEF Inv

(* Every step keeps the invariant.                                          *)
LEMMA StepInv == ASSUME TypeOK, Inv, [Next]_vars PROVE Inv'
<1>0. OrderInv /\ WriteInv /\ RowInv /\ AliveInv /\ FinalRowTruthful BY DEF Inv
<1>1. CASE Quiet BY <1>0, <1>1, Steps, QuietWrites, QuietRows, QuietAlive DEF Inv
<1>2. CASE Persist BY <1>0, <1>2, Steps, PersistWrites, PersistTruthful, PersistAlive DEF Inv
<1>3. CASE \E r \in Requests : Call(r)
  BY <1>0, <1>3, Steps, CallWrites, CallRows, CallAlive DEF Inv
<1> QED BY <1>0, <1>1, <1>2, <1>3, Steps

(* The inductive invariant: the observations that may still be written are  *)
(* in the order of their calls, say no more than their session and no less  *)
(* than the row, and while nothing is lost the account of every attempt is  *)
(* in the row or on its way there.                                          *)
THEOREM BufferInvariant == Spec => []Inv
<1>1. ASSUME TypeOK, Inv, [Next]_vars PROVE Inv' BY <1>1, StepInv
<1> QED BY <1>1, InitInv, TypeCorrect, PTL DEF Spec

(* A finalized row tells what its session finalized, whichever observations *)
(* before it were refused, failed or dropped, for any number of requests,   *)
(* any limits and any faults (finalize_model_request).                      *)
THEOREM FinalizedRowTruthful == Spec => []FinalRowTruthful
<1>1. Inv => FinalRowTruthful BY DEF Inv
<1> QED BY <1>1, BufferInvariant, PTL

(* A step never lowers a row's send state and never undoes its end.         *)
LEMMA StepAdvances ==
    ASSUME TypeOK, Inv, [Next]_vars, NEW r \in Requests, Exists(rows[r])
    PROVE  /\ Rank(rows[r].send_state) <= Rank(rows'[r].send_state)
           /\ Running(rows[r])
              \/ rows'[r] = [rows[r] EXCEPT !.client_status = rows'[r].client_status]
<1>0. OrderInv /\ WriteInv BY DEF Inv
<1>1. rows[r] \in Rows BY RowOrNone
<1>2. Rank(rows[r].send_state) <= Rank(rows[r].send_state) BY <1>1, RowParts, Ranks
<1>3. rows[r] = [rows[r] EXCEPT !.client_status = rows[r].client_status] BY <1>1 DEF Rows
<1>4. CASE rows'[r] = rows[r] BY <1>2, <1>3, <1>4
<1>5. CASE Quiet
  <2>1. rows'[r].send_state = rows[r].send_state BY <1>1, <1>5, SameRowParts DEF Quiet
  <2>2. rows'[r] = rows[r] \/ Running(rows[r]) BY <1>5 DEF Quiet, SameRows
  <2> QED BY <1>2, <1>4, <2>1, <2>2
<1>6. CASE \E q \in Requests : Call(q)
  <2>1. PICK q \in Requests : Call(q) BY <1>6
  <2>2. PICK kind, new : Enqueue(q, kind, new) BY <2>1, CallFollows
  <2>3. rows' = rows BY <2>2 DEF Enqueue
  <2> QED BY <1>4, <2>3
<1>7. CASE Persist
  <2> DEFINE w == writer.queued
  <2>1. /\ w \in Writes /\ w \in Live
        /\ w.request = r => rows'[r] = IF Matches(rows[r], w) THEN Updated(rows[r], w) ELSE rows[r]
        /\ w.request # r => rows'[r] = rows[r]
    BY <1>0, <1>7, PersistRows, PersistLive
  <2>2. CASE w.request = r /\ Matches(rows[r], w)
    <3>1. /\ rows'[r].send_state \in {rows[r].send_state, w.send_state}
          /\ rows[r].outcome # "Running" =>
               rows'[r] = [rows[r] EXCEPT !.client_status = rows'[r].client_status]
      <4>1. rows'[r] = Updated(rows[r], w) BY <2>1, <2>2
      <4> QED BY <1>1, <2>1, <2>2, <4>1, Effect
    <3>2. Rank(rows[r].send_state) <= Rank(w.send_state)
      BY <1>0, <1>1, <2>1, <2>2 DEF WriteInv
    <3> QED BY <1>2, <3>1, <3>2 DEF Running
  <2> QED BY <1>4, <2>1, <2>2
<1> QED BY <1>0, <1>5, <1>6, <1>7, Steps

(* A row only moves on: its send state is a watermark, and once it has      *)
(* ended it stands, whichever of a finalization and the recovery of its     *)
(* row comes first, and whatever comes late.                                *)
THEOREM RowsAdvance == Spec => RowOnlyAdvances
<1>1. ASSUME TypeOK, Inv, [Next]_vars
      PROVE  [\A r \in Requests : Exists(rows[r]) =>
                /\ Rank(rows[r].send_state) <= Rank(rows'[r].send_state)
                /\ Running(rows[r])
                   \/ rows'[r] = [rows[r] EXCEPT !.client_status = rows'[r].client_status]]_vars
  BY <1>1, StepAdvances
<1> QED BY <1>1, TypeCorrect, BufferInvariant, PTL DEF Spec, RowOnlyAdvances

-----------------------------------------------------------------------------
(* The number of observations held.                                         *)

Holding == {"reserve_bytes", "send"} \cup Returning

(* The observations that have an item: with a producer that has reserved it *)
(* and not given it back, in the channel, or with the writer.               *)
Held ==
    {w \in Writes : \/ \E r \in Requests : producer[r].pc \in Holding /\ w = producer[r].write
                    \/ \E i \in 1..Len(channel) : w = channel[i]
                    \/ writer.pc \in Busy /\ w = writer.queued}

(* The counter is their number, which the limits bound.                     *)
ItemsInv ==
    /\ IsFiniteSet(Held) /\ queued_items = Cardinality(Held)
    /\ queued_items <= MaxItems + MaxItems \div 4
    /\ Cardinality({w \in Held : ~IsCritical(w)}) <= MaxItems

(* The steps at which a producer holds an item.                             *)
LEMMA HoldingSteps ==
    /\ "idle" \notin Holding /\ "reserve_item" \notin Holding
    /\ {"reserve_bytes", "send", "return_bytes", "return_item"} \subseteq Holding
BY DEF Holding, Returning

(* A critical observation may use a quarter more.                           *)
LEMMA Limits ==
    ASSUME NEW w \in Writes
    PROVE  /\ IsCritical(w) \in BOOLEAN /\ MaxItems \in Nat /\ MaxItems \div 4 \in Nat
           /\ ItemLimit(w) \in Nat /\ ItemLimit(w) <= MaxItems + MaxItems \div 4
           /\ ~IsCritical(w) => ItemLimit(w) = MaxItems
<1>1. MaxItems \in Nat /\ MaxItems \div 4 \in Nat BY BufferAssumption
<1>2. IsCritical(w) \in BOOLEAN BY DEF IsCritical
<1>3. ItemLimit(w) = MaxItems + (IF IsCritical(w) THEN MaxItems \div 4 ELSE 0)
  BY DEF ItemLimit, Reserve
<1> QED BY <1>1, <1>2, <1>3

(* The same observations and the same counter.                              *)
LEMMA SameItems ==
    ASSUME ItemsInv, Held' = Held, UNCHANGED queued_items PROVE ItemsInv'
BY DEF ItemsInv

(* A set with an element more, as the limits allow it.                      *)
LEMMA OneMore ==
    ASSUME NEW H, NEW G, NEW w \in Writes, w \notin H, G = H \cup {w}, IsFiniteSet(H),
           NEW n \in Int, n = Cardinality(H), n + 1 <= ItemLimit(w),
           Cardinality({v \in H : ~IsCritical(v)}) <= MaxItems
    PROVE  /\ IsFiniteSet(G) /\ n + 1 = Cardinality(G) /\ n + 1 <= MaxItems + MaxItems \div 4
           /\ Cardinality({v \in G : ~IsCritical(v)}) <= MaxItems
<1>1. IsFiniteSet(G) /\ Cardinality(G) = Cardinality(H) + 1 BY FS_AddElement
<1>2. n + 1 <= MaxItems + MaxItems \div 4 BY Limits
<1>3. CASE IsCritical(w)
  <2>1. {v \in G : ~IsCritical(v)} = {v \in H : ~IsCritical(v)} BY <1>3
  <2> QED BY <1>1, <1>2, <2>1
<1>4. CASE ~IsCritical(w)
  <2>1. {v \in G : ~IsCritical(v)} \in SUBSET G OBVIOUS
  <2>2. Cardinality({v \in G : ~IsCritical(v)}) <= Cardinality(G) BY <1>1, <2>1, FS_Subset
  <2>3. Cardinality({v \in G : ~IsCritical(v)}) \in Nat
    BY <1>1, <2>1, FS_Subset, FS_CardinalityType
  <2>4. Cardinality(G) <= MaxItems BY <1>1, <1>4, Limits
  <2> QED BY <1>1, <1>2, <2>2, <2>3, <2>4, FS_CardinalityType, Limits
<1> QED BY <1>3, <1>4

(* A set with an element less.                                              *)
LEMMA OneLess ==
    ASSUME NEW H, NEW G, NEW w \in H, G = H \ {w}, IsFiniteSet(H), w \in Writes,
           NEW n \in Int, n = Cardinality(H), n <= MaxItems + MaxItems \div 4,
           Cardinality({v \in H : ~IsCritical(v)}) <= MaxItems
    PROVE  /\ IsFiniteSet(G) /\ n - 1 = Cardinality(G) /\ n - 1 <= MaxItems + MaxItems \div 4
           /\ Cardinality({v \in G : ~IsCritical(v)}) <= MaxItems
<1>1. IsFiniteSet(G) /\ Cardinality(G) = Cardinality(H) - 1 BY FS_RemoveElement
<1>2. {v \in H : ~IsCritical(v)} \in SUBSET H /\
      {v \in G : ~IsCritical(v)} \in SUBSET {v \in H : ~IsCritical(v)}
  OBVIOUS
<1>3. IsFiniteSet({v \in H : ~IsCritical(v)}) BY <1>2, FS_Subset
<1>4. /\ Cardinality({v \in G : ~IsCritical(v)}) <= Cardinality({v \in H : ~IsCritical(v)})
      /\ IsFiniteSet({v \in G : ~IsCritical(v)})
  BY <1>2, <1>3, FS_Subset
<1>5. /\ Cardinality({v \in G : ~IsCritical(v)}) \in Nat
      /\ Cardinality({v \in H : ~IsCritical(v)}) \in Nat
  BY <1>3, <1>4, FS_CardinalityType
<1> QED BY <1>1, <1>4, <1>5, Limits

(* A producer that moves on keeps its item.                                 *)
LEMMA GoesHolding ==
    ASSUME TypeOK, NEW r \in Requests, NEW at \in Holding, at \in Offering \cup Returning,
           Goto(r, at), producer[r].pc \in Holding, UNCHANGED <<session, channel, writer>>
    PROVE  Held' = Held
<1>1. /\ producer'[r].pc = at /\ producer'[r].write = producer[r].write
      /\ \A q \in Requests : q # r => producer'[q] = producer[q]
  BY Went, HoldingSteps
<1>2. \A q \in Requests : /\ producer'[q].pc \in Holding <=> producer[q].pc \in Holding
                          /\ producer'[q].write = producer[q].write
  BY <1>1
<1> QED BY <1>2 DEF Held

(* The observation of a producer is that of no other.                       *)
LEMMA ProducerAlone ==
    ASSUME TypeOK, OrderInv, NEW r \in Requests, producer[r].pc # "idle",
           NEW v \in Writes,
           \/ \E q \in Requests : q # r /\ producer[q].pc # "idle" /\ v = producer[q].write
           \/ \E i \in 1..Len(channel) : v = channel[i]
           \/ writer.pc \in Busy /\ v = writer.queued
    PROVE  v # producer[r].write
<1>1. producer[r].write.request = r /\ producer[r].write.index = session[r].issued
      /\ session[r].issued \in Nat
  BY ProducerParts, SessionParts DEF OrderInv
<1>2. CASE \E q \in Requests : q # r /\ producer[q].pc # "idle" /\ v = producer[q].write
  BY <1>1, <1>2, ProducerParts
<1>3. CASE \E i \in 1..Len(channel) : v = channel[i] BY <1>1, <1>3 DEF OrderInv
<1>4. CASE writer.pc \in Busy /\ v = writer.queued BY <1>1, <1>4 DEF OrderInv
<1> QED BY <1>2, <1>3, <1>4

(* An item is reserved.                                                     *)
LEMMA ReserveHeld ==
    ASSUME TypeOK, OrderInv, NEW r \in Requests, producer[r].pc = "reserve_item",
           Goto(r, "reserve_bytes"), UNCHANGED <<session, channel, writer>>
    PROVE  /\ producer[r].write \in Writes /\ producer[r].write \notin Held
           /\ Held' = Held \cup {producer[r].write}
<1> DEFINE w == producer[r].write
<1>1. /\ producer'[r].pc = "reserve_bytes" /\ producer'[r].write = w
      /\ \A q \in Requests : q # r => producer'[q] = producer[q]
  BY Went, StepNames
<1>2. w \in Writes BY ProducerParts
<1>3. w \notin Held
  BY ProducerAlone, HoldingSteps DEF Held
<1>4. ASSUME NEW v \in Held' PROVE v \in Held \cup {w}
  <2>1. CASE \E q \in Requests : producer'[q].pc \in Holding /\ v = producer'[q].write
    BY <1>1, <1>4, <2>1 DEF Held
  <2>2. CASE ~\E q \in Requests : producer'[q].pc \in Holding /\ v = producer'[q].write
    BY <1>4, <2>2 DEF Held
  <2> QED BY <2>1, <2>2
<1>5. ASSUME NEW v \in Held PROVE v \in Held'
  <2>1. CASE \E q \in Requests : producer[q].pc \in Holding /\ v = producer[q].write
    BY <1>1, <1>5, <2>1, HoldingSteps DEF Held
  <2>2. CASE ~\E q \in Requests : producer[q].pc \in Holding /\ v = producer[q].write
    BY <1>5, <2>2 DEF Held
  <2> QED BY <2>1, <2>2
<1>6. w \in Held' BY <1>1, <1>2, HoldingSteps DEF Held
<1> QED BY <1>2, <1>3, <1>4, <1>5, <1>6

(* A producer returns: with the item it holds, if it does.                  *)
LEMMA ReturnHeld ==
    ASSUME TypeOK, OrderInv, NEW r \in Requests, producer[r].pc # "idle",
           Return(r), UNCHANGED <<session, channel, writer>>
    PROVE  Held' = Held \ {producer[r].write} /\ producer[r].write \in Writes
<1> DEFINE w == producer[r].write
<1>1. /\ producer'[r].pc = "idle" /\ \A q \in Requests : q # r => producer'[q] = producer[q]
  BY Returned
<1>2. w \in Writes BY ProducerParts
<1>3. ASSUME NEW v \in Held' PROVE v \in Held \ {w}
  <2>0. v \in Writes BY <1>3 DEF Held
  <2>1. CASE \E q \in Requests : producer'[q].pc \in Holding /\ v = producer'[q].write
    <3>1. PICK q \in Requests : producer'[q].pc \in Holding /\ v = producer'[q].write BY <2>1
    <3>2. q # r /\ producer[q].pc \in Holding /\ v = producer[q].write
      BY <1>1, <3>1, HoldingSteps
    <3>3. v \in Held BY <2>0, <3>2 DEF Held
    <3>4. v # w BY <2>0, <3>2, ProducerAlone, HoldingSteps
    <3> QED BY <3>3, <3>4
  <2>2. CASE ~\E q \in Requests : producer'[q].pc \in Holding /\ v = producer'[q].write
    <3>1. \/ \E i \in 1..Len(channel) : v = channel[i]
          \/ writer.pc \in Busy /\ v = writer.queued
      BY <1>3, <2>2 DEF Held
    <3>2. v \in Held BY <2>0, <3>1 DEF Held
    <3>3. v # w BY <2>0, <3>1, ProducerAlone
    <3> QED BY <3>2, <3>3
  <2> QED BY <2>1, <2>2
<1>4. ASSUME NEW v \in Held, v # w PROVE v \in Held'
  <2>1. CASE \E q \in Requests : producer[q].pc \in Holding /\ v = producer[q].write
    <3>1. PICK q \in Requests : producer[q].pc \in Holding /\ v = producer[q].write BY <2>1
    <3>2. q # r BY <1>4, <3>1
    <3> QED BY <1>1, <1>4, <3>1, <3>2 DEF Held
  <2>2. CASE ~\E q \in Requests : producer[q].pc \in Holding /\ v = producer[q].write
    BY <1>4, <2>2 DEF Held
  <2> QED BY <2>1, <2>2
<1> QED BY <1>2, <1>3, <1>4

(* A sent observation keeps its item.                                       *)
LEMMA SendHeld ==
    ASSUME TypeOK, NEW r \in Requests, Send(r), ~closed PROVE Held' = Held
<1> DEFINE w == producer[r].write
           n == Len(channel)
<1>1. /\ channel' = Append(channel, w) /\ Return(r) /\ UNCHANGED <<session, writer>>
      /\ producer[r].pc = "send"
  BY DEF Send, SendResult
<1>2. /\ producer'[r].pc = "idle"
      /\ \A q \in Requests : q # r => producer'[q] = producer[q]
  BY <1>1, Returned
<1>3. w \in Writes BY <1>1, ProducerParts
<1>4. /\ Len(channel') = n + 1 /\ n \in Nat /\ channel'[n + 1] = w
      /\ \A i \in 1..n : channel'[i] = channel[i]
  BY <1>1, <1>3 DEF TypeOK, QueueTypes
<1>5. \A i \in 1..(n + 1) : i \in 1..n \/ i = n + 1 BY <1>4
<1>6. \A i \in 1..n : i \in 1..(n + 1) BY <1>4
<1>7. n + 1 \in 1..(n + 1) BY <1>4
<1>8. ASSUME NEW v \in Held' PROVE v \in Held
  <2>1. CASE \E q \in Requests : producer'[q].pc \in Holding /\ v = producer'[q].write
    BY <1>2, <1>8, <2>1, HoldingSteps DEF Held
  <2>2. CASE \E i \in 1..Len(channel') : v = channel'[i]
    BY <1>1, <1>3, <1>4, <1>5, <1>8, <2>2, HoldingSteps DEF Held
  <2>3. CASE writer'.pc \in Busy /\ v = writer'.queued
    BY <1>1, <1>8, <2>3 DEF Held
  <2> QED BY <1>8, <2>1, <2>2, <2>3 DEF Held
<1>9. ASSUME NEW v \in Held PROVE v \in Held'
  <2>1. CASE \E q \in Requests : producer[q].pc \in Holding /\ v = producer[q].write
    <3>1. PICK q \in Requests : producer[q].pc \in Holding /\ v = producer[q].write BY <2>1
    <3>2. CASE q = r BY <1>4, <1>7, <1>9, <3>1, <3>2 DEF Held
    <3>3. CASE q # r BY <1>2, <1>9, <3>1, <3>3 DEF Held
    <3> QED BY <3>2, <3>3
  <2>2. CASE \E i \in 1..Len(channel) : v = channel[i]
    BY <1>4, <1>6, <1>9, <2>2 DEF Held
  <2>3. CASE writer.pc \in Busy /\ v = writer.queued
    BY <1>1, <1>9, <2>3 DEF Held
  <2> QED BY <1>9, <2>1, <2>2, <2>3 DEF Held
<1> QED BY <1>8, <1>9

(* An observation the writer takes keeps its item.                          *)
LEMMA TakeHeld ==
    ASSUME TypeOK, channel # <<>>, channel' = Tail(channel), UNCHANGED producer,
           writer.pc \notin Busy, writer'.pc \in Busy, writer'.queued = Head(channel)
    PROVE  Held' = Held
<1> DEFINE n == Len(channel)
<1>1. /\ n \in Nat /\ n > 0 /\ Len(channel') = n - 1 /\ writer'.queued = channel[1]
      /\ \A i \in 1..(n - 1) : channel'[i] = channel[i + 1]
  BY HeadTail, ChannelParts
<1>2. /\ \A i \in 1..(n - 1) : i + 1 \in 1..n
      /\ \A i \in 1..n : i = 1 \/ (i - 1 \in 1..(n - 1) /\ (i - 1) + 1 = i)
      /\ 1 \in 1..n
  BY <1>1
<1>3. ASSUME NEW v \in Held' PROVE v \in Held
  <2>1. CASE \E q \in Requests : producer'[q].pc \in Holding /\ v = producer'[q].write
    BY <1>3, <2>1 DEF Held
  <2>2. CASE \E i \in 1..Len(channel') : v = channel'[i]
    BY <1>1, <1>2, <1>3, <2>2 DEF Held
  <2>3. CASE writer'.pc \in Busy /\ v = writer'.queued
    BY <1>1, <1>2, <1>3, <2>3 DEF Held
  <2> QED BY <1>3, <2>1, <2>2, <2>3 DEF Held
<1>4. ASSUME NEW v \in Held PROVE v \in Held'
  <2>1. CASE \E q \in Requests : producer[q].pc \in Holding /\ v = producer[q].write
    BY <1>4, <2>1 DEF Held
  <2>2. CASE \E i \in 1..Len(channel) : v = channel[i]
    <3>1. PICK i \in 1..n : v = channel[i] BY <2>2
    <3>2. CASE i = 1 BY <1>1, <1>4, <3>1, <3>2 DEF Held
    <3>3. CASE i # 1
      <4>1. i - 1 \in 1..Len(channel') /\ channel'[i - 1] = v BY <1>1, <1>2, <3>1, <3>3
      <4> QED BY <1>4, <4>1 DEF Held
    <3> QED BY <3>2, <3>3
  <2> QED BY <1>4, <2>1, <2>2 DEF Held
<1> QED BY <1>3, <1>4

(* The writer keeps the item of what it has in hand.                        *)
LEMMA WriterHeld ==
    ASSUME UNCHANGED <<producer, channel>>, writer'.pc \in Busy <=> writer.pc \in Busy,
           writer.pc \in Busy => writer'.queued = writer.queued
    PROVE  Held' = Held
BY DEF Held

(* The writer gives the item of its observation back.                       *)
LEMMA ReleaseHeld ==
    ASSUME TypeOK, OrderInv, ReleaseItem
    PROVE  /\ Held' = Held \ {writer.queued} /\ writer.queued \in Held
           /\ writer.queued \in Writes
<1> DEFINE w == writer.queued
<1>1. /\ writer.pc \in Busy /\ w \in Writes /\ UNCHANGED <<producer, channel>>
      /\ writer'.pc \notin Busy
  BY ReleasedItem, WriterParts DEF ReleaseItem, Busy
<1>2. w \in Held BY <1>1 DEF Held
<1>3. ASSUME NEW v \in Held' PROVE v \in Held \ {w}
  <2>1. v \in Writes /\ v.index \in Nat BY <1>3, WriteParts DEF Held
  <2>2. CASE \E q \in Requests : producer'[q].pc \in Holding /\ v = producer'[q].write
    <3>1. PICK q \in Requests : producer[q].pc \in Holding /\ v = producer[q].write
      BY <1>1, <2>2
    <3>2. w # v BY <1>1, <3>1, ProducerAlone, HoldingSteps
    <3> QED BY <2>1, <3>1, <3>2 DEF Held
  <2>3. CASE \E i \in 1..Len(channel') : v = channel'[i]
    <3>1. PICK i \in 1..Len(channel) : v = channel[i] BY <1>1, <2>3
    <3>2. v # w BY <1>1, <2>1, <3>1 DEF OrderInv
    <3> QED BY <2>1, <3>1, <3>2 DEF Held
  <2> QED BY <1>1, <1>3, <2>2, <2>3 DEF Held
<1>4. ASSUME NEW v \in Held, v # w PROVE v \in Held' BY <1>1, <1>4 DEF Held
<1> QED BY <1>1, <1>2, <1>3, <1>4

(* The counter as a number.                                                 *)
LEMMA Counter == ASSUME TypeOK PROVE queued_items \in Int
BY DEF TypeOK, QueueTypes

(* A call reserves nothing yet.                                             *)
LEMMA CallItems ==
    ASSUME TypeOK, ItemsInv, NEW r \in Requests, Call(r) PROVE ItemsInv'
<1>0. PICK kind, new : Follows(session[r], kind, new) /\ Enqueue(r, kind, new)
  BY CallFollows
<1>1. /\ producer[r].pc = "idle" /\ producer'[r].pc = "reserve_item"
      /\ \A q \in Requests : q # r => producer'[q] = producer[q]
      /\ UNCHANGED <<queued_items, channel, writer>>
  BY <1>0, Enqueued
<1>2. \A q \in Requests :
        /\ producer'[q].pc \in Holding <=> producer[q].pc \in Holding
        /\ producer[q].pc \in Holding => producer'[q].write = producer[q].write
  BY <1>1, HoldingSteps
<1>3. Held' = Held BY <1>1, <1>2 DEF Held
<1> QED BY <1>1, <1>3, SameItems

(* The steps of enqueue count their item exactly once.                      *)
LEMMA EnqueueItems ==
    ASSUME TypeOK, OrderInv, ItemsInv, NEW r \in Requests, EnqueueStep(r) PROVE ItemsInv'
<1> DEFINE w == producer[r].write
<1>1. CASE ReserveItem(r)
  <2>1. CASE Refused(r) /\ UNCHANGED queued_items
    <3>1. Held' = Held \ {w} BY <1>1, <2>1, ReturnHeld DEF ReserveItem, Refused
    <3>2. w \notin Held
      <4>1. w \in Writes BY <1>1, ProducerParts DEF ReserveItem
      <4> QED BY <1>1, <4>1, ProducerAlone, HoldingSteps DEF ReserveItem, Held
    <3> QED BY <2>1, <3>1, <3>2, SameItems
  <2>2. CASE /\ queued_items + 1 <= ItemLimit(w) /\ queued_items' = queued_items + 1
             /\ Goto(r, "reserve_bytes")
    <3>1. w \in Writes /\ w \notin Held /\ Held' = Held \cup {w}
      BY <1>1, <2>2, ReserveHeld DEF ReserveItem
    <3>2. /\ IsFiniteSet(Held) /\ queued_items = Cardinality(Held) /\ queued_items \in Int
          /\ Cardinality({v \in Held : ~IsCritical(v)}) <= MaxItems
      BY Counter DEF ItemsInv
    <3>3. /\ IsFiniteSet(Held') /\ queued_items + 1 = Cardinality(Held')
          /\ queued_items + 1 <= MaxItems + MaxItems \div 4
          /\ Cardinality({v \in Held' : ~IsCritical(v)}) <= MaxItems
      <4> HIDE DEF w
      <4> QED BY <2>2, <3>1, <3>2, OneMore
    <3> QED BY <2>2, <3>3 DEF ItemsInv
  <2> QED BY <1>1, <2>1, <2>2 DEF ReserveItem
<1>2. CASE ReserveBytes(r)
  <2>1. PICK at \in {"send", "return_item"} : Goto(r, at) BY <1>2 DEF ReserveBytes
  <2>2. Held' = Held
    BY <1>2, <2>1, GoesHolding, HoldingSteps, StepNames DEF ReserveBytes
  <2> QED BY <1>2, <2>2, SameItems DEF ReserveBytes
<1>3. CASE Send(r)
  <2>1. CASE closed
    <3>1. Held' = Held
      BY <1>3, <2>1, GoesHolding, HoldingSteps, StepNames DEF Send, SendResult
    <3> QED BY <1>3, <3>1, SameItems DEF Send
  <2>2. CASE ~closed BY <1>3, <2>2, SendHeld, SameItems DEF Send
  <2> QED BY <2>1, <2>2
<1>4. CASE ReturnBytes(r)
  <2>1. Held' = Held BY <1>4, GoesHolding, HoldingSteps, StepNames DEF ReturnBytes
  <2> QED BY <1>4, <2>1, SameItems DEF ReturnBytes
<1>5. CASE ReturnItem(r)
  <2>1. w \in Writes /\ Held' = Held \ {w}
    BY <1>5, ReturnHeld DEF ReturnItem, Refused
  <2>2. w \in Held BY <1>5, <2>1, HoldingSteps DEF ReturnItem, Held
  <2>3. queued_items' = queued_items - 1 BY <1>5 DEF ReturnItem
  <2>4. /\ IsFiniteSet(Held) /\ queued_items = Cardinality(Held) /\ queued_items \in Int
        /\ queued_items <= MaxItems + MaxItems \div 4
        /\ Cardinality({v \in Held : ~IsCritical(v)}) <= MaxItems
    BY Counter DEF ItemsInv
  <2>5. /\ IsFiniteSet(Held') /\ queued_items - 1 = Cardinality(Held')
        /\ queued_items - 1 <= MaxItems + MaxItems \div 4
        /\ Cardinality({v \in Held' : ~IsCritical(v)}) <= MaxItems
    <3> HIDE DEF w
    <3> QED BY <2>1, <2>2, <2>4, OneLess
  <2> QED BY <2>3, <2>5 DEF ItemsInv
<1> QED BY <1>1, <1>2, <1>3, <1>4, <1>5 DEF EnqueueStep

(* The writer gives each item back exactly once.                            *)
LEMMA WriterItems ==
    ASSUME TypeOK, OrderInv, ItemsInv, WriterStep \/ StoreUnavailable \/ Abort PROVE ItemsInv'
<1>1. CASE Receive
  <2>1. Held' = Held BY <1>1, Taken, TakeHeld DEF Receive, Busy
  <2> QED BY <1>1, <2>1, SameItems DEF Receive
<1>2. CASE Persist
  <2>1. Held' = Held BY <1>2, Persisted, WriterHeld DEF Persist, Busy
  <2> QED BY <1>2, <2>1, SameItems DEF Persist
<1>3. CASE Answered
  <2>1. Held' = Held BY <1>3, AnswerHandled, WriterHeld DEF Answered, Busy
  <2> QED BY <1>3, <2>1, SameItems DEF Answered
<1>4. CASE ReleaseBytes
  <2>1. Held' = Held BY <1>4, ReleasedBytes, WriterHeld DEF ReleaseBytes, Busy
  <2> QED BY <1>4, <2>1, SameItems DEF ReleaseBytes
<1>5. CASE ReleaseItem
  <2>1. queued_items' = queued_items - 1 BY <1>5 DEF ReleaseItem
  <2>2. /\ IsFiniteSet(Held) /\ queued_items = Cardinality(Held) /\ queued_items \in Int
        /\ queued_items <= MaxItems + MaxItems \div 4
        /\ Cardinality({v \in Held : ~IsCritical(v)}) <= MaxItems
    BY Counter DEF ItemsInv
  <2>3. /\ IsFiniteSet(Held') /\ queued_items - 1 = Cardinality(Held')
        /\ queued_items - 1 <= MaxItems + MaxItems \div 4
        /\ Cardinality({v \in Held' : ~IsCritical(v)}) <= MaxItems
    BY <1>5, <2>2, ReleaseHeld, OneLess
  <2> QED BY <2>1, <2>3 DEF ItemsInv
<1>6. CASE CloseReceiver
  <2>1. Held' = Held BY <1>6, WriterHeld DEF CloseReceiver
  <2> QED BY <1>6, <2>1, SameItems DEF CloseReceiver
<1>7. CASE Drained \/ Stop
  <2>1. Held' = Held BY <1>7, Stopped, WriterHeld DEF Drained, Stop, Busy
  <2> QED BY <1>7, <2>1, SameItems DEF Drained, Stop
<1>8. CASE PersistTimedOut
  <2>1. Held' = Held BY <1>8, TimedOut, WriterHeld DEF PersistTimedOut, Busy
  <2> QED BY <1>8, <2>1, SameItems DEF PersistTimedOut
<1>9. CASE Discard
  <2>1. Held' = Held BY <1>9, Discarded, TakeHeld DEF Discard, Busy
  <2> QED BY <1>9, <2>1, SameItems DEF Discard
<1>10. CASE StoreUnavailable
  <2>1. Held' = Held BY <1>10, StoreFailed, WriterHeld DEF StoreUnavailable, Busy
  <2> QED BY <1>10, <2>1, SameItems DEF StoreUnavailable
<1>11. CASE Abort
  <2>1. Held' = Held BY <1>11, Aborted, WriterHeld DEF Abort, Busy
  <2> QED BY <1>11, <2>1, SameItems DEF Abort
<1> QED BY <1>1, <1>2, <1>3, <1>4, <1>5, <1>6, <1>7, <1>8, <1>9, <1>10, <1>11 DEF WriterStep

(* Every step keeps the count.                                              *)
LEMMA StepItems ==
    ASSUME TypeOK, OrderInv, ItemsInv, [Next]_vars PROVE ItemsInv'
<1>1. CASE \E r \in Requests : Call(r) \/ EnqueueStep(r) BY <1>1, CallItems, EnqueueItems
<1>2. CASE WriterStep \/ StoreUnavailable \/ Abort BY <1>2, WriterItems
<1>3. CASE \/ ShutDown \/ DrainTimeElapses \/ RecoverExpired \/ UNCHANGED vars
           \/ \E r \in Requests : DeadlinePasses(r)
  <2>1. UNCHANGED <<producer, channel, writer, queued_items>>
    BY <1>3 DEF ShutDown, DrainTimeElapses, RecoverExpired, vars, DeadlinePasses
  <2>2. Held' = Held BY <2>1, WriterHeld
  <2> QED BY <2>1, <2>2, SameItems
<1> QED BY <1>1, <1>2, <1>3 DEF Next

(* Nothing is held at the beginning.                                        *)
LEMMA InitItems == Init => ItemsInv
<1> SUFFICES ASSUME Init PROVE ItemsInv OBVIOUS
<1>1. /\ Len(channel) = 0 /\ writer.pc = "receive" /\ queued_items = 0
      /\ \A r \in Requests : producer[r].pc = "idle"
  BY DEF Init
<1>2. Held = {}
  <2>1. \A i \in 1..Len(channel) : FALSE BY <1>1
  <2> QED BY <1>1, <2>1, HoldingSteps DEF Held, Busy
<1>3. {w \in Held : ~IsCritical(w)} = {} BY <1>2
<1>4. 0 <= MaxItems + MaxItems \div 4 /\ 0 <= MaxItems BY BufferAssumption
<1> QED BY <1>1, <1>2, <1>3, <1>4, FS_EmptySet DEF ItemsInv

(* The item counter is the number of observations somebody holds, within    *)
(* the limits: no refusal, rejected send, timeout or abort leaks an item or *)
(* gives one back twice.                                                    *)
THEOREM ItemsCounted == Spec => []ItemsInv
<1>1. ASSUME TypeOK, OrderInv, ItemsInv, [Next]_vars PROVE ItemsInv' BY <1>1, StepItems
<1> QED BY <1>1, InitItems, TypeCorrect, OrderKept, PTL DEF Spec

-----------------------------------------------------------------------------
(* The buffer implements OrderedDelivery.                                   *)

(* The queue of the abstract specification, and its items.                  *)
Items(s) == [i \in DOMAIN s |-> Waiting(s[i])]
AnItem == [source : Requests, index : Nat, critical : BOOLEAN]

(* An observation as an item.                                               *)
LEMMA WaitingType ==
    ASSUME NEW w \in Writes
    PROVE  /\ Waiting(w) \in AnItem /\ Waiting(w).critical = IsCritical(w)
           /\ Waiting(w).source = w.request /\ Waiting(w).index = w.index
<1>1. IsCritical(w) \in BOOLEAN BY Limits
<1>2. w.request \in Requests /\ w.index \in Nat BY WriteParts
<1> HIDE DEF IsCritical
<1> QED BY <1>1, <1>2 DEF Waiting, AnItem

(* The items of a sequence of observations.                                 *)
LEMMA ItemsSeq ==
    ASSUME NEW s \in Seq(Writes)
    PROVE  /\ Items(s) \in Seq(AnItem) /\ Len(Items(s)) = Len(s) /\ Len(s) \in Nat
           /\ DOMAIN Items(s) = 1..Len(s)
           /\ \A i \in 1..Len(s) : Items(s)[i] = Waiting(s[i]) /\ s[i] \in Writes
<1>1. DOMAIN s = 1..Len(s) /\ Len(s) \in Nat /\ \A i \in 1..Len(s) : s[i] \in Writes OBVIOUS
<1>2. \A i \in 1..Len(s) : Waiting(s[i]) \in AnItem BY <1>1, WaitingType
<1>3. Items(s) = [i \in 1..Len(s) |-> Waiting(s[i])] BY <1>1 DEF Items
<1>4. Items(s) \in [1..Len(s) -> AnItem] BY <1>2, <1>3
<1>5. Items(s) \in Seq(AnItem) BY <1>1, <1>4, SeqDef
<1>6. DOMAIN Items(s) = 1..Len(s) BY <1>3
<1>7. Len(Items(s)) = Len(s) BY <1>1, <1>5, <1>6, LenProperties
<1> QED BY <1>1, <1>3, <1>5, <1>6, <1>7

(* An observation behind the others is an item behind the others.           *)
LEMMA ItemsAppend ==
    ASSUME NEW s \in Seq(Writes), NEW w \in Writes
    PROVE  Items(Append(s, w)) = Append(Items(s), Waiting(w))
<1> DEFINE a == Items(Append(s, w))
           b == Append(Items(s), Waiting(w))
<1>1. /\ Append(s, w) \in Seq(Writes) /\ Len(Append(s, w)) = Len(s) + 1 /\ Len(s) \in Nat
      /\ Append(s, w)[Len(s) + 1] = w /\ \A i \in 1..Len(s) : Append(s, w)[i] = s[i]
  OBVIOUS
<1>2. /\ a \in Seq(AnItem) /\ Len(a) = Len(s) + 1
      /\ \A i \in 1..(Len(s) + 1) : a[i] = Waiting(Append(s, w)[i])
  BY <1>1, ItemsSeq
<1>3. /\ Items(s) \in Seq(AnItem) /\ Len(Items(s)) = Len(s) /\ Waiting(w) \in AnItem
      /\ \A i \in 1..Len(s) : Items(s)[i] = Waiting(s[i])
  BY ItemsSeq, WaitingType
<1>4. /\ b \in Seq(AnItem) /\ Len(b) = Len(s) + 1 /\ b[Len(s) + 1] = Waiting(w)
      /\ \A i \in 1..Len(s) : b[i] = Items(s)[i]
  <2> HIDE DEF Items, Waiting
  <2> QED BY <1>3
<1>5. \A i \in 1..(Len(s) + 1) : i \in 1..Len(s) \/ i = Len(s) + 1 BY <1>1
<1> HIDE DEF a, b
<1>6. \A i \in 1..Len(a) : a[i] = b[i] BY <1>1, <1>2, <1>3, <1>4, <1>5
<1>7. a = b BY <1>2, <1>4, <1>6, SeqEqual
<1> QED BY <1>7 DEF a, b

(* The first observation is the first item.                                 *)
LEMMA ItemsTail ==
    ASSUME NEW s \in Seq(Writes), s # <<>>
    PROVE  /\ Items(s) # <<>> /\ Head(Items(s)) = Waiting(Head(s))
           /\ Items(Tail(s)) = Tail(Items(s)) /\ Head(s) \in Writes
<1> DEFINE a == Items(Tail(s))
           b == Tail(Items(s))
<1>1. /\ Tail(s) \in Seq(Writes) /\ Len(Tail(s)) = Len(s) - 1 /\ Len(s) \in Nat /\ Len(s) > 0
      /\ \A i \in 1..(Len(s) - 1) : Tail(s)[i] = s[i + 1]
      /\ Head(s) = s[1] /\ s[1] \in Writes
  OBVIOUS
<1>2. /\ a \in Seq(AnItem) /\ Len(a) = Len(s) - 1
      /\ \A i \in 1..(Len(s) - 1) : a[i] = Waiting(Tail(s)[i])
  BY <1>1, ItemsSeq
<1>3. /\ Items(s) \in Seq(AnItem) /\ Len(Items(s)) = Len(s)
      /\ \A i \in 1..Len(s) : Items(s)[i] = Waiting(s[i])
  BY ItemsSeq
<1>4. Items(s) # <<>>
  <2> HIDE DEF Items
  <2> QED BY <1>1, <1>3
<1>5. /\ b \in Seq(AnItem) /\ Len(b) = Len(s) - 1 /\ Head(Items(s)) = Items(s)[1]
      /\ \A i \in 1..(Len(s) - 1) : b[i] = Items(s)[i + 1]
  <2> HIDE DEF Items, Waiting
  <2> QED BY <1>1, <1>3, <1>4
<1>6. \A i \in 1..(Len(s) - 1) : i + 1 \in 1..Len(s) BY <1>1
<1>7. 1 \in 1..Len(s) BY <1>1
<1> HIDE DEF a, b
<1>8. \A i \in 1..Len(a) : a[i] = b[i] BY <1>1, <1>2, <1>3, <1>5, <1>6
<1>9. a = b BY <1>2, <1>5, <1>8, SeqEqual
<1> QED BY <1>1, <1>3, <1>4, <1>5, <1>7, <1>9 DEF a, b

(* What waits fits: its observations are held, and no two are the same.     *)
LEMMA ItemsFit ==
    ASSUME NEW s \in Seq(Writes), NEW H, IsFiniteSet(H), \A i \in 1..Len(s) : s[i] \in H,
           \A i, j \in 1..Len(s) : s[i] = s[j] => i = j,
           Cardinality(H) <= MaxItems + MaxItems \div 4,
           Cardinality({w \in H : ~IsCritical(w)}) <= MaxItems
    PROVE  Delivery!Fits(Items(s))
<1> DEFINE n == Len(s)
           q == Items(s)
           f == [i \in 1..n |-> s[i]]
           D == {i \in DOMAIN q : ~q[i].critical}
           G == {w \in H : ~IsCritical(w)}
           g == [i \in D |-> s[i]]
<1>1. /\ Len(q) = n /\ n \in Nat /\ DOMAIN q = 1..n
      /\ \A i \in 1..n : q[i] = Waiting(s[i]) /\ s[i] \in Writes
  BY ItemsSeq
<1>2. f \in Injection(1..n, H) BY DEF Injection, IsInjective
<1>3. Cardinality(1..n) <= Cardinality(H) BY <1>2, FS_Injection
<1>4. Cardinality(1..n) = n
  <2>1. 1 \in Int /\ n \in Int /\ (1 > n => n = 0) BY <1>1
  <2>2. Cardinality(1..n) = IF 1 > n THEN 0 ELSE n - 1 + 1 BY <2>1, FS_Interval
  <2> QED BY <1>1, <2>1, <2>2
<1>5. MaxItems \in Nat /\ MaxItems \div 4 \in Nat BY BufferAssumption
<1>6. Cardinality(H) \in Nat BY FS_CardinalityType
<1>7. Len(q) <= MaxItems + MaxItems \div 4 BY <1>1, <1>3, <1>4, <1>5, <1>6
<1>8. D \subseteq 1..n /\ \A i \in D : s[i] \in G
  <2>1. \A i \in 1..n : q[i].critical = IsCritical(s[i]) BY <1>1, WaitingType
  <2> HIDE DEF q
  <2> QED BY <1>1, <2>1
<1>9. G \in SUBSET H OBVIOUS
<1>10. IsFiniteSet(G) BY <1>9, FS_Subset
<1> HIDE DEF q, D, G
<1>11. g \in Injection(D, G) BY <1>8 DEF Injection, IsInjective
<1>12. Cardinality(D) <= Cardinality(G) /\ IsFiniteSet(D) BY <1>10, <1>11, FS_Injection
<1>13. Cardinality(D) \in Nat /\ Cardinality(G) \in Nat BY <1>10, <1>12, FS_CardinalityType
<1>14. Cardinality(G) <= MaxItems BY DEF G
<1>15. Cardinality(D) <= MaxItems BY <1>5, <1>12, <1>13, <1>14
<1>16. Delivery!Cardinality(D) = Cardinality(D)
  BY Zenon DEF Delivery!Cardinality, Cardinality
<1>17. Delivery!Cardinality(D) <= MaxItems BY <1>15, <1>16
<1> QED BY <1>7, <1>17 DEF Delivery!Fits, q, D

(* What waits is held, in the order of the calls of each request.           *)
LEMMA UndeliveredParts ==
    ASSUME TypeOK, OrderInv
    PROVE  /\ Undelivered \in Seq(Writes)
           /\ \A i \in 1..Len(Undelivered) :
                \/ \E k \in 1..Len(channel) : Undelivered[i] = channel[k]
                \/ writer.pc \in Busy /\ Undelivered[i] = writer.queued
           /\ \A i, j \in 1..Len(Undelivered) : Undelivered[i] = Undelivered[j] => i = j
<1>0. channel \in Seq(Writes) /\ Len(channel) \in Nat BY DEF TypeOK, QueueTypes
<1>1. \A i \in 1..Len(channel) : channel[i].index \in Nat BY ChannelParts, WriteParts
<1>2. ASSUME NEW i \in 1..Len(channel), NEW j \in 1..Len(channel), channel[i] = channel[j]
      PROVE  i = j
  <2>1. ~(i < j) /\ ~(j < i) BY <1>1, <1>2 DEF OrderInv
  <2> QED BY <1>0, <2>1
<1>3. CASE writer.pc # "persist"
  <2>1. Undelivered = channel BY <1>3 DEF Undelivered
  <2> QED BY <1>0, <1>2, <2>1
<1>4. CASE writer.pc = "persist"
  <2> DEFINE w == writer.queued
             n == Len(channel)
             u == <<w>> \o channel
  <2>1. w \in Writes /\ writer.pc \in Busy BY <1>4, WriterParts DEF Busy
  <2>2. /\ u \in Seq(Writes) /\ Len(u) = n + 1 /\ u[1] = w
        /\ \A i \in 1..n : u[i + 1] = channel[i]
    BY <1>0, <2>1
  <2>3. Undelivered = u BY <1>4 DEF Undelivered
  <2>4. \A i \in 1..(n + 1) : i = 1 \/ (i - 1 \in 1..n /\ (i - 1) + 1 = i) BY <1>0
  <2> HIDE DEF u
  <2>5. \A i \in 1..(n + 1) : i = 1 \/ (i - 1 \in 1..n /\ u[i] = channel[i - 1])
    BY <2>2, <2>4
  <2>6. \A k \in 1..n : channel[k] # w
    BY <1>1, <2>1 DEF OrderInv
  <2>7. \A i, j \in 1..(n + 1) : u[i] = u[j] => i = j
    <3> SUFFICES ASSUME NEW i \in 1..(n + 1), NEW j \in 1..(n + 1), u[i] = u[j] PROVE i = j
      OBVIOUS
    <3>1. CASE i = 1 \/ j = 1 BY <2>2, <2>5, <2>6, <3>1
    <3>2. CASE i # 1 /\ j # 1
      <4>1. /\ i - 1 \in 1..n /\ j - 1 \in 1..n /\ channel[i - 1] = channel[j - 1]
        BY <2>5, <3>2
      <4>2. i - 1 = j - 1 BY <1>2, <4>1
      <4> QED BY <1>0, <4>2
    <3> QED BY <3>1, <3>2
  <2>8. \A i \in 1..(n + 1) : (\E k \in 1..n : u[i] = channel[k]) \/ u[i] = w
    BY <2>2, <2>5
  <2> QED BY <2>1, <2>2, <2>3, <2>7, <2>8
<1> QED BY <1>3, <1>4

(* The variables of the abstract specification.                             *)
Pending == {r \in Requests : producer[r].pc \in Offering}
Offered == [r \in Requests |-> session[r].issued]
Queue == Items(Undelivered)

(* How each abstract action is recognised.                                  *)
LEMMA Abstract ==
    /\ UNCHANGED <<Offered, Pending, Queue, last_applied, closed>> => UNCHANGED Delivery!vars
    /\ \A r \in Requests :
         /\ /\ r \notin Pending /\ Pending' = Pending \cup {r}
            /\ Offered' = [Offered EXCEPT ![r] = @ + 1]
            /\ UNCHANGED <<Queue, last_applied, closed>>
            => Delivery!Offer(r)
         /\ /\ r \in Pending /\ Pending' = Pending \ {r}
            /\ UNCHANGED <<Offered, Queue, last_applied, closed>>
            => Delivery!Refuse(r)
         /\ \A c \in BOOLEAN :
              /\ ~closed /\ r \in Pending /\ Pending' = Pending \ {r}
              /\ Queue' = Append(Queue, [source |-> r, index |-> Offered[r], critical |-> c])
              /\ Delivery!Fits(Queue') /\ UNCHANGED <<Offered, last_applied, closed>>
              => Delivery!Accept(r)
    /\ /\ Queue # <<>> /\ Queue' = Tail(Queue)
       /\ last_applied' = [last_applied EXCEPT ![Head(Queue).source] = Head(Queue).index]
       /\ UNCHANGED <<Offered, Pending, closed>>
       => Delivery!Deliver
    /\ /\ Queue # <<>> /\ Queue' = Tail(Queue)
       /\ UNCHANGED <<Offered, Pending, last_applied, closed>>
       => Delivery!Lose
    /\ /\ ~closed /\ closed' = TRUE /\ (Queue' = Queue \/ (Queue # <<>> /\ Queue' = Tail(Queue)))
       /\ UNCHANGED <<Offered, Pending, last_applied>>
       => Delivery!Close
<1> USE DEF Pending, Offered, Queue, Items, Offering
<1>1. UNCHANGED <<Offered, Pending, Queue, last_applied, closed>> => UNCHANGED Delivery!vars
  BY DEF Delivery!vars
<1>2. ASSUME NEW r \in Requests, r \notin Pending, Pending' = Pending \cup {r},
             Offered' = [Offered EXCEPT ![r] = @ + 1], UNCHANGED <<Queue, last_applied, closed>>
      PROVE  Delivery!Offer(r)
  BY <1>2 DEF Delivery!Offer
<1>3. ASSUME NEW r \in Requests, r \in Pending, Pending' = Pending \ {r},
             UNCHANGED <<Offered, Queue, last_applied, closed>>
      PROVE  Delivery!Refuse(r)
  BY <1>3 DEF Delivery!Refuse
<1>4. ASSUME NEW r \in Requests, NEW c \in BOOLEAN, ~closed, r \in Pending,
             Pending' = Pending \ {r},
             Queue' = Append(Queue, [source |-> r, index |-> Offered[r], critical |-> c]),
             Delivery!Fits(Queue'), UNCHANGED <<Offered, last_applied, closed>>
      PROVE  Delivery!Accept(r)
  BY <1>4 DEF Delivery!Accept
<1>5. ASSUME Queue # <<>>, Queue' = Tail(Queue),
             last_applied' = [last_applied EXCEPT ![Head(Queue).source] = Head(Queue).index],
             UNCHANGED <<Offered, Pending, closed>>
      PROVE  Delivery!Deliver
  BY <1>5 DEF Delivery!Deliver
<1>6. ASSUME Queue # <<>>, Queue' = Tail(Queue),
             UNCHANGED <<Offered, Pending, last_applied, closed>>
      PROVE  Delivery!Lose
  BY <1>6 DEF Delivery!Lose
<1>7. ASSUME ~closed, closed' = TRUE, Queue' = Queue \/ (Queue # <<>> /\ Queue' = Tail(Queue)),
             UNCHANGED <<Offered, Pending, last_applied>>
      PROVE  Delivery!Close
  BY <1>7 DEF Delivery!Close
<1> QED BY <1>1, <1>2, <1>3, <1>4, <1>5, <1>6, <1>7

(* What waits, when the writer stays at or away from its statement.         *)
LEMMA SameQueue ==
    ASSUME UNCHANGED channel, writer'.pc = "persist" <=> writer.pc = "persist",
           writer.pc = "persist" => writer'.queued = writer.queued
    PROVE  Queue' = Queue
<1>1. Undelivered' = Undelivered BY DEF Undelivered
<1> QED BY <1>1 DEF Queue, Items

(* What waits, when the writer ends its statement.                          *)
LEMMA HandEmptied ==
    ASSUME TypeOK, UNCHANGED channel, writer.pc = "persist", writer'.pc # "persist"
    PROVE  /\ Queue # <<>> /\ Queue' = Tail(Queue)
           /\ Head(Queue).source = writer.queued.request
           /\ Head(Queue).index = writer.queued.index
<1> DEFINE w == writer.queued
           u == <<w>> \o channel
<1>1. w \in Writes /\ channel \in Seq(Writes) BY WriterParts DEF Busy, TypeOK, QueueTypes
<1>2. Undelivered = u /\ Undelivered' = channel BY DEF Undelivered
<1>3. u \in Seq(Writes) /\ u # <<>> /\ Head(u) = w /\ Tail(u) = channel BY <1>1
<1> HIDE DEF u
<1>4. Items(u) # <<>> /\ Head(Items(u)) = Waiting(w) /\ Items(channel) = Tail(Items(u))
  BY <1>3, ItemsTail
<1>5. Queue = Items(u) /\ Queue' = Items(channel) BY <1>2 DEF Queue, Items
<1> QED BY <1>1, <1>4, <1>5, WaitingType

(* What waits, when the writer takes an observation: all of it, if it is to *)
(* be written; all but this one, if it is dropped.                          *)
LEMMA HandFilled ==
    ASSUME TypeOK, channel # <<>>, channel' = Tail(channel), writer.pc # "persist",
           writer'.queued = Head(channel)
    PROVE  /\ writer'.pc = "persist" => Queue' = Queue
           /\ writer'.pc # "persist" => Queue # <<>> /\ Queue' = Tail(Queue)
<1>1. channel \in Seq(Writes) /\ Undelivered = channel BY DEF TypeOK, QueueTypes, Undelivered
<1>2. CASE writer'.pc = "persist"
  <2>1. <<Head(channel)>> \o Tail(channel) = channel BY <1>1
  <2>2. Undelivered' = channel BY <1>2, <2>1 DEF Undelivered
  <2> QED BY <1>1, <1>2, <2>2 DEF Queue, Items
<1>3. CASE writer'.pc # "persist"
  <2>1. Undelivered' = Tail(channel) BY <1>3 DEF Undelivered
  <2>2. Items(channel) # <<>> /\ Items(Tail(channel)) = Tail(Items(channel))
    BY <1>1, ItemsTail
  <2>3. Queue = Items(channel) /\ Queue' = Items(Tail(channel))
    BY <1>1, <2>1 DEF Queue, Items
  <2> QED BY <1>3, <2>2, <2>3
<1> QED BY <1>2, <1>3

(* A call is an offer.                                                      *)
LEMMA CallOffers ==
    ASSUME TypeOK, NEW r \in Requests, Call(r) PROVE Delivery!Next
<1>0. PICK kind, new : Follows(session[r], kind, new) /\ Enqueue(r, kind, new)
  BY CallFollows
<1>1. /\ session'[r].issued = session[r].issued + 1
      /\ producer[r].pc = "idle" /\ producer'[r].pc = "reserve_item"
      /\ \A q \in Requests : q # r => session'[q] = session[q] /\ producer'[q] = producer[q]
      /\ UNCHANGED <<channel, closed, writer, last_applied>>
  BY <1>0, Enqueued
<1>2. r \notin Pending /\ Pending' = Pending \cup {r} BY <1>1, StepNames DEF Pending
<1>3. Offered' = [Offered EXCEPT ![r] = @ + 1]
  <2>1. \A q \in Requests : session'[q].issued = [Offered EXCEPT ![r] = @ + 1][q]
    BY <1>1 DEF Offered
  <2> QED BY <2>1 DEF Offered
<1>4. Queue' = Queue BY <1>1, SameQueue
<1>5. Delivery!Offer(r) BY <1>1, <1>2, <1>3, <1>4, Abstract
<1> QED BY <1>5 DEF Delivery!Next

(* A producer that is not answered yet, and one that is.                    *)
LEMMA PendingAfter ==
    ASSUME TypeOK, NEW r \in Requests, producer[r].pc # "idle", UNCHANGED session
    PROVE  /\ \A at \in Offering : Goto(r, at) /\ producer[r].pc \in Offering => Pending' = Pending
           /\ \A at \in Returning : Goto(r, at) => Pending' = Pending \ {r}
           /\ Return(r) => Pending' = Pending \ {r}
           /\ Offered' = Offered
<1>1. ASSUME NEW at \in Offering, Goto(r, at), producer[r].pc \in Offering
      PROVE  Pending' = Pending
  BY <1>1, Went DEF Pending
<1>2. ASSUME NEW at \in Returning, Goto(r, at) PROVE Pending' = Pending \ {r}
  BY <1>2, Went, StepNames DEF Pending
<1>3. ASSUME Return(r) PROVE Pending' = Pending \ {r}
  BY <1>3, Returned, StepNames DEF Pending
<1>4. Offered' = Offered BY DEF Offered
<1> QED BY <1>1, <1>2, <1>3, <1>4

(* A refusal, or an answer the source has had already.                      *)
LEMMA Refuses ==
    ASSUME NEW r \in Requests, Pending' = Pending \ {r},
           UNCHANGED <<Offered, Queue, last_applied, closed>>
    PROVE  Delivery!Next \/ UNCHANGED Delivery!vars
<1>1. CASE r \in Pending
  <2>1. Delivery!Refuse(r) BY <1>1, Abstract
  <2> QED BY <2>1 DEF Delivery!Next
<1>2. CASE r \notin Pending
  <2>1. Pending' = Pending BY <1>2
  <2> QED BY <2>1, Abstract
<1> QED BY <1>1, <1>2

(* A send is accepted, and fits.                                            *)
LEMMA SendAccepts ==
    ASSUME TypeOK, OrderInv, ItemsInv, NEW r \in Requests, Send(r), ~closed
    PROVE  Delivery!Next
<1> DEFINE w == producer[r].write
           s == Append(Undelivered, w)
<1>1. /\ channel' = Append(channel, w) /\ Return(r) /\ producer[r].pc = "send"
      /\ UNCHANGED <<session, writer, last_applied, closed>>
  BY DEF Send, SendResult
<1>2. r \in Pending /\ Pending' = Pending \ {r} /\ Offered' = Offered
  BY <1>1, PendingAfter, StepNames DEF Pending
<1>3. w \in Writes /\ w.request = r /\ w.index = session[r].issued
  BY <1>1, ProducerParts DEF OrderInv
<1>4. Undelivered \in Seq(Writes) BY UndeliveredParts
<1>5. Undelivered' = s
  <2>1. channel \in Seq(Writes) BY DEF TypeOK, QueueTypes
  <2>2. CASE writer.pc # "persist" BY <1>1, <2>2 DEF Undelivered
  <2>3. CASE writer.pc = "persist"
    <3>1. writer.queued \in Writes BY <2>3, WriterParts DEF Busy
    <3>2. <<writer.queued>> \o Append(channel, w) = Append(<<writer.queued>> \o channel, w)
      <4> HIDE DEF w
      <4> QED BY <1>3, <2>1, <3>1, ConcatAssociative, AppendIsConcat, ConcatProperties
    <3> QED BY <1>1, <2>3, <3>2 DEF Undelivered
  <2> QED BY <2>2, <2>3
<1>6. Queue' = Items(s) BY <1>5 DEF Queue, Items
<1>7. Items(s) = Append(Queue, Waiting(w)) BY <1>3, <1>4, ItemsAppend DEF Queue
<1>8. Waiting(w) = [source |-> r, index |-> Offered[r], critical |-> IsCritical(w)]
  BY <1>3 DEF Waiting, Offered
<1>9. Delivery!Fits(Items(s))
  <2> DEFINE n == Len(Undelivered)
  <2>1. /\ s \in Seq(Writes) /\ Len(s) = n + 1 /\ n \in Nat /\ s[n + 1] = w
        /\ \A i \in 1..n : s[i] = Undelivered[i]
    <3> HIDE DEF w
    <3> QED BY <1>3, <1>4
  <2>2. \A i \in 1..(n + 1) : i \in 1..n \/ i = n + 1 BY <2>1
  <2>3. ASSUME NEW i \in 1..n PROVE Undelivered[i] \in Held /\ Undelivered[i] # w
    <3>1. Undelivered[i] \in Writes BY <1>4
    <3>2. \/ \E k \in 1..Len(channel) : Undelivered[i] = channel[k]
          \/ writer.pc \in Busy /\ Undelivered[i] = writer.queued
      BY UndeliveredParts
    <3>3. Undelivered[i] \in Held BY <3>1, <3>2 DEF Held
    <3>4. Undelivered[i] # w BY <1>1, <3>1, <3>2, ProducerAlone
    <3> QED BY <3>3, <3>4
  <2>4. w \in Held BY <1>1, <1>3, HoldingSteps DEF Held
  <2> HIDE DEF w, s
  <2>5. \A i \in 1..Len(s) : s[i] \in Held BY <2>1, <2>2, <2>3, <2>4
  <2>6. \A i, j \in 1..Len(s) : s[i] = s[j] => i = j
    <3> SUFFICES ASSUME NEW i \in 1..(n + 1), NEW j \in 1..(n + 1), s[i] = s[j] PROVE i = j
      BY <2>1
    <3>1. CASE i \in 1..n /\ j \in 1..n BY <2>1, <3>1, UndeliveredParts
    <3>2. CASE i = n + 1 \/ j = n + 1 BY <2>1, <2>2, <2>3, <3>2
    <3> QED BY <2>2, <3>1, <3>2
  <2>7. /\ IsFiniteSet(Held) /\ Cardinality(Held) <= MaxItems + MaxItems \div 4
        /\ Cardinality({v \in Held : ~IsCritical(v)}) <= MaxItems
    BY DEF ItemsInv
  <2> QED BY <2>1, <2>5, <2>6, <2>7, ItemsFit
<1>10. IsCritical(w) \in BOOLEAN BY <1>3, Limits
<1>11. Delivery!Fits(Queue') BY <1>6, <1>9
<1> HIDE DEF w, s
<1>12. Delivery!Accept(r) BY <1>1, <1>2, <1>6, <1>7, <1>8, <1>10, <1>11, Abstract
<1> QED BY <1>12 DEF Delivery!Next

(* A step that shows nothing outside.                                       *)
LEMMA Hidden ==
    ASSUME UNCHANGED <<session, producer, channel, last_applied, closed>>,
           writer'.pc = "persist" <=> writer.pc = "persist",
           writer.pc = "persist" => writer'.queued = writer.queued
    PROVE  UNCHANGED Delivery!vars
<1>1. Queue' = Queue BY SameQueue
<1>2. Offered' = Offered /\ Pending' = Pending BY DEF Offered, Pending
<1> QED BY <1>1, <1>2, Abstract

(* A step that only takes the first item away loses it.                     *)
LEMMA Loses ==
    ASSUME UNCHANGED <<session, producer, last_applied, closed>>,
           Queue # <<>>, Queue' = Tail(Queue)
    PROVE  Delivery!Next
<1>1. Offered' = Offered /\ Pending' = Pending BY DEF Offered, Pending
<1>2. Delivery!Lose BY <1>1, Abstract
<1> QED BY <1>2 DEF Delivery!Next

(* The steps of enqueue: the answer to an offer, or nothing.                *)
LEMMA EnqueueRefines ==
    ASSUME TypeOK, OrderInv, ItemsInv, NEW r \in Requests, EnqueueStep(r)
    PROVE  Delivery!Next \/ UNCHANGED Delivery!vars
<1>0. /\ producer[r].pc # "idle" /\ UNCHANGED <<session, writer, last_applied, closed>>
  BY DEF EnqueueStep, ReserveItem, ReserveBytes, Send, ReturnBytes, ReturnItem
<1>1. Offered' = Offered BY <1>0, PendingAfter
<1>2. UNCHANGED channel => Queue' = Queue BY <1>0, SameQueue
<1>3. CASE ReserveItem(r)
  <2>1. Queue' = Queue BY <1>2, <1>3 DEF ReserveItem
  <2>2. CASE Goto(r, "reserve_bytes")
    <3>1. Pending' = Pending BY <1>0, <1>3, <2>2, PendingAfter DEF ReserveItem, Offering
    <3> QED BY <1>0, <1>1, <2>1, <3>1, Abstract
  <2>3. CASE Return(r)
    <3>1. Pending' = Pending \ {r} BY <1>0, <2>3, PendingAfter
    <3> QED BY <1>0, <1>1, <2>1, <3>1, Refuses
  <2> QED BY <1>3, <2>2, <2>3 DEF ReserveItem, Refused
<1>4. CASE ReserveBytes(r)
  <2>1. Queue' = Queue BY <1>2, <1>4 DEF ReserveBytes
  <2>2. CASE Goto(r, "send")
    <3>1. Pending' = Pending BY <1>0, <1>4, <2>2, PendingAfter DEF ReserveBytes, Offering
    <3> QED BY <1>0, <1>1, <2>1, <3>1, Abstract
  <2>3. CASE Goto(r, "return_item")
    <3>1. Pending' = Pending \ {r} BY <1>0, <2>3, PendingAfter DEF Returning
    <3> QED BY <1>0, <1>1, <2>1, <3>1, Refuses
  <2> QED BY <1>4, <2>2, <2>3 DEF ReserveBytes
<1>5. CASE Send(r)
  <2>1. CASE closed
    <3>1. UNCHANGED channel /\ Goto(r, "return_bytes") BY <1>5, <2>1 DEF Send, SendResult
    <3>2. Pending' = Pending \ {r} BY <1>0, <3>1, PendingAfter DEF Returning
    <3> QED BY <1>0, <1>1, <1>2, <3>1, <3>2, Refuses
  <2>2. CASE ~closed BY <1>5, <2>2, SendAccepts
  <2> QED BY <2>1, <2>2
<1>6. CASE ReturnBytes(r) \/ ReturnItem(r)
  <2>1. UNCHANGED channel /\ (Goto(r, "return_item") \/ Return(r))
    BY <1>6 DEF ReturnBytes, ReturnItem, Refused
  <2>2. Pending' = Pending \ {r} BY <1>0, <2>1, PendingAfter DEF Returning
  <2> QED BY <1>0, <1>1, <1>2, <2>1, <2>2, Refuses
<1> QED BY <1>3, <1>4, <1>5, <1>6 DEF EnqueueStep

(* A statement delivers, or loses what it writes.                           *)
LEMMA PersistDelivers == ASSUME TypeOK, Persist PROVE Delivery!Next
<1> DEFINE w == writer.queued
<1>1. /\ UNCHANGED <<session, producer, channel, closed>>
      /\ writer.pc = "persist" /\ writer'.pc = "answer"
  BY Persisted DEF Persist
<1>2. /\ Queue # <<>> /\ Queue' = Tail(Queue)
      /\ Head(Queue).source = w.request /\ Head(Queue).index = w.index
  BY <1>1, HandEmptied
<1>3. w.request \in Requests BY <1>1, WriterParts, WriteParts DEF Busy
<1>4. CASE Matches(rows[w.request], w)
  <2>1. last_applied' = [last_applied EXCEPT ![w.request] = w.index]
    BY <1>4 DEF Persist, Statement
  <2>2. Offered' = Offered /\ Pending' = Pending BY <1>1 DEF Offered, Pending
  <2> HIDE DEF w
  <2>3. last_applied' = [last_applied EXCEPT ![Head(Queue).source] = Head(Queue).index]
    BY <1>2, <2>1
  <2>4. Delivery!Deliver BY <1>1, <1>2, <2>2, <2>3, Abstract
  <2> QED BY <2>4 DEF Delivery!Next
<1>5. CASE ~Matches(rows[w.request], w)
  <2>1. last_applied' = [last_applied EXCEPT ![w.request] = @]
    BY <1>5 DEF Persist, Statement
  <2> HIDE DEF w
  <2>2. last_applied' = last_applied BY <1>3, <2>1 DEF TypeOK, RowTypes
  <2> QED BY <1>1, <1>2, <2>2, Loses
<1> QED BY <1>4, <1>5

(* The steps of the writer: a delivery, a loss, the close, or nothing.      *)
LEMMA WriterRefines ==
    ASSUME TypeOK, WriterStep \/ StoreUnavailable
    PROVE  Delivery!Next \/ UNCHANGED Delivery!vars
<1>1. CASE Receive
  <2>1. /\ UNCHANGED <<session, producer, last_applied, closed>> /\ channel # <<>>
        /\ channel' = Tail(channel) /\ writer.pc # "persist" /\ writer'.queued = Head(channel)
    BY <1>1, Taken DEF Receive
  <2>2. CASE writer'.pc = "persist"
    <3>1. Queue' = Queue BY <2>1, <2>2, HandFilled
    <3>2. Offered' = Offered /\ Pending' = Pending BY <2>1 DEF Offered, Pending
    <3> QED BY <2>1, <3>1, <3>2, Abstract
  <2>3. CASE writer'.pc # "persist"
    <3>1. Queue # <<>> /\ Queue' = Tail(Queue) BY <2>1, <2>3, HandFilled
    <3> QED BY <2>1, <3>1, Loses
  <2> QED BY <2>2, <2>3
<1>2. CASE Persist BY <1>2, PersistDelivers
<1>3. CASE StoreUnavailable \/ PersistTimedOut
  <2>1. UNCHANGED <<session, producer, channel, last_applied, closed>> /\ writer'.pc # "persist"
    BY <1>3, StoreFailed, TimedOut DEF StoreUnavailable, PersistTimedOut
  <2>2. CASE writer.pc = "persist" BY <2>1, <2>2, HandEmptied, Loses
  <2>3. CASE writer.pc # "persist" BY <2>1, <2>3, Hidden
  <2> QED BY <2>2, <2>3
<1>4. CASE Discard
  <2>1. /\ UNCHANGED <<session, producer, last_applied, closed>> /\ channel # <<>>
        /\ channel' = Tail(channel) /\ writer.pc # "persist" /\ writer'.pc # "persist"
        /\ writer'.queued = Head(channel)
    BY <1>4, Discarded DEF Discard
  <2>2. Queue # <<>> /\ Queue' = Tail(Queue) BY <2>1, HandFilled
  <2> QED BY <2>1, <2>2, Loses
<1>5. CASE CloseReceiver
  <2>1. /\ UNCHANGED <<session, producer, channel, writer, last_applied>>
        /\ ~closed /\ closed' = TRUE
    BY <1>5 DEF CloseReceiver
  <2>2. Queue' = Queue BY <2>1, SameQueue
  <2>3. Offered' = Offered /\ Pending' = Pending BY <2>1 DEF Offered, Pending
  <2>4. Delivery!Close BY <2>1, <2>2, <2>3, Abstract
  <2> QED BY <2>4 DEF Delivery!Next
<1>6. CASE Answered
  BY <1>6, AnswerHandled, Hidden DEF Answered
<1>7. CASE ReleaseBytes BY <1>7, ReleasedBytes, Hidden DEF ReleaseBytes
<1>8. CASE ReleaseItem
  <2>1. writer'.pc # "persist" BY <1>8, ReleasedItem, WriterParts
  <2> QED BY <1>8, <2>1, Hidden DEF ReleaseItem
<1>9. CASE Drained \/ Stop BY <1>9, Stopped, Hidden DEF Drained, Stop
<1> QED BY <1>1, <1>2, <1>3, <1>4, <1>5, <1>6, <1>7, <1>8, <1>9 DEF WriterStep

(* An abort closes the queue, with or without what was being written; if it *)
(* was closed it loses that, or nothing.                                    *)
LEMMA AbortRefines ==
    ASSUME TypeOK, Abort PROVE Delivery!Next \/ UNCHANGED Delivery!vars
<1>1. /\ UNCHANGED <<session, producer, channel, last_applied>> /\ closed' = TRUE
      /\ writer'.pc # "persist"
  BY Aborted DEF Abort
<1>2. Offered' = Offered /\ Pending' = Pending BY <1>1 DEF Offered, Pending
<1>3. writer.pc = "persist" => Queue # <<>> /\ Queue' = Tail(Queue) BY <1>1, HandEmptied
<1>4. writer.pc # "persist" => Queue' = Queue BY <1>1, SameQueue
<1>5. CASE ~closed
  <2>1. Delivery!Close BY <1>1, <1>2, <1>3, <1>4, <1>5, Abstract
  <2> QED BY <2>1 DEF Delivery!Next
<1>6. CASE closed
  <2>1. closed' = closed BY <1>1, <1>6 DEF TypeOK, QueueTypes
  <2>2. CASE writer.pc = "persist" BY <1>1, <1>3, <2>1, <2>2, Loses
  <2>3. CASE writer.pc # "persist" BY <1>1, <1>2, <1>4, <2>1, <2>3, Abstract
  <2> QED BY <2>2, <2>3
<1> QED BY <1>5, <1>6

(* Every step is a step of the abstract specification, or changes nothing   *)
(* it shows.                                                                *)
LEMMA StepRefines ==
    ASSUME TypeOK, OrderInv, ItemsInv, [Next]_vars
    PROVE  Delivery!Next \/ UNCHANGED Delivery!vars
<1>1. CASE \E r \in Requests : Call(r) BY <1>1, CallOffers
<1>2. CASE \E r \in Requests : EnqueueStep(r) BY <1>2, EnqueueRefines
<1>3. CASE WriterStep \/ StoreUnavailable BY <1>3, WriterRefines
<1>4. CASE Abort BY <1>4, AbortRefines
<1>5. CASE \/ ShutDown \/ DrainTimeElapses \/ RecoverExpired \/ UNCHANGED vars
           \/ \E r \in Requests : DeadlinePasses(r)
  <2>1. UNCHANGED <<session, producer, channel, writer, last_applied, closed>>
    BY <1>5 DEF ShutDown, DrainTimeElapses, RecoverExpired, vars, DeadlinePasses
  <2> QED BY <2>1, Hidden
<1> QED BY <1>1, <1>2, <1>3, <1>4, <1>5 DEF Next

(* The initial state is one of the abstract specification.                  *)
LEMMA InitRefines == Init => Delivery!Init
<1> SUFFICES ASSUME Init PROVE Delivery!Init OBVIOUS
<1>1. /\ writer.pc = "receive" /\ channel = <<>> /\ closed = FALSE
      /\ last_applied = [r \in Requests |-> 0]
      /\ \A r \in Requests : session[r].issued = 0 /\ producer[r].pc = "idle"
  BY DEF Init
<1>2. Offered = [r \in Requests |-> 0] BY <1>1 DEF Offered
<1>3. Pending = {} BY <1>1 DEF Pending, Offering
<1>4. Queue = <<>>
  <2>1. Undelivered = <<>> BY <1>1 DEF Undelivered
  <2> QED BY <2>1 DEF Queue, Items
<1> QED BY <1>1, <1>2, <1>3, <1>4 DEF Delivery!Init, Offered, Pending, Offering, Queue, Items

(* The buffer implements OrderedDelivery, for any number of sessions, any   *)
(* limits and any interleaving of enqueue, the writer, the drain and an     *)
(* abort: each observation is written at most once, those of a request in   *)
(* the order of its calls, none is taken once the receiver is closed, and   *)
(* never do more wait than the limits allow.                                *)
THEOREM ImplementsOrderedDelivery == Spec => DeliversInOrder
<1>1. ASSUME TypeOK, OrderInv, ItemsInv, [Next]_vars PROVE [Delivery!Next]_(Delivery!vars)
  BY <1>1, StepRefines
<1> QED BY <1>1, InitRefines, TypeCorrect, OrderKept, ItemsCounted, PTL
        DEF Spec, DeliversInOrder, Delivery!Spec

-----------------------------------------------------------------------------
(* The reservations: the counters and the holders, one by one.              *)

(* The sizes of several observations, and their bytes.                      *)
Sizes(S, M) == [S -> 0..M]
Spread(size) == UNION {{x} \X (1..size[x]) : x \in DOMAIN size}

(* They are finitely many, if the observations are and a size bounds them.  *)
LEMMA SpreadFinite ==
    ASSUME NEW S, IsFiniteSet(S), NEW M \in Nat, NEW f \in [S -> 0..M]
    PROVE  IsFiniteSet(Spread(f)) /\ Total(f) = Cardinality(Spread(f)) /\ Total(f) \in Nat
<1>1. Spread(f) \in SUBSET (S \X (1..M))
  <2> SUFFICES ASSUME NEW x \in S, NEW k \in 1..f[x] PROVE k \in 1..M BY DEF Spread
  <2>1. f[x] \in 0..M OBVIOUS
  <2> QED BY <2>1
<1>2. IsFiniteSet(1..M) BY FS_Interval
<1>3. IsFiniteSet(S \X (1..M)) BY <1>2, FS_Product
<1>4. IsFiniteSet(Spread(f)) BY <1>1, <1>3, FS_Subset
<1>5. Total(f) = Cardinality(Spread(f)) BY DEF Total, Spread
<1> QED BY <1>4, <1>5, FS_CardinalityType

(* The bytes of one.                                                        *)
LEMMA ColumnCount ==
    ASSUME NEW x, NEW n \in Nat
    PROVE  IsFiniteSet({x} \X (1..n)) /\ Cardinality({x} \X (1..n)) = n
<1>1. 1 \in Int /\ n \in Int OBVIOUS
<1>2. IsFiniteSet(1..n) /\ Cardinality(1..n) = IF 1 > n THEN 0 ELSE n - 1 + 1
  BY <1>1, FS_Interval
<1>3. Cardinality(1..n) = n BY <1>2
<1>4. IsFiniteSet({x}) /\ Cardinality({x}) = 1 BY FS_Singleton
<1>5. /\ IsFiniteSet({x} \X (1..n))
      /\ Cardinality({x} \X (1..n)) = Cardinality({x}) * Cardinality(1..n)
  BY <1>2, <1>4, FS_Product
<1>6. 1 * n = n OBVIOUS
<1> QED BY <1>3, <1>4, <1>5, <1>6

(* The sizes of all but one.                                                *)
Without(size, x) == [y \in (DOMAIN size) \ {x} |-> size[y]]

(* One observation, and the others.                                         *)
LEMMA TotalSplit ==
    ASSUME NEW T, IsFiniteSet(T), NEW M \in Nat, NEW g \in Sizes(T, M), NEW x \in T
    PROVE  /\ Total(g) = Total(Without(g, x)) + g[x]
           /\ Total(Without(g, x)) \in Nat /\ Total(g) \in Nat /\ g[x] \in Nat
<1> USE DEF Sizes
<1> DEFINE n == g[x]
           f == [y \in T \ {x} |-> g[y]]
           B == {x} \X (1..n)
<1>0. n \in Nat /\ f \in [T \ {x} -> 0..M] OBVIOUS
<1>2. IsFiniteSet(T \ {x}) BY FS_RemoveElement
<1>3. /\ IsFiniteSet(Spread(g)) /\ Total(g) = Cardinality(Spread(g)) /\ Total(g) \in Nat
      /\ IsFiniteSet(Spread(f)) /\ Total(f) = Cardinality(Spread(f)) /\ Total(f) \in Nat
  BY <1>0, <1>2, SpreadFinite
<1>7. IsFiniteSet(B) /\ Cardinality(B) = n BY <1>0, ColumnCount
<1>8. Spread(g) = Spread(f) \cup B
  <2>1. DOMAIN g = T /\ DOMAIN f = T \ {x} OBVIOUS
  <2>2. Spread(g) = UNION {{y} \X (1..g[y]) : y \in T} BY <2>1 DEF Spread
  <2>3. Spread(f) = UNION {{y} \X (1..g[y]) : y \in T \ {x}} BY <2>1 DEF Spread
  <2> HIDE DEF f
  <2> QED BY <2>2, <2>3
<1>9. Spread(f) \cap B = {} BY DEF Spread
<1> HIDE DEF B, n, f
<1>10. Cardinality(Spread(f) \cup B)
       = Cardinality(Spread(f)) + Cardinality(B) - Cardinality(Spread(f) \cap B)
  BY <1>3, <1>7, FS_Union
<1>11. Cardinality(Spread(f) \cap B) = 0 BY <1>9, FS_EmptySet
<1>12. Total(g) = Total(f) + n BY <1>0, <1>3, <1>7, <1>8, <1>10, <1>11
<1>13. Without(g, x) = f BY DEF Without, f
<1> QED BY <1>0, <1>3, <1>12, <1>13 DEF n

(* The first of a row of observations less.                                 *)
LEMMA TotalShift ==
    ASSUME NEW n \in Nat, n > 0, NEW M \in Nat, NEW f \in [1..n -> 0..M],
           NEW g \in [1..(n - 1) -> 0..M], \A i \in 1..(n - 1) : g[i] = f[i + 1]
    PROVE  Total(f) = Total(g) + f[1] /\ Total(f) \in Nat /\ Total(g) \in Nat
<1> DEFINE h == [i \in (1..n) \ {1} |-> f[i]]
           up == [p \in Spread(g) |-> <<p[1] + 1, p[2]>>]
<1>1. (1..n) \ {1} = 2..n /\ 1 \in 1..n OBVIOUS
<1>2. IsFiniteSet(1..n) /\ IsFiniteSet(1..(n - 1)) /\ IsFiniteSet((1..n) \ {1})
  <2>1. 1 \in Int /\ n \in Int /\ n - 1 \in Int OBVIOUS
  <2>2. IsFiniteSet(1..n) /\ IsFiniteSet(1..(n - 1)) BY <2>1, FS_Interval
  <2> QED BY <2>2, FS_RemoveElement
<1>3. /\ IsFiniteSet(Spread(h)) /\ Total(h) = Cardinality(Spread(h))
      /\ IsFiniteSet(Spread(g)) /\ Total(g) = Cardinality(Spread(g)) /\ Total(g) \in Nat
  <2>1. h \in [(1..n) \ {1} -> 0..M] OBVIOUS
  <2> HIDE DEF h
  <2> QED BY <1>2, <2>1, SpreadFinite
<1>4. \A p : p \in Spread(g) <=> \E i \in 1..(n - 1) : \E k \in 1..g[i] : p = <<i, k>>
  BY DEF Spread
<1>5. \A p : p \in Spread(h) <=> \E i \in 2..n : \E k \in 1..f[i] : p = <<i, k>>
  BY <1>1 DEF Spread
<1>6. up \in [Spread(g) -> Spread(h)]
  <2> SUFFICES ASSUME NEW p \in Spread(g) PROVE <<p[1] + 1, p[2]>> \in Spread(h) OBVIOUS
  <2>1. PICK i \in 1..(n - 1) : \E l \in 1..g[i] : p = <<i, l>> BY <1>4
  <2>2. PICK k \in 1..g[i] : p = <<i, k>> BY <2>1
  <2>3. i + 1 \in 2..n /\ k \in 1..f[i + 1] OBVIOUS
  <2>4. <<i + 1, k>> \in Spread(h) BY <1>5, <2>3
  <2> QED BY <2>2, <2>4
<1>7. \A p \in Spread(g) : up[p] = <<p[1] + 1, p[2]>> OBVIOUS
<1> HIDE DEF up
<1>15. \A p \in Spread(g) : p[1] \in Int /\ p = <<p[1], p[2]>> BY <1>4
<1>16. \A p, q \in Spread(g) : up[p] = up[q] => p = q
  <2> SUFFICES ASSUME NEW p \in Spread(g), NEW q \in Spread(g), up[p] = up[q] PROVE p = q
    OBVIOUS
  <2>1. p[1] + 1 = q[1] + 1 /\ p[2] = q[2] BY <1>7
  <2>2. p[1] = q[1] BY <1>15, <2>1
  <2> QED BY <1>15, <2>1, <2>2
<1>8. \A q \in Spread(h) : \E p \in Spread(g) : up[p] = q
  <2> SUFFICES ASSUME NEW q \in Spread(h) PROVE \E p \in Spread(g) : up[p] = q OBVIOUS
  <2>0. PICK i \in 2..n : \E l \in 1..f[i] : q = <<i, l>> BY <1>5
  <2>5. PICK k \in 1..f[i] : q = <<i, k>> BY <2>0
  <2>1. i - 1 \in 1..(n - 1) /\ (i - 1) + 1 = i OBVIOUS
  <2>2. k \in 1..g[i - 1] BY <2>1
  <2>3. <<i - 1, k>> \in Spread(g) BY <1>4, <2>1, <2>2
  <2>4. up[<<i - 1, k>>] = <<i, k>> BY <1>7, <2>1, <2>3
  <2> QED BY <2>3, <2>4, <2>5
<1>9. up \in Bijection(Spread(g), Spread(h))
  BY <1>6, <1>16, <1>8 DEF Bijection, Injection, Surjection, IsInjective
<1>10. ExistsBijection(Spread(g), Spread(h)) BY <1>9 DEF ExistsBijection
<1>11. Cardinality(Spread(h)) = Cardinality(Spread(g)) BY <1>3, <1>10, FS_Bijection
<1>12. Total(f) = Total(h) + f[1] /\ Total(f) \in Nat
  <2> DEFINE T == 1..n
             x == 1
  <2>1. f \in Sizes(T, M) /\ x \in T /\ IsFiniteSet(T) BY <1>1, <1>2 DEF Sizes
  <2>2. h = Without(f, x) BY DEF Without
  <2> HIDE DEF T, x, h
  <2>3. Total(f) = Total(Without(f, x)) + f[x] /\ Total(f) \in Nat
    BY <2>1, TotalSplit
  <2> QED BY <2>2, <2>3 DEF x
<1> HIDE DEF h
<1> QED BY <1>3, <1>11, <1>12

(* A size bounds all observations: there are eight kinds.                   *)
LEMMA SizeBound == \E M \in Nat : \A w \in Writes : Bytes(w) \in 0..M
<1> DEFINE M == Size["Create"] + Size["CreateWithAttempt"] + Size["Attempt"] + Size["MarkSend"]
                + Size["Commit"] + Size["ClientStatus"] + Size["OpsEvent"] + Size["Finalize"]
<1>1. /\ Size["Create"] \in Nat /\ Size["CreateWithAttempt"] \in Nat /\ Size["Attempt"] \in Nat
      /\ Size["MarkSend"] \in Nat /\ Size["Commit"] \in Nat /\ Size["ClientStatus"] \in Nat
      /\ Size["OpsEvent"] \in Nat /\ Size["Finalize"] \in Nat
  BY BufferAssumption DEF Kinds
<1>2. M \in Nat BY <1>1
<1>3. \A k \in Kinds : Size[k] \in 0..M BY <1>1 DEF Kinds
<1>4. \A w \in Writes : w.kind \in Kinds BY WriteParts
<1> HIDE DEF M
<1>5. \A w \in Writes : Bytes(w) \in 0..M BY <1>3, <1>4 DEF Bytes
<1> QED BY <1>2, <1>5

(* What is held is finitely much.                                           *)
Sized ==
    /\ \E M \in Nat : /\ ProducerSizes \in Sizes(ByteHolders, M)
                      /\ ChannelSizes \in Sizes(1..Len(channel), M)
    /\ IsFiniteSet(ByteHolders) /\ IsFiniteSet(ItemHolders) /\ Len(channel) \in Nat
    /\ Total(ProducerSizes) \in Nat /\ Total(ChannelSizes) \in Nat
    /\ Cardinality(ItemHolders) \in Nat
    /\ \A r \in ByteHolders : producer[r].write \in Writes

(* In every state of the right type.                                        *)
LEMMA SizesHeld == TypeOK => Sized
<1> SUFFICES ASSUME TypeOK PROVE Sized OBVIOUS
<1>1. PICK M \in Nat : \A w \in Writes : Bytes(w) \in 0..M BY SizeBound
<1>2. ByteHolders \in SUBSET Requests /\ ItemHolders \in SUBSET Requests
  BY DEF ByteHolders, ItemHolders
<1>3. IsFiniteSet(ByteHolders) /\ IsFiniteSet(ItemHolders) BY <1>2, BufferAssumption, FS_Subset
<1>4. \A r \in ByteHolders : producer[r].write \in Writes
  BY <1>2, ProducerParts DEF ByteHolders, HoldsBytes
<1>5. ProducerSizes \in [ByteHolders -> 0..M] BY <1>1, <1>4 DEF ProducerSizes
<1>6. /\ DOMAIN channel = 1..Len(channel) /\ Len(channel) \in Nat
      /\ \A i \in 1..Len(channel) : channel[i] \in Writes
  BY DEF TypeOK, QueueTypes
<1>7. ChannelSizes \in [1..Len(channel) -> 0..M] BY <1>1, <1>6 DEF ChannelSizes
<1>8. IsFiniteSet(1..Len(channel))
  <2>1. 1 \in Int /\ Len(channel) \in Int BY <1>6
  <2> QED BY <2>1, FS_Interval
<1>9. Total(ProducerSizes) \in Nat BY <1>3, <1>5, SpreadFinite
<1>10. Total(ChannelSizes) \in Nat BY <1>7, <1>8, SpreadFinite
<1>11. Cardinality(ItemHolders) \in Nat BY <1>3, FS_CardinalityType
<1>12. ProducerSizes \in Sizes(ByteHolders, M) /\ ChannelSizes \in Sizes(1..Len(channel), M)
  BY <1>5, <1>7 DEF Sizes
<1> QED BY <1>3, <1>4, <1>6, <1>9, <1>10, <1>11, <1>12 DEF Sized

(* And in the next one.                                                     *)
LEMMA SizesHeldNext == TypeOK' => Sized'
BY SizesHeld, PTL

(* A producer that reserves bytes.                                          *)
LEMMA ProducerGains ==
    ASSUME TypeOK, TypeOK', NEW r \in Requests, ~HoldsBytes(r), HoldsBytes(r)',
           \A q \in Requests : q # r => producer'[q] = producer[q]
    PROVE  Total(ProducerSizes') = Total(ProducerSizes) + Bytes(producer'[r].write)
<1>1. ByteHolders' = ByteHolders \cup {r} /\ r \notin ByteHolders
  BY DEF ByteHolders, HoldsBytes
<1>2. DOMAIN ProducerSizes' = ByteHolders' BY DEF ProducerSizes
<1>3. \A q \in ByteHolders' : ProducerSizes'[q] = Bytes(producer'[q].write)
  BY DEF ProducerSizes, Bytes
<1>4. \A q \in ByteHolders : q \in Requests /\ q # r BY <1>1 DEF ByteHolders
<1>5. Without(ProducerSizes', r) = ProducerSizes
  <2>1. ByteHolders' \ {r} = ByteHolders BY <1>1
  <2>2. \A q \in ByteHolders : ProducerSizes'[q] = Bytes(producer[q].write)
    BY <1>1, <1>3, <1>4
  <2> QED BY <1>2, <2>1, <2>2 DEF Without, ProducerSizes
<1>6. /\ \E M \in Nat : ProducerSizes' \in Sizes(ByteHolders', M)
      /\ IsFiniteSet(ByteHolders') /\ r \in ByteHolders'
  BY <1>1, SizesHeldNext DEF Sized
<1>7. Total(ProducerSizes') = Total(Without(ProducerSizes', r)) + ProducerSizes'[r]
  BY <1>6, TotalSplit
<1>8. ProducerSizes'[r] = Bytes(producer'[r].write) BY <1>3, <1>6
<1> QED BY <1>5, <1>7, <1>8

(* A producer that lets its bytes go.                                       *)
LEMMA ProducerLoses ==
    ASSUME TypeOK, NEW r \in Requests, HoldsBytes(r), ~HoldsBytes(r)',
           \A q \in Requests : q # r => producer'[q] = producer[q]
    PROVE  Total(ProducerSizes) = Total(ProducerSizes') + Bytes(producer[r].write)
<1>1. ByteHolders' = ByteHolders \ {r} /\ r \in ByteHolders
  BY DEF ByteHolders, HoldsBytes
<1>2. DOMAIN ProducerSizes = ByteHolders BY DEF ProducerSizes
<1>3. \A q \in ByteHolders : ProducerSizes[q] = Bytes(producer[q].write)
  BY DEF ProducerSizes, Bytes
<1>4. \A q \in ByteHolders' : q \in ByteHolders /\ q \in Requests /\ q # r
  BY <1>1 DEF ByteHolders
<1>5. Without(ProducerSizes, r) = ProducerSizes'
  <2>1. \A q \in ByteHolders' : ProducerSizes[q] = Bytes(producer'[q].write)
    BY <1>3, <1>4
  <2> QED BY <1>1, <1>2, <2>1 DEF Without, ProducerSizes
<1>6. (\E M \in Nat : ProducerSizes \in Sizes(ByteHolders, M)) /\ IsFiniteSet(ByteHolders)
  BY SizesHeld DEF Sized
<1>7. Total(ProducerSizes) = Total(Without(ProducerSizes, r)) + ProducerSizes[r]
  BY <1>1, <1>6, TotalSplit
<1> QED BY <1>1, <1>3, <1>5, <1>7

(* Producers that keep theirs.                                              *)
LEMMA ProducersKeep ==
    ASSUME \A q \in Requests : /\ HoldsBytes(q)' <=> HoldsBytes(q)
                               /\ HoldsBytes(q) => producer'[q].write = producer[q].write
    PROVE  ProducerSizes' = ProducerSizes
<1>1. ByteHolders' = ByteHolders BY DEF ByteHolders
<1>2. \A q \in ByteHolders : producer'[q].write = producer[q].write BY DEF ByteHolders
<1> QED BY <1>1, <1>2 DEF ProducerSizes

(* An observation in the channel more.                                      *)
LEMMA ChannelGains ==
    ASSUME TypeOK, TypeOK', NEW w \in Writes, channel' = Append(channel, w)
    PROVE  /\ Total(ChannelSizes') = Total(ChannelSizes) + Bytes(w)
           /\ Len(channel') = Len(channel) + 1
<1> DEFINE n == Len(channel)
           x == n + 1
<1>0. channel \in Seq(Writes) /\ n \in Nat BY DEF TypeOK, QueueTypes
<1>1. /\ Len(channel') = x /\ DOMAIN channel = 1..n /\ DOMAIN channel' = 1..x
      /\ channel'[x] = w /\ \A i \in 1..n : channel'[i] = channel[i]
  BY <1>0
<1>2. x \in 1..x /\ (1..x) \ {x} = 1..n /\ \A i \in 1..n : i \in 1..x BY <1>0
<1>3. DOMAIN ChannelSizes' = 1..x /\ DOMAIN ChannelSizes = 1..n
  BY <1>1 DEF ChannelSizes
<1>4. \A i \in 1..x : ChannelSizes'[i] = Bytes(channel'[i]) BY <1>1 DEF ChannelSizes, Bytes
<1> HIDE DEF x, n
<1>5. Without(ChannelSizes', x) = ChannelSizes
  <2>1. \A i \in 1..n : ChannelSizes'[i] = Bytes(channel[i]) BY <1>1, <1>2, <1>4
  <2> QED BY <1>1, <1>2, <1>3, <2>1 DEF Without, ChannelSizes
<1>6. PICK M \in Nat : ChannelSizes' \in Sizes(1..Len(channel'), M)
  BY SizesHeldNext DEF Sized
<1>7. IsFiniteSet(1..x)
  <2>1. 1 \in Int /\ x \in Int BY <1>0 DEF x
  <2> QED BY <2>1, FS_Interval
<1>8. Total(ChannelSizes') = Total(Without(ChannelSizes', x)) + ChannelSizes'[x]
  <2> DEFINE T == 1..x
  <2>1. IsFiniteSet(T) /\ x \in T /\ ChannelSizes' \in Sizes(T, M) BY <1>1, <1>2, <1>6, <1>7
  <2> HIDE DEF T
  <2> QED BY <2>1, TotalSplit
<1>9. ChannelSizes'[x] = Bytes(w) BY <1>1, <1>2, <1>4
<1> QED BY <1>1, <1>5, <1>8, <1>9 DEF x, n

(* The first one less.                                                      *)
LEMMA ChannelLoses ==
    ASSUME TypeOK, TypeOK', channel # <<>>, channel' = Tail(channel)
    PROVE  /\ Total(ChannelSizes) = Total(ChannelSizes') + Bytes(Head(channel))
           /\ Len(channel') = Len(channel) - 1
<1> DEFINE n == Len(channel)
<1>0. channel \in Seq(Writes) /\ n \in Nat /\ n > 0 BY DEF TypeOK, QueueTypes
<1>1. /\ Len(channel') = n - 1 /\ DOMAIN channel = 1..n /\ DOMAIN channel' = 1..(n - 1)
      /\ channel[1] = Head(channel) /\ \A i \in 1..(n - 1) : channel'[i] = channel[i + 1]
      /\ \A i \in 1..n : channel[i] \in Writes
  BY <1>0
<1>2. PICK M \in Nat : \A w \in Writes : Bytes(w) \in 0..M BY SizeBound
<1>3. 1 \in 1..n /\ \A i \in 1..(n - 1) : i + 1 \in 1..n BY <1>0
<1> HIDE DEF n
<1>4. \A i \in 1..n : ChannelSizes[i] = Bytes(channel[i]) BY <1>1 DEF ChannelSizes, Bytes
<1>5. \A i \in 1..(n - 1) : ChannelSizes'[i] = Bytes(channel'[i])
  BY <1>1 DEF ChannelSizes, Bytes
<1>6. ChannelSizes \in [1..n -> 0..M] BY <1>1, <1>2 DEF ChannelSizes
<1>7. ChannelSizes' \in [1..(n - 1) -> 0..M]
  <2>1. \A i \in 1..(n - 1) : Bytes(channel'[i]) \in 0..M BY <1>1, <1>2, <1>3
  <2> QED BY <1>1, <2>1 DEF ChannelSizes
<1>8. \A i \in 1..(n - 1) : ChannelSizes'[i] = ChannelSizes[i + 1] BY <1>1, <1>3, <1>4, <1>5
<1>9. Total(ChannelSizes) = Total(ChannelSizes') + ChannelSizes[1]
  BY <1>0, <1>6, <1>7, <1>8, TotalShift
<1>10. ChannelSizes[1] = Bytes(Head(channel)) BY <1>1, <1>3, <1>4
<1> QED BY <1>1, <1>9, <1>10 DEF n

(* What the writer holds.                                                   *)
Hand ==
    /\ EmptyHanded <=> writer.pc \notin Busy
    /\ writer.pc \notin Busy => InHand = 0 /\ HandSize = 0
    /\ writer.pc \in Busy => InHand = 1
    /\ writer.pc = "release_item" => HandSize = 0
    /\ writer.pc \in Busy \ {"release_item"} => HandSize = Bytes(writer.queued)
    /\ HandSize \in Nat

(* By its step.                                                             *)
LEMMA HandParts == TypeOK => Hand
<1> SUFFICES ASSUME TypeOK PROVE Hand OBVIOUS
<1>1. EmptyHanded <=> writer.pc \notin Busy BY WriterParts, Absent DEF EmptyHanded
<1>2. writer.pc \in Busy => Bytes(writer.queued) \in Nat BY WriterParts, BytesType
<1>3. HandSize = IF EmptyHanded \/ writer.pc = "release_item" THEN 0 ELSE Bytes(writer.queued)
  BY DEF HandSize
<1>4. "release_item" \in Busy BY DEF Busy
<1> HIDE DEF EmptyHanded, HandSize
<1> QED BY <1>1, <1>2, <1>3, <1>4 DEF InHand, Hand

(* In the next state.                                                       *)
LEMMA HandPartsNext == TypeOK' => Hand'
BY HandParts, PTL

(* The producers that hold an item, when one of them takes a step.          *)
LEMMA ItemHoldersStep ==
    ASSUME TypeOK, NEW r \in Requests,
           \A q \in Requests : q # r => producer'[q] = producer[q]
    PROVE  /\ ~HoldsItem(r) /\ HoldsItem(r)' =>
                Cardinality(ItemHolders') = Cardinality(ItemHolders) + 1
           /\ HoldsItem(r) /\ ~HoldsItem(r)' =>
                Cardinality(ItemHolders') = Cardinality(ItemHolders) - 1
           /\ (HoldsItem(r) <=> HoldsItem(r)') => ItemHolders' = ItemHolders
<1>1. IsFiniteSet(ItemHolders) BY SizesHeld DEF Sized
<1>2. ASSUME ~HoldsItem(r), HoldsItem(r)'
      PROVE  ItemHolders' = ItemHolders \cup {r} /\ r \notin ItemHolders
  BY <1>2 DEF ItemHolders, HoldsItem
<1>3. ASSUME HoldsItem(r), ~HoldsItem(r)'
      PROVE  ItemHolders' = ItemHolders \ {r} /\ r \in ItemHolders
  BY <1>3 DEF ItemHolders, HoldsItem
<1>4. (HoldsItem(r) <=> HoldsItem(r)') => ItemHolders' = ItemHolders
  BY DEF ItemHolders, HoldsItem
<1>5. ASSUME ~HoldsItem(r), HoldsItem(r)'
      PROVE  Cardinality(ItemHolders') = Cardinality(ItemHolders) + 1
  BY <1>1, <1>2, <1>5, FS_AddElement
<1>6. ASSUME HoldsItem(r), ~HoldsItem(r)'
      PROVE  Cardinality(ItemHolders') = Cardinality(ItemHolders) - 1
  BY <1>1, <1>3, <1>6, FS_RemoveElement
<1> QED BY <1>4, <1>5, <1>6

(* The bytes they hold.                                                     *)
LEMMA ByteHoldersStep ==
    ASSUME TypeOK, TypeOK', NEW r \in Requests,
           \A q \in Requests : q # r => producer'[q] = producer[q],
           HoldsBytes(r)' => producer'[r].write = producer[r].write
    PROVE  /\ ~HoldsBytes(r) /\ HoldsBytes(r)' =>
                Total(ProducerSizes') = Total(ProducerSizes) + Bytes(producer[r].write)
           /\ HoldsBytes(r) /\ ~HoldsBytes(r)' =>
                Total(ProducerSizes) = Total(ProducerSizes') + Bytes(producer[r].write)
           /\ (HoldsBytes(r) <=> HoldsBytes(r)') => ProducerSizes' = ProducerSizes
<1>1. ASSUME ~HoldsBytes(r), HoldsBytes(r)'
      PROVE  Total(ProducerSizes') = Total(ProducerSizes) + Bytes(producer[r].write)
  <2>1. Total(ProducerSizes') = Total(ProducerSizes) + Bytes(producer'[r].write)
    BY <1>1, ProducerGains
  <2>2. producer'[r].write = producer[r].write BY <1>1
  <2> QED BY <2>1, <2>2
<1>2. ASSUME HoldsBytes(r), ~HoldsBytes(r)'
      PROVE  Total(ProducerSizes) = Total(ProducerSizes') + Bytes(producer[r].write)
  BY <1>2, ProducerLoses
<1>3. ASSUME HoldsBytes(r) <=> HoldsBytes(r)' PROVE ProducerSizes' = ProducerSizes
  <2>1. \A q \in Requests : /\ HoldsBytes(q)' <=> HoldsBytes(q)
                            /\ HoldsBytes(q) => producer'[q].write = producer[q].write
    BY <1>3 DEF HoldsBytes
  <2> QED BY <2>1, ProducersKeep
<1> QED BY <1>1, <1>2, <1>3

(* The numbers behind the reservations.                                     *)
LEMMA Numbers ==
    ASSUME TypeOK, TypeOK'
    PROVE  /\ queued_items \in Int /\ queued_bytes \in Int
           /\ Total(ProducerSizes) \in Nat /\ Total(ProducerSizes') \in Nat
           /\ Total(ChannelSizes) \in Nat /\ Total(ChannelSizes') \in Nat
           /\ Cardinality(ItemHolders) \in Nat /\ Cardinality(ItemHolders') \in Nat
           /\ Len(channel) \in Nat /\ Len(channel') \in Nat
           /\ HandSize \in Nat /\ InHand \in Nat /\ HandSize' \in Nat /\ InHand' \in Nat
<1>1. queued_items \in Int /\ queued_bytes \in Int BY DEF TypeOK, QueueTypes
<1>2. /\ Total(ProducerSizes) \in Nat /\ Total(ChannelSizes) \in Nat
      /\ Cardinality(ItemHolders) \in Nat /\ Len(channel) \in Nat
  BY SizesHeld DEF Sized
<1>3. /\ Total(ProducerSizes') \in Nat /\ Total(ChannelSizes') \in Nat
      /\ Cardinality(ItemHolders') \in Nat /\ Len(channel') \in Nat
  BY SizesHeldNext DEF Sized
<1>4. HandSize \in Nat /\ HandSize' \in Nat BY HandParts, HandPartsNext DEF Hand
<1>5. InHand \in Nat /\ InHand' \in Nat BY DEF InHand
<1> QED BY <1>1, <1>2, <1>3, <1>4, <1>5

(* The reservations after a step.                                           *)
LEMMA HeldNext ==
    /\ queued_items' = Cardinality(ItemHolders') + Len(channel') + InHand' => ItemsHeld'
    /\ queued_bytes' = Total(ProducerSizes') + Total(ChannelSizes') + HandSize' => BytesHeld'
BY DEF ItemsHeld, BytesHeld

(* The steps of enqueue reserve once and give back once.                    *)
LEMMA EnqueueReserves ==
    ASSUME TypeOK, TypeOK', ReservationsHeld, NEW r \in Requests, EnqueueStep(r)
    PROVE  ReservationsHeld'
<1> DEFINE w == producer[r].write
<1>0. /\ queued_items = Cardinality(ItemHolders) + Len(channel) + InHand
      /\ queued_bytes = Total(ProducerSizes) + Total(ChannelSizes) + HandSize
  BY DEF ReservationsHeld, ItemsHeld, BytesHeld
<1>1. w \in Writes /\ Bytes(w) \in Nat /\ producer[r].pc # "idle"
  BY ProducerParts, BytesType
     DEF EnqueueStep, ReserveItem, ReserveBytes, Send, ReturnBytes, ReturnItem
<1>2. UNCHANGED <<session, writer>> /\ InHand' = InHand /\ HandSize' = HandSize
  BY DEF EnqueueStep, ReserveItem, ReserveBytes, Send, ReturnBytes, ReturnItem,
         InHand, HandSize, EmptyHanded
<1>3. \A at \in Offering \cup Returning : Goto(r, at) =>
        /\ producer'[r].pc = at /\ producer'[r].write = w
        /\ \A q \in Requests : q # r => producer'[q] = producer[q]
  BY <1>1, <1>2, Went
<1>4. Return(r) => /\ producer'[r].pc = "idle"
                   /\ \A q \in Requests : q # r => producer'[q] = producer[q]
  BY <1>2, Returned
<1>5. UNCHANGED channel => ChannelSizes' = ChannelSizes BY DEF ChannelSizes
<1> HIDE DEF w
<1>6. ASSUME (Cardinality(ItemHolders') + Len(channel')) - queued_items'
               = (Cardinality(ItemHolders) + Len(channel)) - queued_items,
             (Total(ProducerSizes') + Total(ChannelSizes')) - queued_bytes'
               = (Total(ProducerSizes) + Total(ChannelSizes)) - queued_bytes
      PROVE  ReservationsHeld'
  <2>1. queued_items' \in Int /\ queued_bytes' \in Int BY DEF TypeOK, QueueTypes
  <2>2. queued_items' = Cardinality(ItemHolders') + Len(channel') + InHand'
    <3>1. Cardinality(ItemHolders) + Len(channel) \in Int BY Numbers
    <3>2. Cardinality(ItemHolders') + Len(channel') \in Int BY Numbers
    <3>3. PICK a \in Int : a = Cardinality(ItemHolders) + Len(channel) BY <3>1
    <3>4. PICK b \in Int : b = Cardinality(ItemHolders') + Len(channel') BY <3>2
    <3>5. InHand \in Int /\ queued_items \in Int BY Numbers
    <3>6. PICK p \in Int, q \in Int, h \in Int : p = queued_items /\ q = queued_items' /\ h = InHand
      BY <2>1, <3>5
    <3>7. b - q = a - p /\ p = a + h BY <1>0, <1>6, <3>3, <3>4, <3>6
    <3>8. q = b + h BY <3>7
    <3> QED BY <1>2, <3>4, <3>6, <3>8
  <2>3. queued_bytes' = Total(ProducerSizes') + Total(ChannelSizes') + HandSize'
    <3>1. Total(ProducerSizes) + Total(ChannelSizes) \in Int BY Numbers
    <3>2. Total(ProducerSizes') + Total(ChannelSizes') \in Int BY Numbers
    <3>3. PICK a \in Int : a = Total(ProducerSizes) + Total(ChannelSizes) BY <3>1
    <3>4. PICK b \in Int : b = Total(ProducerSizes') + Total(ChannelSizes') BY <3>2
    <3>5. HandSize \in Int /\ queued_bytes \in Int BY Numbers
    <3>6. PICK p \in Int, q \in Int, h \in Int : p = queued_bytes /\ q = queued_bytes' /\ h = HandSize
      BY <2>1, <3>5
    <3>7. b - q = a - p /\ p = a + h BY <1>0, <1>6, <3>3, <3>4, <3>6
    <3>8. q = b + h BY <3>7
    <3> QED BY <1>2, <3>4, <3>6, <3>8
  <2> QED BY <2>2, <2>3, HeldNext DEF ReservationsHeld
<1>7. CASE ReserveItem(r)
  <2>1. producer[r].pc = "reserve_item" /\ UNCHANGED <<channel, queued_bytes>>
    BY <1>7 DEF ReserveItem, Refused
  <2>2. CASE queued_items' = queued_items + 1 /\ Goto(r, "reserve_bytes")
    <3>1. /\ producer'[r].pc = "reserve_bytes" /\ \A q \in Requests : q # r => producer'[q] = producer[q]
          /\ producer'[r].write = w
      BY <1>3, <2>2 DEF Offering, Returning
    <3>2. /\ ~HoldsItem(r) /\ HoldsItem(r)' /\ ~HoldsBytes(r) /\ ~HoldsBytes(r)'
      BY <2>1, <3>1 DEF HoldsItem, HoldsBytes
    <3>3. Cardinality(ItemHolders') = Cardinality(ItemHolders) + 1
      BY <3>1, <3>2, ItemHoldersStep
    <3>4. ProducerSizes' = ProducerSizes
      BY <3>1, <3>2, ByteHoldersStep DEF w
    <3>5. ChannelSizes' = ChannelSizes BY <1>5, <2>1, <2>2
    <3> QED BY <1>1, <1>6, <2>1, <2>2, <3>3, <3>4, <3>5, Numbers
  <2>3. CASE UNCHANGED queued_items /\ Return(r)
    <3>1. /\ producer'[r].pc = "idle" /\ \A q \in Requests : q # r => producer'[q] = producer[q]
      BY <1>4, <2>3
    <3>2. /\ ~HoldsItem(r) /\ ~HoldsItem(r)' /\ ~HoldsBytes(r) /\ ~HoldsBytes(r)'
      BY <2>1, <3>1 DEF HoldsItem, HoldsBytes
    <3>3. ItemHolders' = ItemHolders
      BY <3>1, <3>2, ItemHoldersStep
    <3>4. ProducerSizes' = ProducerSizes
      BY <3>1, <3>2, ByteHoldersStep DEF w
    <3>5. ChannelSizes' = ChannelSizes BY <1>5, <2>1, <2>3
    <3> QED BY <1>1, <1>6, <2>1, <2>3, <3>3, <3>4, <3>5, Numbers
  <2> QED BY <1>7, <2>2, <2>3 DEF ReserveItem, Refused
<1>8. CASE ReserveBytes(r)
  <2>1. producer[r].pc = "reserve_bytes" /\ UNCHANGED <<channel, queued_items>>
    BY <1>8 DEF ReserveBytes, w
  <2>2. CASE queued_bytes' = queued_bytes + Bytes(w) /\ Goto(r, "send")
    <3>1. /\ producer'[r].pc = "send" /\ \A q \in Requests : q # r => producer'[q] = producer[q]
          /\ producer'[r].write = w
      BY <1>3, <2>2 DEF Offering, Returning
    <3>2. /\ HoldsItem(r) /\ HoldsItem(r)' /\ ~HoldsBytes(r) /\ HoldsBytes(r)'
      BY <2>1, <3>1 DEF HoldsItem, HoldsBytes
    <3>3. ItemHolders' = ItemHolders
      BY <3>1, <3>2, ItemHoldersStep
    <3>4. Total(ProducerSizes') = Total(ProducerSizes) + Bytes(w)
      BY <3>1, <3>2, ByteHoldersStep DEF w
    <3>5. ChannelSizes' = ChannelSizes BY <1>5, <2>1, <2>2
    <3> QED BY <1>1, <1>6, <2>1, <2>2, <3>3, <3>4, <3>5, Numbers
  <2>3. CASE UNCHANGED queued_bytes /\ Goto(r, "return_item")
    <3>1. /\ producer'[r].pc = "return_item" /\ \A q \in Requests : q # r => producer'[q] = producer[q]
          /\ producer'[r].write = w
      BY <1>3, <2>3 DEF Offering, Returning
    <3>2. /\ HoldsItem(r) /\ HoldsItem(r)' /\ ~HoldsBytes(r) /\ ~HoldsBytes(r)'
      BY <2>1, <3>1 DEF HoldsItem, HoldsBytes
    <3>3. ItemHolders' = ItemHolders
      BY <3>1, <3>2, ItemHoldersStep
    <3>4. ProducerSizes' = ProducerSizes
      BY <3>1, <3>2, ByteHoldersStep DEF w
    <3>5. ChannelSizes' = ChannelSizes BY <1>5, <2>1, <2>3
    <3> QED BY <1>1, <1>6, <2>1, <2>3, <3>3, <3>4, <3>5, Numbers
  <2> QED BY <1>8, <2>2, <2>3 DEF ReserveBytes, w
<1>9. CASE Send(r)
  <2>1. producer[r].pc = "send" /\ UNCHANGED <<queued_items, queued_bytes>>
    BY <1>9 DEF Send, SendResult, w
  <2>2. CASE UNCHANGED channel /\ Goto(r, "return_bytes")
    <3>1. /\ producer'[r].pc = "return_bytes" /\ \A q \in Requests : q # r => producer'[q] = producer[q]
          /\ producer'[r].write = w
      BY <1>3, <2>2 DEF Offering, Returning
    <3>2. /\ HoldsItem(r) /\ HoldsItem(r)' /\ HoldsBytes(r) /\ HoldsBytes(r)'
      BY <2>1, <3>1 DEF HoldsItem, HoldsBytes
    <3>3. ItemHolders' = ItemHolders
      BY <3>1, <3>2, ItemHoldersStep
    <3>4. ProducerSizes' = ProducerSizes
      BY <3>1, <3>2, ByteHoldersStep DEF w
    <3>5. ChannelSizes' = ChannelSizes BY <1>5, <2>1, <2>2
    <3> QED BY <1>1, <1>6, <2>1, <2>2, <3>3, <3>4, <3>5, Numbers
  <2>3. CASE channel' = Append(channel, w) /\ Return(r)
    <3>1. /\ producer'[r].pc = "idle" /\ \A q \in Requests : q # r => producer'[q] = producer[q]
      BY <1>4, <2>3
    <3>2. /\ HoldsItem(r) /\ ~HoldsItem(r)' /\ HoldsBytes(r) /\ ~HoldsBytes(r)'
      BY <2>1, <3>1 DEF HoldsItem, HoldsBytes
    <3>3. Cardinality(ItemHolders') = Cardinality(ItemHolders) - 1
      BY <3>1, <3>2, ItemHoldersStep
    <3>4. Total(ProducerSizes) = Total(ProducerSizes') + Bytes(w)
      BY <3>1, <3>2, ByteHoldersStep DEF w
    <3>5. /\ Total(ChannelSizes') = Total(ChannelSizes) + Bytes(w)
          /\ Len(channel') = Len(channel) + 1
      BY <1>1, <2>3, ChannelGains
    <3>6. (Cardinality(ItemHolders') + Len(channel')) - queued_items'
          = (Cardinality(ItemHolders) + Len(channel)) - queued_items
      <4> DEFINE a == Cardinality(ItemHolders)
                 b == Cardinality(ItemHolders')
      <4>1. /\ a \in Nat /\ b \in Nat /\ b = a - 1 /\ Len(channel) \in Nat
            /\ queued_items \in Int /\ queued_items' = queued_items
        BY <2>1, <3>3, Numbers
      <4> HIDE DEF a, b
      <4>2. (b + Len(channel')) - queued_items' = (a + Len(channel)) - queued_items BY <3>5, <4>1
      <4> QED BY <4>2 DEF a, b
    <3>7. (Total(ProducerSizes') + Total(ChannelSizes')) - queued_bytes'
          = (Total(ProducerSizes) + Total(ChannelSizes)) - queued_bytes
      <4> DEFINE a == Total(ProducerSizes)
                 b == Total(ProducerSizes')
                 c == Total(ChannelSizes)
                 d == Total(ChannelSizes')
                 m == Bytes(w)
      <4>1. /\ a \in Nat /\ b \in Nat /\ c \in Nat /\ d \in Nat /\ m \in Nat
            /\ queued_bytes \in Int /\ queued_bytes' = queued_bytes /\ a = b + m /\ d = c + m
        BY <1>1, <2>1, <3>4, <3>5, Numbers
      <4> HIDE DEF a, b, c, d, m
      <4>2. (b + d) - queued_bytes' = (a + c) - queued_bytes BY <4>1
      <4> QED BY <4>2 DEF a, b, c, d
    <3> QED BY <1>6, <3>6, <3>7
  <2> QED BY <1>9, <2>2, <2>3 DEF Send, SendResult, w
<1>10. CASE ReturnBytes(r)
  <2>1. producer[r].pc = "return_bytes" /\ UNCHANGED <<channel, queued_items>>
    BY <1>10 DEF ReturnBytes, w
  <2>2. CASE queued_bytes' = queued_bytes - Bytes(w) /\ Goto(r, "return_item")
    <3>1. /\ producer'[r].pc = "return_item" /\ \A q \in Requests : q # r => producer'[q] = producer[q]
          /\ producer'[r].write = w
      BY <1>3, <2>2 DEF Offering, Returning
    <3>2. /\ HoldsItem(r) /\ HoldsItem(r)' /\ HoldsBytes(r) /\ ~HoldsBytes(r)'
      BY <2>1, <3>1 DEF HoldsItem, HoldsBytes
    <3>3. ItemHolders' = ItemHolders
      BY <3>1, <3>2, ItemHoldersStep
    <3>4. Total(ProducerSizes) = Total(ProducerSizes') + Bytes(w)
      BY <3>1, <3>2, ByteHoldersStep DEF w
    <3>5. ChannelSizes' = ChannelSizes BY <1>5, <2>1, <2>2
    <3> QED BY <1>1, <1>6, <2>1, <2>2, <3>3, <3>4, <3>5, Numbers
  <2> QED BY <1>10, <2>2 DEF ReturnBytes, w
<1>11. CASE ReturnItem(r)
  <2>1. producer[r].pc = "return_item" /\ UNCHANGED <<channel, queued_bytes>>
    BY <1>11 DEF ReturnItem, Refused
  <2>2. CASE queued_items' = queued_items - 1 /\ Return(r)
    <3>1. /\ producer'[r].pc = "idle" /\ \A q \in Requests : q # r => producer'[q] = producer[q]
      BY <1>4, <2>2
    <3>2. /\ HoldsItem(r) /\ ~HoldsItem(r)' /\ ~HoldsBytes(r) /\ ~HoldsBytes(r)'
      BY <2>1, <3>1 DEF HoldsItem, HoldsBytes
    <3>3. Cardinality(ItemHolders') = Cardinality(ItemHolders) - 1
      BY <3>1, <3>2, ItemHoldersStep
    <3>4. ProducerSizes' = ProducerSizes
      BY <3>1, <3>2, ByteHoldersStep DEF w
    <3>5. ChannelSizes' = ChannelSizes BY <1>5, <2>1, <2>2
    <3> QED BY <1>1, <1>6, <2>1, <2>2, <3>3, <3>4, <3>5, Numbers
  <2> QED BY <1>11, <2>2 DEF ReturnItem, Refused
<1> QED BY <1>7, <1>8, <1>9, <1>10, <1>11 DEF EnqueueStep

(* Steps of the writer: what it holds and the channel balance the counters. *)
LEMMA WriterBalance ==
    ASSUME TypeOK, TypeOK', ReservationsHeld, UNCHANGED producer,
           (Len(channel') + InHand') - queued_items' = (Len(channel) + InHand) - queued_items,
           (Total(ChannelSizes') + HandSize') - queued_bytes'
             = (Total(ChannelSizes) + HandSize) - queued_bytes
    PROVE  ReservationsHeld'
<1>1. queued_items' \in Int /\ queued_bytes' \in Int BY DEF TypeOK, QueueTypes
<1>2. ItemHolders' = ItemHolders BY DEF ItemHolders, HoldsItem
<1>3. ProducerSizes' = ProducerSizes BY DEF ProducerSizes, ByteHolders, HoldsBytes
<1>4. queued_items' = Cardinality(ItemHolders') + Len(channel') + InHand'
  <2>1. Cardinality(ItemHolders) \in Int /\ Cardinality(ItemHolders') = Cardinality(ItemHolders)
    BY <1>2, Numbers
  <2>2. PICK a \in Int : a = Cardinality(ItemHolders) BY <2>1
  <2>3. /\ Len(channel) \in Int /\ InHand \in Int /\ Len(channel') \in Int /\ InHand' \in Int
        /\ queued_items \in Int
    BY Numbers
  <2>4. PICK l \in Int, i \in Int, m \in Int, j \in Int, p \in Int, q \in Int :
          /\ l = Len(channel) /\ i = InHand /\ m = Len(channel') /\ j = InHand'
          /\ p = queued_items /\ q = queued_items'
    BY <1>1, <2>3
  <2>5. (m + j) - q = (l + i) - p BY <2>4
  <2>6. p = a + l + i BY <2>2, <2>4 DEF ReservationsHeld, ItemsHeld
  <2>7. q = a + m + j BY <2>5, <2>6
  <2> QED BY <2>1, <2>2, <2>4, <2>7
<1>5. queued_bytes' = Total(ProducerSizes') + Total(ChannelSizes') + HandSize'
  <2>1. Total(ProducerSizes) \in Int /\ Total(ProducerSizes') = Total(ProducerSizes)
    BY <1>3, Numbers
  <2>2. PICK a \in Int : a = Total(ProducerSizes) BY <2>1
  <2>3. /\ Total(ChannelSizes) \in Int /\ HandSize \in Int /\ Total(ChannelSizes') \in Int
        /\ HandSize' \in Int /\ queued_bytes \in Int
    BY Numbers
  <2>4. PICK l \in Int, i \in Int, m \in Int, j \in Int, p \in Int, q \in Int :
          /\ l = Total(ChannelSizes) /\ i = HandSize /\ m = Total(ChannelSizes') /\ j = HandSize'
          /\ p = queued_bytes /\ q = queued_bytes'
    BY <1>1, <2>3
  <2>5. (m + j) - q = (l + i) - p BY <2>4
  <2>6. p = a + l + i BY <2>2, <2>4 DEF ReservationsHeld, BytesHeld
  <2>7. q = a + m + j BY <2>5, <2>6
  <2> QED BY <2>1, <2>2, <2>4, <2>7
<1> QED BY <1>4, <1>5, HeldNext DEF ReservationsHeld

(* The writer moves on with what it holds, or with nothing.                 *)
LEMMA WriterKeeps ==
    ASSUME TypeOK, TypeOK', ReservationsHeld,
           UNCHANGED <<producer, channel, queued_items, queued_bytes>>,
           \/ writer.pc \notin Busy /\ writer'.pc \notin Busy
           \/ /\ writer.pc \in Busy \ {"release_item"} /\ writer'.pc \in Busy \ {"release_item"}
              /\ writer'.queued = writer.queued
           \/ UNCHANGED writer
    PROVE  ReservationsHeld'
<1>1. InHand' = InHand /\ HandSize' = HandSize
  <2>1. CASE UNCHANGED writer BY <2>1 DEF InHand, HandSize, EmptyHanded
  <2>2. CASE writer.pc \notin Busy /\ writer'.pc \notin Busy
    BY <2>2, HandParts, HandPartsNext DEF Hand
  <2>3. CASE /\ writer.pc \in Busy \ {"release_item"} /\ writer'.pc \in Busy \ {"release_item"}
             /\ writer'.queued = writer.queued
    BY <2>3, HandParts, HandPartsNext DEF Hand
  <2> QED BY <2>1, <2>2, <2>3
<1>2. ChannelSizes' = ChannelSizes BY DEF ChannelSizes
<1> QED BY <1>1, <1>2, WriterBalance

(* It takes an observation.                                                 *)
LEMMA WriterTakes ==
    ASSUME TypeOK, TypeOK', ReservationsHeld, UNCHANGED <<producer, queued_items, queued_bytes>>,
           channel # <<>>, channel' = Tail(channel), writer.pc \notin Busy,
           writer'.pc \in Busy \ {"release_item"}, writer'.queued = Head(channel)
    PROVE  ReservationsHeld'
<1>1. InHand = 0 /\ HandSize = 0 /\ InHand' = 1 /\ HandSize' = Bytes(Head(channel))
  BY HandParts, HandPartsNext DEF Hand
<1>2. /\ Total(ChannelSizes) = Total(ChannelSizes') + Bytes(Head(channel))
      /\ Len(channel') = Len(channel) - 1
  BY ChannelLoses
<1>3. Bytes(Head(channel)) \in Nat BY HeadTail, BytesType
<1>4. (Len(channel') + InHand') - queued_items' = (Len(channel) + InHand) - queued_items
  BY <1>1, <1>2, Numbers
<1>5. Total(ChannelSizes') + HandSize' = Total(ChannelSizes) + HandSize
  <2>1. PICK a \in Int, b \in Int, c \in Int :
          a = Total(ChannelSizes) /\ b = Total(ChannelSizes') /\ c = Bytes(Head(channel))
    BY <1>3, Numbers
  <2>2. a = b + c BY <1>2, <2>1
  <2>3. b + c = a + 0 BY <2>2
  <2> QED BY <1>1, <2>1, <2>3
<1>6. (Total(ChannelSizes') + HandSize') - queued_bytes'
        = (Total(ChannelSizes) + HandSize) - queued_bytes
  BY <1>5
<1> QED BY <1>4, <1>6, WriterBalance

(* The writer gives each reservation back exactly once.                     *)
LEMMA WriterReserves ==
    ASSUME TypeOK, TypeOK', ReservationsHeld, WriterStep \/ StoreUnavailable \/ Abort
    PROVE  ReservationsHeld'
<1>1. CASE Receive BY <1>1, Taken, WriterTakes DEF Receive, Busy
<1>2. CASE Persist BY <1>2, Persisted, WriterKeeps DEF Persist, Busy
<1>3. CASE Answered BY <1>3, AnswerHandled, WriterKeeps DEF Answered, Busy
<1>4. CASE ReleaseBytes
  <2> DEFINE m == Bytes(writer.queued)
  <2>1. /\ UNCHANGED <<producer, channel, queued_items>> /\ queued_bytes' = queued_bytes - m
        /\ writer.pc = "release_bytes" /\ writer'.pc = "release_item"
    BY <1>4, ReleasedBytes DEF ReleaseBytes
  <2>2. InHand = 1 /\ InHand' = 1 /\ HandSize = m /\ HandSize' = 0
    BY <2>1, HandParts, HandPartsNext DEF Hand, Busy
  <2>3. m \in Nat BY <2>1, WriterParts, BytesType DEF Busy
  <2>4. ChannelSizes' = ChannelSizes BY <2>1 DEF ChannelSizes
  <2> HIDE DEF m
  <2>5. (Total(ChannelSizes') + HandSize') - queued_bytes'
          = (Total(ChannelSizes) + HandSize) - queued_bytes
    <3>1. PICK a \in Int, p \in Int : a = Total(ChannelSizes) /\ p = queued_bytes BY Numbers
    <3>2. (a + 0) - (p - m) = (a + m) - p BY <2>3
    <3>3. queued_bytes' = p - m BY <2>1, <3>1
    <3> QED BY <2>2, <2>4, <3>1, <3>2, <3>3
  <2>6. (Len(channel') + InHand') - queued_items' = (Len(channel) + InHand) - queued_items
    BY <2>1, <2>2
  <2> QED BY <2>1, <2>5, <2>6, WriterBalance
<1>5. CASE ReleaseItem
  <2>1. /\ UNCHANGED <<producer, channel, queued_bytes>> /\ queued_items' = queued_items - 1
        /\ writer.pc = "release_item" /\ writer'.pc \notin Busy
    BY <1>5, ReleasedItem, WriterParts DEF ReleaseItem, Busy
  <2>2. InHand = 1 /\ InHand' = 0 /\ HandSize = 0 /\ HandSize' = 0
    BY <2>1, HandParts, HandPartsNext DEF Hand, Busy
  <2>3. ChannelSizes' = ChannelSizes BY <2>1 DEF ChannelSizes
  <2>4. (Len(channel') + InHand') - queued_items' = (Len(channel) + InHand) - queued_items
    <3>1. PICK a \in Int, p \in Int : a = Len(channel) /\ p = queued_items BY Numbers
    <3>2. (a + 0) - (p - 1) = (a + 1) - p OBVIOUS
    <3>3. queued_items' = p - 1 /\ Len(channel') = a BY <2>1, <3>1
    <3> QED BY <2>2, <3>1, <3>2, <3>3
  <2> QED BY <2>1, <2>2, <2>3, <2>4, WriterBalance
<1>6. CASE CloseReceiver BY <1>6, WriterKeeps DEF CloseReceiver
<1>7. CASE Drained \/ Stop BY <1>7, Stopped, WriterKeeps DEF Drained, Stop, Busy
<1>8. CASE PersistTimedOut BY <1>8, TimedOut, WriterKeeps DEF PersistTimedOut, Busy
<1>9. CASE Discard BY <1>9, Discarded, WriterTakes DEF Discard, Busy
<1>10. CASE StoreUnavailable BY <1>10, StoreFailed, WriterKeeps DEF StoreUnavailable, Busy
<1>11. CASE Abort BY <1>11, Aborted, WriterKeeps DEF Abort, Busy
<1> QED BY <1>1, <1>2, <1>3, <1>4, <1>5, <1>6, <1>7, <1>8, <1>9, <1>10, <1>11 DEF WriterStep

(* A call reserves nothing yet.                                             *)
LEMMA CallReserves ==
    ASSUME TypeOK, TypeOK', ReservationsHeld, NEW r \in Requests, Call(r)
    PROVE  ReservationsHeld'
<1>0. PICK kind, new : Follows(session[r], kind, new) /\ Enqueue(r, kind, new)
  BY CallFollows
<1>1. /\ producer[r].pc = "idle" /\ producer'[r].pc = "reserve_item"
      /\ \A q \in Requests : q # r => producer'[q] = producer[q]
      /\ UNCHANGED <<queued_items, channel, writer>>
  BY <1>0, Enqueued
<1>2. UNCHANGED queued_bytes BY <1>0 DEF Enqueue
<1>3. ~HoldsItem(r) /\ ~HoldsItem(r)' /\ ~HoldsBytes(r) /\ ~HoldsBytes(r)'
  BY <1>1 DEF HoldsItem, HoldsBytes
<1>4. ItemHolders' = ItemHolders BY <1>1, <1>3, ItemHoldersStep
<1>5. ProducerSizes' = ProducerSizes BY <1>1, <1>3, ByteHoldersStep
<1>6. ChannelSizes' = ChannelSizes /\ InHand' = InHand /\ HandSize' = HandSize
  BY <1>1 DEF ChannelSizes, InHand, HandSize, EmptyHanded
<1>7. /\ queued_items' = Cardinality(ItemHolders') + Len(channel') + InHand'
      /\ queued_bytes' = Total(ProducerSizes') + Total(ChannelSizes') + HandSize'
  BY <1>1, <1>2, <1>4, <1>5, <1>6 DEF ReservationsHeld, ItemsHeld, BytesHeld
<1> QED BY <1>7, HeldNext DEF ReservationsHeld

(* Every step keeps the reservations.                                       *)
LEMMA StepReserves ==
    ASSUME TypeOK, TypeOK', ReservationsHeld, [Next]_vars PROVE ReservationsHeld'
<1>1. CASE \E r \in Requests : Call(r) \/ EnqueueStep(r)
  BY <1>1, CallReserves, EnqueueReserves
<1>2. CASE WriterStep \/ StoreUnavailable \/ Abort BY <1>2, WriterReserves
<1>3. CASE \/ ShutDown \/ DrainTimeElapses \/ RecoverExpired \/ UNCHANGED vars
           \/ \E r \in Requests : DeadlinePasses(r)
  <2>1. UNCHANGED <<producer, channel, writer, queued_items, queued_bytes>>
    BY <1>3 DEF ShutDown, DrainTimeElapses, RecoverExpired, vars, DeadlinePasses
  <2> QED BY <2>1, WriterKeeps
<1> QED BY <1>1, <1>2, <1>3 DEF Next

(* Nothing is reserved at the beginning.                                    *)
LEMMA InitReserves == Init => ReservationsHeld
<1> SUFFICES ASSUME Init PROVE ReservationsHeld OBVIOUS
<1>1. /\ channel = <<>> /\ EmptyHanded /\ queued_items = 0 /\ queued_bytes = 0
      /\ \A r \in Requests : producer[r].pc = "idle"
  BY DEF Init, EmptyHanded
<1>2. ItemHolders = {} /\ ByteHolders = {}
  BY <1>1 DEF ItemHolders, ByteHolders, HoldsItem, HoldsBytes
<1>3. InHand = 0 /\ HandSize = 0 BY <1>1 DEF InHand, HandSize
<1>4. DOMAIN ProducerSizes = {} /\ DOMAIN ChannelSizes = {} /\ Len(channel) = 0
  BY <1>1, <1>2 DEF ProducerSizes, ChannelSizes
<1>5. Spread(ProducerSizes) = {} /\ Spread(ChannelSizes) = {} BY <1>4 DEF Spread
<1>6. Total(ProducerSizes) = 0 /\ Total(ChannelSizes) = 0
  BY <1>5, FS_EmptySet DEF Total, Spread
<1> QED BY <1>1, <1>2, <1>3, <1>4, <1>6, FS_EmptySet DEF ReservationsHeld, ItemsHeld, BytesHeld

(* The item counter and the byte counter are exactly the reservations of    *)
(* the observations somebody holds: no refusal, rejected send, timeout,     *)
(* drain or abort leaks one or gives one back twice.                        *)
THEOREM ReservationsCounted == Spec => []ReservationsHeld
<1>1. ASSUME TypeOK, TypeOK', ReservationsHeld, [Next]_vars PROVE ReservationsHeld'
  BY <1>1, StepReserves
<1> QED BY <1>1, InitReserves, TypeCorrect, PTL DEF Spec

=============================================================================
