------------------------- MODULE CapacityWaitProofs -------------------------
(***************************************************************************)
(* Proofs about CapacityWait, for any number of owners, places and any     *)
(* lease times.  The invariant speaks of each token by itself: where its   *)
(* owner is and what may be under way for it (Stage, Sent), what Redis     *)
(* holds for it (Kept) and what its renewal task believes (Held).  A step  *)
(* of one owner leaves the other tokens alone.                             *)
(***************************************************************************)
EXTENDS CapacityWait, FiniteSetTheorems, WellFoundedInduction, TLAPS

Stages == Awaiting \cup {"idle", "queued", "executing", "stopping", "ended"}
Replies == {"none", "yes", "full", "refused"}
Cleanups == {"none", "armed", "queued", "call", "answered", "retry", "done", "lost"}
Phases == {"off", "ready", "call", "yes", "no", "sleep"}
Commands == [cmd : {"enqueue", "execute", "renew", "cancel"}, tok : Tokens,
             live : {"owner", "renewal", "writer", "nobody"}, until : Nat, wait : BOOLEAN]
Renewals == [phase : Phases, expires : Nat, until : Nat, wake : Nat, confirmed : BOOLEAN]

(* Each variable keeps to its domain. *)
RedisTypes ==
    /\ waiting \in [Tokens -> Nat] /\ order \in [Tokens -> Nat]
    /\ active \in [Tokens -> Nat] /\ cancelled \in [Tokens -> Nat]
    /\ lastStarted \in Nat /\ cleaned \subseteq Tokens
OwnerTypes ==
    /\ pc \in [Tokens -> Stages] /\ reply \in [Tokens -> Replies]
    /\ waitDeadline \in [Tokens -> Nat] /\ cleanupDeadline \in [Tokens -> Nat]
    /\ renewal \in [Tokens -> Renewals]
WriterTypes == queue \in Seq(Tokens) /\ cleanup \in [Tokens -> Cleanups]
TypeOK ==
    /\ clock \in Nat /\ faults \in Nat /\ net \subseteq Commands
    /\ RedisTypes /\ OwnerTypes /\ WriterTypes

(* Where the owner of t is, against its renewal task and its cleanup. *)
Stage(t) ==
    /\ renewal[t].phase # "off" => pc[t] = "executing"
    /\ cleanup[t] = "armed" <=> pc[t] \notin {"idle", "ended"}
    /\ pc[t] = "idle" => /\ cleanup[t] = "none" /\ t \notin cleaned
                         /\ waiting[t] = 0 /\ order[t] = 0 /\ active[t] = 0

(* What a script m of t, however late, may still be. *)
UnderWay(t, m) ==
    /\ pc[t] # "idle"
    /\ m.cmd = "cancel" => pc[t] \in {"release", "ended"}
    /\ m.live = "writer" => pc[t] = "ended"
    /\ m.cmd = "renew" => /\ pc[t] \in {"executing", "stopping", "ended"}
                          /\ m.until = 0 /\ m.wait = FALSE
                          /\ m.live = "renewal" => renewal[t].phase = "call"
    /\ m.cmd = "execute" => /\ m.until <= clock + TTL
                            /\ cleanup[t] = "armed" => m.until <= cleanupDeadline[t]
Sent(t) == \A m \in net : m.tok = t => UnderWay(t, m)

(* What Redis holds for t. *)
Kept(t) ==
    /\ waiting[t] > 0 <=> order[t] > 0
    /\ waiting[t] <= waitDeadline[t]
    /\ active[t] <= clock + TTL
    /\ cleanup[t] = "armed" =>
          /\ waitDeadline[t] <= cleanupDeadline[t]
          /\ pc[t] \notin {"executing", "stopping"} => active[t] <= cleanupDeadline[t]
    /\ t \in cleaned =>
          /\ waiting[t] = 0 /\ order[t] = 0 /\ active[t] = 0
          /\ cancelled[t] >= waitDeadline[t] \/ waitDeadline[t] <= clock

(* What the renewal task of t believes of its lease. *)
Held(t) ==
    pc[t] = "executing" =>
        /\ renewal[t].confirmed /\ renewal[t].expires > clock => active[t] >= renewal[t].expires
        /\ renewal[t].phase = "call" => renewal[t].until <= clock + TTL
        /\ renewal[t].phase = "yes" /\ renewal[t].until > clock => active[t] >= renewal[t].until

Token(t) == Stage(t) /\ Sent(t) /\ Kept(t) /\ Held(t)

(* Of all of them: the queue holds ended owners, the numbers in use have a  *)
(* bound, the places are counted.                                           *)
Queued == \A i \in 1 .. Len(queue) : pc[queue[i]] = "ended"
Numbered == \E bound \in Nat : \A t \in Tokens : order[t] <= bound
Places == Cardinality(Alive(active)) <= MaxConcurrent

Inv ==
    /\ TypeOK /\ Queued /\ Numbered /\ Places
    /\ \A t \in Tokens : Token(t)

-----------------------------------------------------------------------------
(* Constants and operators.                                                 *)

LEMMA Times ==
    /\ MaxConcurrent \in Nat /\ MaxConcurrent > 0 /\ IsFiniteSet(Tokens)
    /\ TTL \in Nat /\ TTL >= 3 /\ TTL \div 3 \in Nat /\ RetryDelay \in Nat
    /\ \A w \in WaitTimes : w \in Nat
  BY CapacityAssumption

LEMMA NoRenewalOK ==
    NoRenewal \in Renewals /\ NoRenewal.phase = "off" /\ NoRenewal.confirmed = FALSE
  BY DEF NoRenewal, Renewals, Phases

LEMMA ReadyOK ==
    ASSUME NEW n \in Renewals, NEW x \in Nat
    PROVE  LET r == [n EXCEPT !.phase = "ready", !.expires = x] IN
           r \in Renewals /\ r.confirmed = n.confirmed /\ r.phase = "ready"
  BY DEF Renewals, Phases

(* Commands nobody waits for are the same commands. *)
LEMMA AbandonedOK ==
    ASSUME NEW msgs \in SUBSET Commands, NEW t \in Tokens, NEW caller
    PROVE  /\ Abandoned(msgs, t, caller) \subseteq Commands
           /\ \A m \in Abandoned(msgs, t, caller) :
                 /\ m.tok = t => m.live # caller \/ caller = "nobody"
                 /\ m.tok # t => m \in msgs
                 /\ \E k \in msgs : /\ m.cmd = k.cmd /\ m.tok = k.tok /\ m.until = k.until
                                    /\ m.wait = k.wait /\ m.live \in {k.live, "nobody"}
<1>1. SUFFICES ASSUME NEW m \in Abandoned(msgs, t, caller)
               PROVE  /\ m \in Commands
                      /\ m.tok = t => m.live # caller \/ caller = "nobody"
                      /\ m.tok # t => m \in msgs
                      /\ \E k \in msgs : /\ m.cmd = k.cmd /\ m.tok = k.tok /\ m.until = k.until
                                         /\ m.wait = k.wait /\ m.live \in {k.live, "nobody"}
  OBVIOUS
<1>2. PICK k \in msgs :
        m = IF k.tok = t /\ k.live = caller THEN [k EXCEPT !.live = "nobody"] ELSE k
  BY <1>1 DEF Abandoned
<1>3. CASE k.tok = t /\ k.live = caller
  BY <1>2, <1>3 DEF Commands
<1>4. CASE ~(k.tok = t /\ k.live = caller)
  BY <1>2, <1>4 DEF Commands
<1>5. QED
  BY <1>3, <1>4

(* The next number is larger than every number in use. *)
LEMMA NextSequenceOK ==
    ASSUME NEW seq \in [Tokens -> Nat], NEW bound \in Nat, \A t \in Tokens : seq[t] <= bound
    PROVE  NextSequence(seq) \in Nat \ {0}
<1> DEFINE Used == {0} \cup {seq[t] : t \in Tokens}
           Above == {n \in Nat : \A m \in Used : m <= n}
<1>1. Used \subseteq Nat /\ 0 \in Used
  OBVIOUS
<1>2. bound \in Above
  OBVIOUS
<1>3. PICK n \in Above : \A k \in Above : ~(k < n)
  <2>1. PICK n \in Above : \A k \in Above : ~(<<k, n>> \in OpToRel(<, Nat))
    BY <1>2, WFMin, NatLessThanWellFounded
  <2>2. QED
    BY <2>1 DEF OpToRel
<1>4. n \in Used
  <2>1. CASE n = 0
    BY <1>1, <2>1
  <2>2. CASE n # 0
    <3>1. n - 1 \in Nat /\ n - 1 \notin Above
      BY <1>3, <2>2
    <3>2. PICK m \in Used : ~(m <= n - 1)
      BY <3>1
    <3>3. m = n
      BY <1>1, <1>3, <3>1, <3>2
    <3>4. QED
      BY <3>2, <3>3
  <2>3. QED
    BY <2>1, <2>2
<1>5. \E x \in Used : \A y \in Used : x >= y
  BY <1>1, <1>3, <1>4
<1>6. Max(Used) \in Used
  BY <1>5 DEF Max
<1>7. QED
  BY <1>1, <1>6 DEF NextSequence

-----------------------------------------------------------------------------
(* A step of one owner, its task or its cleanup changes nothing in Redis    *)
(* and nothing of the other tokens.                                         *)

Apart(t) ==
    /\ UNCHANGED <<clock, waiting, order, active, cancelled, lastStarted, cleaned>>
    /\ \A u \in Tokens \ {t} :
          /\ pc'[u] = pc[u] /\ renewal'[u] = renewal[u] /\ cleanup'[u] = cleanup[u]
          /\ waitDeadline'[u] = waitDeadline[u] /\ cleanupDeadline'[u] = cleanupDeadline[u]
    /\ \A m \in net' : m.tok # t => m \in net

LEMMA OthersKept ==
    ASSUME NEW t \in Tokens, Apart(t), NEW u \in Tokens \ {t}, Token(u)
    PROVE  Token(u)'
<1>1. Stage(u)'
  BY DEF Apart, Token, Stage
<1>2. Sent(u)'
  BY DEF Apart, Token, Sent, UnderWay
<1>3. Kept(u)'
  BY DEF Apart, Token, Kept
<1>4. Held(u)'
  BY DEF Apart, Token, Held
<1>5. QED
  BY <1>1, <1>2, <1>3, <1>4 DEF Token

(* What a local step leaves of the types: those of the owners, the writer   *)
(* and the commands are to be shown.                                        *)
LEMMA LocalTypes ==
    ASSUME TypeOK, NEW t \in Tokens, Apart(t), OwnerTypes', WriterTypes', net' \subseteq Commands,
           faults' \in Nat
    PROVE  TypeOK'
  BY DEF TypeOK, RedisTypes, Apart

-----------------------------------------------------------------------------
(* The owner's steps.                                                       *)

LEMMA AcquireStep ==
    ASSUME TypeOK, NEW t \in Tokens, Token(t), Acquire(t) \/ AcquireScheduling(t)
    PROVE  TypeOK' /\ Apart(t) /\ Token(t)' /\ queue' = queue /\ pc[t] # "ended"
<1> DEFINE Begins(s, d, m) ==
        /\ pc[t] = "idle" /\ pc' = [pc EXCEPT ![t] = s]
        /\ waitDeadline' = [waitDeadline EXCEPT ![t] = d]
        /\ cleanupDeadline' = [cleanupDeadline EXCEPT ![t] = d]
        /\ cleanup' = [cleanup EXCEPT ![t] = "armed"]
        /\ net' = net \cup {m} /\ m.tok = t /\ m.cmd = s /\ m.live = "owner"
        /\ m.cmd = "execute" => m.until = clock + TTL /\ d = clock + TTL
<1>1. PICK s \in {"enqueue", "execute"}, d \in Nat, m \in Commands : Begins(s, d, m)
  <2>1. CASE Acquire(t)
    <3> DEFINE k == Command("enqueue", t, "owner", 0, TRUE)
    <3>1. PICK w \in WaitTimes :
            /\ waitDeadline' = [waitDeadline EXCEPT ![t] = clock + w]
            /\ cleanupDeadline' = [cleanupDeadline EXCEPT ![t] = clock + w]
      BY <2>1 DEF Acquire
    <3>2. clock + w \in Nat
      BY Times DEF TypeOK
    <3>3. k \in Commands /\ k.tok = t /\ k.cmd = "enqueue" /\ k.live = "owner"
      BY DEF Command, Commands
    <3>4. Begins("enqueue", clock + w, k)
      BY <2>1, <3>1, <3>3 DEF Acquire, Send
    <3>5. QED
      BY <3>2, <3>3, <3>4
  <2>2. CASE AcquireScheduling(t)
    <3> DEFINE k == Command("execute", t, "owner", clock + TTL, FALSE)
    <3>1. clock + TTL \in Nat
      BY Times DEF TypeOK
    <3>2. k \in Commands /\ k.tok = t /\ k.cmd = "execute" /\ k.live = "owner" /\ k.until = clock + TTL
      BY <3>1 DEF Command, Commands
    <3>3. Begins("execute", clock + TTL, k)
      BY <2>2, <3>2 DEF AcquireScheduling, Send
    <3>4. QED
      BY <3>1, <3>2, <3>3
  <2>3. QED
    BY <2>1, <2>2
<1>2. UNCHANGED <<clock, waiting, order, active, cancelled, lastStarted, cleaned, reply, renewal, queue, faults>>
  BY DEF Acquire, AcquireScheduling, redis
<1>3. Apart(t)
  BY <1>1, <1>2 DEF Apart, TypeOK, OwnerTypes, WriterTypes
<1>4. OwnerTypes' /\ WriterTypes' /\ net' \subseteq Commands /\ faults' \in Nat
  BY <1>1, <1>2 DEF TypeOK, OwnerTypes, WriterTypes, Stages, Awaiting, Cleanups
<1>5. /\ pc'[t] = s /\ cleanup'[t] = "armed" /\ waitDeadline'[t] = d /\ cleanupDeadline'[t] = d
      /\ renewal'[t] = renewal[t]
  BY <1>1, <1>2 DEF TypeOK, OwnerTypes, WriterTypes
<1>6. /\ waiting[t] = 0 /\ order[t] = 0 /\ active[t] = 0 /\ t \notin cleaned
      /\ renewal[t].phase = "off" /\ \A k \in net : k.tok # t
  BY <1>1 DEF Token, Stage, Sent, UnderWay
<1>7. Stage(t)'
  BY <1>2, <1>5, <1>6 DEF Stage
<1>8. Sent(t)'
  <2> SUFFICES ASSUME NEW k \in net', k.tok = t
               PROVE  UnderWay(t, k)'
    BY DEF Sent
  <2> QED
    BY <1>1, <1>2, <1>5, <1>6, Times DEF TypeOK, UnderWay
<1>9. Kept(t)'
  BY <1>2, <1>5, <1>6, Times DEF Kept, TypeOK
<1>10. Held(t)'
  BY <1>5 DEF Held
<1>11. QED
  BY <1>1, <1>2, <1>3, <1>4, <1>7, <1>8, <1>9, <1>10, LocalTypes DEF Token

LEMMA TryPromoteStep ==
    ASSUME TypeOK, NEW t \in Tokens, Token(t), TryPromote(t)
    PROVE  TypeOK' /\ Apart(t) /\ Token(t)' /\ queue' = queue /\ pc[t] # "ended"
<1> DEFINE k == Command("execute", t, "owner", clock + TTL, TRUE)
           d == IF cleanupDeadline[t] < clock + TTL THEN clock + TTL ELSE cleanupDeadline[t]
<1>0. clock \in Nat /\ TTL \in Nat /\ cleanupDeadline[t] \in Nat
  BY Times DEF TypeOK, OwnerTypes
<1>1. /\ pc[t] = "queued" /\ pc' = [pc EXCEPT ![t] = "promote"]
      /\ cleanupDeadline' = [cleanupDeadline EXCEPT ![t] = d] /\ net' = net \cup {k}
      /\ UNCHANGED <<clock, waiting, order, active, cancelled, lastStarted, cleaned, reply,
                     waitDeadline, renewal, queue, cleanup, faults>>
  BY DEF TryPromote, Send, redis, writer
<1>2. k \in Commands /\ k.tok = t /\ k.cmd = "execute" /\ k.live = "owner" /\ k.until = clock + TTL
  BY <1>0 DEF Command, Commands
<1>3. d \in Nat /\ d >= cleanupDeadline[t] /\ d >= clock + TTL
  BY <1>0
<1> HIDE DEF k, d
<1>4. Apart(t)
  BY <1>1, <1>2 DEF Apart, TypeOK, OwnerTypes
<1>5. OwnerTypes' /\ WriterTypes' /\ net' \subseteq Commands /\ faults' \in Nat
  BY <1>1, <1>2, <1>3 DEF TypeOK, OwnerTypes, WriterTypes, Stages, Awaiting
<1>6. pc'[t] = "promote" /\ cleanupDeadline'[t] = d
  BY <1>1 DEF TypeOK, OwnerTypes
<1>7. Stage(t)'
  BY <1>1, <1>6 DEF Token, Stage
<1>8. Sent(t)'
  <2> SUFFICES ASSUME NEW m \in net', m.tok = t PROVE UnderWay(t, m)'
    BY DEF Sent
  <2>1. CASE m = k
    BY <1>0, <1>1, <1>2, <1>3, <1>6, <2>1 DEF UnderWay
  <2>2. CASE m \in net
    <3>1. UnderWay(t, m) /\ m.until \in Nat
      BY <2>2 DEF Token, Sent, TypeOK, Commands
    <3>2. QED
      BY <1>0, <1>1, <1>3, <1>6, <3>1 DEF UnderWay
  <2>3. QED
    BY <1>1, <2>1, <2>2
<1>9. Kept(t)'
  <2>1. waitDeadline[t] \in Nat /\ active[t] \in Nat
    BY DEF TypeOK, OwnerTypes, RedisTypes
  <2>2. QED
    BY <1>0, <1>1, <1>3, <1>6, <2>1 DEF Token, Kept
<1>10. Held(t)'
  BY <1>6 DEF Held
<1>11. QED
  BY <1>1, <1>4, <1>5, <1>7, <1>8, <1>9, <1>10, LocalTypes DEF Token

(* Steps of the owner that send nothing. *)
LEMMA GrantedStep ==
    ASSUME TypeOK, NEW t \in Tokens, Token(t), Granted(t)
    PROVE  TypeOK' /\ Apart(t) /\ Token(t)' /\ queue' = queue /\ pc[t] # "ended"
<1> DEFINE r == [NoRenewal EXCEPT !.phase = "ready", !.expires = clock + TTL]
<1>1. /\ pc[t] \in {"execute", "promote"} /\ pc' = [pc EXCEPT ![t] = "executing"]
      /\ reply' = [reply EXCEPT ![t] = "none"] /\ renewal' = [renewal EXCEPT ![t] = r]
      /\ UNCHANGED <<clock, waiting, order, active, cancelled, lastStarted, cleaned, net,
                     waitDeadline, cleanupDeadline, queue, cleanup, faults>>
  BY DEF Granted, redis, writer
<1>2. r \in Renewals /\ r.confirmed = FALSE /\ r.phase = "ready"
  <2>1. clock + TTL \in Nat
    BY Times DEF TypeOK
  <2>2. QED
    BY <2>1, NoRenewalOK, ReadyOK
<1> HIDE DEF r
<1>3. Apart(t)
  BY <1>1 DEF Apart, TypeOK, OwnerTypes
<1>4. OwnerTypes' /\ WriterTypes' /\ net' \subseteq Commands /\ faults' \in Nat
  BY <1>1, <1>2 DEF TypeOK, OwnerTypes, WriterTypes, Stages, Replies
<1>5. pc'[t] = "executing" /\ renewal'[t] = r
  BY <1>1 DEF TypeOK, OwnerTypes
<1>6. Stage(t)'
  BY <1>1, <1>5 DEF Token, Stage
<1>7. Sent(t)'
  BY <1>1, <1>5 DEF Token, Sent, UnderWay
<1>8. Kept(t)'
  BY <1>1, <1>5 DEF Token, Kept
<1>9. Held(t)'
  BY <1>2, <1>5 DEF Held
<1>10. QED
  BY <1>1, <1>3, <1>4, <1>6, <1>7, <1>8, <1>9, LocalTypes DEF Token

LEMMA QueuedStep ==
    ASSUME TypeOK, NEW t \in Tokens, Token(t), Enqueued(t) \/ StillBusy(t)
    PROVE  TypeOK' /\ Apart(t) /\ Token(t)' /\ queue' = queue /\ pc[t] # "ended"
<1>1. /\ pc[t] \in {"enqueue", "promote"} /\ pc' = [pc EXCEPT ![t] = "queued"]
      /\ reply' = [reply EXCEPT ![t] = "none"]
      /\ UNCHANGED <<clock, waiting, order, active, cancelled, lastStarted, cleaned, net, renewal,
                     waitDeadline, cleanupDeadline, queue, cleanup, faults>>
  BY DEF Enqueued, StillBusy, redis, writer
<1>2. Apart(t)
  BY <1>1 DEF Apart, TypeOK, OwnerTypes
<1>3. OwnerTypes' /\ WriterTypes' /\ net' \subseteq Commands /\ faults' \in Nat
  BY <1>1 DEF TypeOK, OwnerTypes, WriterTypes, Stages, Replies
<1>4. pc'[t] = "queued"
  BY <1>1 DEF TypeOK, OwnerTypes
<1>5. Stage(t)' /\ Held(t)'
  BY <1>1, <1>4 DEF Token, Stage, Held
<1>6. Sent(t)'
  BY <1>1, <1>4 DEF Token, Sent, UnderWay
<1>7. Kept(t)'
  BY <1>1, <1>4 DEF Token, Kept
<1>8. QED
  BY <1>1, <1>2, <1>3, <1>5, <1>6, <1>7, LocalTypes DEF Token

LEMMA EndedStep ==
    ASSUME TypeOK, NEW t \in Tokens, Token(t), TurnedAway(t) \/ Released(t)
    PROVE  TypeOK' /\ Apart(t) /\ Token(t)' /\ queue' = queue /\ pc[t] # "ended"
<1>1. /\ pc[t] \in {"enqueue", "execute", "release"} /\ pc' = [pc EXCEPT ![t] = "ended"]
      /\ reply' = [reply EXCEPT ![t] = "none"] /\ cleanup' = [cleanup EXCEPT ![t] = "none"]
      /\ cleanupDeadline' = [cleanupDeadline EXCEPT ![t] = 0]
      /\ UNCHANGED <<clock, waiting, order, active, cancelled, lastStarted, cleaned, net, renewal,
                     waitDeadline, queue, faults>>
  BY DEF TurnedAway, Released, redis
<1>2. Apart(t)
  BY <1>1 DEF Apart, TypeOK, OwnerTypes, WriterTypes
<1>3. OwnerTypes' /\ WriterTypes' /\ net' \subseteq Commands /\ faults' \in Nat
  BY <1>1 DEF TypeOK, OwnerTypes, WriterTypes, Stages, Replies, Cleanups
<1>4. pc'[t] = "ended" /\ cleanup'[t] = "none"
  BY <1>1 DEF TypeOK, OwnerTypes, WriterTypes
<1>5. Stage(t)' /\ Held(t)'
  BY <1>1, <1>4 DEF Token, Stage, Held
<1>6. Sent(t)'
  BY <1>1, <1>4 DEF Token, Sent, UnderWay
<1>7. Kept(t)'
  BY <1>1, <1>4 DEF Token, Kept
<1>8. QED
  BY <1>1, <1>2, <1>3, <1>5, <1>6, <1>7, LocalTypes DEF Token

LEMMA ReleaseStep ==
    ASSUME TypeOK, NEW t \in Tokens, Token(t), Release(t)
    PROVE  TypeOK' /\ Apart(t) /\ Token(t)' /\ queue' = queue /\ pc[t] # "ended"
<1> DEFINE k == Command("cancel", t, "owner", 0, FALSE)
<1>1. /\ pc[t] \in {"queued", "enqueue", "execute", "promote"} /\ pc' = [pc EXCEPT ![t] = "release"]
      /\ reply' = [reply EXCEPT ![t] = "none"] /\ net' = net \cup {k}
      /\ UNCHANGED <<clock, waiting, order, active, cancelled, lastStarted, cleaned, renewal,
                     waitDeadline, cleanupDeadline, queue, cleanup, faults>>
  BY DEF Release, Send, redis, writer
<1>2. k \in Commands /\ k.tok = t /\ k.cmd = "cancel" /\ k.live = "owner"
  BY DEF Command, Commands
<1> HIDE DEF k
<1>3. Apart(t)
  BY <1>1, <1>2 DEF Apart, TypeOK, OwnerTypes
<1>4. OwnerTypes' /\ WriterTypes' /\ net' \subseteq Commands /\ faults' \in Nat
  BY <1>1, <1>2 DEF TypeOK, OwnerTypes, WriterTypes, Stages, Awaiting, Replies
<1>5. pc'[t] = "release"
  BY <1>1 DEF TypeOK, OwnerTypes
<1>6. Stage(t)' /\ Held(t)'
  BY <1>1, <1>5 DEF Token, Stage, Held
<1>7. Sent(t)'
  BY <1>1, <1>2, <1>5 DEF Token, Sent, UnderWay
<1>8. Kept(t)'
  BY <1>1, <1>5 DEF Token, Kept
<1>9. QED
  BY <1>1, <1>3, <1>4, <1>6, <1>7, <1>8, LocalTypes DEF Token

(* An ownership is dropped: its deadline for cleanup covers what Redis may  *)
(* hold for it.                                                             *)
LEMMA DroppedStep ==
    ASSUME TypeOK, NEW t \in Tokens, Token(t), Dropped(t), pc[t] \notin {"idle", "ended"}, faults' \in Nat
    PROVE  /\ TypeOK' /\ Apart(t) /\ Token(t)' /\ pc'[t] = "ended"
           /\ queue' = queue \/ queue' = Append(queue, t)
           /\ active[t] <= cleanupDeadline'[t] /\ waiting[t] <= cleanupDeadline'[t]
<1> DEFINE msgs == Abandoned(net, t, "owner")
           d == IF pc[t] \in {"executing", "stopping"} /\ cleanupDeadline[t] < clock + TTL
                THEN clock + TTL ELSE cleanupDeadline[t]
<1>0. /\ clock \in Nat /\ TTL \in Nat /\ cleanupDeadline[t] \in Nat /\ waitDeadline[t] \in Nat
      /\ active[t] \in Nat /\ waiting[t] \in Nat
  BY Times DEF TypeOK, OwnerTypes, RedisTypes
<1>1. /\ pc' = [pc EXCEPT ![t] = "ended"] /\ reply' = [reply EXCEPT ![t] = "none"]
      /\ renewal' = [renewal EXCEPT ![t] = NoRenewal]
      /\ net' = Abandoned(msgs, t, "renewal")
      /\ cleanupDeadline' = [cleanupDeadline EXCEPT ![t] = d]
      /\ UNCHANGED <<clock, waiting, order, active, cancelled, lastStarted, cleaned, waitDeadline>>
  BY DEF Dropped, redis
<1>2. \/ queue' = Append(queue, t) /\ cleanup' = [cleanup EXCEPT ![t] = "queued"]
      \/ queue' = queue /\ cleanup' = [cleanup EXCEPT ![t] = "lost"]
  BY DEF Dropped
<1>3. msgs \in SUBSET Commands /\ net \in SUBSET Commands
  BY AbandonedOK DEF TypeOK
<1>4. /\ net' \subseteq Commands
      /\ \A m \in net' : /\ m.tok # t => m \in net
                         /\ m.tok = t => m.live # "renewal"
                         /\ \E k \in net : /\ m.cmd = k.cmd /\ m.tok = k.tok /\ m.until = k.until
                                           /\ m.wait = k.wait /\ m.live \in {k.live, "nobody"}
  <2>1. net' \subseteq Commands
    BY <1>1, <1>3, AbandonedOK
  <2>2. ASSUME NEW m \in net'
        PROVE  /\ m.tok # t => m \in net
               /\ m.tok = t => m.live # "renewal"
               /\ \E k \in net : /\ m.cmd = k.cmd /\ m.tok = k.tok /\ m.until = k.until
                                 /\ m.wait = k.wait /\ m.live \in {k.live, "nobody"}
    <3>1. PICK l \in msgs : /\ m.cmd = l.cmd /\ m.tok = l.tok /\ m.until = l.until
                            /\ m.wait = l.wait /\ m.live \in {l.live, "nobody"}
      BY <1>1, <1>3, <2>2, AbandonedOK
    <3>2. PICK k \in net : /\ l.cmd = k.cmd /\ l.tok = k.tok /\ l.until = k.until
                           /\ l.wait = k.wait /\ l.live \in {k.live, "nobody"}
      BY <1>3, <3>1, AbandonedOK
    <3>3. m.tok # t => m \in net
      BY <1>1, <1>3, <2>2, AbandonedOK
    <3>4. m.tok = t => m.live # "renewal"
      BY <1>1, <1>3, <2>2, AbandonedOK
    <3>5. QED
      BY <3>1, <3>2, <3>3, <3>4
  <2>3. QED
    BY <2>1, <2>2
<1>5. d \in Nat /\ d >= cleanupDeadline[t] /\ (pc[t] \in {"executing", "stopping"} => d >= clock + TTL)
  BY <1>0
<1> HIDE DEF msgs, d
<1>6. Apart(t)
  BY <1>1, <1>2, <1>4 DEF Apart, TypeOK, OwnerTypes, WriterTypes
<1>7. OwnerTypes'
  BY <1>1, <1>5, NoRenewalOK DEF TypeOK, OwnerTypes, Stages, Replies
<1>8. WriterTypes'
  BY <1>2 DEF TypeOK, WriterTypes, Cleanups
<1>9. pc'[t] = "ended" /\ cleanup'[t] # "armed" /\ renewal'[t] = NoRenewal /\ cleanupDeadline'[t] = d
  BY <1>1, <1>2 DEF TypeOK, OwnerTypes, WriterTypes
<1>10. Stage(t)' /\ Held(t)'
  BY <1>9, NoRenewalOK DEF Stage, Held
<1>11. Sent(t)'
  <2> SUFFICES ASSUME NEW m \in net', m.tok = t PROVE UnderWay(t, m)'
    BY DEF Sent
  <2>1. PICK k \in net : /\ m.cmd = k.cmd /\ m.tok = k.tok /\ m.until = k.until
                         /\ m.wait = k.wait /\ m.live \in {k.live, "nobody"}
    BY <1>4
  <2>2. UnderWay(t, k)
    BY <2>1 DEF Token, Sent
  <2>3. QED
    BY <1>1, <1>4, <1>9, <2>1, <2>2 DEF UnderWay
<1>12. Kept(t)'
  BY <1>1, <1>9 DEF Token, Kept
<1>13. active[t] <= d /\ waiting[t] <= d
  BY <1>0, <1>5 DEF Token, Stage, Kept
<1>14. QED
  BY <1>2, <1>4, <1>6, <1>7, <1>8, <1>9, <1>10, <1>11, <1>12, <1>13, LocalTypes DEF Token

LEMMA FaultOK == ASSUME faults \in Nat, faults' = faults + 1 PROVE faults' \in Nat
  OBVIOUS

LEMMA OwnerStep ==
    ASSUME TypeOK, NEW t \in Tokens, Token(t), Owner(t)
    PROVE  /\ TypeOK' /\ Apart(t) /\ Token(t)' /\ pc[t] # "ended"
           /\ queue' = queue \/ (queue' = Append(queue, t) /\ pc'[t] = "ended")
<1>1. CASE Finish(t) \/ Abandon(t)
  <2>1. Dropped(t) /\ pc[t] \notin {"idle", "ended"} /\ faults' \in Nat
    BY <1>1, FaultOK DEF Finish, Abandon, Awaiting, TypeOK
  <2>2. QED
    BY <2>1, DroppedStep
<1>2. CASE ~(Finish(t) \/ Abandon(t))
  BY <1>2, AcquireStep, TryPromoteStep, GrantedStep, QueuedStep, EndedStep, ReleaseStep DEF Owner
<1>3. QED
  BY <1>1, <1>2

-----------------------------------------------------------------------------
(* The renewal task's steps, by what they make of its state r and of the    *)
(* owner's place.                                                           *)

LEMMA SleepingOK ==
    ASSUME NEW e \in Nat, NEW w \in Nat, NEW c \in BOOLEAN
    PROVE  /\ Sleeping(e, w, c) \in Renewals /\ Sleeping(e, w, c).phase = "sleep"
           /\ Sleeping(e, w, c).expires = e /\ Sleeping(e, w, c).confirmed = c
  BY DEF Sleeping, Renewals, Phases

(* While its state stays within Held, a task that goes on executing ...     *)
LEMMA TaskGoesOn ==
    ASSUME TypeOK, NEW t \in Tokens, Token(t), pc[t] = "executing", NEW r \in Renewals,
           renewal' = [renewal EXCEPT ![t] = r], r.phase # "off", pc' = pc, faults' \in Nat, OnlyRenewal,
           net' \subseteq Commands, \A m \in net' : m.tok # t => m \in net, Sent(t)',
           /\ r.confirmed /\ r.expires > clock => active[t] >= r.expires
           /\ r.phase = "call" => r.until <= clock + TTL
           /\ r.phase = "yes" /\ r.until > clock => active[t] >= r.until
    PROVE  TypeOK' /\ Apart(t) /\ Token(t)'
<1>1. UNCHANGED <<clock, waiting, order, active, cancelled, lastStarted, cleaned, reply,
                  waitDeadline, cleanupDeadline, queue, cleanup>>
  BY DEF OnlyRenewal, redis, writer
<1>2. Apart(t)
  BY <1>1 DEF Apart, TypeOK, OwnerTypes
<1>3. OwnerTypes' /\ WriterTypes'
  BY <1>1 DEF TypeOK, OwnerTypes, WriterTypes
<1>4. renewal'[t] = r
  BY DEF TypeOK, OwnerTypes
<1>5. Stage(t)'
  BY <1>1, <1>4 DEF Token, Stage
<1>6. Kept(t)'
  BY <1>1 DEF Token, Kept
<1>7. Held(t)'
  BY <1>1, <1>4 DEF Held
<1>8. QED
  BY <1>2, <1>3, <1>5, <1>6, <1>7, LocalTypes DEF Token

(* ... and one that is over leaves the owner to stop.                       *)
LEMMA TaskEnds ==
    ASSUME TypeOK, NEW t \in Tokens, Token(t), LeaseFails(t) \/ RequestCancelled(t)
    PROVE  TypeOK' /\ Apart(t) /\ Token(t)' /\ queue' = queue /\ pc[t] # "ended"
<1>0. pc[t] = "executing"
  BY DEF LeaseFails, RequestCancelled, Token, Stage
<1>1. /\ renewal' = [renewal EXCEPT ![t] = NoRenewal] /\ net' = Abandoned(net, t, "renewal")
      /\ pc' = [pc EXCEPT ![t] = "stopping"]
      /\ UNCHANGED <<clock, waiting, order, active, cancelled, lastStarted, cleaned, reply,
                     waitDeadline, cleanupDeadline, queue, cleanup, faults>>
  BY DEF LeaseFails, RequestCancelled, OnlyRenewal, redis, writer
<1>2. /\ net' \subseteq Commands
      /\ \A m \in net' :
            /\ m.tok # t => m \in net
            /\ m.tok = t => m.live # "renewal"
            /\ \E k \in net : /\ m.cmd = k.cmd /\ m.tok = k.tok /\ m.until = k.until
                              /\ m.wait = k.wait /\ m.live \in {k.live, "nobody"}
  BY <1>1, AbandonedOK DEF TypeOK
<1>3. Apart(t)
  BY <1>1, <1>2 DEF Apart, TypeOK, OwnerTypes
<1>4. OwnerTypes' /\ WriterTypes' /\ faults' \in Nat
  BY <1>1, NoRenewalOK DEF TypeOK, OwnerTypes, WriterTypes, Stages
<1>5. pc'[t] = "stopping" /\ renewal'[t] = NoRenewal
  BY <1>1 DEF TypeOK, OwnerTypes
<1>6. Stage(t)' /\ Held(t)'
  BY <1>0, <1>1, <1>5, NoRenewalOK DEF Token, Stage, Held
<1>7. Sent(t)'
  <2> SUFFICES ASSUME NEW m \in net', m.tok = t PROVE UnderWay(t, m)'
    BY DEF Sent
  <2>1. PICK k \in net : /\ m.cmd = k.cmd /\ m.tok = k.tok /\ m.until = k.until
                         /\ m.wait = k.wait /\ m.live \in {k.live, "nobody"}
    BY <1>2
  <2>2. UnderWay(t, k)
    BY <2>1 DEF Token, Sent
  <2>3. QED
    BY <1>0, <1>1, <1>2, <1>5, <2>1, <2>2 DEF UnderWay
<1>8. Kept(t)'
  BY <1>0, <1>1, <1>5 DEF Token, Kept
<1>9. QED
  BY <1>0, <1>1, <1>2, <1>3, <1>4, <1>6, <1>7, <1>8, LocalTypes DEF Token

LEMMA RenewCallStep ==
    ASSUME TypeOK, NEW t \in Tokens, Token(t), RenewCall(t)
    PROVE  TypeOK' /\ Apart(t) /\ Token(t)' /\ queue' = queue /\ pc[t] # "ended"
<1> DEFINE r == [renewal[t] EXCEPT !.phase = "call", !.until = clock + TTL]
           k == Command("renew", t, "renewal", 0, FALSE)
<1>0. clock + TTL \in Nat /\ renewal[t] \in Renewals
  BY Times DEF TypeOK, OwnerTypes
<1>1. /\ renewal[t].phase = "ready" /\ renewal' = [renewal EXCEPT ![t] = r] /\ net' = net \cup {k}
      /\ pc' = pc /\ faults' = faults /\ OnlyRenewal
  BY <1>0 DEF RenewCall
<1>2. /\ r \in Renewals /\ r.phase = "call" /\ r.until = clock + TTL
      /\ r.expires = renewal[t].expires /\ r.confirmed = renewal[t].confirmed
  BY <1>0 DEF Renewals, Phases
<1>3. k \in Commands /\ k.tok = t /\ k.cmd = "renew" /\ k.live = "renewal" /\ k.until = 0 /\ k.wait = FALSE
  BY DEF Command, Commands
<1> HIDE DEF r, k
<1>4. pc[t] = "executing" /\ renewal'[t] = r
  BY <1>1 DEF Token, Stage, TypeOK, OwnerTypes
<1>5. UNCHANGED <<clock, cleanup, cleanupDeadline, queue>>
  BY <1>1 DEF OnlyRenewal, writer
<1>6. Sent(t)'
  <2> SUFFICES ASSUME NEW m \in net', m.tok = t PROVE UnderWay(t, m)'
    BY DEF Sent
  <2>1. CASE m = k
    BY <1>1, <1>2, <1>3, <1>4, <2>1 DEF UnderWay
  <2>2. CASE m \in net
    BY <1>1, <1>2, <1>4, <1>5, <2>2 DEF Token, Sent, UnderWay
  <2>3. QED
    BY <1>1, <2>1, <2>2
<1>7. /\ r.confirmed /\ r.expires > clock => active[t] >= r.expires
      /\ r.phase = "call" => r.until <= clock + TTL
      /\ r.phase = "yes" /\ r.until > clock => active[t] >= r.until
  BY <1>0, <1>2, <1>4 DEF Token, Held
<1>8. net' \subseteq Commands /\ (\A m \in net' : m.tok # t => m \in net) /\ faults' \in Nat
  BY <1>1, <1>3 DEF TypeOK
<1>9. QED
  BY <1>1, <1>2, <1>4, <1>5, <1>6, <1>7, <1>8, TaskGoesOn

(* The answer came, nothing came, or the pause is over. *)
LEMMA RenewedStep ==
    ASSUME TypeOK, NEW t \in Tokens, Token(t), Renewed(t) \/ RenewFails(t) \/ RenewWakes(t)
    PROVE  TypeOK' /\ Apart(t) /\ Token(t)' /\ queue' = queue /\ pc[t] # "ended"
<1>0. /\ clock \in Nat /\ renewal[t] \in Renewals /\ renewal[t].expires \in Nat /\ renewal[t].until \in Nat
      /\ renewal[t].confirmed \in BOOLEAN /\ clock + TTL \div 3 \in Nat /\ clock + RetryDelay \in Nat
      /\ active[t] \in Nat
  BY Times DEF TypeOK, OwnerTypes, RedisTypes, Renewals
<1>1. pc[t] = "executing"
  BY DEF Renewed, RenewFails, RenewWakes, Token, Stage
<1>2. \E r \in Renewals :
         /\ renewal' = [renewal EXCEPT ![t] = r] /\ r.phase \in {"sleep", "ready"}
         /\ r.confirmed /\ r.expires > clock => active[t] >= r.expires
  <2>1. CASE Renewed(t)
    <3> DEFINE r == Sleeping(renewal[t].until, clock + TTL \div 3, TRUE)
    <3>1. renewal[t].phase = "yes" /\ renewal' = [renewal EXCEPT ![t] = r]
      BY <2>1 DEF Renewed, TypeOK, OwnerTypes
    <3>2. r \in Renewals /\ r.phase = "sleep" /\ r.expires = renewal[t].until
      BY <1>0, SleepingOK DEF Sleeping, Renewals, Phases
    <3>3. renewal[t].until > clock => active[t] >= renewal[t].until
      BY <1>1, <3>1 DEF Token, Held
    <3> HIDE DEF r
    <3>4. QED
      BY <3>1, <3>2, <3>3
  <2>2. CASE RenewFails(t)
    <3> DEFINE r == Sleeping(renewal[t].expires, clock + RetryDelay, renewal[t].confirmed)
    <3>1. renewal' = [renewal EXCEPT ![t] = r]
      BY <2>2 DEF RenewFails, TypeOK, OwnerTypes
    <3>2. /\ r \in Renewals /\ r.phase = "sleep" /\ r.expires = renewal[t].expires
          /\ r.confirmed = renewal[t].confirmed
      BY <1>0, SleepingOK
    <3> HIDE DEF r
    <3>3. QED
      BY <1>1, <3>1, <3>2 DEF Token, Held
  <2>3. CASE RenewWakes(t)
    <3> DEFINE r == [renewal[t] EXCEPT !.phase = "ready", !.wake = 0]
    <3>1. renewal' = [renewal EXCEPT ![t] = r]
      BY <2>3 DEF RenewWakes, TypeOK, OwnerTypes
    <3>2. /\ r \in Renewals /\ r.phase = "ready" /\ r.expires = renewal[t].expires
          /\ r.confirmed = renewal[t].confirmed
      BY <1>0 DEF Renewals, Phases
    <3> HIDE DEF r
    <3>3. QED
      BY <1>1, <3>1, <3>2 DEF Token, Held
  <2>4. QED
    BY <2>1, <2>2, <2>3
<1>3. PICK r \in Renewals :
         /\ renewal' = [renewal EXCEPT ![t] = r] /\ r.phase \in {"sleep", "ready"}
         /\ r.confirmed /\ r.expires > clock => active[t] >= r.expires
  BY <1>2
<1>4. \/ renewal[t].phase # "call" /\ net' = net
      \/ net' = Abandoned(net, t, "renewal")
  BY DEF Renewed, RenewFails, RenewWakes
<1>5. /\ net' \subseteq Commands
      /\ \A m \in net' :
            /\ m.tok # t => m \in net
            /\ m.tok = t /\ m.cmd = "renew" => m.live # "renewal"
            /\ \E k \in net : /\ m.cmd = k.cmd /\ m.tok = k.tok /\ m.until = k.until
                              /\ m.wait = k.wait /\ m.live \in {k.live, "nobody"}
  <2>1. CASE renewal[t].phase # "call" /\ net' = net
    BY <2>1 DEF Token, Sent, UnderWay, TypeOK
  <2>2. CASE net' = Abandoned(net, t, "renewal")
    BY <2>2, AbandonedOK DEF TypeOK
  <2>3. QED
    BY <1>4, <2>1, <2>2
<1>6. pc' = pc /\ faults' \in Nat /\ OnlyRenewal
  BY FaultOK DEF Renewed, RenewFails, RenewWakes, TypeOK
<1>7. UNCHANGED <<clock, cleanup, cleanupDeadline, queue>>
  BY <1>6 DEF OnlyRenewal, writer
<1>8. Sent(t)'
  <2> SUFFICES ASSUME NEW m \in net', m.tok = t PROVE UnderWay(t, m)'
    BY DEF Sent
  <2>1. PICK k \in net : /\ m.cmd = k.cmd /\ m.tok = k.tok /\ m.until = k.until
                         /\ m.wait = k.wait /\ m.live \in {k.live, "nobody"}
    BY <1>5
  <2>2. UnderWay(t, k)
    BY <2>1 DEF Token, Sent
  <2>3. QED
    BY <1>1, <1>5, <1>6, <1>7, <2>1, <2>2 DEF UnderWay
<1>9. QED
  BY <1>1, <1>3, <1>5, <1>6, <1>7, <1>8, TaskGoesOn

LEMMA RenewalStep ==
    ASSUME TypeOK, NEW t \in Tokens, Token(t), Renewal(t)
    PROVE  TypeOK' /\ Apart(t) /\ Token(t)' /\ queue' = queue /\ pc[t] # "ended"
  BY TaskEnds, RenewCallStep, RenewedStep DEF Renewal

-----------------------------------------------------------------------------
(* The cleanup writer's steps: their owner has ended.                       *)

LEMMA WriterStep ==
    ASSUME TypeOK, NEW t \in Tokens, Token(t), pc[t] = "ended",
           NEW c \in Cleanups \ {"armed"}, cleanup' = [cleanup EXCEPT ![t] = c],
           NEW d \in Nat, cleanupDeadline' = [cleanupDeadline EXCEPT ![t] = d],
           queue' \in Seq(Tokens), faults' \in Nat, OnlyWriter,
           \/ net' = net
           \/ net' = Abandoned(net, t, "writer")
           \/ net' = net \cup {Command("cancel", t, "writer", 0, FALSE)}
    PROVE  TypeOK' /\ Apart(t) /\ Token(t)'
<1> DEFINE k == Command("cancel", t, "writer", 0, FALSE)
<1>1. UNCHANGED <<clock, waiting, order, active, cancelled, lastStarted, cleaned, pc, reply,
                  waitDeadline, renewal>>
  BY DEF OnlyWriter, redis
<1>2. k \in Commands /\ k.tok = t /\ k.cmd = "cancel" /\ k.live = "writer"
  BY DEF Command, Commands
<1>3. /\ net' \subseteq Commands
      /\ \A m \in net' :
            /\ m.tok # t => m \in net
            /\ \/ m = k
               \/ \E l \in net : /\ m.cmd = l.cmd /\ m.tok = l.tok /\ m.until = l.until
                                 /\ m.wait = l.wait /\ m.live \in {l.live, "nobody"}
  <2>1. CASE net' = net
    BY <2>1 DEF TypeOK
  <2>2. CASE net' = Abandoned(net, t, "writer")
    <3>1. net \in SUBSET Commands
      BY DEF TypeOK
    <3>2. /\ net' \subseteq Commands
          /\ \A m \in net' :
                /\ m.tok # t => m \in net
                /\ \E l \in net : /\ m.cmd = l.cmd /\ m.tok = l.tok /\ m.until = l.until
                                  /\ m.wait = l.wait /\ m.live \in {l.live, "nobody"}
      BY <2>2, <3>1, AbandonedOK
    <3>3. QED
      BY <3>2
  <2>3. CASE net' = net \cup {k}
    <3> HIDE DEF k
    <3> QED
      BY <1>2, <2>3 DEF TypeOK
  <2>4. QED
    BY <2>1, <2>2, <2>3
<1> HIDE DEF k
<1>4. Apart(t)
  BY <1>1, <1>3 DEF Apart, TypeOK, OwnerTypes, WriterTypes
<1>5. OwnerTypes' /\ WriterTypes'
  BY <1>1 DEF TypeOK, OwnerTypes, WriterTypes
<1>6. cleanup'[t] = c
  BY DEF TypeOK, WriterTypes
<1>7. Stage(t)' /\ Held(t)'
  BY <1>1, <1>6 DEF Token, Stage, Held
<1>8. Sent(t)'
  <2> SUFFICES ASSUME NEW m \in net', m.tok = t PROVE UnderWay(t, m)'
    BY DEF Sent
  <2>1. CASE m = k
    BY <1>1, <1>2, <2>1 DEF UnderWay
  <2>2. CASE m # k
    <3>1. PICK l \in net : /\ m.cmd = l.cmd /\ m.tok = l.tok /\ m.until = l.until
                           /\ m.wait = l.wait /\ m.live \in {l.live, "nobody"}
      BY <1>3, <2>2
    <3>2. UnderWay(t, l)
      BY <3>1 DEF Token, Sent
    <3>3. QED
      BY <1>1, <1>6, <3>1, <3>2 DEF UnderWay
  <2>3. QED
    BY <2>1, <2>2
<1>9. Kept(t)'
  BY <1>1, <1>6 DEF Token, Kept
<1>10. QED
  BY <1>3, <1>4, <1>5, <1>7, <1>8, <1>9, LocalTypes DEF Token

LEMMA CleanupStep ==
    ASSUME TypeOK, NEW t \in Tokens, Token(t), Cleanup(t)
    PROVE  TypeOK' /\ Apart(t) /\ Token(t)' /\ queue' = queue /\ pc' = pc /\ cleanup[t] # "armed"
<1>1. /\ cleanup[t] \in {"call", "answered", "retry"} /\ pc[t] = "ended" /\ queue' = queue
      /\ OnlyWriter /\ pc' = pc
  BY DEF Cleanup, CleanupAnswered, CleanupFails, CleanupRetry, OnlyWriter, Token, Stage
<1>2. \E c \in Cleanups \ {"armed"} : cleanup' = [cleanup EXCEPT ![t] = c]
  BY DEF Cleanup, CleanupAnswered, CleanupFails, CleanupRetry, Cleanups
<1>3. \E d \in Nat : cleanupDeadline' = [cleanupDeadline EXCEPT ![t] = d]
  <2>1. cleanupDeadline' = cleanupDeadline \/ cleanupDeadline' = [cleanupDeadline EXCEPT ![t] = 0]
    BY DEF Cleanup, CleanupAnswered, CleanupFails, CleanupRetry, Forget
  <2>2. cleanupDeadline[t] \in Nat /\ cleanupDeadline = [cleanupDeadline EXCEPT ![t] = cleanupDeadline[t]]
    BY DEF TypeOK, OwnerTypes
  <2>3. QED
    BY <2>1, <2>2
<1>4. /\ faults' \in Nat /\ queue' \in Seq(Tokens)
      /\ \/ net' = net
         \/ net' = Abandoned(net, t, "writer")
         \/ net' = net \cup {Command("cancel", t, "writer", 0, FALSE)}
  BY <1>1, FaultOK DEF Cleanup, CleanupAnswered, CleanupFails, CleanupRetry, CleanupCall, TypeOK, WriterTypes
<1>5. TypeOK' /\ Apart(t) /\ Token(t)'
  BY <1>1, <1>2, <1>3, <1>4, WriterStep
<1>6. QED
  BY <1>1, <1>5

LEMMA ReceiveStep ==
    ASSUME TypeOK, Queued, \A t \in Tokens : Token(t), CleanupReceive
    PROVE  /\ TypeOK' /\ (\A t \in Tokens : Token(t)') /\ Queued'
           /\ UNCHANGED <<clock, waiting, order, active, cancelled, lastStarted, cleaned, pc>>
           /\ \A t \in Tokens : cleanup[t] = "armed" => cleanup'[t] = "armed"
<1>0. PICK t \in Tokens : t = Head(queue)
  BY DEF CleanupReceive, TypeOK, WriterTypes
<1>1. /\ queue \in Seq(Tokens) /\ Len(queue) > 0 /\ t = queue[1]
      /\ queue' = Tail(queue) /\ queue' \in Seq(Tokens) /\ Len(queue') = Len(queue) - 1
      /\ \A i \in 1 .. Len(queue') : queue'[i] = queue[i + 1]
  BY <1>0 DEF CleanupReceive, TypeOK, WriterTypes
<1>2. pc[t] = "ended"
  BY <1>1 DEF Queued
<1>3. /\ cleanup' = [cleanup EXCEPT ![t] = "call"] /\ OnlyWriter /\ faults' \in Nat
      /\ net' = net \cup {Command("cancel", t, "writer", 0, FALSE)} /\ cleanupDeadline' = cleanupDeadline
  BY <1>0 DEF CleanupReceive, CleanupCall, TypeOK
<1>4. cleanupDeadline[t] \in Nat /\ cleanupDeadline = [cleanupDeadline EXCEPT ![t] = cleanupDeadline[t]]
  BY <1>1 DEF TypeOK, OwnerTypes
<1>5. "call" \in Cleanups \ {"armed"}
  BY DEF Cleanups
<1>6. TypeOK' /\ Apart(t) /\ Token(t)'
  BY <1>1, <1>2, <1>3, <1>4, <1>5, WriterStep
<1>7. \A u \in Tokens : Token(u)'
  BY <1>1, <1>6, OthersKept
<1>8. pc' = pc /\ UNCHANGED <<clock, waiting, order, active, cancelled, lastStarted, cleaned>>
  BY <1>3 DEF OnlyWriter, redis
<1>9. Queued'
  BY <1>1, <1>8 DEF Queued
<1>10. cleanup[t] # "armed"
  BY <1>1, <1>2 DEF Token, Stage
<1>11. \A u \in Tokens : cleanup[u] = "armed" => cleanup'[u] = "armed"
  BY <1>1, <1>3, <1>10 DEF TypeOK, WriterTypes
<1>12. QED
  BY <1>6, <1>7, <1>8, <1>9, <1>11

(* Together: a local step keeps the invariant. *)
LEMMA LocalStep ==
    ASSUME Inv, NEW t \in Tokens, Owner(t) \/ Renewal(t) \/ Cleanup(t)
    PROVE  Inv'
<1>1. TypeOK /\ Token(t)
  BY DEF Inv, Token
<1>2. /\ TypeOK' /\ Apart(t) /\ Token(t)' /\ (pc[t] # "ended" \/ pc' = pc)
      /\ queue' = queue \/ (queue' = Append(queue, t) /\ pc'[t] = "ended")
  BY <1>1, OwnerStep, RenewalStep, CleanupStep
<1>3. \A u \in Tokens : Token(u)'
  BY <1>2, OthersKept DEF Inv, Token
<1>4. Numbered' /\ Places'
  BY <1>2 DEF Inv, Apart, Numbered, Places, Alive
<1>5. \A u \in Tokens : pc[u] = "ended" => pc'[u] = "ended"
  BY <1>2 DEF Apart
<1>6. Queued'
  <2>1. queue \in Seq(Tokens)
    BY <1>1 DEF TypeOK, WriterTypes
  <2>2. CASE queue' = queue
    BY <1>5, <2>1, <2>2 DEF Inv, Queued
  <2>3. CASE queue' = Append(queue, t) /\ pc'[t] = "ended"
    <3> SUFFICES ASSUME NEW i \in 1 .. Len(queue') PROVE pc'[queue'[i]] = "ended"
      BY DEF Queued
    <3>1. Len(queue') = Len(queue) + 1
      BY <2>1, <2>3
    <3>2. CASE i = Len(queue) + 1
      BY <2>1, <2>3, <3>2
    <3>3. CASE i \in 1 .. Len(queue)
      BY <1>5, <2>1, <2>3, <3>3 DEF Inv, Queued
    <3>4. QED
      BY <2>1, <3>1, <3>2, <3>3
  <2>4. QED
    BY <1>2, <2>2, <2>3
<1>7. QED
  BY <1>2, <1>3, <1>4, <1>6 DEF Inv, Token

-----------------------------------------------------------------------------
(* The scripts.  What every one of them leaves alone:                       *)

Script(m) ==
    /\ net' = net \ {m} /\ UNCHANGED <<clock, pc, waitDeadline, cleanupDeadline, queue, faults>>

(* Redis forgets what has expired, of any token, and only that. *)
Forgotten(u) ==
    /\ \/ waiting'[u] = waiting[u] /\ order'[u] = order[u]
       \/ waiting[u] <= clock /\ waiting'[u] = 0 /\ order'[u] = 0
    /\ active'[u] = active[u] \/ (active[u] <= clock /\ active'[u] = 0)
    /\ cancelled'[u] = cancelled[u] /\ (u \in cleaned' <=> u \in cleaned)

Steady(u) == renewal'[u] = renewal[u] /\ cleanup'[u] = cleanup[u]

LEMMA Values ==
    ASSUME TypeOK, NEW u \in Tokens
    PROVE  /\ waiting[u] \in Nat /\ order[u] \in Nat /\ active[u] \in Nat /\ cancelled[u] \in Nat
           /\ clock \in Nat /\ waitDeadline[u] \in Nat /\ cleanupDeadline[u] \in Nat
           /\ renewal[u] \in Renewals /\ renewal[u].expires \in Nat /\ renewal[u].until \in Nat
  BY DEF TypeOK, RedisTypes, OwnerTypes, Renewals

LEMMA ForgottenKept ==
    ASSUME TypeOK, NEW u \in Tokens, Token(u), NEW m \in net, Script(m), Forgotten(u), Steady(u)
    PROVE  Token(u)'
<1>1. Stage(u)'
  BY Values DEF Token, Stage, Script, Forgotten, Steady
<1>2. Sent(u)'
  BY DEF Token, Sent, UnderWay, Script, Steady
<1>3. Kept(u)'
  BY Values, Times DEF Token, Kept, Script, Forgotten, Steady
<1>4. Held(u)'
  BY Values DEF Token, Held, Script, Forgotten, Steady
<1>5. QED
  BY <1>1, <1>2, <1>3, <1>4 DEF Token

(* Scripts find tombstone or deadline of a token that has been cleaned up.  *)
LEMMA CleanedRefused ==
    ASSUME TypeOK, NEW t \in Tokens, Kept(t), t \in cleaned
    PROVE  waitDeadline[t] <= clock \/ Tombstone(t)
  BY Values DEF Kept, Tombstone

LEMMA AnswerOK ==
    ASSUME TypeOK, NEW m \in net, NEW result \in Replies, Answer(m, result)
    PROVE  reply' \in [Tokens -> Replies] /\ UNCHANGED <<pc, waitDeadline, cleanupDeadline>>
  BY DEF Answer, TypeOK, OwnerTypes, Commands

(* The types after a script, of what it can change. *)
LEMMA ScriptTypes ==
    ASSUME TypeOK, NEW m \in net, Script(m), RedisTypes', reply' \in [Tokens -> Replies],
           renewal' \in [Tokens -> Renewals], cleanup' \in [Tokens -> Cleanups]
    PROVE  TypeOK'
<1>1. OwnerTypes' /\ WriterTypes'
  BY DEF TypeOK, OwnerTypes, WriterTypes, Script
<1>2. QED
  BY <1>1 DEF TypeOK, Script

LEMMA EnqueueEffect ==
    ASSUME TypeOK, Numbered, NEW t \in Tokens, Kept(t), NEW limit \in WaitingLimits, RunEnqueue(t, limit),
           cleaned' = cleaned, \A u \in Tokens : Kept(u)
    PROVE  /\ \A u \in Tokens \ {t} : Forgotten(u)
           /\ \/ Forgotten(t)
              \/ /\ t \notin cleaned /\ waitDeadline[t] > clock
                 /\ waiting'[t] = waitDeadline[t] /\ order'[t] \in Nat \ {0}
           /\ UNCHANGED <<active, cancelled, lastStarted>>
           /\ waiting' \in [Tokens -> Nat] /\ order' \in [Tokens -> Nat]
<1> DEFINE added == EnqueueResult(t, limit) = "added"
           w == [u \in Tokens |-> IF waiting[u] <= clock THEN 0 ELSE waiting[u]]
           o == [u \in Tokens |-> IF waiting[u] > 0 /\ waiting[u] <= clock THEN 0 ELSE order[u]]
<1>1. /\ waiting' = [w EXCEPT ![t] = IF added THEN waitDeadline[t] ELSE w[t]]
      /\ order' = [o EXCEPT ![t] = IF added THEN NextSequence(o) ELSE o[t]]
      /\ UNCHANGED <<active, cancelled, lastStarted>>
  BY DEF RunEnqueue, Purged, PurgedOrder
<1>2. w \in [Tokens -> Nat] /\ o \in [Tokens -> Nat]
  BY Values
<1>3. ASSUME NEW u \in Tokens, waiting'[u] = w[u], order'[u] = o[u] PROVE Forgotten(u)
  BY <1>1, <1>3, Values DEF Forgotten, Kept
<1>4. NextSequence(o) \in Nat \ {0}
  <2>1. PICK bound \in Nat : \A u \in Tokens : order[u] <= bound
    BY DEF Numbered
  <2>2. \A u \in Tokens : o[u] <= bound
    BY <2>1, Values
  <2>3. QED
    BY <1>2, <2>1, <2>2, NextSequenceOK
<1>5. added => t \notin cleaned /\ waitDeadline[t] > clock
  BY CleanedRefused, Values DEF EnqueueResult
<1> HIDE DEF added, w, o
<1>6. \A u \in Tokens \ {t} : Forgotten(u)
  BY <1>1, <1>2, <1>3
<1>7. CASE added
  BY <1>1, <1>2, <1>4, <1>5, <1>6, <1>7, Values
<1>8. CASE ~added
  BY <1>1, <1>2, <1>3, <1>6, <1>8
<1>9. QED
  BY <1>7, <1>8

LEMMA EnqueueRunsStep ==
    ASSUME Inv, EnqueueRuns
    PROVE  Inv' /\ active' = active
<1>1. PICK m \in net, limit \in WaitingLimits :
        /\ m.cmd = "enqueue" /\ net' = net \ {m} /\ RunEnqueue(m.tok, limit)
        /\ Answer(m, IF EnqueueResult(m.tok, limit) = "added" THEN "yes" ELSE EnqueueResult(m.tok, limit))
        /\ UNCHANGED <<clock, renewal, writer, cleaned, faults>>
  BY DEF EnqueueRuns
<1> DEFINE t == m.tok
<1>2. TypeOK /\ t \in Tokens /\ \A u \in Tokens : Token(u) /\ Kept(u)
  BY DEF Inv, Token, TypeOK, Commands
<1>3. reply' \in [Tokens -> Replies] /\ Script(m) /\ \A u \in Tokens : Steady(u)
  <2>1. (IF EnqueueResult(t, limit) = "added" THEN "yes" ELSE EnqueueResult(t, limit)) \in Replies
    BY DEF EnqueueResult, Replies
  <2>2. QED
    BY <1>1, <1>2, <2>1, AnswerOK DEF Script, Steady, writer
<1>4. /\ \A u \in Tokens \ {t} : Forgotten(u)
      /\ \/ Forgotten(t)
         \/ /\ t \notin cleaned /\ waitDeadline[t] > clock
            /\ waiting'[t] = waitDeadline[t] /\ order'[t] \in Nat \ {0}
      /\ UNCHANGED <<active, cancelled, lastStarted>>
      /\ waiting' \in [Tokens -> Nat] /\ order' \in [Tokens -> Nat]
  BY <1>1, <1>2, EnqueueEffect DEF Inv
<1> HIDE DEF t
<1>5. TypeOK'
  <2>1. RedisTypes' /\ renewal' \in [Tokens -> Renewals] /\ cleanup' \in [Tokens -> Cleanups]
    BY <1>1, <1>2, <1>4 DEF RedisTypes, TypeOK, OwnerTypes, WriterTypes, writer
  <2>2. QED
    BY <1>2, <1>3, <2>1, ScriptTypes
<1>6. ASSUME NEW u \in Tokens PROVE Token(u)'
  <2>1. CASE Forgotten(u)
    BY <1>2, <1>3, <2>1, ForgottenKept
  <2>2. CASE ~Forgotten(u)
    <3>1. /\ u = t /\ t \notin cleaned /\ waitDeadline[t] > clock
          /\ waiting'[t] = waitDeadline[t] /\ order'[t] > 0
      BY <1>4, <2>2
    <3>2. pc[u] # "idle"
      BY <1>2, <3>1 DEF Token, Sent, UnderWay, t
    <3>3. Stage(u)'
      BY <1>2, <1>3, <1>4, <3>1, <3>2 DEF Token, Stage, Script, Steady
    <3>4. Sent(u)'
      BY <1>2, <1>3 DEF Token, Sent, UnderWay, Script, Steady
    <3>5. Kept(u)'
      BY <1>1, <1>2, <1>3, <1>4, <3>1, Values DEF Kept, Script, Steady
    <3>6. Held(u)'
      BY <1>2, <1>3, <1>4 DEF Token, Held, Script, Steady
    <3>7. QED
      BY <3>3, <3>4, <3>5, <3>6 DEF Token
  <2>3. QED
    BY <2>1, <2>2
<1>7. Queued' /\ Places'
  BY <1>3, <1>4 DEF Inv, Queued, Places, Alive, Script
<1>8. Numbered'
  <2>1. PICK bound \in Nat : \A u \in Tokens : order[u] <= bound
    BY DEF Inv, Numbered
  <2>2. PICK high \in Nat : high >= bound /\ high >= order'[t]
    BY <1>2, <1>4
  <2>3. \A u \in Tokens : order'[u] <= high
    BY <1>2, <1>4, <2>1, <2>2, Values DEF Forgotten
  <2>4. QED
    BY <2>3 DEF Numbered
<1>9. QED
  BY <1>4, <1>5, <1>6, <1>7, <1>8 DEF Inv, Token

(* A grant: the token had no place, nobody waits before it, a place was     *)
(* free, and it stays until the time the owner's command names.             *)
GrantedTo(t, until) ==
    /\ t \notin cleaned /\ active[t] <= clock /\ until > clock
    /\ waiting'[t] = 0 /\ order'[t] = 0 /\ active'[t] = until
    /\ Cardinality(Alive(active)) < MaxConcurrent
    /\ \A u \in Tokens \ {t} : waiting[u] > clock => waiting[t] > clock /\ order[t] < order[u]

LEMMA ExecutionEffect ==
    ASSUME TypeOK, NEW t \in Tokens, \A u \in Tokens : Kept(u), NEW until \in Nat, NEW wait,
           RunExecution(t, until, wait), cleaned' = cleaned
    PROVE  /\ \A u \in Tokens \ {t} : Forgotten(u)
           /\ Forgotten(t) \/ GrantedTo(t, until)
           /\ RedisTypes'
<1> DEFINE granted == ExecutionResult(t, until, wait) = "granted"
           w == [u \in Tokens |-> IF waiting[u] <= clock THEN 0 ELSE waiting[u]]
           o == [u \in Tokens |-> IF waiting[u] > 0 /\ waiting[u] <= clock THEN 0 ELSE order[u]]
           a == [u \in Tokens |-> IF active[u] <= clock THEN 0 ELSE active[u]]
<1>1. /\ waiting' = [w EXCEPT ![t] = IF granted THEN 0 ELSE w[t]]
      /\ order' = [o EXCEPT ![t] = IF granted THEN 0 ELSE o[t]]
      /\ active' = [a EXCEPT ![t] = IF granted THEN until ELSE a[t]]
      /\ lastStarted' = (IF granted THEN clock ELSE lastStarted) /\ cancelled' = cancelled
  BY DEF RunExecution, Purged, PurgedOrder
<1>2. w \in [Tokens -> Nat] /\ o \in [Tokens -> Nat] /\ a \in [Tokens -> Nat]
  BY Values
<1>3. ASSUME NEW u \in Tokens, waiting'[u] = w[u], order'[u] = o[u], active'[u] = a[u]
      PROVE  Forgotten(u)
  <2>1. \/ waiting'[u] = waiting[u] /\ order'[u] = order[u]
        \/ waiting[u] <= clock /\ waiting'[u] = 0 /\ order'[u] = 0
    BY <1>3, Values DEF Kept
  <2>2. active'[u] = active[u] \/ (active[u] <= clock /\ active'[u] = 0)
    BY <1>3
  <2>3. QED
    BY <1>1, <2>1, <2>2 DEF Forgotten
<1>4. ASSUME granted
      PROVE  /\ t \notin cleaned /\ active[t] <= clock /\ until > clock
             /\ Cardinality(Alive(active)) < MaxConcurrent
             /\ \A u \in Tokens \ {t} : waiting[u] > clock => waiting[t] > clock /\ order[t] < order[u]
  <2>1. ~(waitDeadline[t] <= clock \/ until <= clock \/ Tombstone(t)) /\ t \notin Alive(active) /\ MayStart(t)
    BY <1>4 DEF ExecutionResult
  <2>2. t \notin cleaned /\ until > clock /\ active[t] <= clock
    BY <2>1, CleanedRefused, Values DEF Alive
  <2>3. ASSUME NEW u \in Tokens \ {t}, waiting[u] > clock
        PROVE  waiting[t] > clock /\ order[t] < order[u]
    <3>1. PurgedOrder[u] = order[u] /\ order[u] > 0
      BY <2>3, Values DEF PurgedOrder, Kept
    <3>2. 0 < PurgedOrder[t] /\ PurgedOrder[t] < PurgedOrder[u]
      BY <2>1, <3>1 DEF MayStart
    <3>3. PurgedOrder[t] = order[t] /\ waiting[t] > clock
      BY <3>2, Values DEF PurgedOrder, Kept
    <3>4. QED
      BY <3>1, <3>2, <3>3
  <2>4. Cardinality(Alive(active)) < MaxConcurrent
    BY <2>1 DEF MayStart
  <2>5. QED
    BY <2>2, <2>3, <2>4
<1> HIDE DEF granted, w, o, a
<1>5. \A u \in Tokens \ {t} : Forgotten(u)
  BY <1>1, <1>2, <1>3
<1>6. RedisTypes'
  BY <1>1, <1>2 DEF RedisTypes, TypeOK
<1>7. CASE granted
  BY <1>1, <1>2, <1>4, <1>5, <1>6, <1>7 DEF GrantedTo
<1>8. CASE ~granted
  BY <1>1, <1>2, <1>3, <1>5, <1>6, <1>8
<1>9. QED
  BY <1>7, <1>8

(* What ExecutionRuns does, for the invariant and for NoOvertaking. *)
LEMMA ExecutionRunsEffect ==
    ASSUME Inv, ExecutionRuns
    PROVE  \E m \in net :
              /\ m.cmd = "execute" /\ Script(m) /\ cleaned' = cleaned /\ TypeOK'
              /\ \A u \in Tokens : Steady(u)
              /\ \A u \in Tokens \ {m.tok} : Forgotten(u)
              /\ Forgotten(m.tok) \/ GrantedTo(m.tok, m.until)
<1>1. PICK m \in net :
        /\ m.cmd = "execute" /\ net' = net \ {m} /\ RunExecution(m.tok, m.until, m.wait)
        /\ Answer(m, IF ExecutionResult(m.tok, m.until, m.wait) = "granted" THEN "yes"
                     ELSE ExecutionResult(m.tok, m.until, m.wait))
        /\ UNCHANGED <<clock, renewal, writer, cleaned, faults>>
  BY DEF ExecutionRuns
<1>2. TypeOK /\ m.tok \in Tokens /\ m.until \in Nat /\ \A u \in Tokens : Kept(u)
  BY DEF Inv, Token, TypeOK, Commands
<1>3. reply' \in [Tokens -> Replies] /\ Script(m) /\ \A u \in Tokens : Steady(u)
  <2>1. (IF ExecutionResult(m.tok, m.until, m.wait) = "granted" THEN "yes"
         ELSE ExecutionResult(m.tok, m.until, m.wait)) \in Replies
    BY DEF ExecutionResult, Replies
  <2>2. QED
    BY <1>1, <1>2, <2>1, AnswerOK DEF Script, Steady, writer
<1>4. /\ \A u \in Tokens \ {m.tok} : Forgotten(u)
      /\ Forgotten(m.tok) \/ GrantedTo(m.tok, m.until)
      /\ RedisTypes'
  BY <1>1, <1>2, ExecutionEffect
<1>5. TypeOK'
  <2>1. renewal' \in [Tokens -> Renewals] /\ cleanup' \in [Tokens -> Cleanups]
    BY <1>1, <1>2 DEF TypeOK, OwnerTypes, WriterTypes, writer
  <2>2. QED
    BY <1>2, <1>3, <1>4, <2>1, ScriptTypes
<1>6. QED
  BY <1>1, <1>3, <1>4, <1>5

LEMMA PlacesShrink ==
    ASSUME Places, Alive(active)' \subseteq Alive(active)
    PROVE  Places'
<1>1. IsFiniteSet(Alive(active)) /\ Cardinality(Alive(active)) \in Nat
  BY Times, FS_Subset, FS_CardinalityType DEF Alive
<1>2. IsFiniteSet(Alive(active)') /\ Cardinality(Alive(active)') <= Cardinality(Alive(active))
  BY <1>1, FS_Subset
<1>3. Cardinality(Alive(active)') \in Nat
  BY <1>2, FS_CardinalityType
<1>4. QED
  BY <1>1, <1>2, <1>3, Times DEF Places

LEMMA NumberedKept ==
    ASSUME TypeOK, Numbered, \A u \in Tokens : order'[u] = order[u] \/ order'[u] = 0
    PROVE  Numbered'
<1>1. PICK bound \in Nat : \A u \in Tokens : order[u] <= bound
  BY DEF Numbered
<1>2. \A u \in Tokens : order'[u] <= bound
  BY <1>1
<1>3. QED
  BY <1>2 DEF Numbered

LEMMA ExecutionRunsStep == ASSUME Inv, ExecutionRuns PROVE Inv'
<1>1. PICK m \in net :
        /\ m.cmd = "execute" /\ Script(m) /\ cleaned' = cleaned /\ TypeOK'
        /\ \A u \in Tokens : Steady(u)
        /\ \A u \in Tokens \ {m.tok} : Forgotten(u)
        /\ Forgotten(m.tok) \/ GrantedTo(m.tok, m.until)
  BY ExecutionRunsEffect
<1> DEFINE t == m.tok
<1>2. TypeOK /\ t \in Tokens /\ m.until \in Nat /\ \A u \in Tokens : Token(u)
  BY DEF Inv, Token, TypeOK, Commands
<1>3. UnderWay(t, m)
  BY <1>2 DEF Token, Sent
<1>4. (\A u \in Tokens \ {t} : Forgotten(u)) /\ (Forgotten(t) \/ GrantedTo(t, m.until))
  BY <1>1
<1> HIDE DEF t
<1>5. ASSUME NEW u \in Tokens PROVE Token(u)'
  <2>1. CASE Forgotten(u)
    BY <1>1, <1>2, <2>1, ForgottenKept
  <2>2. CASE ~Forgotten(u)
    <3>1. u = t /\ GrantedTo(t, m.until)
      BY <1>4, <2>2
    <3>2. /\ u \notin cleaned /\ active[u] <= clock /\ m.until > clock
          /\ waiting'[u] = 0 /\ order'[u] = 0 /\ active'[u] = m.until
      BY <3>1 DEF GrantedTo
    <3>3. /\ pc[u] # "idle" /\ m.until <= clock + TTL
          /\ cleanup[u] = "armed" => m.until <= cleanupDeadline[u]
      BY <1>1, <1>3, <3>1 DEF UnderWay
    <3>4. Stage(u)'
      BY <1>1, <1>2, <3>3 DEF Token, Stage, Script, Steady
    <3>5. Sent(u)'
      BY <1>1, <1>2 DEF Token, Sent, UnderWay, Script, Steady
    <3>6. Kept(u)'
      BY <1>1, <1>2, <3>2, <3>3, Values DEF Token, Kept, Script, Steady
    <3>7. Held(u)'
      BY <1>1, <1>2, <3>2, Values DEF Token, Held, Script, Steady
    <3>8. QED
      BY <3>4, <3>5, <3>6, <3>7 DEF Token
  <2>3. QED
    BY <2>1, <2>2
<1>6. Queued'
  BY <1>1 DEF Inv, Queued, Script
<1>7. Numbered'
  <2>1. \A u \in Tokens : order'[u] = order[u] \/ order'[u] = 0
    BY <1>4 DEF Forgotten, GrantedTo
  <2>2. QED
    BY <1>2, <2>1, NumberedKept DEF Inv
<1>8. Places'
  <2>0. \A u \in Tokens : Forgotten(u) /\ u \in Alive(active)' => u \in Alive(active)
    BY <1>1, <1>2, Values DEF Forgotten, Alive, Script
  <2>1. CASE Forgotten(t)
    <3>1. Alive(active)' \subseteq Alive(active)
      BY <1>4, <2>0, <2>1 DEF Alive
    <3>2. QED
      BY <3>1, PlacesShrink DEF Inv
  <2>2. CASE GrantedTo(t, m.until)
    <3> DEFINE old == Alive(active)
               new == Alive(active)'
    <3>1. new \subseteq old \cup {t}
      BY <1>4, <2>0 DEF Alive
    <3>2. IsFiniteSet(old) /\ Cardinality(old) \in Nat /\ Cardinality(old) < MaxConcurrent
      BY <2>2, Times, FS_Subset, FS_CardinalityType DEF Alive, GrantedTo
    <3> HIDE DEF old, new
    <3>3. /\ IsFiniteSet(old \cup {t})
          /\ Cardinality(old \cup {t}) = IF t \in old THEN Cardinality(old) ELSE Cardinality(old) + 1
      BY <3>2, FS_AddElement
    <3>4. Cardinality(old \cup {t}) \in Nat /\ Cardinality(old \cup {t}) <= Cardinality(old) + 1
      BY <3>2, <3>3
    <3>5. IsFiniteSet(new) /\ Cardinality(new) <= Cardinality(old \cup {t}) /\ Cardinality(new) \in Nat
      BY <3>1, <3>3, FS_Subset, FS_CardinalityType
    <3>6. Cardinality(new) <= MaxConcurrent
      BY <3>2, <3>3, <3>4, <3>5, Times
    <3>7. Cardinality(Alive(active)') <= MaxConcurrent
      BY <3>6 DEF new
    <3>8. QED
      BY <3>7 DEF Places
  <2>3. QED
    BY <1>4, <2>1, <2>2
<1>9. QED
  BY <1>1, <1>5, <1>6, <1>7, <1>8 DEF Inv, Token

LEMMA RenewalRunsStep ==
    ASSUME Inv, RenewalRuns
    PROVE  Inv' /\ \A u \in Tokens : active[u] <= clock => active'[u] <= clock'
<1>1. PICK m \in net :
        /\ m.cmd = "renew" /\ net' = net \ {m} /\ RunRenewal(m.tok)
        /\ renewal' = IF m.live = "renewal"
                      THEN [renewal EXCEPT ![m.tok].phase = IF Renewable(m.tok) THEN "yes" ELSE "no"]
                      ELSE renewal
        /\ UNCHANGED <<clock, pc, reply, waitDeadline, cleanupDeadline, writer, cleaned, faults>>
  BY DEF RenewalRuns
<1> DEFINE t == m.tok
           a == IF Renewable(t) THEN clock + TTL ELSE active[t]
           r == IF m.live = "renewal"
                THEN [renewal[t] EXCEPT !.phase = IF Renewable(t) THEN "yes" ELSE "no"] ELSE renewal[t]
<1>2. /\ TypeOK /\ t \in Tokens /\ m \in Commands
      /\ \A u \in Tokens : Stage(u) /\ Sent(u) /\ Kept(u) /\ Held(u)
  BY DEF Inv, Token, TypeOK, Commands
<1>3. Script(m)
  BY <1>1 DEF Script, writer
<1>4. /\ a \in Nat /\ (a = active[t] \/ (a = clock + TTL /\ active[t] > clock))
      /\ active[t] <= clock => a = active[t]
  BY <1>2, Values, Times DEF Renewable
<1>5. /\ r \in Renewals /\ r.expires = renewal[t].expires /\ r.until = renewal[t].until
      /\ r.confirmed = renewal[t].confirmed
      /\ m.live # "renewal" => r = renewal[t]
      /\ m.live = "renewal" => r.phase = "no" \/ (r.phase = "yes" /\ a = clock + TTL)
  <2>0. renewal[t] \in Renewals
    BY <1>2, Values
  <2>1. CASE m.live = "renewal" /\ Renewable(t)
    BY <2>0, <2>1 DEF Renewals, Phases
  <2>2. CASE m.live = "renewal" /\ ~Renewable(t)
    BY <2>0, <2>2 DEF Renewals, Phases
  <2>3. CASE m.live # "renewal"
    BY <2>0, <2>3
  <2>4. QED
    BY <2>1, <2>2, <2>3
<1>6. /\ active' = [active EXCEPT ![t] = a] /\ renewal' = [renewal EXCEPT ![t] = r]
      /\ UNCHANGED <<waiting, order, cancelled, lastStarted, cleaned, cleanup, reply>>
  <2>1. active' = [active EXCEPT ![t] = a] /\ UNCHANGED <<waiting, order, cancelled, lastStarted>>
    BY <1>1 DEF RunRenewal
  <2>2. renewal' = [renewal EXCEPT ![t] = r]
    BY <1>1, <1>2 DEF TypeOK, OwnerTypes
  <2>3. QED
    BY <1>1, <2>1, <2>2 DEF writer
<1>7. UnderWay(t, m)
  BY <1>2 DEF Sent
<1> HIDE DEF t, a, r
<1>8. TypeOK'
  <2>1. RedisTypes' /\ renewal' \in [Tokens -> Renewals]
    BY <1>2, <1>4, <1>5, <1>6 DEF RedisTypes, TypeOK, OwnerTypes
  <2>2. reply' \in [Tokens -> Replies] /\ cleanup' \in [Tokens -> Cleanups]
    BY <1>2, <1>6 DEF TypeOK, OwnerTypes, WriterTypes
  <2>3. QED
    BY <1>2, <1>3, <2>1, <2>2, ScriptTypes
<1>9. active'[t] = a /\ renewal'[t] = r
  BY <1>2, <1>6 DEF TypeOK, RedisTypes, OwnerTypes
<1>10. ASSUME NEW u \in Tokens PROVE Token(u)'
  <2>1. CASE u # t
    <3>1. Forgotten(u) /\ Steady(u)
      BY <1>6, <2>1 DEF Forgotten, Steady
    <3>2. QED
      BY <1>2, <1>3, <3>1, ForgottenKept DEF Token
  <2>2. CASE u = t
    <3>1. pc[t] \in {"executing", "stopping", "ended"} /\ m.until = 0 /\ m.wait = FALSE
          /\ (m.live = "renewal" => renewal[t].phase = "call" /\ pc[t] = "executing")
      BY <1>1, <1>2, <1>7 DEF UnderWay, Stage
    <3>2. Stage(t)'
      BY <1>2, <1>3, <1>5, <1>6, <1>9, <3>1 DEF Stage, Script
    <3>3. Sent(t)'
      <4> SUFFICES ASSUME NEW k \in net', k.tok = t PROVE UnderWay(t, k)'
        BY DEF Sent
      <4>1. k \in net /\ k # m /\ k \in Commands /\ UnderWay(t, k)
        BY <1>2, <1>3 DEF Script, TypeOK, Sent
      <4>2. CASE m.live # "renewal"
        BY <1>3, <1>5, <1>6, <1>9, <4>1, <4>2 DEF UnderWay, Script
      <4>3. CASE m.live = "renewal"
        <5>1. k.cmd = "renew" => k.live # "renewal"
          <6> SUFFICES ASSUME k.cmd = "renew", k.live = "renewal" PROVE FALSE
            OBVIOUS
          <6>1. k.until = 0 /\ k.wait = FALSE
            BY <4>1 DEF UnderWay
          <6>2. k = m
            BY <1>1, <1>2, <3>1, <4>1, <4>3, <6>1 DEF Commands, t
          <6>3. QED
            BY <4>1, <6>2
        <5>2. QED
          BY <1>3, <1>6, <4>1, <5>1 DEF UnderWay, Script
      <4>4. QED
        BY <4>2, <4>3
    <3>4. Kept(t)'
      BY <1>2, <1>3, <1>4, <1>6, <1>9, <3>1, Values, Times DEF Stage, Kept, Script
    <3>5. Held(t)'
      <4> SUFFICES ASSUME pc[t] = "executing"
                   PROVE  /\ r.confirmed /\ r.expires > clock => a >= r.expires
                          /\ r.phase = "call" => r.until <= clock + TTL
                          /\ r.phase = "yes" /\ r.until > clock => a >= r.until
        BY <1>3, <1>9 DEF Held, Script
      <4>1. active[t] <= clock + TTL /\ a >= active[t]
        BY <1>2, <1>4, Values DEF Kept
      <4>2. r.confirmed /\ r.expires > clock => a >= r.expires
        <5> SUFFICES ASSUME r.confirmed, r.expires > clock PROVE a >= r.expires
          OBVIOUS
        <5>1. renewal[t].confirmed /\ renewal[t].expires > clock
          BY <1>5
        <5>2. active[t] >= renewal[t].expires
          BY <1>2, <5>1 DEF Held
        <5>3. active[t] \in Nat /\ renewal[t].expires \in Nat
          BY <1>2, Values
        <5>4. QED
          BY <1>4, <1>5, <4>1, <5>2, <5>3
      <4>3. CASE m.live # "renewal"
        BY <1>2, <1>4, <1>5, <4>1, <4>2, <4>3, Values DEF Held
      <4>4. CASE m.live = "renewal"
        BY <1>2, <1>5, <3>1, <4>2, <4>4, Values, Times DEF Held
      <4>5. QED
        BY <4>3, <4>4
    <3>6. QED
      BY <2>2, <3>2, <3>3, <3>4, <3>5 DEF Token
  <2>3. QED
    BY <2>1, <2>2
<1>11. \A u \in Tokens : active[u] <= clock => active'[u] = active[u]
  BY <1>2, <1>4, <1>6, <1>9 DEF TypeOK, RedisTypes
<1>12. Queued' /\ Numbered'
  BY <1>3, <1>6 DEF Inv, Queued, Numbered, Script
<1>13. Places'
  <2>1. Alive(active)' \subseteq Alive(active)
    BY <1>2, <1>3, <1>8, <1>11, Values DEF Alive, Script, TypeOK, RedisTypes
  <2>2. QED
    BY <2>1, PlacesShrink DEF Inv
<1>14. \A u \in Tokens : active[u] <= clock => active'[u] <= clock'
  BY <1>3, <1>11 DEF Script
<1>15. QED
  BY <1>8, <1>10, <1>12, <1>13, <1>14 DEF Inv, Token

LEMMA CancelRunsStep ==
    ASSUME Inv, CancelRuns
    PROVE  /\ Inv' /\ \A u \in Tokens : active[u] <= clock => active'[u] <= clock'
           /\ \A u \in Tokens : cleanup[u] = "armed" => cleanup'[u] = "armed"
<1>1. PICK m \in net :
        /\ m.cmd = "cancel" /\ net' = net \ {m} /\ RunCancel(m.tok) /\ Answer(m, "yes")
        /\ cleanup' = IF m.live = "writer" THEN [cleanup EXCEPT ![m.tok] = "answered"] ELSE cleanup
        /\ UNCHANGED <<clock, renewal, queue, faults>>
  BY DEF CancelRuns
<1> DEFINE t == m.tok
           c == IF waitDeadline[t] > clock THEN waitDeadline[t] ELSE cancelled[t]
<1>2. /\ TypeOK /\ t \in Tokens /\ m \in Commands
      /\ \A u \in Tokens : Stage(u) /\ Sent(u) /\ Kept(u) /\ Held(u)
  BY DEF Inv, Token, TypeOK, Commands
<1>3. reply' \in [Tokens -> Replies] /\ Script(m)
  BY <1>1, <1>2, AnswerOK DEF Script, Replies
<1>4. /\ cancelled' = [cancelled EXCEPT ![t] = c]
      /\ waiting' = [waiting EXCEPT ![t] = 0] /\ active' = [active EXCEPT ![t] = 0]
      /\ order' = [order EXCEPT ![t] = 0] /\ cleaned' = cleaned \cup {t} /\ lastStarted' = lastStarted
  BY <1>1 DEF RunCancel
<1>5. UnderWay(t, m)
  BY <1>2 DEF Sent
<1>6. c \in Nat /\ (c >= waitDeadline[t] \/ waitDeadline[t] <= clock)
  BY <1>2, Values
<1>7. cleanup' = [cleanup EXCEPT ![t] = IF m.live = "writer" THEN "answered" ELSE cleanup[t]]
  BY <1>1, <1>2 DEF TypeOK, WriterTypes
<1>8. pc[t] \in {"release", "ended"} /\ (m.live = "writer" => pc[t] = "ended") /\ renewal[t].phase = "off"
  BY <1>1, <1>2, <1>5 DEF UnderWay, Stage
<1> HIDE DEF t, c
<1>9. TypeOK'
  <2>1. RedisTypes'
    BY <1>2, <1>4, <1>6 DEF RedisTypes, TypeOK
  <2>2. renewal' \in [Tokens -> Renewals] /\ cleanup' \in [Tokens -> Cleanups]
    BY <1>1, <1>2, <1>7 DEF TypeOK, OwnerTypes, WriterTypes, Cleanups
  <2>3. QED
    BY <1>2, <1>3, <2>1, <2>2, ScriptTypes
<1>10. /\ waiting'[t] = 0 /\ order'[t] = 0 /\ active'[t] = 0 /\ t \in cleaned' /\ cancelled'[t] = c
       /\ cleanup'[t] = IF m.live = "writer" THEN "answered" ELSE cleanup[t]
       /\ renewal' = renewal
  BY <1>1, <1>2, <1>4, <1>7 DEF TypeOK, RedisTypes, WriterTypes
<1>11. ASSUME NEW u \in Tokens PROVE Token(u)'
  <2>1. CASE u # t
    <3>1. Forgotten(u) /\ Steady(u)
      BY <1>1, <1>4, <1>7, <2>1 DEF Forgotten, Steady
    <3>2. QED
      BY <1>2, <1>3, <3>1, ForgottenKept DEF Token
  <2>2. CASE u = t
    <3>1. Stage(t)' /\ Held(t)'
      BY <1>2, <1>3, <1>8, <1>10 DEF Stage, Held, Script
    <3>2. Sent(t)'
      <4> SUFFICES ASSUME NEW k \in net', k.tok = t PROVE UnderWay(t, k)'
        BY DEF Sent
      <4>1. k \in net /\ UnderWay(t, k)
        BY <1>2, <1>3 DEF Script, Sent
      <4>2. cleanup'[t] = "armed" => cleanup[t] = "armed"
        BY <1>10
      <4>3. QED
        BY <1>3, <1>10, <4>1, <4>2 DEF UnderWay, Script
    <3>3. Kept(t)'
      BY <1>2, <1>3, <1>6, <1>10, Values, Times DEF Kept, Script
    <3>4. QED
      BY <2>2, <3>1, <3>2, <3>3 DEF Token
  <2>3. QED
    BY <2>1, <2>2
<1>12. \A u \in Tokens : active'[u] = active[u] \/ active'[u] = 0
  BY <1>4 DEF TypeOK, RedisTypes
<1>13. Queued'
  BY <1>3 DEF Inv, Queued, Script
<1>14. Numbered'
  <2>1. \A u \in Tokens : order'[u] = order[u] \/ order'[u] = 0
    BY <1>2, <1>4 DEF TypeOK, RedisTypes
  <2>2. QED
    BY <1>2, <2>1, NumberedKept DEF Inv
<1>15. Places'
  <2>1. Alive(active)' \subseteq Alive(active)
    BY <1>2, <1>3, <1>12, Values DEF Alive, Script
  <2>2. QED
    BY <2>1, PlacesShrink DEF Inv
<1>16. \A u \in Tokens : active[u] <= clock => active'[u] <= clock'
  BY <1>2, <1>3, <1>12, Values DEF Script
<1>17. \A u \in Tokens : cleanup[u] = "armed" => cleanup'[u] = "armed"
  BY <1>2, <1>7, <1>8 DEF Stage, TypeOK, WriterTypes
<1>18. QED
  BY <1>9, <1>11, <1>13, <1>14, <1>15, <1>16, <1>17 DEF Inv, Token

-----------------------------------------------------------------------------
(* Time only makes leases, waits and tombstones run out.                    *)

LEMMA TickStep == ASSUME Inv, Tick PROVE Inv'
<1>1. /\ clock' = clock + 1 /\ clock \in Nat
      /\ UNCHANGED <<waiting, order, active, cancelled, lastStarted, net, pc, reply, waitDeadline,
                     cleanupDeadline, renewal, queue, cleanup, cleaned, faults>>
  BY DEF Inv, TypeOK, Tick, redis, owners, writer
<1>2. TypeOK
  BY DEF Inv
<1>3. TypeOK'
  BY <1>1, <1>2 DEF TypeOK, RedisTypes, OwnerTypes, WriterTypes
<1>4. ASSUME NEW t \in Tokens PROVE Token(t)'
  <2>0. Stage(t) /\ Sent(t) /\ Kept(t) /\ Held(t)
    BY DEF Inv, Token
  <2>1. Stage(t)'
    BY <1>1, <2>0 DEF Stage
  <2>2. Sent(t)'
    <3> SUFFICES ASSUME NEW m \in net, m.tok = t PROVE UnderWay(t, m)'
      BY <1>1 DEF Sent
    <3>1. UnderWay(t, m) /\ m.until \in Nat
      BY <1>2, <2>0 DEF Sent, TypeOK, Commands
    <3>2. QED
      BY <1>1, <3>1, Times DEF UnderWay
  <2>3. Kept(t)'
    BY <1>1, <1>2, <2>0, Values, Times DEF Kept
  <2>4. Held(t)'
    BY <1>1, <1>2, <2>0, Values, Times DEF Held
  <2>5. QED
    BY <2>1, <2>2, <2>3, <2>4 DEF Token
<1>5. Queued' /\ Numbered'
  BY <1>1 DEF Inv, Queued, Numbered
<1>6. Places'
  <2>1. Alive(active)' \subseteq Alive(active)
    BY <1>1, <1>2, Values DEF Alive
  <2>2. QED
    BY <2>1, PlacesShrink DEF Inv
<1>7. QED
  BY <1>3, <1>4, <1>5, <1>6 DEF Inv, Token

LEMMA InitInv == ASSUME Init PROVE Inv
<1>1. TypeOK
  <2>1. clock \in Nat /\ faults \in Nat /\ net \subseteq Commands
    BY DEF Init
  <2>2. RedisTypes
    BY DEF Init, RedisTypes
  <2>3. OwnerTypes
    BY NoRenewalOK DEF Init, OwnerTypes, Stages, Replies
  <2>4. WriterTypes
    BY DEF Init, WriterTypes, Cleanups
  <2>5. QED
    BY <2>1, <2>2, <2>3, <2>4 DEF TypeOK
<1>2. Queued
  BY DEF Init, Queued
<1>3. Numbered
  BY DEF Init, Numbered
<1>4. Places
  <2>1. Alive(active) = {}
    BY DEF Init, Alive
  <2>2. QED
    BY <2>1, FS_EmptySet, Times DEF Places
<1>5. ASSUME NEW t \in Tokens PROVE Stage(t) /\ Sent(t) /\ Kept(t) /\ Held(t)
  <2>1. Stage(t)
    BY NoRenewalOK DEF Init, Stage
  <2>2. Sent(t) /\ Held(t)
    BY DEF Init, Sent, Held
  <2>3. Kept(t)
    BY Times DEF Init, Kept
  <2>4. QED
    BY <2>1, <2>2, <2>3
<1>6. QED
  BY <1>1, <1>2, <1>3, <1>4, <1>5 DEF Inv, Token

LEMMA StutterInv == ASSUME Inv, UNCHANGED vars PROVE Inv'
<1>1. UNCHANGED <<clock, waiting, order, active, cancelled, lastStarted, net, pc, reply, waitDeadline,
                  cleanupDeadline, renewal, queue, cleanup, cleaned, faults>>
  BY DEF vars, redis, owners, writer
<1>2. TypeOK'
  BY <1>1 DEF Inv, TypeOK, RedisTypes, OwnerTypes, WriterTypes
<1>3. ASSUME NEW t \in Tokens PROVE Token(t)'
  <2>0. Stage(t) /\ Sent(t) /\ Kept(t) /\ Held(t)
    BY DEF Inv, Token
  <2>1. Stage(t)' /\ Sent(t)'
    BY <1>1, <2>0 DEF Stage, Sent, UnderWay
  <2>2. Kept(t)' /\ Held(t)'
    BY <1>1, <2>0 DEF Kept, Held
  <2>3. QED
    BY <2>1, <2>2 DEF Token
<1>4. Queued' /\ Numbered' /\ Places'
  BY <1>1 DEF Inv, Queued, Numbered, Places, Alive
<1>5. QED
  BY <1>2, <1>3, <1>4 DEF Inv, Token

LEMMA ReceiveInv == ASSUME Inv, CleanupReceive PROVE Inv'
<1>1. /\ TypeOK' /\ (\A t \in Tokens : Token(t)') /\ Queued'
      /\ UNCHANGED <<clock, waiting, order, active, cancelled, lastStarted, cleaned, pc>>
  BY ReceiveStep DEF Inv, Token
<1>2. Numbered' /\ Places'
  BY <1>1 DEF Inv, Numbered, Places, Alive
<1>3. QED
  BY <1>1, <1>2 DEF Inv, Token

(* The invariant of every behaviour of the account's capacity: where owners *)
(* are, which scripts may still run, what Redis holds and what the renewal  *)
(* tasks believe agree.                                                     *)
THEOREM CapacityInvariant == Spec => []Inv
<1>1. Init => Inv
  BY InitInv
<1>2. Inv /\ [Next]_vars => Inv'
  <2> SUFFICES ASSUME Inv, [Next]_vars PROVE Inv'
    OBVIOUS
  <2>1. CASE \E t \in Tokens : Owner(t) \/ Renewal(t) \/ Cleanup(t)
    BY <2>1, LocalStep
  <2>2. CASE CleanupReceive
    BY <2>2, ReceiveInv
  <2>3. CASE EnqueueRuns \/ ExecutionRuns \/ RenewalRuns \/ CancelRuns
    BY <2>3, EnqueueRunsStep, ExecutionRunsStep, RenewalRunsStep, CancelRunsStep
  <2>4. CASE Tick \/ UNCHANGED vars
    BY <2>4, TickStep, StutterInv
  <2>5. QED
    BY <2>1, <2>2, <2>3, <2>4 DEF Next
<1>3. QED
  BY <1>1, <1>2, PTL DEF Spec

(* A token that has been cleaned up never comes back, however late a script *)
(* its owner gave up on runs (CANCEL_SCRIPT's tombstone).                   *)
THEOREM NeverComesBack == Spec => []CleanedStaysGone
<1>1. Inv => CleanedStaysGone
  BY DEF Inv, Token, TypeOK, RedisTypes, Kept, CleanedStaysGone
<1>2. QED
  BY <1>1, CapacityInvariant, PTL

LEMMA RenewedHolds == ASSUME Inv PROVE RenewedLeaseCovers
  BY DEF Inv, Token, Held, RenewedLeaseCovers

(* While a request executes on a lease that was renewed, Redis keeps its    *)
(* place at least as long as its own timer lets it run.                     *)
THEOREM RenewedKeepsPlace == Spec => []RenewedLeaseCovers
  BY RenewedHolds, CapacityInvariant, PTL

(* The account's concurrency is never exceeded: neither by the places Redis *)
(* counts nor by these with the requests that execute on renewed leases.    *)
THEOREM ConcurrencyBound == Spec => []ConcurrencyHeld
<1>1. Inv => ConcurrencyHeld
  <2> SUFFICES ASSUME Inv PROVE ConcurrencyHeld
    OBVIOUS
  <2> DEFINE held == {t \in Tokens : /\ pc[t] = "executing" /\ renewal[t].confirmed
                                     /\ renewal[t].expires > clock}
  <2>1. ASSUME NEW t \in held PROVE t \in Alive(active)
    <3>1. t \in Tokens /\ active[t] >= renewal[t].expires /\ renewal[t].expires > clock
      BY <2>1, RenewedHolds DEF RenewedLeaseCovers
    <3>2. active[t] \in Nat /\ renewal[t].expires \in Nat /\ clock \in Nat
      BY <3>1, Values DEF Inv
    <3>3. QED
      BY <3>1, <3>2 DEF Alive
  <2>2. Alive(active) \cup held = Alive(active)
    BY <2>1
  <2>3. QED
    BY <2>2 DEF ConcurrencyHeld, Inv, Places
<1>2. QED
  BY <1>1, CapacityInvariant, PTL

LEMMA LocalChanges ==
    ASSUME Inv, NEW t \in Tokens, Owner(t) \/ Renewal(t) \/ Cleanup(t)
    PROVE  Apart(t)
  BY OwnerStep, RenewalStep, CleanupStep DEF Inv, Token

(* A place is never granted past an owner that waits for it: for any number *)
(* of waiters, in the order in which they entered the waiting room.         *)
THEOREM WaitersInOrder == Spec => NoOvertaking
<1> DEFINE Ordered == \A t, u \in Tokens :
                         /\ active[t] <= clock /\ active'[t] > clock'
                         /\ u # t /\ waiting[u] > clock
                         => waiting[t] > clock /\ order[t] < order[u]
           Unplaced == \A t \in Tokens : active[t] <= clock => ~(active'[t] > clock')
<1>1. Inv /\ [Next]_vars => [Ordered]_vars
  <2> SUFFICES ASSUME Inv, Next PROVE Ordered
    OBVIOUS
  <2>0. \A u \in Tokens : active[u] \in Nat /\ clock \in Nat
    BY Values DEF Inv
  <2>1. CASE ExecutionRuns
    <3>1. PICK m \in net :
            /\ Script(m) /\ \A u \in Tokens \ {m.tok} : Forgotten(u)
            /\ Forgotten(m.tok) \/ GrantedTo(m.tok, m.until)
      BY <2>1, ExecutionRunsEffect
    <3>2. ASSUME NEW u \in Tokens, Forgotten(u), active[u] <= clock PROVE ~(active'[u] > clock')
      BY <2>0, <3>1, <3>2 DEF Forgotten, Script
    <3>3. ASSUME NEW t \in Tokens, NEW u \in Tokens, active[t] <= clock, active'[t] > clock', u # t,
                 waiting[u] > clock
          PROVE  waiting[t] > clock /\ order[t] < order[u]
      <4>1. t = m.tok /\ GrantedTo(t, m.until)
        BY <3>1, <3>2, <3>3
      <4>2. QED
        BY <3>3, <4>1 DEF GrantedTo
    <3>4. QED
      BY <3>3
  <2>2. CASE \E t \in Tokens : Owner(t) \/ Renewal(t) \/ Cleanup(t)
    <3>1. active' = active /\ clock' = clock
      BY <2>2, LocalChanges DEF Apart
    <3>2. QED
      BY <2>0, <3>1
  <2>3. CASE CleanupReceive
    BY <2>0, <2>3 DEF CleanupReceive, OnlyWriter, redis
  <2>4. CASE EnqueueRuns
    <3>1. active' = active /\ clock' = clock
      BY <2>4, EnqueueRunsStep DEF EnqueueRuns
    <3>2. QED
      BY <2>0, <3>1
  <2>5. CASE RenewalRuns \/ CancelRuns
    <3>1. \A u \in Tokens : active[u] <= clock => active'[u] <= clock'
      BY <2>5, RenewalRunsStep, CancelRunsStep
    <3>2. Inv'
      BY <2>5, RenewalRunsStep, CancelRunsStep
    <3>3. \A u \in Tokens : active'[u] \in Nat /\ clock' \in Nat
      BY <3>2 DEF Inv, TypeOK, RedisTypes
    <3>4. QED
      BY <3>1, <3>3
  <2>6. CASE Tick
    <3>1. active' = active /\ clock' = clock + 1
      BY <2>6 DEF Tick, redis
    <3>2. QED
      BY <2>0, <3>1
  <2>7. QED
    BY <2>1, <2>2, <2>3, <2>4, <2>5, <2>6 DEF Next
<1>2. QED
  BY <1>1, CapacityInvariant, PTL DEF Spec, NoOvertaking

(* An owner hands its cleanup over only when it is dropped. *)
LEMMA HandsOver ==
    ASSUME Inv, NEW t \in Tokens, Owner(t), cleanup[t] = "armed", cleanup'[t] \in {"queued", "lost"}
    PROVE  Dropped(t) /\ pc[t] \notin {"idle", "ended"} /\ faults' \in Nat
<1>1. TypeOK /\ pc[t] \notin {"idle", "ended"}
  BY DEF Inv, Token, Stage
<1>2. ~(Acquire(t) \/ AcquireScheduling(t) \/ TurnedAway(t) \/ Released(t))
  BY <1>1 DEF Acquire, AcquireScheduling, TurnedAway, Released, TypeOK, WriterTypes
<1>3. ~(TryPromote(t) \/ Granted(t) \/ Enqueued(t) \/ StillBusy(t) \/ Release(t))
  BY DEF TryPromote, Granted, Enqueued, StillBusy, Release, writer
<1>4. Finish(t) \/ Abandon(t)
  BY <1>2, <1>3 DEF Owner
<1>5. QED
  BY <1>1, <1>4, FaultOK DEF Finish, Abandon, TypeOK

(* When an owner hands its cleanup over, the writer tries at least as long  *)
(* as Redis holds anything for it, a grant or a renewal it never heard of   *)
(* included.                                                                *)
THEOREM CleanupReachesPast == Spec => CleanupOutlastsPlace
<1> DEFINE Outlasts == \A t \in Tokens :
              cleanup[t] = "armed" /\ cleanup'[t] \in {"queued", "lost"}
              => active[t] <= cleanupDeadline'[t] /\ waiting[t] <= cleanupDeadline'[t]
<1>1. Inv /\ [Next]_vars => [Outlasts]_vars
  <2> SUFFICES ASSUME Inv, Next, NEW t \in Tokens,
                      cleanup[t] = "armed", cleanup'[t] \in {"queued", "lost"}
               PROVE  active[t] <= cleanupDeadline'[t] /\ waiting[t] <= cleanupDeadline'[t]
    OBVIOUS
  <2>0. TypeOK /\ Token(t)
    BY DEF Inv, Token
  <2>1. ASSUME NEW s \in Tokens, Owner(s) \/ Renewal(s) \/ Cleanup(s)
        PROVE  active[t] <= cleanupDeadline'[t] /\ waiting[t] <= cleanupDeadline'[t]
    <3>1. s = t
      BY <2>1, LocalChanges DEF Apart
    <3>2. ~Cleanup(t)
      BY <2>0, CleanupStep
    <3>3. ~Renewal(t)
      BY DEF Renewal, RenewCall, Renewed, RenewFails, RenewWakes, LeaseFails, RequestCancelled,
             OnlyRenewal, writer
    <3>4. Dropped(t) /\ pc[t] \notin {"idle", "ended"} /\ faults' \in Nat
      BY <2>1, <3>1, <3>2, <3>3, HandsOver
    <3>5. QED
      BY <2>0, <3>4, DroppedStep
  <2>2. ~CleanupReceive
    BY ReceiveStep DEF Inv, Token
  <2>3. ~(EnqueueRuns \/ ExecutionRuns \/ RenewalRuns \/ Tick)
    BY DEF EnqueueRuns, ExecutionRuns, RenewalRuns, Tick, writer
  <2>4. ~CancelRuns
    BY CancelRunsStep
  <2>5. QED
    BY <2>1, <2>2, <2>3, <2>4 DEF Next
<1>2. QED
  BY <1>1, CapacityInvariant, PTL DEF Spec, CleanupOutlastsPlace
=============================================================================
