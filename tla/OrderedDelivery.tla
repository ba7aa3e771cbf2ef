-------------------------- MODULE OrderedDelivery --------------------------
(***************************************************************************)
(* What the execution buffer promises, without how: sources offer items    *)
(* one after the other; an open queue of bounded length takes or refuses   *)
(* each, delivers what it took at most once and in order, and may lose any *)
(* of it.  The last part of its room is for critical items.                *)
(***************************************************************************)
EXTENDS Naturals, Sequences, FiniteSets

CONSTANTS Sources, Limit

VARIABLES offered,   \* source -> number of items it has offered
          pending,   \* sources whose last offer is not answered
          queue,     \* taken, and neither delivered nor lost
          last,      \* source -> index of the last delivered item
          open

vars == <<offered, pending, queue, last, open>>

Item == [source: Sources, index: Nat, critical: BOOLEAN]

Fits(q) ==
    /\ Len(q) <= Limit + Limit \div 4
    /\ Cardinality({i \in DOMAIN q : ~q[i].critical}) <= Limit

Init ==
    /\ offered = [s \in Sources |-> 0] /\ pending = {}
    /\ queue = <<>> /\ last = [s \in Sources |-> 0] /\ open = TRUE

Offer(s) ==
    /\ s \notin pending
    /\ pending' = pending \cup {s}
    /\ offered' = [offered EXCEPT ![s] = @ + 1]
    /\ UNCHANGED <<queue, last, open>>

Accept(s) ==
    /\ open /\ s \in pending
    /\ pending' = pending \ {s}
    /\ \E c \in BOOLEAN :
         /\ queue' = Append(queue, [source |-> s, index |-> offered[s], critical |-> c])
         /\ Fits(queue')
    /\ UNCHANGED <<offered, last, open>>

Refuse(s) ==
    /\ s \in pending
    /\ pending' = pending \ {s}
    /\ UNCHANGED <<offered, queue, last, open>>

Deliver ==
    /\ queue # <<>>
    /\ queue' = Tail(queue)
    /\ last' = [last EXCEPT ![Head(queue).source] = Head(queue).index]
    /\ UNCHANGED <<offered, pending, open>>

Lose ==
    /\ queue # <<>>
    /\ queue' = Tail(queue)
    /\ UNCHANGED <<offered, pending, last, open>>

(* Closing may take what was about to be delivered with it.                 *)
Close ==
    /\ open /\ open' = FALSE
    /\ \/ queue' = queue
       \/ queue # <<>> /\ queue' = Tail(queue)
    /\ UNCHANGED <<offered, pending, last>>

Next ==
    \/ \E s \in Sources : Offer(s) \/ Accept(s) \/ Refuse(s)
    \/ Deliver \/ Lose \/ Close

Spec == Init /\ [][Next]_vars
=============================================================================
