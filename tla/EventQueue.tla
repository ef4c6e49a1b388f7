----------------------------- MODULE EventQueue -----------------------------
(****************************************************************************)
(* What the list of timed events promises: events come out in the order of  *)
(* their times, those of the same time in the order in which they were put  *)
(* in, and none before its time is over. Times are relative to now.         *)
(****************************************************************************)
EXTENDS Integers, Sequences

CONSTANTS Ids, Delays

VARIABLE queue      \* <<[id, due], ...>>

Init == queue = <<>>

(* e comes after the events that are not later, before those that are. *)
Enqueue(e) ==
    \E k \in 0 .. Len(queue) :
        /\ \A i \in 1 .. k : queue[i].due <= e.due
        /\ \A i \in k + 1 .. Len(queue) : queue[i].due > e.due
        /\ queue' = SubSeq(queue, 1, k) \o <<e>> \o SubSeq(queue, k + 1, Len(queue))

Dequeue ==
    /\ queue # <<>> /\ Head(queue).due < 0
    /\ queue' = Tail(queue)

Tick == queue' = [i \in DOMAIN queue |-> [queue[i] EXCEPT !.due = @ - 1]]

(* (The first conjunct follows from the second; it spares TLC the search.) *)
EnqueueSome ==
    /\ Len(queue') > Len(queue)
    /\ \E id \in Ids, d \in Delays : Enqueue([id |-> id, due |-> d])

Next == Dequeue \/ EnqueueSome \/ Tick

Spec == Init /\ [][Next]_queue
=============================================================================
