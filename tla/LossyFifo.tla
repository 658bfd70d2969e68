----------------------------- MODULE LossyFifo -----------------------------
(***************************************************************************)
(* What the retimer promises, without clocks: a queue of at most Capacity  *)
(* items that are taken in the order they were put.  A put into a full     *)
(* queue loses the oldest item.  The queue serves one owner at a time, and *)
(* nothing of an owner is left in it when the next one takes over; what an *)
(* owner leaves behind may be lost at once, or taken while there is none.  *)
(***************************************************************************)
EXTENDS Naturals, Sequences

CONSTANTS Item, Capacity, Owner, Nobody

VARIABLES owner, queue, taken      \* taken: the item taken last

\* The queue after item i was put into q.
After(q, i) == Append(IF Len(q) >= Capacity THEN Tail(q) ELSE q, i)

Init == owner = Nobody /\ queue = <<>> /\ taken \in Item

Put ==
    /\ owner # Nobody
    /\ \E i \in Item : queue' = After(queue, i)
    /\ UNCHANGED <<owner, taken>>

Take ==
    /\ queue # <<>>
    /\ taken' = Head(queue) /\ queue' = Tail(queue)
    /\ UNCHANGED owner

TakeOver ==
    /\ owner' \in Owner \ {owner}
    /\ queue' = <<>>
    /\ UNCHANGED taken

GiveUp ==
    /\ owner # Nobody /\ owner' = Nobody
    /\ queue' \in {<<>>, queue}
    /\ UNCHANGED taken

Next == Put \/ Take \/ TakeOver \/ GiveUp

Spec == Init /\ [][Next]_<<owner, queue, taken>>
=============================================================================
