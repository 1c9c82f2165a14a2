-------------------------------- MODULE Queues --------------------------------
(***************************************************************************)
(* What the lists of the task manager promise: queues of elements, each    *)
(* element in at most one place, and a queue changed only by putting an    *)
(* element that is nowhere at one end or taking one out at a position.     *)
(***************************************************************************)
EXTENDS Naturals, Sequences

CONSTANTS Elements, QueueIds

VARIABLE contents    \* [QueueIds -> Seq(Elements)]

Queued(e) == \E q \in QueueIds : \E k \in 1 .. Len(contents[q]) : contents[q][k] = e

Init == contents = [q \in QueueIds |-> <<>>]

Put(e, q) ==
    /\ ~Queued(e)
    /\ \/ contents' = [contents EXCEPT ![q] = Append(@, e)]
       \/ contents' = [contents EXCEPT ![q] = <<e>> \o @]

Take(index, q) ==
    /\ index \in 1 .. Len(contents[q])
    /\ contents' = [contents EXCEPT ![q] =
                        SubSeq(@, 1, index - 1) \o SubSeq(@, index + 1, Len(@))]

Next == \E q \in QueueIds :
            \/ \E e \in Elements : Put(e, q)
            \/ \E index \in 1 .. Len(contents[q]) : Take(index, q)

Spec == Init /\ [][Next]_contents
=============================================================================
