---------------------------- MODULE BoundedFifo -----------------------------
(***************************************************************************)
(* What a ring buffer promises its two users: elements are kept in the     *)
(* order they were put in, whole, at most element_count of them, and any   *)
(* one of them can be taken out, the others keeping their order.  While it *)
(* is astray, the oldest element goes instead of the one that was taken.   *)
(***************************************************************************)
EXTENDS Naturals, Sequences

CONSTANTS element_count, Elements, Nothing

VARIABLES
    queue,      \* the elements, the oldest first
    taken,      \* the element taken last
    astray      \* whether it loses its place when it looks for an element

FifoInit == queue = <<>> /\ taken = Nothing

Put(e) ==
    /\ Len(queue) < element_count
    /\ queue' = Append(queue, e)
    /\ UNCHANGED taken

Take(k) ==
    /\ taken' = queue[k]
    /\ queue' = SubSeq(queue, 1, k - 1) \o SubSeq(queue, k + 1, Len(queue))

TakeAstray(k) ==
    /\ astray
    /\ taken' = queue[k]
    /\ queue' = Tail(queue)

FifoNext ==
    \/ \E e \in Elements : Put(e)
    \/ \E k \in DOMAIN queue : Take(k) \/ TakeAstray(k)

FifoSpec == FifoInit /\ [][FifoNext]_<<queue, taken>>
=============================================================================
