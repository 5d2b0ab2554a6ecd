----------------------------- MODULE RingBuffer -----------------------------
(***************************************************************************)
(* The ring buffer of basic/sys/ringbuf.c between one producer and one     *)
(* consumer, of which either may be an interrupt handler or a thread: no   *)
(* lock is taken, and either may run between any two volatile accesses of  *)
(* the other.  The producer calls Ringbuf_Put, or Ringbuf_Data_Peek, fills *)
(* the element and calls Ringbuf_Data_Put.  The consumer calls Ringbuf_Pop *)
(* or looks at elements with Ringbuf_Peek and Ringbuf_Peek_Next, reads one *)
(* and removes it with Ringbuf_Pop or Ringbuf_Pop_Element, the way the     *)
(* MS/TP data links search their queue for a reply.                        *)
(*                                                                         *)
(* An element is a tuple of octets and is copied octet by octet.  head++   *)
(* and tail++ are one step each, because only one side writes each.  A     *)
(* loop that only reads head and memory the producer leaves alone is one   *)
(* step, at the read of head on which its result depends.                  *)
(***************************************************************************)
EXTENDS Integers, Sequences

CONSTANTS
    element_count,      \* a power of two
    UNSIGNED,           \* 2^32: head and tail are unsigned
    element_size,       \* octets in an element
    Octets              \* what an octet may be

(* isPowerOfTwo: what matters is that it divides 2^32.                     *)
ASSUME RingConstants ==
    /\ element_count \in Nat \ {0}
    /\ UNSIGNED \in Nat \ {0}
    /\ element_count < UNSIGNED /\ UNSIGNED % element_count = 0
    /\ element_size \in Nat \ {0}
    /\ Octets # {}

VARIABLES
    ring,       \* buffer, head, tail and depth
    put,        \* the producer: what it is at, the element it puts, the
                \* cell it writes and the octets it has written
    get,        \* the consumer: what it is at, the cell it looks at, its
                \* copy of the element and the octets it has copied
    taken       \* history: the element the consumer took last

vars == <<ring, put, get, taken>>

Cells == 0 .. element_count - 1
Index == 0 .. UNSIGNED - 1
Size == 1 .. element_size

(* Elements differ in every octet, so that a mix of two is none of them.   *)
Elements == {[i \in Size |-> x] : x \in Octets}
Nothing == <<>>

Next1(x) == (x + 1) % UNSIGNED
Count(head, tail) == (head - tail) % UNSIGNED

Cell(x) == x % element_count

IdlePut == [at |-> "idle", element |-> Nothing, cell |-> 0, i |-> 0]
IdleGet == [at |-> "idle", cell |-> 0, copy |-> Nothing, i |-> 0, hole |-> 0]

Init ==
    /\ ring = [buffer |-> [c \in Cells |-> CHOOSE e \in Elements : TRUE],
               head |-> 0, tail |-> 0, depth |-> 0]
    /\ put = IdlePut
    /\ get = IdleGet
    /\ taken = Nothing

-----------------------------------------------------------------------------
(* The producer.                                                           *)

Ringbuf_Full == Count(ring.head, ring.tail) = element_count

(* Ringbuf_Data_Peek, or the beginning of Ringbuf_Put; when the ring is    *)
(* full nothing changes.                                                   *)
Ringbuf_Data_Peek(e) ==
    /\ put.at = "idle"
    /\ ~ Ringbuf_Full
    /\ put' = [at |-> "write", element |-> e, cell |-> Cell(ring.head), i |-> 0]
    /\ UNCHANGED <<ring, get, taken>>

WriteOctet ==
    /\ put.at = "write"
    /\ put.i < element_size
    /\ ring' = [ring EXCEPT !.buffer[put.cell][put.i + 1] =
                                put.element[put.i + 1]]
    /\ put' = [put EXCEPT !.i = @ + 1]
    /\ UNCHANGED <<get, taken>>

(* The end of Ringbuf_Put, and Ringbuf_Data_Put: the latter publishes only *)
(* an element that is still the one Ringbuf_Data_Peek gave.                *)
Ringbuf_Data_Put ==
    /\ put.at = "write" /\ put.i = element_size
    /\ ~ Ringbuf_Full /\ put.cell = Cell(ring.head)
    /\ ring' = [ring EXCEPT !.head = Next1(@)]
    /\ put' = [put EXCEPT !.at = "depth"]
    /\ UNCHANGED <<get, taken>>

(* Ringbuf_Depth_Update: tail is read after head, and may have moved.      *)
Ringbuf_Depth_Update ==
    /\ put.at = "depth"
    /\ ring' = [ring EXCEPT !.depth =
                  IF Count(ring.head, ring.tail) > @
                  THEN Count(ring.head, ring.tail) ELSE @]
    /\ put' = IdlePut
    /\ UNCHANGED <<get, taken>>

Producer ==
    \/ \E e \in Elements : Ringbuf_Data_Peek(e)
    \/ WriteOctet
    \/ Ringbuf_Data_Put
    \/ Ringbuf_Depth_Update

-----------------------------------------------------------------------------
(* The consumer.                                                           *)

Ringbuf_Empty == Count(ring.head, ring.tail) = 0

Looking(cell) == [IdleGet EXCEPT !.at = "look", !.cell = cell]

(* Ringbuf_Peek, or the beginning of Ringbuf_Pop.                          *)
Ringbuf_Peek ==
    /\ get.at = "idle"
    /\ ~ Ringbuf_Empty
    /\ get' = Looking(Cell(ring.tail))
    /\ UNCHANGED <<ring, put, taken>>

(* Where a loop "for (index = low; index < high; index++)" meets the cell. *)
Visits(low, high, cell) ==
    {x \in Index : low <= x /\ x < high /\ Cell(x) = cell}

(* The head has wrapped and the tail has not.  The loops compare           *)
(* index < head, so that they find nothing then.                           *)
Astray == ring.tail > ring.head

(* Mutant: the search walks off the end of the ring.                       *)
PeekNextOffEnd ==
    LET found == Visits(ring.tail, ring.head, get.cell)
    IN /\ get.at = "look" /\ get.i = 0
       /\ get' = IF found = {} THEN IdleGet
                 ELSE Looking(Cell((CHOOSE x \in found : TRUE) + 1))
       /\ UNCHANGED <<ring, put, taken>>

Ringbuf_Peek_Next ==
    LET found == Visits(ring.tail, (ring.head - 1) % UNSIGNED, get.cell)
    IN /\ get.at = "look" /\ get.i = 0
       /\ get' = IF found = {} THEN IdleGet
                 ELSE Looking(Cell((CHOOSE x \in found : TRUE) + 1))
       /\ UNCHANGED <<ring, put, taken>>

ReadOctet ==
    /\ get.at = "look" /\ get.i < element_size
    /\ get' = [get EXCEPT !.copy = Append(@, ring.buffer[get.cell][get.i + 1]),
                          !.i = @ + 1]
    /\ UNCHANGED <<ring, put, taken>>

Ringbuf_Pop ==
    /\ get.at = "look" /\ get.i = element_size
    /\ get.cell = Cell(ring.tail)
    /\ ring' = [ring EXCEPT !.tail = Next1(@)]
    /\ get' = IdleGet
    /\ taken' = get.copy
    /\ UNCHANGED put

(* The search of Ringbuf_Pop_Element.  head is read for each element and   *)
(* once more after the loop; a head that has wrapped stays so until the    *)
(* tail moves, so that the last read decides.  hole is the index of the    *)
(* cell that is free to be overwritten.  Not found: this_index is an older *)
(* head, from which there is nothing to move, and the call goes on to      *)
(* remove the oldest element.                                              *)
Ringbuf_Pop_Element ==
    LET found == Visits(ring.tail, ring.head, get.cell)
    IN /\ get.at = "look" /\ get.i = element_size
       /\ \/ \E x \in found :
                /\ get' = [get EXCEPT !.at = "move", !.i = 0, !.hole = x]
                /\ taken' = get.copy
          \/ /\ found = {}
             /\ get' = [get EXCEPT !.at = "missed"]
             /\ UNCHANGED taken
       /\ UNCHANGED <<ring, put>>

(* Mutant: the last octet of an element is not moved.                      *)
MoveAllButLast ==
    /\ get.at = "move" /\ get.hole > ring.tail
    /\ ring' = [ring EXCEPT !.buffer[Cell(get.hole)][get.i + 1] =
                    ring.buffer[Cell(get.hole - 1)][get.i + 1]]
    /\ get' = IF get.i + 2 < element_size
              THEN [get EXCEPT !.i = @ + 1]
              ELSE [get EXCEPT !.i = 0, !.hole = @ - 1]
    /\ UNCHANGED <<put, taken>>

(* The elements before it are moved up into the hole, octet by octet.      *)
MoveOctet ==
    /\ get.at = "move" /\ get.hole > ring.tail
    /\ ring' = [ring EXCEPT !.buffer[Cell(get.hole)][get.i + 1] =
                    ring.buffer[Cell(get.hole - 1)][get.i + 1]]
    /\ get' = IF get.i + 1 < element_size
              THEN [get EXCEPT !.i = @ + 1]
              ELSE [get EXCEPT !.i = 0, !.hole = @ - 1]
    /\ UNCHANGED <<put, taken>>

Remove ==
    /\ get.at = "move" /\ get.hole = ring.tail
    /\ ring' = [ring EXCEPT !.tail = Next1(@)]
    /\ get' = IdleGet
    /\ UNCHANGED <<put, taken>>

RemoveOldest ==
    /\ get.at = "missed"
    /\ ring' = [ring EXCEPT !.tail = Next1(@)]
    /\ get' = IdleGet
    /\ taken' = get.copy
    /\ UNCHANGED put

Consumer ==
    \/ Ringbuf_Peek
    \/ Ringbuf_Peek_Next
    \/ ReadOctet
    \/ Ringbuf_Pop
    \/ Ringbuf_Pop_Element
    \/ MoveOctet
    \/ Remove
    \/ RemoveOldest

Next == Producer \/ Consumer
Spec == Init /\ [][Next]_vars

-----------------------------------------------------------------------------
(* Properties.                                                             *)

(* The elements in the ring, the oldest first.  While an element is being  *)
(* removed its place in the ring does not count.                           *)
Removing == get.at = "move"

Place(k) == IF Removing /\ ring.tail + k - 1 >= get.hole
            THEN ring.tail + k ELSE ring.tail + k - 1

Contents ==
    [k \in 1 .. Count(ring.head, ring.tail) - (IF Removing THEN 1 ELSE 0) |->
        ring.buffer[Cell(Place(k))]]

Fifo == INSTANCE BoundedFifo WITH queue <- Contents, astray <- Astray

(* Whatever the interleaving, and across the wrap of head and tail, the    *)
(* consumer takes whole elements in the order they were put.  Pop_Element  *)
(* takes the one it was asked for and leaves the others in their order,    *)
(* but for the time when the head has wrapped and the tail has not: then   *)
(* it removes the oldest, and the one it was asked for is taken again.     *)
ImplementsFifo == Fifo!FifoSpec

Strict == INSTANCE BoundedFifo WITH queue <- Contents, astray <- FALSE

(* "Copy the data from the specified element, and removes it" (ringbuf.c): *)
(* the same without that exception.                                        *)
RemovesTheSpecified == Strict!FifoSpec

(* The cell the producer fills is none the consumer may read: the ring     *)
(* never holds more than element_count elements, and what was free when it *)
(* was looked at is still free when Ringbuf_Data_Put looks again.          *)
CellStaysFree ==
    /\ Count(ring.head, ring.tail) <= element_count
    /\ put.at = "write" => ~ Ringbuf_Full /\ put.cell = Cell(ring.head)
    /\ get.at \in {"look", "missed"} =>
          \E x \in 0 .. Count(ring.head, ring.tail) - 1 :
              get.cell = Cell(ring.tail + x)
=============================================================================
