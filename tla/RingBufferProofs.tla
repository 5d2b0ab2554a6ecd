-------------------------- MODULE RingBufferProofs --------------------------
(***************************************************************************)
(* The ring buffer keeps its two users apart and is a queue, for every     *)
(* size and every interleaving.                                            *)
(***************************************************************************)
EXTENDS RingBuffer, SequenceTheorems, TLAPS

-----------------------------------------------------------------------------
(* Remainders.                                                             *)

(* Division with remainder.                                                *)
LEMMA ModBasic ==
    ASSUME NEW a \in Int, NEW b \in Nat \ {0}
    PROVE  /\ a % b \in 0 .. b - 1
           /\ a \div b \in Int
           /\ a = b * (a \div b) + (a % b)
OBVIOUS

(* The remainder is determined by any decomposition.                       *)
LEMMA ModUnique ==
    ASSUME NEW b \in Nat \ {0}, NEW q \in Int, NEW r \in 0 .. b - 1
    PROVE  (b * q + r) % b = r
OBVIOUS

(* A positive multiple is not below what it is a multiple of.              *)
LEMMA MultipleLarge ==
    ASSUME NEW b \in Nat \ {0}, NEW q \in Int, 0 < b * q
    PROVE  b <= b * q
<1>1. q > 0
  OBVIOUS
<1>. QED  BY <1>1

(* Numbers less than b apart have different remainders.                    *)
LEMMA ModDistinct ==
    ASSUME NEW b \in Nat \ {0}, NEW x \in Int, NEW y \in Int, x < y, y - x < b
    PROVE  x % b # y % b
<1>. SUFFICES ASSUME x % b = y % b PROVE FALSE
  OBVIOUS
<1>. DEFINE p == x \div b
            q == y \div b
<1>1. /\ p \in Int /\ q \in Int /\ x % b \in Int
      /\ x = b * p + (x % b) /\ y = b * q + (y % b)
  BY ModBasic
<1>. HIDE DEF p, q
<1>2. y - x = b * q - b * p
  BY <1>1
<1>3. b * q - b * p = b * (q - p)
  BY <1>1
<1>4. y - x = b * (q - p) /\ q - p \in Int
  BY <1>1, <1>2, <1>3
<1>. QED  BY <1>4, MultipleLarge

(* Reducing first modulo a multiple of b changes nothing.                  *)
LEMMA ModMod ==
    ASSUME NEW b \in Nat \ {0}, NEW u \in Nat \ {0}, u % b = 0, NEW x \in Int
    PROVE  (x % u) % b = x % b
<1>. DEFINE m == u \div b
            q == x \div u
            s == (x % u) \div b
            r == (x % u) % b
<1>1. m \in Int /\ u = b * m
  BY ModBasic
<1>2. q \in Int /\ x % u \in Int /\ x = u * q + (x % u)
  BY ModBasic
<1>3. s \in Int /\ r \in 0 .. b - 1 /\ x % u = b * s + r
  BY <1>2, ModBasic
<1>. HIDE DEF m, q, s, r
<1>4. x = (b * m) * q + (b * s + r)
  BY <1>1, <1>2, <1>3
<1>5. (b * m) * q = b * (m * q) /\ m * q \in Int
  BY <1>1, <1>2
<1>6. b * (m * q + s) = b * (m * q) + b * s
  BY <1>3, <1>5
<1>7. x = b * (m * q + s) + r /\ m * q + s \in Int
  BY <1>3, <1>4, <1>5, <1>6
<1>8. x % b = r
  BY <1>3, <1>7, ModUnique
<1>. QED  BY <1>8 DEF r

-----------------------------------------------------------------------------
(* Indices.                                                                *)

(* The number of elements, without the remainder.                          *)
LEMMA CountIs ==
    ASSUME NEW h \in Index, NEW t \in Index
    PROVE  /\ Count(h, t) = IF h >= t THEN h - t ELSE h - t + UNSIGNED
           /\ Count(h, t) \in Index
<1>1. CASE h >= t
  BY <1>1, RingConstants, ModUnique DEF Count, Index
<1>2. CASE h < t
  <2>1. h - t = UNSIGNED * (-1) + (h - t + UNSIGNED)
    BY RingConstants DEF Index
  <2>2. h - t + UNSIGNED \in 0 .. UNSIGNED - 1
    BY <1>2, RingConstants DEF Index
  <2>3. (UNSIGNED * (-1) + (h - t + UNSIGNED)) % UNSIGNED = h - t + UNSIGNED
    BY <2>2, RingConstants, ModUnique
  <2>. QED  BY <1>2, <2>1, <2>2, <2>3 DEF Count, Index
<1>. QED  BY <1>1, <1>2 DEF Index

(* An index moves on by one, and wraps.                                    *)
LEMMA Next1Is ==
    ASSUME NEW x \in Index
    PROVE  /\ Next1(x) = IF x + 1 = UNSIGNED THEN 0 ELSE x + 1
           /\ Next1(x) \in Index
BY RingConstants, ModUnique DEF Next1, Index

(* A cell is a cell.                                                       *)
LEMMA CellType ==
    ASSUME NEW x \in Int
    PROVE  Cell(x) \in Cells
BY RingConstants, ModBasic DEF Cell, Cells

(* Cells of indices less than element_count apart are different.           *)
LEMMA CellsDiffer ==
    ASSUME NEW x \in Int, NEW y \in Int, x < y, y - x < element_count
    PROVE  Cell(x) # Cell(y)
BY RingConstants, ModDistinct DEF Cell

(* Wrapping does not change the cell: element_count divides 2^32.          *)
LEMMA CellWraps ==
    ASSUME NEW x \in Int
    PROVE  Cell(x + UNSIGNED) = Cell(x)
<1>1. (x + UNSIGNED) % UNSIGNED = x % UNSIGNED
  <2>. DEFINE q == x \div UNSIGNED
              r == x % UNSIGNED
  <2>1. q \in Int /\ r \in 0 .. UNSIGNED - 1 /\ x = UNSIGNED * q + r
    BY RingConstants, ModBasic
  <2>. HIDE DEF q, r
  <2>2. x + UNSIGNED = UNSIGNED * (q + 1) + r
    BY <2>1, RingConstants
  <2>3. (UNSIGNED * (q + 1) + r) % UNSIGNED = r
    BY <2>1, RingConstants, ModUnique
  <2>. QED  BY <2>2, <2>3 DEF r
<1>2. ((x + UNSIGNED) % UNSIGNED) % element_count = (x + UNSIGNED) % element_count
  <2>. DEFINE y == x + UNSIGNED
  <2>1. y \in Int
    BY RingConstants
  <2>. HIDE DEF y
  <2>2. (y % UNSIGNED) % element_count = y % element_count
    BY <2>1, RingConstants, ModMod
  <2>. QED  BY <2>2 DEF y
<1>3. (x % UNSIGNED) % element_count = x % element_count
  BY RingConstants, ModMod
<1>. QED  BY <1>1, <1>2, <1>3 DEF Cell

(* The cell at the head lies Count beyond the one at the tail.             *)
LEMMA CellOfHead ==
    ASSUME NEW h \in Index, NEW t \in Index
    PROVE  Cell(t + Count(h, t)) = Cell(h)
<1>1. t + Count(h, t) = h \/ t + Count(h, t) = h + UNSIGNED
  <2>1. Count(h, t) = IF h >= t THEN h - t ELSE h - t + UNSIGNED
    BY CountIs
  <2>. QED  BY <2>1, RingConstants DEF Index
<1>2. h \in Int /\ Cell(h + UNSIGNED) = Cell(h)
  BY CellWraps DEF Index
<1>. QED  BY <1>1, <1>2

(* The cell after the one at the tail is the one at the tail that moved.   *)
LEMMA CellOfNext ==
    ASSUME NEW t \in Index, NEW k \in Int
    PROVE  Cell(Next1(t) + k) = Cell(t + k + 1)
<1>1. t + k + 1 = Next1(t) + k \/ t + k + 1 = (Next1(t) + k) + UNSIGNED
  BY Next1Is, RingConstants DEF Index
<1>2. Next1(t) + k \in Int
  BY Next1Is, RingConstants DEF Index
<1>3. Cell((Next1(t) + k) + UNSIGNED) = Cell(Next1(t) + k)
  BY <1>2, CellWraps
<1>. QED  BY <1>1, <1>3

(* Putting makes one more.                                                 *)
LEMMA CountPut ==
    ASSUME NEW h \in Index, NEW t \in Index, Count(h, t) < element_count
    PROVE  Count(Next1(h), t) = Count(h, t) + 1
<1>1. /\ Count(h, t) = IF h >= t THEN h - t ELSE h - t + UNSIGNED
      /\ Next1(h) = IF h + 1 = UNSIGNED THEN 0 ELSE h + 1
      /\ Next1(h) \in Index
  BY CountIs, Next1Is
<1>2. Count(Next1(h), t) = IF Next1(h) >= t THEN Next1(h) - t
                           ELSE Next1(h) - t + UNSIGNED
  BY <1>1, CountIs
<1>. QED  BY <1>1, <1>2, RingConstants DEF Index

(* Taking makes one less.                                                  *)
LEMMA CountTake ==
    ASSUME NEW h \in Index, NEW t \in Index, Count(h, t) # 0
    PROVE  Count(h, Next1(t)) = Count(h, t) - 1
<1>1. /\ Count(h, t) = IF h >= t THEN h - t ELSE h - t + UNSIGNED
      /\ Next1(t) = IF t + 1 = UNSIGNED THEN 0 ELSE t + 1
      /\ Next1(t) \in Index
  BY CountIs, Next1Is
<1>2. Count(h, Next1(t)) = IF h >= Next1(t) THEN h - Next1(t)
                           ELSE h - Next1(t) + UNSIGNED
  BY <1>1, CountIs
<1>. QED  BY <1>1, <1>2, RingConstants DEF Index

(* The cell at the head holds none of the elements.                        *)
LEMMA HeadCellFree ==
    ASSUME NEW h \in Index, NEW t \in Index, Count(h, t) < element_count,
           NEW x \in Int, t <= x, x < t + Count(h, t)
    PROVE  Cell(x) # Cell(h)
<1>1. Count(h, t) \in Int /\ t \in Int /\ element_count \in Int
  BY CountIs, RingConstants DEF Index
<1>2. Cell(x) # Cell(t + Count(h, t))
  BY <1>1, CellsDiffer
<1>. QED  BY <1>2, CellOfHead

(* Where the head is: unless it has wrapped and the tail has not, it is as *)
(* far ahead of the tail as there are elements.                            *)
LEMMA HeadAhead ==
    ASSUME NEW h \in Index, NEW t \in Index
    PROVE  h = IF t <= h THEN t + Count(h, t) ELSE t + Count(h, t) - UNSIGNED
<1>1. Count(h, t) = IF h >= t THEN h - t ELSE h - t + UNSIGNED
  BY CountIs
<1>. QED  BY <1>1, RingConstants DEF Index

-----------------------------------------------------------------------------
(* The invariant.                                                          *)

RingType ==
    /\ ring \in [buffer : [Cells -> [Size -> Octets]],
                 head : Index, tail : Index, depth : Index]
    /\ put \in [at : {"idle", "write", "depth"}, element : Elements \cup {Nothing},
                cell : Cells, i : 0 .. element_size]
    /\ put.at # "idle" => put.element \in Elements
    /\ get \in [at : {"idle", "look", "missed", "move"}, cell : Cells, copy : Seq(Octets),
                i : 0 .. element_size, hole : Index]

Held == Count(ring.head, ring.tail)

(* The octets of the element that the producer has written.                *)
WrittenSoFar ==
    put.at = "write" =>
        \A j \in 1 .. put.i : ring.buffer[put.cell][j] = put.element[j]

(* The octets of the element that the consumer has copied: all of them     *)
(* when Ringbuf_Pop_Element misses it, and it misses it only while the     *)
(* head has wrapped and the tail has not.                                  *)
CopiedSoFar ==
    get.at \in {"look", "missed"} =>
        /\ get.at = "missed" => get.i = element_size /\ Astray
        /\ Len(get.copy) = get.i
        /\ \A j \in 1 .. get.i : get.copy[j] = ring.buffer[get.cell][j]

(* The hole lies among the elements, and so does the one that is moved     *)
(* into it, of which some octets are there already.                        *)
MovedSoFar ==
    get.at = "move" =>
        /\ ring.tail <= get.hole /\ get.hole < ring.tail + Held
        /\ get.i < element_size
        /\ get.i > 0 => get.hole > ring.tail
        /\ \A j \in 1 .. get.i : ring.buffer[Cell(get.hole)][j] =
                                 ring.buffer[Cell(get.hole - 1)][j]

RingInv ==
    RingType /\ CellStaysFree /\ WrittenSoFar /\ CopiedSoFar /\ MovedSoFar

-----------------------------------------------------------------------------
(* Every step keeps the invariant.                                         *)

(* The numbers a state is made of.                                         *)
LEMMA RingNumbers ==
    ASSUME RingType
    PROVE  /\ ring.head \in Index /\ ring.tail \in Index
           /\ ring.head \in Int /\ ring.tail \in Int
           /\ Held \in Index /\ Held \in Int /\ Held >= 0
           /\ put.cell \in Cells /\ put.i \in Int /\ get.i \in Int
           /\ element_size \in Int /\ element_count \in Int /\ UNSIGNED \in Int
           /\ element_size > 0 /\ element_count > 0 /\ element_count < UNSIGNED
<1>1. ring.head \in Index /\ ring.tail \in Index
  BY DEF RingType
<1>2. Held \in Index
  BY <1>1, CountIs DEF Held
<1>. QED  BY <1>1, <1>2, RingConstants DEF RingType, Index

(* What the elements are.                                                  *)
LEMMA ElementType ==
    ASSUME NEW e \in Elements
    PROVE  e \in [Size -> Octets]
BY DEF Elements

LEMMA InitInv ==
    ASSUME Init
    PROVE  RingInv
<1>1. PICK o \in Octets : TRUE
  BY RingConstants
<1>2. [i \in Size |-> o] \in Elements
  BY <1>1 DEF Elements
<1>3. (CHOOSE e \in Elements : TRUE) \in Elements
  BY <1>2
<1>4. (CHOOSE e \in Elements : TRUE) \in [Size -> Octets]
  BY <1>3, ElementType
<1>. DEFINE e0 == CHOOSE e \in Elements : TRUE
<1>. HIDE DEF e0
<1>5. ring = [buffer |-> [c \in Cells |-> e0], head |-> 0, tail |-> 0, depth |-> 0]
  BY DEF Init, e0
<1>6. e0 \in [Size -> Octets]
  BY <1>4 DEF e0
<1>7. 0 \in Index /\ 0 \in Cells /\ 0 \in 0 .. element_size /\ Nothing \in Seq(Octets)
  BY RingConstants DEF Index, Cells, Nothing
<1>8. RingType
  BY <1>5, <1>6, <1>7 DEF Init, RingType, IdlePut, IdleGet
<1>9. Count(0, 0) = 0
  BY <1>7, CountIs
<1>. QED
  BY <1>5, <1>8, <1>9, RingConstants
  DEF Init, RingInv, CellStaysFree, WrittenSoFar, CopiedSoFar, MovedSoFar,
      IdlePut, IdleGet

LEMMA DataPeekInv ==
    ASSUME RingInv, NEW e \in Elements, Ringbuf_Data_Peek(e)
    PROVE  RingInv'
<1>. USE DEF RingInv
<1>1. Cell(ring.head) \in Cells
  BY RingNumbers, CellType
<1>2. put' = [at |-> "write", element |-> e, cell |-> Cell(ring.head), i |-> 0]
  BY DEF Ringbuf_Data_Peek
<1>3. ring' = ring /\ get' = get
  BY DEF Ringbuf_Data_Peek
<1>4. RingType'
  BY <1>1, <1>2, <1>3, RingConstants DEF RingType
<1>5. CellStaysFree'
  BY <1>2, <1>3 DEF CellStaysFree, Ringbuf_Data_Peek, Ringbuf_Full
<1>6. WrittenSoFar'
  BY <1>2 DEF WrittenSoFar
<1>7. CopiedSoFar' /\ MovedSoFar'
  BY <1>3 DEF CopiedSoFar, MovedSoFar, Held, Astray
<1>. QED  BY <1>4, <1>5, <1>6, <1>7

(* A write by the producer is to no cell that an element is in.            *)
LEMMA WriteElsewhere ==
    ASSUME RingInv, WriteOctet
    PROVE  /\ ring'.head = ring.head /\ ring'.tail = ring.tail
           /\ get' = get
           /\ put.cell \in Cells /\ put.i + 1 \in Size
           /\ ring'.buffer \in [Cells -> [Size -> Octets]]
           /\ \A c \in Cells : c # put.cell => ring'.buffer[c] = ring.buffer[c]
           /\ \A j \in Size : ring'.buffer[put.cell][j] =
                IF j = put.i + 1 THEN put.element[j] ELSE ring.buffer[put.cell][j]
           /\ \A x \in Int : ring.tail <= x /\ x < ring.tail + Held
                                => /\ Cell(x) \in Cells
                                   /\ ring'.buffer[Cell(x)] = ring.buffer[Cell(x)]
<1>. USE DEF RingInv
<1>1. /\ put.at = "write" /\ put.i < element_size
      /\ ring' = [ring EXCEPT !.buffer[put.cell][put.i + 1] = put.element[put.i + 1]]
      /\ get' = get
  BY DEF WriteOctet
<1>2. put.cell \in Cells /\ put.i + 1 \in Size
  BY <1>1, RingConstants DEF RingType, Size
<1>3. put.element \in [Size -> Octets]
  BY <1>1, ElementType DEF RingType
<1>4. put.element[put.i + 1] \in Octets
  BY <1>2, <1>3
<1>5. ring.buffer \in [Cells -> [Size -> Octets]]
  BY DEF RingType
<1>6. /\ ring'.head = ring.head /\ ring'.tail = ring.tail
      /\ ring'.buffer = [ring.buffer EXCEPT ![put.cell][put.i + 1] =
                              put.element[put.i + 1]]
  BY <1>1 DEF RingType
<1>7. ring'.buffer \in [Cells -> [Size -> Octets]]
  BY <1>2, <1>4, <1>5, <1>6
<1>8. \A c \in Cells : c # put.cell => ring'.buffer[c] = ring.buffer[c]
  BY <1>5, <1>6
<1>9. \A j \in Size : ring'.buffer[put.cell][j] =
         IF j = put.i + 1 THEN put.element[j] ELSE ring.buffer[put.cell][j]
  BY <1>2, <1>5, <1>6
<1>10. Held < element_count /\ put.cell = Cell(ring.head)
  BY <1>1, RingNumbers DEF CellStaysFree, Ringbuf_Full, Held
<1>11. ASSUME NEW x \in Int, ring.tail <= x, x < ring.tail + Held
       PROVE  Cell(x) \in Cells /\ ring'.buffer[Cell(x)] = ring.buffer[Cell(x)]
  <2>1. Cell(x) # Cell(ring.head)
    BY <1>10, <1>11, RingNumbers, HeadCellFree DEF Held
  <2>2. Cell(x) \in Cells
    BY CellType
  <2>. QED  BY <1>8, <1>10, <2>1, <2>2
<1>. QED  BY <1>1, <1>2, <1>6, <1>7, <1>8, <1>9, <1>11

LEMMA WriteOctetInv ==
    ASSUME RingInv, WriteOctet
    PROVE  RingInv'
<1>. USE DEF RingInv
<1>1. /\ put.at = "write" /\ put.i < element_size
      /\ put' = [put EXCEPT !.i = @ + 1]
      /\ get' = get
      /\ ring' = [ring EXCEPT !.buffer[put.cell][put.i + 1] = put.element[put.i + 1]]
  BY DEF WriteOctet
<1>2. /\ put'.at = "write" /\ put'.element = put.element
      /\ put'.cell = put.cell /\ put'.i = put.i + 1
      /\ put.i \in Int /\ put.i >= 0
  BY <1>1 DEF RingType
<1>3. RingType'
  <2>1. put' \in [at : {"idle", "write", "depth"}, element : Elements \cup {Nothing},
                  cell : Cells, i : 0 .. element_size]
    <3>1. put.i + 1 \in 0 .. element_size
      BY <1>1, <1>2, RingConstants
    <3>. QED  BY <1>1, <3>1 DEF RingType
  <2>2. put'.element \in Elements
    BY <1>1, <1>2 DEF RingType
  <2>3. ring'.buffer \in [Cells -> [Size -> Octets]]
    BY WriteElsewhere
  <2>4. ring' \in [buffer : [Cells -> [Size -> Octets]],
                   head : Index, tail : Index, depth : Index]
    BY <1>1, <2>3 DEF RingType
  <2>. QED  BY <1>1, <2>1, <2>2, <2>4 DEF RingType
<1>4. ring'.head = ring.head /\ ring'.tail = ring.tail
  BY WriteElsewhere
<1>5. Held' = Held
  BY <1>4 DEF Held
<1>6. CellStaysFree'
  BY <1>1, <1>2, <1>4 DEF CellStaysFree, Ringbuf_Full
<1>7. WrittenSoFar'
  <2>. SUFFICES ASSUME NEW j \in 1 .. put.i + 1
                PROVE  ring'.buffer[put.cell][j] = put.element[j]
    BY <1>2 DEF WrittenSoFar
  <2>1. j \in Size
    BY <1>1, <1>2, RingConstants DEF Size
  <2>2. j # put.i + 1 => j \in 1 .. put.i
    BY <1>2
  <2>. QED  BY <1>1, <2>1, <2>2, WriteElsewhere DEF WrittenSoFar
<1>8. CopiedSoFar'
  <2>1. CASE get.at \in {"look", "missed"}
    <3>1. PICK x \in 0 .. Held - 1 : get.cell = Cell(ring.tail + x)
      BY <2>1 DEF CellStaysFree, Held
    <3>2. ring.tail + x \in Int /\ ring.tail <= ring.tail + x
          /\ ring.tail + x < ring.tail + Held
      BY RingNumbers
    <3>3. ring'.buffer[get.cell] = ring.buffer[get.cell]
      BY <3>1, <3>2, WriteElsewhere
    <3>. QED  BY <1>1, <1>4, <3>3 DEF CopiedSoFar, Astray
  <2>. QED  BY <1>1, <2>1 DEF CopiedSoFar
<1>9. MovedSoFar'
  <2>1. CASE get.at = "move"
    <3>1. get.hole \in Int /\ ring.tail <= get.hole /\ get.hole < ring.tail + Held
      BY <2>1, RingConstants DEF MovedSoFar, RingType, Index
    <3>2. ring'.buffer[Cell(get.hole)] = ring.buffer[Cell(get.hole)]
      BY <3>1, WriteElsewhere
    <3>3. get.i > 0 =>
            ring'.buffer[Cell(get.hole - 1)] = ring.buffer[Cell(get.hole - 1)]
      <4>. SUFFICES ASSUME get.i > 0
                    PROVE ring'.buffer[Cell(get.hole - 1)] = ring.buffer[Cell(get.hole - 1)]
        OBVIOUS
      <4>1. get.hole - 1 \in Int /\ ring.tail <= get.hole - 1
            /\ get.hole - 1 < ring.tail + Held
        BY <2>1, <3>1, RingNumbers DEF MovedSoFar
      <4>. QED  BY <4>1, WriteElsewhere
    <3>4. \A j \in 1 .. get.i : ring'.buffer[Cell(get.hole)][j] =
                                ring'.buffer[Cell(get.hole - 1)][j]
      BY <2>1, <3>2, <3>3, RingNumbers DEF MovedSoFar
    <3>. QED  BY <1>1, <1>4, <1>5, <2>1, <3>4 DEF MovedSoFar
  <2>. QED  BY <1>1, <2>1 DEF MovedSoFar
<1>. QED  BY <1>3, <1>6, <1>7, <1>8, <1>9

LEMMA DataPutInv ==
    ASSUME RingInv, Ringbuf_Data_Put
    PROVE  RingInv'
<1>. USE DEF RingInv
<1>1. /\ put.at = "write" /\ ~ Ringbuf_Full
      /\ ring' = [ring EXCEPT !.head = Next1(@)]
      /\ put' = [put EXCEPT !.at = "depth"]
      /\ get' = get
  BY DEF Ringbuf_Data_Put
<1>2. /\ ring'.head = Next1(ring.head) /\ ring'.tail = ring.tail
      /\ ring'.buffer = ring.buffer
  BY <1>1 DEF RingType
<1>3. Next1(ring.head) \in Index
  BY RingNumbers, Next1Is
<1>4. Held < element_count
  BY <1>1, RingNumbers DEF CellStaysFree, Ringbuf_Full, Held
<1>5. Held' = Held + 1
  BY <1>2, <1>4, RingNumbers, CountPut DEF Held
<1>6. RingType'
  BY <1>1, <1>3 DEF RingType
<1>7. put'.at = "depth"
  BY <1>1 DEF RingType
<1>8. CellStaysFree'
  <2>1. Held' <= element_count
    BY <1>4, <1>5, RingNumbers
  <2>2. ASSUME get.at \in {"look", "missed"}
        PROVE  \E x \in 0 .. Held' - 1 : get.cell = Cell(ring.tail + x)
    <3>1. PICK x \in 0 .. Held - 1 : get.cell = Cell(ring.tail + x)
      BY <2>2 DEF CellStaysFree, Held
    <3>2. x \in 0 .. Held' - 1
      BY <1>5, RingNumbers
    <3>. QED  BY <3>1, <3>2
  <2>. QED  BY <1>1, <1>2, <1>7, <2>1, <2>2 DEF CellStaysFree, Held
<1>9. WrittenSoFar' /\ CopiedSoFar'
  <2>1. Astray => Astray'
    <3>1. /\ ring.head = IF ring.tail <= ring.head THEN ring.tail + Held
                         ELSE ring.tail + Held - UNSIGNED
          /\ Next1(ring.head) = IF ring.head + 1 = UNSIGNED THEN 0
                                ELSE ring.head + 1
      BY RingNumbers, HeadAhead, Next1Is DEF Held
    <3>. QED  BY <1>2, <1>4, <3>1, RingNumbers DEF Astray, Index
  <2>. QED  BY <1>1, <1>2, <1>7, <2>1 DEF WrittenSoFar, CopiedSoFar
<1>10. MovedSoFar'
  <2>1. CASE get.at = "move"
    <3>1. get.hole < ring.tail + Held'
      BY <1>5, <2>1, RingNumbers, RingConstants DEF MovedSoFar, RingType, Index
    <3>. QED  BY <1>1, <1>2, <2>1, <3>1 DEF MovedSoFar
  <2>. QED  BY <1>1, <2>1 DEF MovedSoFar
<1>. QED  BY <1>6, <1>8, <1>9, <1>10

LEMMA DepthUpdateInv ==
    ASSUME RingInv, Ringbuf_Depth_Update
    PROVE  RingInv'
<1>. USE DEF RingInv
<1>1. /\ ring' = [ring EXCEPT !.depth = IF Count(ring.head, ring.tail) > @
                                        THEN Count(ring.head, ring.tail) ELSE @]
      /\ put' = IdlePut /\ get' = get
  BY DEF Ringbuf_Depth_Update
<1>2. /\ ring'.head = ring.head /\ ring'.tail = ring.tail
      /\ ring'.buffer = ring.buffer
  BY <1>1 DEF RingType
<1>3. Count(ring.head, ring.tail) \in Index
  BY RingNumbers DEF Held
<1>4. 0 \in Cells /\ 0 \in 0 .. element_size
  BY RingConstants DEF Cells
<1>5. RingType'
  BY <1>1, <1>3, <1>4 DEF RingType, IdlePut
<1>6. put'.at = "idle"
  BY <1>1 DEF IdlePut
<1>7. CellStaysFree'
  BY <1>1, <1>2, <1>6 DEF CellStaysFree
<1>8. WrittenSoFar' /\ CopiedSoFar'
  BY <1>1, <1>2, <1>6 DEF WrittenSoFar, CopiedSoFar, Astray
<1>9. MovedSoFar'
  BY <1>1, <1>2 DEF MovedSoFar, Held
<1>. QED  BY <1>5, <1>7, <1>8, <1>9

(* What becomes of the invariant when only the consumer moves, to look at  *)
(* a cell from its first octet.                                            *)
LEMMA LookingInv ==
    ASSUME RingInv, NEW x \in 0 .. Held - 1,
           get' = Looking(Cell(ring.tail + x)), UNCHANGED <<ring, put>>
    PROVE  RingInv'
<1>. USE DEF RingInv
<1>1. Cell(ring.tail + x) \in Cells
  <2>1. ring.tail + x \in Int
    BY RingNumbers
  <2>. QED  BY <2>1, CellType
<1>2. 0 \in Index /\ 0 \in 0 .. element_size /\ Nothing \in Seq(Octets)
  BY RingConstants DEF Index, Nothing
<1>3. get' = [at |-> "look", cell |-> Cell(ring.tail + x), copy |-> Nothing,
              i |-> 0, hole |-> 0]
  BY DEF Looking, IdleGet
<1>4. RingType'
  BY <1>1, <1>2, <1>3 DEF RingType
<1>5. CellStaysFree'
  BY <1>3 DEF CellStaysFree, Ringbuf_Full, Held
<1>6. WrittenSoFar' /\ CopiedSoFar' /\ MovedSoFar'
  BY <1>3 DEF WrittenSoFar, CopiedSoFar, MovedSoFar, Nothing
<1>. QED  BY <1>4, <1>5, <1>6

(* The same when it becomes idle.                                          *)
LEMMA IdleInv ==
    ASSUME RingInv, get' = IdleGet, UNCHANGED <<ring, put>>
    PROVE  RingInv'
<1>. USE DEF RingInv
<1>1. 0 \in Cells /\ 0 \in Index /\ 0 \in 0 .. element_size /\ Nothing \in Seq(Octets)
  BY RingConstants DEF Cells, Index, Nothing
<1>2. RingType'
  BY <1>1 DEF RingType, IdleGet
<1>3. CellStaysFree' /\ WrittenSoFar' /\ CopiedSoFar' /\ MovedSoFar'
  BY DEF CellStaysFree, Ringbuf_Full, WrittenSoFar, CopiedSoFar, MovedSoFar, IdleGet
<1>. QED  BY <1>2, <1>3

LEMMA PeekInv ==
    ASSUME RingInv, Ringbuf_Peek
    PROVE  RingInv'
<1>1. 0 \in 0 .. Held - 1
  BY RingNumbers DEF RingInv, Ringbuf_Peek, Ringbuf_Empty, Held
<1>2. ring.tail + 0 = ring.tail
  BY RingNumbers DEF RingInv
<1>. QED  BY <1>1, <1>2, LookingInv DEF Ringbuf_Peek

LEMMA PeekNextInv ==
    ASSUME RingInv, Ringbuf_Peek_Next
    PROVE  RingInv'
<1>. USE DEF RingInv
<1>. DEFINE found == Visits(ring.tail, (ring.head - 1) % UNSIGNED, get.cell)
            x == CHOOSE y \in found : TRUE
<1>1. /\ get.at = "look"
      /\ get' = IF found = {} THEN IdleGet ELSE Looking(Cell(x + 1))
      /\ ring' = ring /\ put' = put
  BY DEF Ringbuf_Peek_Next
<1>2. CASE found = {}
  BY <1>1, <1>2, IdleInv
<1>3. CASE found # {}
  <2>1. x \in found
    BY <1>3
  <2>2. x \in Index /\ ring.tail <= x /\ x < (ring.head - 1) % UNSIGNED
    BY <2>1 DEF Visits
  <2>3. Held > 0
    BY <1>1, RingNumbers DEF CellStaysFree, Held
  <2>4. ring.head = IF ring.tail <= ring.head THEN ring.tail + Held
                    ELSE ring.tail + Held - UNSIGNED
    BY RingNumbers, HeadAhead DEF Held
  <2>5. (ring.head - 1) % UNSIGNED = IF ring.head = 0 THEN UNSIGNED - 1
                                     ELSE ring.head - 1
    <3>1. CASE ring.head = 0
      <4>1. ring.head - 1 = UNSIGNED * (-1) + (UNSIGNED - 1)
        BY <3>1, RingNumbers
      <4>2. (UNSIGNED * (-1) + (UNSIGNED - 1)) % UNSIGNED = UNSIGNED - 1
        BY RingConstants, ModUnique
      <4>. QED  BY <3>1, <4>1, <4>2
    <3>2. CASE ring.head # 0
      <4>1. ring.head - 1 \in 0 .. UNSIGNED - 1
        BY <3>2, RingNumbers DEF Index
      <4>2. (UNSIGNED * 0 + (ring.head - 1)) % UNSIGNED = ring.head - 1
        BY <4>1, RingConstants, ModUnique
      <4>. QED  BY <3>2, <4>1, <4>2, RingNumbers
    <3>. QED  BY <3>1, <3>2
  <2>6. ring.tail <= x /\ x + 1 < ring.tail + Held
    <3>. HIDE DEF x
    <3>. QED  BY <2>2, <2>3, <2>4, <2>5, RingNumbers DEF Index
  <2>. DEFINE k == x + 1 - ring.tail
  <2>. HIDE DEF x
  <2>7. k \in 0 .. Held - 1 /\ x + 1 = ring.tail + k
    BY <2>2, <2>6, RingNumbers DEF Index
  <2>. QED  BY <1>1, <1>3, <2>7, LookingInv
<1>. QED  BY <1>2, <1>3

LEMMA ReadOctetInv ==
    ASSUME RingInv, ReadOctet
    PROVE  RingInv'
<1>. USE DEF RingInv
<1>. DEFINE o == ring.buffer[get.cell][get.i + 1]
<1>1. /\ get.at = "look" /\ get.i < element_size
      /\ get' = [get EXCEPT !.copy = Append(@, o), !.i = @ + 1]
      /\ ring' = ring /\ put' = put
  BY DEF ReadOctet
<1>2. /\ get.i \in Int /\ get.i >= 0 /\ get.cell \in Cells
      /\ get.copy \in Seq(Octets)
      /\ ring.buffer \in [Cells -> [Size -> Octets]]
  BY DEF RingType
<1>3. get.i + 1 \in Size /\ get.i + 1 \in 0 .. element_size
  BY <1>1, <1>2, RingConstants DEF Size
<1>4. o \in Octets
  BY <1>2, <1>3
<1>. HIDE DEF o
<1>5. Append(get.copy, o) \in Seq(Octets)
  BY <1>2, <1>4
<1>6. RingType'
  BY <1>1, <1>3, <1>5 DEF RingType
<1>7. /\ get'.at = "look" /\ get'.cell = get.cell /\ get'.i = get.i + 1
      /\ get'.copy = Append(get.copy, o)
  BY <1>1 DEF RingType
<1>8. CellStaysFree' /\ WrittenSoFar' /\ MovedSoFar'
  BY <1>1, <1>7 DEF CellStaysFree, Ringbuf_Full, WrittenSoFar, MovedSoFar
<1>9. CopiedSoFar'
  <2>1. Len(get.copy) = get.i
    BY <1>1 DEF CopiedSoFar
  <2>2. Len(get'.copy) = get.i + 1
    BY <1>2, <1>4, <1>7, <2>1
  <2>3. ASSUME NEW j \in 1 .. get.i + 1
        PROVE  get'.copy[j] = ring.buffer[get.cell][j]
    <3>1. CASE j = get.i + 1
      BY <1>2, <1>4, <1>7, <2>1, <3>1 DEF o
    <3>2. CASE j \in 1 .. get.i
      BY <1>1, <1>2, <1>4, <1>7, <2>1, <3>2 DEF CopiedSoFar
    <3>. QED  BY <1>2, <3>1, <3>2
  <2>. QED  BY <1>1, <1>7, <2>2, <2>3 DEF CopiedSoFar
<1>. QED  BY <1>6, <1>8, <1>9

(* Moving the tail past an element keeps the invariant.                    *)
LEMMA TailMovesInv ==
    ASSUME RingInv, Held # 0,
           ring' = [ring EXCEPT !.tail = Next1(@)], get' = IdleGet, put' = put
    PROVE  RingInv'
<1>. USE DEF RingInv
<1>1. /\ ring'.head = ring.head /\ ring'.tail = Next1(ring.tail)
      /\ ring'.buffer = ring.buffer
  BY DEF RingType
<1>2. Next1(ring.tail) \in Index
  BY RingNumbers, Next1Is
<1>3. Held' = Held - 1
  BY <1>1, RingNumbers, CountTake DEF Held
<1>4. 0 \in Cells /\ 0 \in Index /\ 0 \in 0 .. element_size /\ Nothing \in Seq(Octets)
  BY RingConstants DEF Cells, Index, Nothing
<1>5. RingType'
  BY <1>2, <1>4 DEF RingType, IdleGet
<1>6. get'.at = "idle"
  BY DEF IdleGet
<1>7. CellStaysFree'
  <2>1. Held' <= element_count /\ Held' # element_count
    BY <1>3, RingNumbers DEF CellStaysFree, Held
  <2>. QED  BY <1>1, <1>6, <2>1 DEF CellStaysFree, Ringbuf_Full, Held
<1>8. WrittenSoFar' /\ CopiedSoFar' /\ MovedSoFar'
  BY <1>1, <1>6 DEF WrittenSoFar, CopiedSoFar, MovedSoFar
<1>. QED  BY <1>5, <1>7, <1>8

LEMMA PopInv ==
    ASSUME RingInv, Ringbuf_Pop
    PROVE  RingInv'
<1>1. Held # 0
  BY RingNumbers DEF RingInv, CellStaysFree, Ringbuf_Pop, Held
<1>. QED  BY <1>1, TailMovesInv DEF Ringbuf_Pop

LEMMA RemoveInv ==
    ASSUME RingInv, Remove
    PROVE  RingInv'
<1>1. Held # 0
  BY RingNumbers DEF RingInv, MovedSoFar, Remove
<1>. QED  BY <1>1, TailMovesInv DEF Remove

LEMMA RemoveOldestInv ==
    ASSUME RingInv, RemoveOldest
    PROVE  RingInv'
<1>1. Held # 0
  BY RingNumbers DEF RingInv, CellStaysFree, RemoveOldest, Held
<1>. QED  BY <1>1, TailMovesInv DEF RemoveOldest

(* The search of Ringbuf_Pop_Element only misses while it is astray.       *)
LEMMA FoundUnlessAstray ==
    ASSUME RingInv, get.at = "look", ~ Astray
    PROVE  Visits(ring.tail, ring.head, get.cell) # {}
<1>. USE DEF RingInv
<1>1. PICK x \in 0 .. Held - 1 : get.cell = Cell(ring.tail + x)
  BY DEF CellStaysFree, Held
<1>2. ring.head = ring.tail + Held
  BY RingNumbers, HeadAhead DEF Held, Astray
<1>3. ring.tail + x \in Index /\ ring.tail <= ring.tail + x
      /\ ring.tail + x < ring.head
  BY <1>2, RingNumbers DEF Index
<1>4. ring.tail + x \in Visits(ring.tail, ring.head, get.cell)
  BY <1>1, <1>3 DEF Visits
<1>. QED  BY <1>4

LEMMA PopElementInv ==
    ASSUME RingInv, Ringbuf_Pop_Element
    PROVE  RingInv'
<1>. USE DEF RingInv
<1>. DEFINE found == Visits(ring.tail, ring.head, get.cell)
<1>1. /\ ring' = ring /\ put' = put /\ get.at = "look" /\ get.i = element_size
  BY DEF Ringbuf_Pop_Element
<1>2. CASE \E x \in found : get' = [get EXCEPT !.at = "move", !.i = 0, !.hole = x]
  <2>1. PICK x \in found : get' = [get EXCEPT !.at = "move", !.i = 0, !.hole = x]
    BY <1>2
  <2>2. x \in Index /\ ring.tail <= x /\ x < ring.head
    BY DEF Visits
  <2>3. ring.head = ring.tail + Held
    BY <2>2, RingNumbers, HeadAhead DEF Held, Index
  <2>4. RingType'
    <3>1. 0 \in 0 .. element_size
      BY RingConstants
    <3>. QED  BY <1>1, <2>1, <2>2, <3>1 DEF RingType
  <2>5. get'.at = "move" /\ get'.i = 0 /\ get'.hole = x
    BY <2>1 DEF RingType
  <2>6. CellStaysFree' /\ WrittenSoFar' /\ CopiedSoFar'
    BY <1>1, <2>5 DEF CellStaysFree, Ringbuf_Full, WrittenSoFar, CopiedSoFar
  <2>7. MovedSoFar'
    BY <1>1, <2>2, <2>3, <2>5, RingNumbers DEF MovedSoFar, Held
  <2>. QED  BY <2>4, <2>6, <2>7
<1>3. CASE found = {} /\ get' = [get EXCEPT !.at = "missed"]
  <2>1. Astray
    BY <1>1, <1>3, FoundUnlessAstray
  <2>2. /\ get'.at = "missed" /\ get'.cell = get.cell /\ get'.i = get.i
        /\ get'.copy = get.copy
    BY <1>3 DEF RingType
  <2>3. RingType'
    BY <1>1, <1>3 DEF RingType
  <2>4. CellStaysFree' /\ WrittenSoFar' /\ MovedSoFar'
    BY <1>1, <2>2 DEF CellStaysFree, Ringbuf_Full, WrittenSoFar, MovedSoFar
  <2>5. CopiedSoFar'
    BY <1>1, <2>1, <2>2 DEF CopiedSoFar, Astray
  <2>. QED  BY <2>3, <2>4, <2>5
<1>. QED  BY <1>2, <1>3 DEF Ringbuf_Pop_Element

(* An octet that is moved changes no element but the one in the hole.      *)
LEMMA MoveElsewhere ==
    ASSUME RingInv, MoveOctet
    PROVE  /\ ring'.head = ring.head /\ ring'.tail = ring.tail
           /\ get.i + 1 \in Size
           /\ ring'.buffer \in [Cells -> [Size -> Octets]]
           /\ get.hole \in Int /\ ring.tail <= get.hole - 1
           /\ get.hole < ring.tail + Held
           /\ \A x \in Int : ring.tail <= x /\ x < ring.tail + Held /\ x # get.hole
                                => /\ Cell(x) \in Cells
                                   /\ ring'.buffer[Cell(x)] = ring.buffer[Cell(x)]
           /\ \A j \in Size : ring'.buffer[Cell(get.hole)][j] =
                IF j = get.i + 1 THEN ring.buffer[Cell(get.hole - 1)][j]
                ELSE ring.buffer[Cell(get.hole)][j]
           /\ put.at = "write" => ring'.buffer[put.cell] = ring.buffer[put.cell]
<1>. USE DEF RingInv
<1>. DEFINE H == Cell(get.hole)
            o == ring.buffer[Cell(get.hole - 1)][get.i + 1]
<1>1. /\ get.at = "move" /\ get.hole > ring.tail
      /\ ring' = [ring EXCEPT !.buffer[H][get.i + 1] = o]
  BY DEF MoveOctet
<1>2. /\ get.hole \in Int /\ get.hole - 1 \in Int
      /\ ring.tail <= get.hole - 1
      /\ get.hole < ring.tail + Held
  BY <1>1, RingNumbers DEF MovedSoFar, RingType, Index
<1>3. get.i + 1 \in Size
  BY <1>1, RingNumbers DEF MovedSoFar, RingType, Size
<1>4. H \in Cells /\ Cell(get.hole - 1) \in Cells
  BY <1>2, CellType
<1>5. ring.buffer \in [Cells -> [Size -> Octets]]
  BY DEF RingType
<1>6. o \in Octets
  BY <1>3, <1>4, <1>5
<1>7. /\ ring'.head = ring.head /\ ring'.tail = ring.tail
      /\ ring'.buffer = [ring.buffer EXCEPT ![H][get.i + 1] = o]
  BY <1>1 DEF RingType
<1>. HIDE DEF H, o
<1>8. ring'.buffer \in [Cells -> [Size -> Octets]]
  BY <1>3, <1>4, <1>5, <1>6, <1>7
<1>9. \A c \in Cells : c # H => ring'.buffer[c] = ring.buffer[c]
  BY <1>5, <1>7
<1>10. \A j \in Size : ring'.buffer[H][j] =
           IF j = get.i + 1 THEN o ELSE ring.buffer[H][j]
  BY <1>3, <1>4, <1>5, <1>7
<1>11. Held <= element_count
  BY DEF CellStaysFree, Held
<1>12. ASSUME NEW x \in Int, ring.tail <= x, x < ring.tail + Held, x # get.hole
       PROVE  Cell(x) \in Cells /\ ring'.buffer[Cell(x)] = ring.buffer[Cell(x)]
  <2>1. Cell(x) \in Cells
    BY CellType
  <2>2. CASE x < get.hole
    <3>1. get.hole - x < element_count
      BY <1>2, <1>11, <1>12, RingNumbers
    <3>. QED  BY <1>2, <1>9, <2>1, <2>2, <3>1, CellsDiffer DEF H
  <2>3. CASE get.hole < x
    <3>1. x - get.hole < element_count
      BY <1>2, <1>11, <1>12, RingNumbers
    <3>. QED  BY <1>2, <1>9, <2>1, <2>3, <3>1, CellsDiffer DEF H
  <2>. QED  BY <1>2, <1>12, <2>2, <2>3
<1>13. ASSUME put.at = "write"
       PROVE  ring'.buffer[put.cell] = ring.buffer[put.cell]
  <2>1. Held < element_count /\ put.cell = Cell(ring.head) /\ put.cell \in Cells
    BY <1>13, RingNumbers DEF CellStaysFree, Ringbuf_Full, Held
  <2>2. ring.tail <= get.hole
    BY <1>2, RingNumbers
  <2>3. H # put.cell
    BY <1>2, <2>1, <2>2, RingNumbers, HeadCellFree DEF Held, H
  <2>. QED  BY <1>9, <2>1, <2>3
<1>. QED  BY <1>2, <1>3, <1>7, <1>8, <1>10, <1>12, <1>13 DEF H, o

(* When the last octet has been moved, the element is in the hole.         *)
LEMMA MovedWhole ==
    ASSUME RingInv, MoveOctet, get.i + 1 = element_size
    PROVE  ring'.buffer[Cell(get.hole)] = ring.buffer[Cell(get.hole - 1)]
<1>. USE DEF RingInv
<1>1. /\ Cell(get.hole) \in Cells /\ Cell(get.hole - 1) \in Cells
      /\ get.hole - 1 \in Int
  BY MoveElsewhere, CellType
<1>2. /\ ring'.buffer[Cell(get.hole)] \in [Size -> Octets]
      /\ ring.buffer[Cell(get.hole - 1)] \in [Size -> Octets]
  BY <1>1, MoveElsewhere DEF RingType
<1>3. ASSUME NEW j \in Size
      PROVE  ring'.buffer[Cell(get.hole)][j] = ring.buffer[Cell(get.hole - 1)][j]
  <2>1. j # get.i + 1 => j \in 1 .. get.i
    BY RingNumbers DEF Size
  <2>2. get.at = "move"
    BY DEF MoveOctet
  <2>. QED  BY <2>1, <2>2, MoveElsewhere DEF MovedSoFar
<1>. QED  BY <1>2, <1>3

LEMMA MoveOctetInv ==
    ASSUME RingInv, MoveOctet
    PROVE  RingInv'
<1>. USE DEF RingInv
<1>1. /\ get.at = "move" /\ get.hole > ring.tail
      /\ ring' = [ring EXCEPT !.buffer[Cell(get.hole)][get.i + 1] =
                      ring.buffer[Cell(get.hole - 1)][get.i + 1]]
      /\ get' = IF get.i + 1 < element_size
                THEN [get EXCEPT !.i = @ + 1]
                ELSE [get EXCEPT !.i = 0, !.hole = @ - 1]
      /\ put' = put
  BY DEF MoveOctet
<1>2. ring'.head = ring.head /\ ring'.tail = ring.tail
  BY MoveElsewhere
<1>3. Held' = Held
  BY <1>2 DEF Held
<1>4. /\ get.hole \in Int /\ ring.tail <= get.hole - 1 /\ get.hole - 1 \in Int
      /\ get.hole < ring.tail + Held /\ get.i < element_size
  BY <1>1, MoveElsewhere DEF MovedSoFar
<1>5. RingType'
  <2>1. ring' \in [buffer : [Cells -> [Size -> Octets]],
                   head : Index, tail : Index, depth : Index]
    <3>1. ring'.buffer \in [Cells -> [Size -> Octets]]
      BY MoveElsewhere
    <3>. QED  BY <1>1, <3>1 DEF RingType
  <2>2. get.i + 1 \in 0 .. element_size /\ 0 \in 0 .. element_size
    BY <1>4, RingNumbers DEF RingType
  <2>3. get.hole - 1 \in Index
    BY <1>4, RingNumbers DEF RingType, Index
  <2>4. get' \in [at : {"idle", "look", "missed", "move"}, cell : Cells, copy : Seq(Octets),
                  i : 0 .. element_size, hole : Index]
    BY <1>1, <2>2, <2>3 DEF RingType
  <2>. QED  BY <1>1, <2>1, <2>4 DEF RingType
<1>6. get'.at = "move"
  BY <1>1 DEF RingType
<1>7. CellStaysFree'
  BY <1>1, <1>2, <1>6 DEF CellStaysFree, Ringbuf_Full
<1>8. WrittenSoFar' /\ CopiedSoFar'
  BY <1>1, <1>6, MoveElsewhere DEF WrittenSoFar, CopiedSoFar
<1>9. MovedSoFar'
  <2>1. CASE get.i + 1 < element_size
    <3>1. get'.i = get.i + 1 /\ get'.hole = get.hole
      BY <1>1, <2>1 DEF RingType
    <3>2. ring'.buffer[Cell(get.hole - 1)] = ring.buffer[Cell(get.hole - 1)]
      BY <1>4, MoveElsewhere, RingNumbers
    <3>3. ASSUME NEW j \in 1 .. get.i + 1
          PROVE  ring'.buffer[Cell(get.hole)][j] = ring'.buffer[Cell(get.hole - 1)][j]
      <4>1. j \in Size /\ (j # get.i + 1 => j \in 1 .. get.i)
        BY <1>4, RingNumbers DEF Size
      <4>. QED  BY <1>1, <3>2, <4>1, MoveElsewhere DEF MovedSoFar
    <3>. QED  BY <1>1, <1>2, <1>3, <1>4, <2>1, <3>1, <3>3, RingNumbers
              DEF MovedSoFar
  <2>2. CASE ~ (get.i + 1 < element_size)
    <3>1. get'.i = 0 /\ get'.hole = get.hole - 1
      BY <1>1, <2>2 DEF RingType
    <3>. QED  BY <1>1, <1>2, <1>3, <1>4, <3>1, RingNumbers DEF MovedSoFar
  <2>. QED  BY <2>1, <2>2
<1>. QED  BY <1>5, <1>7, <1>8, <1>9

-----------------------------------------------------------------------------
(* The theorems.                                                           *)

LEMMA StepInv ==
    ASSUME RingInv, [Next]_vars
    PROVE  RingInv'
<1>1. CASE Producer
  BY <1>1, DataPeekInv, WriteOctetInv, DataPutInv, DepthUpdateInv DEF Producer
<1>2. CASE Consumer
  BY <1>2, PeekInv, PeekNextInv, ReadOctetInv, PopInv, PopElementInv, MoveOctetInv,
     RemoveInv, RemoveOldestInv DEF Consumer
<1>3. CASE UNCHANGED vars
  BY <1>3 DEF vars, RingInv, RingType, CellStaysFree, Ringbuf_Full, WrittenSoFar,
              CopiedSoFar, MovedSoFar, Held, Astray
<1>. QED  BY <1>1, <1>2, <1>3 DEF Next

(* The inductive invariant holds in every reachable state.                 *)
LEMMA RingInvariant == Spec => []RingInv
<1>1. Init => RingInv
  BY InitInv
<1>2. RingInv /\ [Next]_vars => RingInv'
  BY StepInv
<1>. QED  BY <1>1, <1>2, PTL DEF Spec

(* For every size of the ring, of the elements and of the indices, and     *)
(* every interleaving of Ringbuf_Put, Ringbuf_Pop and Ringbuf_Pop_Element, *)
(* the cell the producer writes is free and the one the consumer reads is  *)
(* not, until each has said otherwise by moving head or tail.              *)
THEOREM CellStaysFreeTheorem == Spec => []CellStaysFree
<1>1. RingInv => CellStaysFree
  BY DEF RingInv
<1>. QED  BY <1>1, RingInvariant, PTL

-----------------------------------------------------------------------------
(* The ring is a queue.                                                    *)

(* What SubSeq and \o make of a queue from which one element is taken.     *)
LEMMA Dropped ==
    ASSUME NEW S, NEW q \in Seq(S), NEW k \in 1 .. Len(q), NEW r \in Seq(S),
           Len(r) = Len(q) - 1,
           \A j \in 1 .. Len(r) : r[j] = q[IF j < k THEN j ELSE j + 1]
    PROVE  r = SubSeq(q, 1, k - 1) \o SubSeq(q, k + 1, Len(q))
<1>. DEFINE a == SubSeq(q, 1, k - 1)
            b == SubSeq(q, k + 1, Len(q))
<1>1. Len(q) \in Nat /\ \A i \in 1 .. Len(q) : q[i] \in S
  BY LenProperties, ElementOfSeq
<1>2. /\ a \in Seq(S) /\ Len(a) = k - 1
      /\ \A i \in 1 .. k - 1 : a[i] = q[i]
  <2>1. 1 \in Int /\ k - 1 \in Int /\ \A i \in 1 .. k - 1 : q[i] \in S
    BY <1>1
  <2>2. /\ a \in Seq(S) /\ Len(a) = IF 1 <= k - 1 THEN k - 1 - 1 + 1 ELSE 0
        /\ \A i \in 1 .. k - 1 - 1 + 1 : a[i] = q[1 + i - 1]
    BY <2>1, SubSeqProperties
  <2>. HIDE DEF a
  <2>3. ASSUME NEW i \in 1 .. k - 1 PROVE a[i] = q[i]
    <3>1. i \in 1 .. k - 1 - 1 + 1 /\ 1 + i - 1 = i
      BY <1>1
    <3>. QED  BY <2>2, <3>1
  <2>. QED  BY <1>1, <2>2, <2>3
<1>3. /\ b \in Seq(S) /\ Len(b) = Len(q) - k
      /\ \A i \in 1 .. Len(q) - k : b[i] = q[k + i]
  <2>1. k + 1 \in Int /\ Len(q) \in Int /\ \A i \in k + 1 .. Len(q) : q[i] \in S
    BY <1>1
  <2>2. /\ b \in Seq(S)
        /\ Len(b) = IF k + 1 <= Len(q) THEN Len(q) - (k + 1) + 1 ELSE 0
        /\ \A i \in 1 .. Len(q) - (k + 1) + 1 : b[i] = q[k + 1 + i - 1]
    BY <2>1, SubSeqProperties
  <2>. HIDE DEF b
  <2>3. ASSUME NEW i \in 1 .. Len(q) - k PROVE b[i] = q[k + i]
    <3>1. i \in 1 .. Len(q) - (k + 1) + 1 /\ k + 1 + i - 1 = k + i
      BY <1>1
    <3>. QED  BY <2>2, <3>1
  <2>. QED  BY <1>1, <2>2, <2>3
<1>. HIDE DEF a, b
<1>4. /\ a \o b \in Seq(S) /\ Len(a \o b) = Len(r)
      /\ \A i \in 1 .. Len(r) : (a \o b)[i] = IF i <= k - 1 THEN a[i] ELSE b[i - (k - 1)]
  <2>1. /\ a \o b \in Seq(S) /\ Len(a \o b) = Len(a) + Len(b)
        /\ \A i \in 1 .. Len(a) + Len(b) :
              (a \o b)[i] = IF i <= Len(a) THEN a[i] ELSE b[i - Len(a)]
    BY <1>2, <1>3, ConcatProperties
  <2>2. Len(a) + Len(b) = Len(r)
    BY <1>1, <1>2, <1>3
  <2>. QED  BY <1>2, <2>1, <2>2
<1>5. ASSUME NEW j \in 1 .. Len(r) PROVE r[j] = (a \o b)[j]
  <2>1. CASE j < k
    <3>1. j \in 1 .. k - 1 /\ j <= k - 1
      BY <1>1, <2>1
    <3>. QED  BY <1>2, <1>4, <2>1, <3>1
  <2>2. CASE ~ (j < k)
    <3>1. ~ (j <= k - 1) /\ j - (k - 1) \in 1 .. Len(q) - k /\ k + (j - (k - 1)) = j + 1
      BY <1>1, <2>2
    <3>. QED  BY <1>3, <1>4, <2>2, <3>1
  <2>. QED  BY <2>1, <2>2
<1>. QED  BY <1>4, <1>5, SeqEqual DEF a, b

Sized == Held - (IF Removing THEN 1 ELSE 0)

(* The elements of the queue lie between the tail and the head, and none   *)
(* of them in the hole.                                                    *)
LEMMA PlaceIs ==
    ASSUME RingInv
    PROVE  /\ Sized \in Nat
           /\ \A k \in 1 .. Sized : /\ Place(k) \in Int
                                    /\ ring.tail <= Place(k)
                                    /\ Place(k) < ring.tail + Held
                                    /\ Removing => Place(k) # get.hole
                                    /\ Cell(Place(k)) \in Cells
<1>. USE DEF RingInv
<1>1. Removing => /\ get.hole \in Int /\ ring.tail <= get.hole
                  /\ get.hole < ring.tail + Held
  BY RingNumbers DEF Removing, MovedSoFar, RingType, Index
<1>2. Sized \in Nat
  BY <1>1, RingNumbers DEF Sized
<1>3. ASSUME NEW k \in 1 .. Sized
      PROVE  /\ Place(k) \in Int /\ ring.tail <= Place(k)
             /\ Place(k) < ring.tail + Held /\ (Removing => Place(k) # get.hole)
  BY <1>1, RingNumbers DEF Sized, Place
<1>. QED  BY <1>2, <1>3, CellType

(* The queue is a sequence.                                                *)
LEMMA ContentsIs ==
    ASSUME RingInv
    PROVE  /\ Contents \in Seq([Size -> Octets])
           /\ Len(Contents) = Sized
           /\ DOMAIN Contents = 1 .. Sized
           /\ \A k \in 1 .. Sized : Contents[k] = ring.buffer[Cell(Place(k))]
<1>1. Contents = [k \in 1 .. Sized |-> ring.buffer[Cell(Place(k))]]
  BY DEF Contents, Sized, Held
<1>2. \A k \in 1 .. Sized : ring.buffer[Cell(Place(k))] \in [Size -> Octets]
  BY PlaceIs DEF RingInv, RingType
<1>3. Sized \in Nat
  BY PlaceIs
<1>. QED  BY <1>1, <1>2, <1>3

(* The same after a step.                                                  *)
Queued ==
    /\ Contents \in Seq([Size -> Octets])
    /\ Len(Contents) = Sized
    /\ \A k \in 1 .. Sized : Contents[k] = ring.buffer[Cell(Place(k))]

LEMMA ContentsIsNext ==
    RingInv' => /\ Contents' \in Seq([Size -> Octets])
                /\ Len(Contents') = Sized'
                /\ \A k \in 1 .. Sized' :
                      Contents'[k] = ring'.buffer[Cell(Place(k)')]
<1>1. RingInv => Queued
  BY ContentsIs DEF Queued
<1>2. RingInv' => Queued'
  BY <1>1, PTL
<1>. QED  BY <1>2 DEF Queued

(* When the queue is the same.                                             *)
LEMMA SameContents ==
    ASSUME Sized' = Sized,
           \A k \in 1 .. Sized : ring'.buffer[Cell(Place(k)')] = ring.buffer[Cell(Place(k))]
    PROVE  Contents' = Contents
BY DEF Contents, Sized, Held

LEMMA WriteOctetKeeps ==
    ASSUME RingInv, WriteOctet
    PROVE  Contents' = Contents
<1>1. ring'.head = ring.head /\ ring'.tail = ring.tail /\ get' = get
  BY WriteElsewhere
<1>2. Sized' = Sized
  BY <1>1 DEF Sized, Held, Removing
<1>3. ASSUME NEW k \in 1 .. Sized
      PROVE  ring'.buffer[Cell(Place(k)')] = ring.buffer[Cell(Place(k))]
  <2>1. Place(k)' = Place(k)
    BY <1>1 DEF Place, Removing
  <2>. QED  BY <2>1, PlaceIs, WriteElsewhere
<1>. QED  BY <1>2, <1>3, SameContents

LEMMA MoveOctetKeeps ==
    ASSUME RingInv, MoveOctet
    PROVE  Contents' = Contents
<1>1. /\ ring'.head = ring.head /\ ring'.tail = ring.tail
      /\ get.at = "move" /\ get'.at = "move" /\ get.i < element_size
  BY MoveElsewhere DEF RingInv, RingType, MoveOctet, MovedSoFar
<1>2. Sized' = Sized
  BY <1>1 DEF Sized, Held, Removing
<1>3. ASSUME NEW k \in 1 .. Sized
      PROVE  ring'.buffer[Cell(Place(k)')] = ring.buffer[Cell(Place(k))]
  <2>1. ring'.buffer[Cell(Place(k))] = ring.buffer[Cell(Place(k))]
    BY <1>1, PlaceIs, MoveElsewhere DEF Removing
  <2>2. CASE get.i + 1 < element_size
    <3>1. get'.hole = get.hole
      BY <2>2 DEF RingInv, RingType, MoveOctet
    <3>2. Place(k)' = Place(k)
      BY <1>1, <3>1 DEF Place, Removing
    <3>. QED  BY <2>1, <3>2
  <2>3. CASE ~ (get.i + 1 < element_size)
    <3>1. get'.hole = get.hole - 1
      BY <2>3 DEF RingInv, RingType, MoveOctet
    <3>2. get.hole \in Int /\ ring.tail \in Int /\ get.i + 1 = element_size
      BY <1>1, <2>3, MoveElsewhere, RingNumbers DEF RingInv
    <3>3. CASE ring.tail + k = get.hole
      <4>1. Place(k) = get.hole - 1 /\ Place(k)' = get.hole
        BY <1>1, <3>1, <3>2, <3>3, PlaceIs DEF Place, Removing
      <4>. QED  BY <3>2, <4>1, MovedWhole
    <3>4. CASE ring.tail + k # get.hole
      <4>1. Place(k)' = Place(k)
        BY <1>1, <3>1, <3>2, <3>4, PlaceIs DEF Place, Removing
      <4>. QED  BY <2>1, <4>1
    <3>. QED  BY <3>3, <3>4
  <2>. QED  BY <2>2, <2>3
<1>. QED  BY <1>2, <1>3, SameContents

LEMMA RemoveKeeps ==
    ASSUME RingInv, Remove
    PROVE  Contents' = Contents
<1>. USE DEF RingInv
<1>1. /\ get.at = "move" /\ get.hole = ring.tail /\ get'.at = "idle"
      /\ ring'.head = ring.head /\ ring'.tail = Next1(ring.tail)
      /\ ring'.buffer = ring.buffer
  BY DEF Remove, IdleGet, RingType
<1>2. Held # 0
  BY <1>1, RingNumbers DEF MovedSoFar
<1>3. Held' = Held - 1
  BY <1>1, <1>2, RingNumbers, CountTake DEF Held
<1>4. Sized' = Sized
  BY <1>1, <1>3, RingNumbers DEF Sized, Removing
<1>5. ASSUME NEW k \in 1 .. Sized
      PROVE  ring'.buffer[Cell(Place(k)')] = ring.buffer[Cell(Place(k))]
  <2>1. Place(k) = ring.tail + k
    BY <1>1, RingNumbers, PlaceIs DEF Place, Removing
  <2>2. Place(k)' = Next1(ring.tail) + (k - 1)
    BY <1>1, RingNumbers, Next1Is, RingConstants DEF Place, Removing, Index
  <2>3. Cell(Next1(ring.tail) + (k - 1)) = Cell(ring.tail + (k - 1) + 1)
    BY RingNumbers, CellOfNext
  <2>4. ring.tail + (k - 1) + 1 = ring.tail + k
    BY RingNumbers
  <2>. QED  BY <1>1, <2>1, <2>2, <2>3, <2>4
<1>. QED  BY <1>4, <1>5, SameContents

(* Ringbuf_Data_Put appends the whole element, also while one is removed.  *)
LEMMA DataPutAppends ==
    ASSUME RingInv, Ringbuf_Data_Put
    PROVE  /\ Len(Contents) < element_count
           /\ Contents' = Append(Contents, put.element)
           /\ put.element \in Elements
<1>. USE DEF RingInv
<1>1. /\ put.at = "write" /\ put.i = element_size
      /\ ring'.head = Next1(ring.head) /\ ring'.tail = ring.tail
      /\ ring'.buffer = ring.buffer /\ get' = get
  BY DEF Ringbuf_Data_Put, RingType
<1>2. Held < element_count /\ put.cell = Cell(ring.head) /\ put.cell \in Cells
  BY <1>1, RingNumbers DEF CellStaysFree, Ringbuf_Full, Held
<1>3. Held' = Held + 1
  BY <1>1, <1>2, RingNumbers, CountPut DEF Held
<1>4. Sized' = Sized + 1
  BY <1>1, <1>3, RingNumbers DEF Sized, Removing
<1>5. put.element \in Elements /\ put.element \in [Size -> Octets]
  BY <1>1, ElementType DEF RingType
<1>6. ring.buffer[put.cell] = put.element
  <2>1. ring.buffer[put.cell] \in [Size -> Octets]
    BY <1>2 DEF RingType
  <2>2. \A j \in Size : ring.buffer[put.cell][j] = put.element[j]
    BY <1>1 DEF WrittenSoFar, Size
  <2>. QED  BY <1>5, <2>1, <2>2
<1>7. RingInv'
  BY DataPutInv
<1>8. /\ Contents' \in Seq([Size -> Octets])
      /\ Len(Contents') = Sized + 1
      /\ \A k \in 1 .. Sized + 1 : Contents'[k] = ring.buffer[Cell(Place(k))]
  <2>1. \A k \in 1 .. Sized + 1 : Place(k)' = Place(k)
    BY <1>1 DEF Place, Removing
  <2>2. /\ Contents' \in Seq([Size -> Octets]) /\ Len(Contents') = Sized'
        /\ \A k \in 1 .. Sized' : Contents'[k] = ring'.buffer[Cell(Place(k)')]
    BY <1>7, ContentsIsNext
  <2>. QED  BY <1>1, <1>4, <2>1, <2>2
<1>9. Place(Sized + 1) = ring.tail + Held
  BY RingNumbers DEF Place, Sized, Removing, MovedSoFar, RingType, Index
<1>10. ring.buffer[Cell(Place(Sized + 1))] = put.element
  BY <1>2, <1>6, <1>9, RingNumbers, CellOfHead DEF Held
<1>11. Contents \in Seq([Size -> Octets]) /\ Len(Contents) = Sized /\ Sized \in Nat
  BY ContentsIs, PlaceIs
<1>12. /\ Append(Contents, put.element) \in Seq([Size -> Octets])
       /\ Len(Append(Contents, put.element)) = Sized + 1
       /\ \A k \in 1 .. Sized : Append(Contents, put.element)[k] = Contents[k]
       /\ Append(Contents, put.element)[Sized + 1] = put.element
  BY <1>5, <1>11, AppendProperties
<1>13. ASSUME NEW k \in 1 .. Sized + 1
       PROVE  Contents'[k] = Append(Contents, put.element)[k]
  <2>1. CASE k = Sized + 1
    BY <1>8, <1>10, <1>12, <2>1
  <2>2. CASE k \in 1 .. Sized
    BY <1>8, <1>12, <2>2, ContentsIs
  <2>. QED  BY <1>11, <2>1, <2>2
<1>14. Contents' = Append(Contents, put.element)
  BY <1>8, <1>12, <1>13, SeqEqual
<1>15. Sized < element_count
  BY <1>2, RingNumbers DEF Sized
<1>. QED  BY <1>5, <1>11, <1>14, <1>15

(* Elements with the same octets are the same.                             *)
LEMMA SameOctets ==
    ASSUME NEW e \in [Size -> Octets], NEW f \in [Size -> Octets],
           \A j \in Size : e[j] = f[j]
    PROVE  e = f
OBVIOUS

(* What has been copied is the element in the cell.                        *)
LEMMA CopiedWhole ==
    ASSUME RingInv, get.at \in {"look", "missed"}, get.i = element_size
    PROVE  get.copy = ring.buffer[get.cell]
<1>1. /\ get.copy \in Seq(Octets) /\ Len(get.copy) = element_size
      /\ \A j \in 1 .. element_size : get.copy[j] = ring.buffer[get.cell][j]
  BY DEF RingInv, RingType, CopiedSoFar
<1>2. get.copy \in [Size -> Octets]
  BY <1>1, LenProperties DEF Size
<1>3. ring.buffer[get.cell] \in [Size -> Octets]
  BY DEF RingInv, RingType
<1>4. \A j \in Size : get.copy[j] = ring.buffer[get.cell][j]
  BY <1>1 DEF Size
<1>. QED  BY <1>2, <1>3, <1>4, SameOctets

(* Ringbuf_Pop takes the oldest element.                                   *)
LEMMA PopTakes ==
    ASSUME RingInv, Ringbuf_Pop
    PROVE  1 \in DOMAIN Contents /\ Fifo!Take(1)
<1>. USE DEF RingInv
<1>1. /\ get.at = "look" /\ get.i = element_size /\ get.cell = Cell(ring.tail)
      /\ get'.at = "idle" /\ taken' = get.copy
      /\ ring'.head = ring.head /\ ring'.tail = Next1(ring.tail)
      /\ ring'.buffer = ring.buffer
  BY DEF Ringbuf_Pop, IdleGet, RingType
<1>2. Held # 0
  BY <1>1, RingNumbers DEF CellStaysFree, Held
<1>3. Held' = Held - 1
  BY <1>1, <1>2, RingNumbers, CountTake DEF Held
<1>4. Sized = Held /\ Sized' = Held - 1 /\ Held \in Nat /\ 1 \in 1 .. Held
  BY <1>1, <1>2, <1>3, RingNumbers DEF Sized, Removing
<1>5. \A k \in Int : Place(k) = ring.tail + k - 1 /\ Place(k)' = Next1(ring.tail) + k - 1
  BY <1>1 DEF Place, Removing
<1>6. /\ Contents \in Seq([Size -> Octets]) /\ Len(Contents) = Held
      /\ DOMAIN Contents = 1 .. Held
      /\ \A k \in 1 .. Held : Contents[k] = ring.buffer[Cell(Place(k))]
  BY <1>4, ContentsIs
<1>7. RingInv'
  BY PopInv
<1>8. /\ Contents' \in Seq([Size -> Octets]) /\ Len(Contents') = Held - 1
      /\ \A k \in 1 .. Held - 1 : Contents'[k] = ring'.buffer[Cell(Place(k)')]
  <2>1. /\ Contents' \in Seq([Size -> Octets]) /\ Len(Contents') = Sized'
        /\ \A k \in 1 .. Sized' : Contents'[k] = ring'.buffer[Cell(Place(k)')]
    BY <1>7, ContentsIsNext
  <2>. QED  BY <1>4, <2>1
<1>9. taken' = Contents[1]
  <2>1. Place(1) = ring.tail
    BY <1>5, RingNumbers
  <2>. QED  BY <1>1, <1>4, <1>6, <2>1, CopiedWhole
<1>10. ASSUME NEW j \in 1 .. Held - 1
       PROVE  Contents'[j] = Contents[IF j < 1 THEN j ELSE j + 1]
  <2>1. ~ (j < 1) /\ j \in Int /\ j + 1 \in 1 .. Held /\ j - 1 \in Int
    BY <1>4
  <2>2. Cell(Next1(ring.tail) + (j - 1)) = Cell(ring.tail + (j - 1) + 1)
    BY <2>1, RingNumbers, CellOfNext
  <2>3. Place(j)' = Next1(ring.tail) + (j - 1)
    BY <1>5, <2>1, RingNumbers, Next1Is DEF Index
  <2>4. Place(j + 1) = ring.tail + (j - 1) + 1
    BY <1>5, <2>1, RingNumbers
  <2>. QED  BY <1>1, <1>6, <1>8, <2>1, <2>2, <2>3, <2>4
<1>11. Contents' = SubSeq(Contents, 1, 1 - 1) \o SubSeq(Contents, 1 + 1, Len(Contents))
  BY <1>4, <1>6, <1>8, <1>10, Dropped
<1>. QED  BY <1>4, <1>6, <1>9, <1>11 DEF Fifo!Take

(* Ringbuf_Pop_Element takes the one the consumer has looked at, when it   *)
(* finds it.                                                               *)
LEMMA PopElementTakes ==
    ASSUME RingInv, Ringbuf_Pop_Element, get'.at = "move"
    PROVE  \E k \in DOMAIN Contents : Fifo!Take(k)
<1>. USE DEF RingInv
<1>1. PICK x \in Visits(ring.tail, ring.head, get.cell) :
          /\ get' = [get EXCEPT !.at = "move", !.i = 0, !.hole = x]
          /\ taken' = get.copy
  BY DEF Ringbuf_Pop_Element, RingType
<1>2. /\ ring' = ring /\ taken' = get.copy
      /\ get.at = "look" /\ get.i = element_size
      /\ get'.at = "move" /\ get'.hole = x
  BY <1>1 DEF Ringbuf_Pop_Element, RingType
<1>3. x \in Int /\ ring.tail <= x /\ x < ring.head /\ Cell(x) = get.cell
  BY RingNumbers DEF Visits, Index
<1>4. ring.head = ring.tail + Held
  BY <1>3, RingNumbers, HeadAhead DEF Held, Index
<1>. DEFINE k == x - ring.tail + 1
<1>5. k \in 1 .. Held /\ k \in Int /\ ring.tail + k - 1 = x
  BY <1>3, <1>4, RingNumbers
<1>. HIDE DEF k
<1>6. Sized = Held /\ Sized' = Held - 1
  BY <1>2, RingNumbers DEF Sized, Removing, Held
<1>7. /\ Contents \in Seq([Size -> Octets]) /\ Len(Contents) = Held
      /\ DOMAIN Contents = 1 .. Held
      /\ \A j \in 1 .. Held : Contents[j] = ring.buffer[Cell(Place(j))]
  BY <1>6, ContentsIs
<1>8. /\ Contents' \in Seq([Size -> Octets]) /\ Len(Contents') = Held - 1
      /\ \A j \in 1 .. Held - 1 : Contents'[j] = ring.buffer[Cell(Place(j)')]
  <2>1. RingInv'
    BY PopElementInv
  <2>2. /\ Contents' \in Seq([Size -> Octets]) /\ Len(Contents') = Sized'
        /\ \A j \in 1 .. Sized' : Contents'[j] = ring'.buffer[Cell(Place(j)')]
    BY <2>1, ContentsIsNext
  <2>. QED  BY <1>2, <1>6, <2>2
<1>9. \A j \in Int : Place(j) = ring.tail + j - 1
  BY <1>2 DEF Place, Removing
<1>10. taken' = Contents[k]
  BY <1>2, <1>3, <1>5, <1>7, <1>9, CopiedWhole
<1>11. ASSUME NEW j \in 1 .. Held - 1
       PROVE  Contents'[j] = Contents[IF j < k THEN j ELSE j + 1]
  <2>1. j \in Int /\ j \in 1 .. Held /\ j + 1 \in 1 .. Held
    BY RingNumbers
  <2>2. Place(j)' = IF ring.tail + j - 1 >= x THEN ring.tail + j ELSE ring.tail + j - 1
    BY <1>2 DEF Place, Removing
  <2>3. Place(j)' = Place(IF j < k THEN j ELSE j + 1)
    BY <1>3, <1>5, <1>9, <2>1, <2>2, RingNumbers
  <2>. QED  BY <1>7, <1>8, <2>1, <2>3
<1>12. Contents' = SubSeq(Contents, 1, k - 1) \o SubSeq(Contents, k + 1, Len(Contents))
  <2>. DEFINE r == Contents'
  <2>1. /\ r \in Seq([Size -> Octets]) /\ Len(r) = Len(Contents) - 1
        /\ \A j \in 1 .. Len(r) : r[j] = Contents[IF j < k THEN j ELSE j + 1]
        /\ Contents \in Seq([Size -> Octets]) /\ k \in 1 .. Len(Contents)
    BY <1>5, <1>7, <1>8, <1>11
  <2>. HIDE DEF r
  <2>2. r = SubSeq(Contents, 1, k - 1) \o SubSeq(Contents, k + 1, Len(Contents))
    BY <2>1, Dropped
  <2>. QED  BY <2>2 DEF r
<1>13. Fifo!Take(k)
  BY <1>10, <1>12 DEF Fifo!Take
<1>. QED  BY <1>5, <1>7, <1>13

(* Tail, by its elements.                                                  *)
LEMMA TailIs ==
    ASSUME NEW S, NEW q \in Seq(S), q # <<>>, NEW r \in Seq(S),
           Len(r) = Len(q) - 1, \A j \in 1 .. Len(r) : r[j] = q[j + 1]
    PROVE  r = Tail(q)
<1>1. /\ Tail(q) \in Seq(S) /\ Len(Tail(q)) = Len(q) - 1
      /\ \A j \in 1 .. Len(Tail(q)) : Tail(q)[j] = q[j + 1]
  BY HeadTailProperties
<1>. QED  BY <1>1, SeqEqual

(* When it does not find it, the oldest element goes.                      *)
LEMMA RemoveOldestTakes ==
    ASSUME RingInv, RemoveOldest
    PROVE  \E k \in DOMAIN Contents : Fifo!TakeAstray(k)
<1>. USE DEF RingInv
<1>1. /\ get.at = "missed" /\ get'.at = "idle" /\ taken' = get.copy
      /\ ring'.head = ring.head /\ ring'.tail = Next1(ring.tail)
      /\ ring'.buffer = ring.buffer
  BY DEF RemoveOldest, IdleGet, RingType
<1>2. get.i = element_size /\ Astray
  BY <1>1 DEF CopiedSoFar
<1>3. PICK x \in 0 .. Held - 1 : get.cell = Cell(ring.tail + x)
  BY <1>1 DEF CellStaysFree, Held
<1>4. Held # 0 /\ Held \in Nat /\ x + 1 \in 1 .. Held
  BY RingNumbers
<1>5. Held' = Held - 1
  BY <1>1, <1>4, RingNumbers, CountTake DEF Held
<1>6. Sized = Held /\ Sized' = Held - 1
  BY <1>1, <1>5, RingNumbers DEF Sized, Removing
<1>7. \A k \in Int : Place(k) = ring.tail + k - 1 /\ Place(k)' = Next1(ring.tail) + k - 1
  BY <1>1 DEF Place, Removing
<1>8. /\ Contents \in Seq([Size -> Octets]) /\ Len(Contents) = Held
      /\ DOMAIN Contents = 1 .. Held
      /\ \A k \in 1 .. Held : Contents[k] = ring.buffer[Cell(Place(k))]
  BY <1>6, ContentsIs
<1>9. /\ Contents' \in Seq([Size -> Octets]) /\ Len(Contents') = Held - 1
      /\ \A k \in 1 .. Held - 1 : Contents'[k] = ring'.buffer[Cell(Place(k)')]
  <2>1. RingInv'
    BY RemoveOldestInv
  <2>2. /\ Contents' \in Seq([Size -> Octets]) /\ Len(Contents') = Sized'
        /\ \A k \in 1 .. Sized' : Contents'[k] = ring'.buffer[Cell(Place(k)')]
    BY <2>1, ContentsIsNext
  <2>. QED  BY <1>6, <2>2
<1>10. taken' = Contents[x + 1]
  <2>1. Place(x + 1) = ring.tail + x
    BY <1>4, <1>7, RingNumbers
  <2>2. get.copy = ring.buffer[get.cell]
    BY <1>1, <1>2, CopiedWhole
  <2>. QED  BY <1>1, <1>3, <1>4, <1>8, <2>1, <2>2
<1>11. ASSUME NEW j \in 1 .. Held - 1
       PROVE  Contents'[j] = Contents[j + 1]
  <2>1. j \in Int /\ j + 1 \in 1 .. Held /\ j - 1 \in Int
    BY <1>4
  <2>2. Cell(Next1(ring.tail) + (j - 1)) = Cell(ring.tail + (j - 1) + 1)
    BY <2>1, RingNumbers, CellOfNext
  <2>3. Place(j)' = Next1(ring.tail) + (j - 1)
    BY <1>7, <2>1, RingNumbers, Next1Is DEF Index
  <2>4. Place(j + 1) = ring.tail + (j - 1) + 1
    BY <1>7, <2>1, RingNumbers
  <2>. QED  BY <1>1, <1>8, <1>9, <2>1, <2>2, <2>3, <2>4
<1>12. Contents' = Tail(Contents)
  <2>. DEFINE r == Contents'
  <2>1. /\ r \in Seq([Size -> Octets]) /\ Len(r) = Len(Contents) - 1
        /\ \A j \in 1 .. Len(r) : r[j] = Contents[j + 1]
        /\ Contents \in Seq([Size -> Octets]) /\ Contents # <<>>
    BY <1>4, <1>8, <1>9, <1>11
  <2>. HIDE DEF r
  <2>2. r = Tail(Contents)
    BY <2>1, TailIs
  <2>. QED  BY <2>2 DEF r
<1>13. Fifo!TakeAstray(x + 1)
  BY <1>2, <1>10, <1>12 DEF Fifo!TakeAstray
<1>. QED  BY <1>4, <1>8, <1>13

(* The other steps of either side do not touch the queue.                  *)
LEMMA OthersKeep ==
    ASSUME RingInv, UNCHANGED ring \/ Ringbuf_Depth_Update,
           get'.hole = get.hole \/ ~ Removing, Removing' = Removing
    PROVE  Contents' = Contents
<1>1. /\ ring'.head = ring.head /\ ring'.tail = ring.tail
      /\ ring'.buffer = ring.buffer
  BY DEF RingInv, RingType, Ringbuf_Depth_Update
<1>2. Sized' = Sized
  BY <1>1 DEF Sized, Held
<1>3. \A k \in 1 .. Sized : Place(k)' = Place(k)
  BY <1>1 DEF Place
<1>. QED  BY <1>1, <1>2, <1>3, SameContents

(* Every step is a step of the queue or leaves it alone.                   *)
LEMMA StepRefines ==
    ASSUME RingInv, [Next]_vars
    PROVE  [Fifo!FifoNext]_<<Contents, taken>>
<1>1. CASE \E e \in Elements : Ringbuf_Data_Peek(e)
  BY <1>1, OthersKeep DEF Ringbuf_Data_Peek, Removing
<1>2. CASE WriteOctet
  BY <1>2, WriteOctetKeeps DEF WriteOctet
<1>3. CASE Ringbuf_Data_Put
  <2>1. Fifo!Put(put.element)
    BY <1>3, DataPutAppends DEF Fifo!Put, Ringbuf_Data_Put
  <2>. QED  BY <1>3, <2>1, DataPutAppends DEF Fifo!FifoNext
<1>4. CASE Ringbuf_Depth_Update
  BY <1>4, OthersKeep DEF Ringbuf_Depth_Update, Removing
<1>5. CASE Ringbuf_Peek
  BY <1>5, OthersKeep DEF Ringbuf_Peek, Removing, Looking, IdleGet
<1>6. CASE Ringbuf_Peek_Next
  <2>1. ring' = ring /\ taken' = taken /\ get.at = "look"
    BY <1>6 DEF Ringbuf_Peek_Next
  <2>2. get'.at # "move"
    BY <1>6 DEF Ringbuf_Peek_Next, Looking, IdleGet
  <2>. QED  BY <2>1, <2>2, OthersKeep DEF Removing
<1>7. CASE ReadOctet
  <2>1. ring' = ring /\ taken' = taken /\ get.at = "look" /\ get'.at = "look"
    BY <1>7 DEF ReadOctet, RingInv, RingType
  <2>. QED  BY <2>1, OthersKeep DEF Removing
<1>8. CASE Ringbuf_Pop
  BY <1>8, PopTakes DEF Fifo!FifoNext
<1>9. CASE Ringbuf_Pop_Element
  <2>1. ring' = ring /\ get.at = "look"
    BY <1>9 DEF Ringbuf_Pop_Element
  <2>2. CASE get'.at = "move"
    BY <1>9, <2>2, PopElementTakes DEF Fifo!FifoNext
  <2>3. CASE get'.at # "move"
    <3>1. taken' = taken
      BY <1>9, <2>3 DEF Ringbuf_Pop_Element, RingInv, RingType
    <3>. QED  BY <2>1, <2>3, <3>1, OthersKeep DEF Removing
  <2>. QED  BY <2>2, <2>3
<1>10. CASE MoveOctet
  BY <1>10, MoveOctetKeeps DEF MoveOctet
<1>11. CASE Remove
  BY <1>11, RemoveKeeps DEF Remove
<1>12. CASE RemoveOldest
  BY <1>12, RemoveOldestTakes DEF Fifo!FifoNext
<1>13. CASE UNCHANGED vars
  BY <1>13, OthersKeep DEF vars, Removing
<1>. QED
  BY <1>1, <1>2, <1>3, <1>4, <1>5, <1>6, <1>7, <1>8, <1>9, <1>10, <1>11, <1>12, <1>13
  DEF Next, Producer, Consumer

LEMMA InitRefines ==
    ASSUME Init
    PROVE  Fifo!FifoInit
<1>1. Sized = 0 /\ RingInv
  BY InitInv, CountIs, RingConstants
  DEF Init, Sized, Held, Removing, IdleGet, RingInv, RingType
<1>2. Contents = <<>>
  BY <1>1, ContentsIs
<1>. QED  BY <1>2 DEF Init, Fifo!FifoInit

(* For every size and every interleaving the ring buffer is a bounded      *)
(* queue: Ringbuf_Put appends a whole element, Ringbuf_Pop takes the       *)
(* oldest and Ringbuf_Pop_Element the one that was looked at, and no other *)
(* step changes what is in the queue or its order.  The one exception the  *)
(* code makes is in the queue's specification: while the head has wrapped  *)
(* and the tail has not, Ringbuf_Pop_Element removes the oldest element    *)
(* instead of the one it was asked for.                                    *)
THEOREM RingImplementsFifo == Spec => ImplementsFifo
<1>1. Init => Fifo!FifoInit
  BY InitRefines
<1>2. RingInv /\ [Next]_vars => [Fifo!FifoNext]_<<Contents, taken>>
  BY StepRefines
<1>. QED  BY <1>1, <1>2, RingInvariant, PTL DEF Spec, ImplementsFifo, Fifo!FifoSpec
=============================================================================
