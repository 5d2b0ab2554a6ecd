----------------------------- MODULE TsmProofs ------------------------------
(***************************************************************************)
(* Theorems about Tsm, for every size of the tables, every set of peers    *)
(* and every setting of timeouts, retries and window sizes.                *)
(***************************************************************************)
EXTENDS Tsm, TLAPS, FiniteSetTheorems, WellFoundedInduction

-----------------------------------------------------------------------------
(* The operations of TsmTable, for tables of any size.                     *)

(* A non-empty set of naturals has a least element: the searches of tsm.c  *)
(* that stop at the first hit find one whenever there is one.              *)
LEMMA LeastNatural ==
    ASSUME NEW T, T \subseteq Nat, T # {}
    PROVE  \E x \in T : \A y \in T : x <= y
<1>1. PICK x \in T : \A y \in T : ~ (<<y, x>> \in OpToRel(<, Nat))
  BY NatLessThanWellFounded, WFMin
<1>2. \A y \in T : x <= y
  <2> TAKE y \in T
  <2>1. y \in Nat /\ x \in Nat
    OBVIOUS
  <2>2. ~ (y < x)
    BY <1>1, <2>1, Zenon DEF OpToRel
  <2> QED
    BY <2>1, <2>2
<1> QED
  BY <1>2

-----------------------------------------------------------------------------
(* The searches.                                                           *)

LEMMA FirstHit ==
    ASSUME NEW S, S \subseteq Nat, NEW none
    PROVE  /\ S # {} => First(S, none) \in S
           /\ S = {} => First(S, none) = none
<1>1. CASE S # {}
  <2>1. \E x \in S : \A y \in S : x <= y
    BY <1>1, LeastNatural
  <2>2. First(S, none) = CHOOSE x \in S : \A y \in S : x <= y
    BY <1>1 DEF First
  <2> QED
    BY <1>1, <2>1, <2>2
<1>2. CASE S = {}
  BY <1>2 DEF First
<1> QED
  BY <1>1, <1>2

(* tsm_find_invokeID_index finds a slot with the ID when there is one.     *)
LEMMA FindIndexFound ==
    ASSUME NEW t, NEW id, Uses(t, id)
    PROVE  /\ tsm_find_invokeID_index(t, id) \in Slots
           /\ t.list[tsm_find_invokeID_index(t, id)].InvokeID = id
<1> DEFINE S == {i \in Slots : t.list[i].InvokeID = id}
<1>1. S \subseteq Nat /\ S # {}
  BY TsmConstants DEF Uses, Slots
<1>2. First(S, MAX_TSM_TRANSACTIONS) \in S
  <2> HIDE DEF S
  <2> QED
    BY <1>1, FirstHit
<1> QED
  BY <1>2 DEF tsm_find_invokeID_index

(* It returns MAX_TSM_TRANSACTIONS, which is no slot, when there is none.  *)
LEMMA FindIndexNone ==
    ASSUME NEW t, NEW id, ~ Uses(t, id)
    PROVE  tsm_find_invokeID_index(t, id) \notin Slots
<1>1. {i \in Slots : t.list[i].InvokeID = id} = {}
  BY DEF Uses
<1>2. tsm_find_invokeID_index(t, id) = MAX_TSM_TRANSACTIONS
  BY <1>1 DEF tsm_find_invokeID_index, First
<1> QED
  BY <1>2, TsmConstants DEF Slots

(* FindPeer returns an entry only if that entry is the exchange's.         *)
LEMMA FindPeerFound ==
    ASSUME NEW t, NEW src, NEW id, FindPeer(t, src, id) \in PeerEntries
    PROVE  PeerMatches(t, FindPeer(t, src, id), src, id)
<1> DEFINE S == {p \in PeerEntries : PeerMatches(t, p, src, id)}
<1>1. S \subseteq Nat /\ MAX_TSM_PEERS \notin PeerEntries
  BY TsmConstants DEF PeerEntries
<1>2. FindPeer(t, src, id) = First(S, MAX_TSM_PEERS)
  BY DEF FindPeer
<1>3. FindPeer(t, src, id) \in S
  <2> HIDE DEF S
  <2>1. S # {} => First(S, MAX_TSM_PEERS) \in S
    BY <1>1, FirstHit
  <2>2. S = {} => First(S, MAX_TSM_PEERS) = MAX_TSM_PEERS
    BY <1>1, FirstHit
  <2> QED
    BY <1>1, <1>2, <2>1, <2>2
<1> QED
  BY <1>3

(* FindPeer misses no entry of the exchange.                               *)
LEMMA FindPeerNone ==
    ASSUME NEW t, NEW src, NEW id, FindPeer(t, src, id) \notin PeerEntries
    PROVE  \A p \in PeerEntries : ~ PeerMatches(t, p, src, id)
<1> DEFINE S == {p \in PeerEntries : PeerMatches(t, p, src, id)}
<1>1. S \subseteq Nat /\ S \subseteq PeerEntries
  BY TsmConstants DEF PeerEntries
<1>2. FindPeer(t, src, id) = First(S, MAX_TSM_PEERS)
  BY DEF FindPeer
<1>3. S = {}
  <2> HIDE DEF S
  <2> QED
    BY <1>1, <1>2, FirstHit
<1> QED
  BY <1>3

(* FirstFreePeer returns an entry only if that entry is free.              *)
LEMMA FirstFreePeerFree ==
    ASSUME NEW t, FirstFreePeer(t) \in PeerEntries
    PROVE  t.peers[FirstFreePeer(t)].InternalInvokeID = 0
<1> DEFINE S == {p \in PeerEntries : t.peers[p].InternalInvokeID = 0}
<1>1. S \subseteq Nat /\ MAX_TSM_PEERS \notin PeerEntries
  BY TsmConstants DEF PeerEntries
<1>2. FirstFreePeer(t) = First(S, MAX_TSM_PEERS)
  BY DEF FirstFreePeer
<1>3. FirstFreePeer(t) \in S
  <2> HIDE DEF S
  <2>1. S # {} => First(S, MAX_TSM_PEERS) \in S
    BY <1>1, FirstHit
  <2>2. S = {} => First(S, MAX_TSM_PEERS) = MAX_TSM_PEERS
    BY <1>1, FirstHit
  <2> QED
    BY <1>1, <1>2, <2>1, <2>2
<1> QED
  BY <1>3

-----------------------------------------------------------------------------
(* Reserving a slot.                                                       *)

(* With a slot left there is an invoke ID left: 255 IDs are enough for 255 *)
(* slots, one of which is free.                                            *)
LEMMA UnusedIDExists ==
    ASSUME NEW t, tsm_transaction_available(t)
    PROVE  \E id \in InvokeIDs : ~ Uses(t, id)
<1> SUFFICES ASSUME \A id \in InvokeIDs : Uses(t, id)
             PROVE  FALSE
  OBVIOUS
<1>1. PICK free \in Slots : t.list[free].InvokeID = 0
  BY DEF tsm_transaction_available, Uses
<1> DEFINE Taken == Slots \ {free}
           f == [id \in InvokeIDs |->
                    CHOOSE i \in Slots : t.list[i].InvokeID = id]
<1>2. \A id \in InvokeIDs : f[id] \in Taken /\ t.list[f[id]].InvokeID = id
  <2> TAKE id \in InvokeIDs
  <2>1. \E i \in Slots : t.list[i].InvokeID = id
    BY DEF Uses
  <2>2. f[id] \in Slots /\ t.list[f[id]].InvokeID = id
    BY <2>1
  <2>3. id # 0
    BY TsmConstants DEF InvokeIDs
  <2> QED
    BY <1>1, <2>2, <2>3
<1>3. f \in [InvokeIDs -> Taken]
  BY <1>2
<1>4. IsFiniteSet(InvokeIDs) /\ Cardinality(InvokeIDs) = MAX_INVOKE_ID
  <2>1. 1 \in Int /\ MAX_INVOKE_ID \in Int /\ ~ (1 > MAX_INVOKE_ID)
    BY TsmConstants
  <2>2. /\ IsFiniteSet(1 .. MAX_INVOKE_ID)
        /\ Cardinality(1 .. MAX_INVOKE_ID) = MAX_INVOKE_ID - 1 + 1
    BY <2>1, FS_Interval
  <2> QED
    BY <2>2, TsmConstants DEF InvokeIDs
<1>5. IsFiniteSet(Slots) /\ Cardinality(Slots) = MAX_TSM_TRANSACTIONS
  <2>1. /\ 0 \in Int /\ MAX_TSM_TRANSACTIONS - 1 \in Int
        /\ ~ (0 > MAX_TSM_TRANSACTIONS - 1)
    BY TsmConstants
  <2>2. /\ IsFiniteSet(0 .. MAX_TSM_TRANSACTIONS - 1)
        /\ Cardinality(0 .. MAX_TSM_TRANSACTIONS - 1)
             = (MAX_TSM_TRANSACTIONS - 1) - 0 + 1
    BY <2>1, FS_Interval
  <2> QED
    BY <2>2, TsmConstants DEF Slots
<1>6. IsFiniteSet(Taken) /\ Cardinality(Taken) = MAX_TSM_TRANSACTIONS - 1
  BY <1>1, <1>5, FS_RemoveElement
<1>7. Cardinality(Taken) < Cardinality(InvokeIDs)
  BY <1>4, <1>6, TsmConstants
<1>8. PICK x \in InvokeIDs, y \in InvokeIDs : x # y /\ f[x] = f[y]
  <2> HIDE DEF f, Taken
  <2> QED
    BY <1>3, <1>4, <1>6, <1>7, FS_PigeonHole
<1> QED
  BY <1>2, <1>8

(* The search loop of tsm_next_free_invokeID ends, at an ID that is not in *)
(* use and is not the reserved 0.                                          *)
LEMMA SearchFindsID ==
    ASSUME NEW t, t.cur \in InvokeIDs, tsm_transaction_available(t)
    PROVE  /\ Skip(t.cur, Skipped(t)) \in InvokeIDs
           /\ ~ Uses(t, Skip(t.cur, Skipped(t)))
<1> DEFINE K == 0 .. MAX_INVOKE_ID - 1
           Hit(k) == /\ ~ Uses(t, Skip(t.cur, k))
                     /\ \A j \in 0 .. k - 1 : Uses(t, Skip(t.cur, j))
<1>1. PICK id \in InvokeIDs : ~ Uses(t, id)
  BY UnusedIDExists
<1>2. \E k \in K : Skip(t.cur, k) = id
  <2> DEFINE k0 == IF id >= t.cur THEN id - t.cur
                                  ELSE (id - t.cur) + MAX_INVOKE_ID
  <2>1. k0 \in K /\ Skip(t.cur, k0) = id
    BY <1>1, TsmConstants DEF Skip, InvokeIDs
  <2> QED
    BY <2>1
<1>3. \E k \in K : Hit(k)
  <2> DEFINE T == {k \in K : ~ Uses(t, Skip(t.cur, k))}
  <2>1. T \subseteq Nat /\ T # {}
    BY <1>1, <1>2, TsmConstants
  <2>2. PICK x \in T : \A y \in T : x <= y
    BY <2>1, LeastNatural, Zenon
  <2>3. \A j \in 0 .. x - 1 : j \in K /\ ~ (x <= j)
    BY <2>1, <2>2, TsmConstants
  <2>4. \A j \in 0 .. x - 1 : Uses(t, Skip(t.cur, j))
    BY <2>2, <2>3
  <2> QED
    BY <2>2, <2>4
<1>4. Skipped(t) = CHOOSE k \in K : Hit(k)
  BY DEF Skipped
<1> HIDE DEF Hit
<1>5. Skipped(t) \in K /\ Hit(Skipped(t))
  BY <1>3, <1>4
<1>6. Skip(t.cur, Skipped(t)) \in InvokeIDs
  BY <1>5, TsmConstants DEF Skip, InvokeIDs
<1> QED
  BY <1>5, <1>6 DEF Hit

-----------------------------------------------------------------------------
(* What each operation does to a table.                                    *)

LEMMA SetSlotEffect ==
    ASSUME NEW t \in TableType, NEW i \in Slots, NEW slot \in SlotType
    PROVE  /\ SetSlot(t, i, slot) \in TableType
           /\ SetSlot(t, i, slot).list[i] = slot
           /\ \A j \in Slots : j # i => SetSlot(t, i, slot).list[j] = t.list[j]
           /\ SetSlot(t, i, slot).peers = t.peers
           /\ SetSlot(t, i, slot).cur = t.cur
BY DEF SetSlot, TableType

(* The allocator takes a free slot and gives it an ID that nobody has.     *)
LEMMA NextFreeEffect ==
    ASSUME NEW t \in TableType, tsm_transaction_available(t)
    PROVE  LET r == tsm_next_free_invokeID(t)
           IN /\ r.t \in TableType
              /\ r.id \in InvokeIDs
              /\ ~ Uses(t, r.id)
              /\ r.t.peers = t.peers
              /\ \E i \in Slots :
                   /\ t.list[i].InvokeID = 0
                   /\ r.t.list[i].InvokeID = r.id
                   /\ r.t.list[i].state = IDLE
                   /\ r.t.list[i].blob = t.list[i].blob
                   /\ \A j \in Slots : j # i => r.t.list[j] = t.list[j]
<1> DEFINE id == Skip(t.cur, Skipped(t))
           i == tsm_find_invokeID_index(t, 0)
           slot == [t.list[i] EXCEPT !.InvokeID = id, !.state = IDLE,
                                     !.RequestTimer = ApduTimeout]
           r == tsm_next_free_invokeID(t)
<1>1. id \in InvokeIDs /\ ~ Uses(t, id)
  <2>1. t.cur \in InvokeIDs
    BY DEF TableType
  <2> QED
    BY <2>1, SearchFindsID
<1>2. i \in Slots /\ t.list[i].InvokeID = 0
  BY FindIndexFound DEF tsm_transaction_available
<1>3. /\ slot \in SlotType /\ slot.InvokeID = id /\ slot.state = IDLE
      /\ slot.blob = t.list[i].blob
  <2> HIDE DEF id, i
  <2>1. t.list[i] \in SlotType
    BY <1>2 DEF TableType
  <2>2. id \in AnyInvokeID /\ ApduTimeout \in Timers /\ IDLE \in TsmStates
    BY <1>1, TsmConstants DEF InvokeIDs, AnyInvokeID, Timers, TsmStates
  <2> QED
    BY <2>1, <2>2 DEF SlotType
<1>4. NextInvokeID(id) \in InvokeIDs
  <2> HIDE DEF id
  <2> QED
    BY <1>1, TsmConstants DEF NextInvokeID, InvokeIDs
<1>5. /\ r.id = id
      /\ r.t = [SetSlot(t, i, slot) EXCEPT !.cur = NextInvokeID(id)]
  BY DEF tsm_next_free_invokeID
<1> HIDE DEF id, i, slot, r
<1>6. /\ r.t \in TableType
      /\ r.t.list = SetSlot(t, i, slot).list
      /\ r.t.peers = SetSlot(t, i, slot).peers
  <2>1. SetSlot(t, i, slot) \in TableType
    BY <1>2, <1>3, SetSlotEffect
  <2> QED
    BY <1>4, <1>5, <2>1 DEF TableType
<1>7. /\ r.t.list[i] = slot
      /\ \A j \in Slots : j # i => r.t.list[j] = t.list[j]
      /\ r.t.peers = t.peers
  BY <1>2, <1>3, <1>6, SetSlotEffect
<1> QED
  BY <1>1, <1>2, <1>3, <1>5, <1>6, <1>7 DEF r

LEMMA FreedSlotType ==
    ASSUME NEW slot \in SlotType
    PROVE  /\ FreeSlot(slot) \in SlotType
           /\ FreeSlot(slot).InvokeID = 0
           /\ FreeSlot(slot).state = IDLE
           /\ free_blob(FreeSlot(slot)) \in SlotType
           /\ free_blob(FreeSlot(slot)).InvokeID = 0
           /\ free_blob(FreeSlot(slot)).state = IDLE
           /\ free_blob(FreeSlot(slot)).blob = <<>>
<1>1. /\ 0 \in AnyInvokeID /\ 0 \in Timers /\ 0 \in Bytes /\ 0 \in SeqNumbers
      /\ 0 \in Nat /\ IDLE \in TsmStates /\ NULL \in ApduType
      /\ <<>> \in Seq(Payloads)
  BY TsmConstants
     DEF AnyInvokeID, Timers, Bytes, SeqNumbers, TsmStates, NULL, ApduType
<1> QED
  BY <1>1 DEF FreeSlot, ZeroSlot, SlotType, free_blob

(* tsm_free_invoke_id empties at most one slot and touches nothing else.   *)
LEMMA FreeEffect ==
    ASSUME NEW t \in TableType, NEW id
    PROVE  LET u == tsm_free_invoke_id(t, id)
           IN /\ u \in TableType
              /\ u.peers = t.peers
              /\ \A j \in Slots :
                   \/ u.list[j] = t.list[j]
                   \/ u.list[j].InvokeID = 0 /\ u.list[j].state = IDLE
<1> DEFINE i == tsm_find_invokeID_index(t, id)
           u == tsm_free_invoke_id(t, id)
<1>1. CASE i \in Slots
  <2>1. u = SetSlot(t, i, FreeSlot(t.list[i]))
    BY <1>1 DEF tsm_free_invoke_id
  <2>2. t.list[i] \in SlotType
    BY <1>1 DEF TableType
  <2> DEFINE slot == FreeSlot(t.list[i])
  <2>3. slot \in SlotType /\ slot.InvokeID = 0 /\ slot.state = IDLE
    BY <2>2, FreedSlotType
  <2> HIDE DEF u, i, slot
  <2>4. /\ u \in TableType /\ u.list[i] = slot /\ u.peers = t.peers
        /\ \A j \in Slots : j # i => u.list[j] = t.list[j]
    BY <1>1, <2>1, <2>3, SetSlotEffect DEF slot
  <2> QED
    BY <1>1, <2>3, <2>4 DEF u
<1>2. CASE i \notin Slots
  BY <1>2 DEF tsm_free_invoke_id
<1> QED
  BY <1>1, <1>2

LEMMA ClearPeerEffect ==
    ASSUME NEW t \in TableType, NEW id
    PROVE  LET u == tsm_clear_peer_id(t, id)
           IN /\ u \in TableType
              /\ u.list = t.list
              /\ \A p \in PeerEntries :
                   u.peers[p] = IF t.peers[p].InternalInvokeID = id
                                THEN ZeroPeer ELSE t.peers[p]
<1>1. ZeroPeer \in PeerType
  BY TsmConstants DEF ZeroPeer, PeerType, AnyInvokeID
<1> QED
  BY <1>1 DEF tsm_clear_peer_id, TableType

(* tsm_free_invoke_id_check either does nothing or empties one slot and    *)
(* the peer entries with its ID.                                           *)
LEMMA FreeCheckEffect ==
    ASSUME NEW t \in TableType, NEW id, NEW addr
    PROVE  LET u == tsm_free_invoke_id_check(t, id, addr)
           IN /\ u \in TableType
              /\ \/ u = t
                 \/ \E i \in Slots :
                      /\ t.list[i].InvokeID = id
                      /\ u.list[i].InvokeID = 0
                      /\ u.list[i].state = IDLE /\ u.list[i].blob = <<>>
                      /\ \A j \in Slots : j # i => u.list[j] = t.list[j]
                      /\ \A p \in PeerEntries :
                           u.peers[p] = IF t.peers[p].InternalInvokeID = id
                                        THEN ZeroPeer ELSE t.peers[p]
<1> DEFINE i == tsm_find_invokeID_index(t, id)
           u == tsm_free_invoke_id_check(t, id, addr)
           c == tsm_clear_peer_id(t, id)
           slot == free_blob(FreeSlot(t.list[i]))
<1>1. CASE i \in Slots /\ (addr = NoAddress \/ t.list[i].dest = addr)
  <2>1. u = SetSlot(c, i, slot)
    BY <1>1 DEF tsm_free_invoke_id_check
  <2>2. t.list[i].InvokeID = id
    BY <1>1, FindIndexFound, FindIndexNone
  <2>3. t.list[i] \in SlotType
    BY <1>1 DEF TableType
  <2>4. /\ slot \in SlotType /\ slot.InvokeID = 0 /\ slot.state = IDLE
        /\ slot.blob = <<>>
    BY <2>3, FreedSlotType
  <2>5. c \in TableType /\ c.list = t.list
    BY ClearPeerEffect
  <2>6. \A p \in PeerEntries :
           c.peers[p] = IF t.peers[p].InternalInvokeID = id
                        THEN ZeroPeer ELSE t.peers[p]
    BY ClearPeerEffect
  <2> HIDE DEF u, i, c, slot
  <2>7. /\ u \in TableType /\ u.list[i] = slot /\ u.peers = c.peers
        /\ \A j \in Slots : j # i => u.list[j] = t.list[j]
    BY <1>1, <2>1, <2>4, <2>5, SetSlotEffect
  <2> QED
    BY <1>1, <2>2, <2>4, <2>6, <2>7 DEF u
<1>2. CASE ~ (i \in Slots /\ (addr = NoAddress \/ t.list[i].dest = addr))
  BY <1>2 DEF tsm_free_invoke_id_check
<1> QED
  BY <1>1, <1>2

-----------------------------------------------------------------------------
(* Types and unique IDs.                                                   *)

(* A table whose fields have their types and whose IDs are unique.         *)
WellFormed(t) == t \in TableType /\ UniqueIDs(t)

(* A slot may change in every way except to another ID than its own.       *)
LEMMA SetSlotWellFormed ==
    ASSUME NEW t, WellFormed(t), NEW i \in Slots, NEW slot \in SlotType,
           slot.InvokeID \in {0, t.list[i].InvokeID}
    PROVE  WellFormed(SetSlot(t, i, slot))
<1> DEFINE u == SetSlot(t, i, slot)
<1>1. t \in TableType /\ UniqueIDs(t)
  BY DEF WellFormed
<1>2. /\ u \in TableType /\ u.list[i] = slot
      /\ \A j \in Slots : j # i => u.list[j] = t.list[j]
  BY <1>1, SetSlotEffect
<1> HIDE DEF u
<1>3. UniqueIDs(u)
  BY <1>1, <1>2 DEF UniqueIDs
<1> QED
  BY <1>2, <1>3 DEF WellFormed, u

(* The slot of an ID in use can be found, and holds that ID.               *)
LEMMA FoundSlot ==
    ASSUME NEW t \in TableType, NEW id, tsm_find_invokeID_index(t, id) \in Slots
    PROVE  /\ t.list[tsm_find_invokeID_index(t, id)] \in SlotType
           /\ t.list[tsm_find_invokeID_index(t, id)].InvokeID = id
<1>1. Uses(t, id)
  BY FindIndexNone
<1> QED
  BY <1>1, FindIndexFound DEF TableType

(* Slots that only become free keep the IDs unique.                        *)
LEMMA FreeingKeepsUnique ==
    ASSUME NEW t \in TableType, NEW u \in TableType, UniqueIDs(t),
           \A j \in Slots : \/ u.list[j].InvokeID = t.list[j].InvokeID
                            \/ u.list[j].InvokeID = 0
    PROVE  WellFormed(u)
BY DEF UniqueIDs, WellFormed

(* tsm_next_free_invokeID keeps the table well formed, full or not, and a  *)
(* reserved ID is the ID of a slot.                                        *)
LEMMA NextFreeWellFormed ==
    ASSUME NEW t, WellFormed(t)
    PROVE  LET r == tsm_next_free_invokeID(t)
           IN /\ WellFormed(r.t)
              /\ r.id \in AnyInvokeID
              /\ r.id # 0 => /\ r.id \in InvokeIDs
                             /\ tsm_find_invokeID_index(r.t, r.id) \in Slots
<1> DEFINE r == tsm_next_free_invokeID(t)
<1>1. t \in TableType /\ UniqueIDs(t)
  BY DEF WellFormed
<1>2. CASE tsm_transaction_available(t)
  <2>1. /\ r.t \in TableType /\ r.id \in InvokeIDs /\ ~ Uses(t, r.id)
    BY <1>1, <1>2, NextFreeEffect
  <2>2. PICK i \in Slots :
           /\ t.list[i].InvokeID = 0 /\ r.t.list[i].InvokeID = r.id
           /\ \A j \in Slots : j # i => r.t.list[j] = t.list[j]
    BY <1>1, <1>2, NextFreeEffect
  <2> HIDE DEF r
  <2>3. UniqueIDs(r.t)
    BY <1>1, <2>1, <2>2 DEF UniqueIDs, Uses
  <2>4. Uses(r.t, r.id)
    BY <2>2 DEF Uses
  <2>5. tsm_find_invokeID_index(r.t, r.id) \in Slots
    BY <2>4, FindIndexFound
  <2>6. r.id \in AnyInvokeID
    BY <2>1, TsmConstants DEF InvokeIDs, AnyInvokeID
  <2> QED
    BY <2>1, <2>3, <2>5, <2>6 DEF WellFormed, r
<1>3. CASE ~ tsm_transaction_available(t)
  <2>1. r.t = t /\ r.id = 0
    BY <1>3 DEF tsm_next_free_invokeID
  <2>2. 0 \in AnyInvokeID
    BY TsmConstants DEF AnyInvokeID
  <2> HIDE DEF r
  <2> QED
    BY <2>1, <2>2 DEF r
<1> QED
  BY <1>2, <1>3

LEMMA FreeWellFormed ==
    ASSUME NEW t, WellFormed(t), NEW id
    PROVE  WellFormed(tsm_free_invoke_id(t, id))
<1> DEFINE u == tsm_free_invoke_id(t, id)
<1>1. t \in TableType /\ UniqueIDs(t)
  BY DEF WellFormed
<1>2. /\ u \in TableType
      /\ \A j \in Slots : \/ u.list[j] = t.list[j]
                          \/ u.list[j].InvokeID = 0
  BY <1>1, FreeEffect
<1> HIDE DEF u
<1>3. WellFormed(u)
  BY <1>1, <1>2, FreeingKeepsUnique
<1> QED
  BY <1>3 DEF u

LEMMA ClearPeerWellFormed ==
    ASSUME NEW t, WellFormed(t), NEW id
    PROVE  /\ WellFormed(tsm_clear_peer_id(t, id))
           /\ tsm_clear_peer_id(t, id).list = t.list
<1> DEFINE u == tsm_clear_peer_id(t, id)
<1>1. t \in TableType /\ UniqueIDs(t)
  BY DEF WellFormed
<1>2. u \in TableType /\ u.list = t.list
  BY <1>1, ClearPeerEffect
<1> HIDE DEF u
<1>3. WellFormed(u)
  BY <1>1, <1>2, FreeingKeepsUnique
<1> QED
  BY <1>2, <1>3 DEF u

LEMMA FreeCheckWellFormed ==
    ASSUME NEW t, WellFormed(t), NEW id, NEW addr
    PROVE  WellFormed(tsm_free_invoke_id_check(t, id, addr))
<1> DEFINE u == tsm_free_invoke_id_check(t, id, addr)
<1>1. t \in TableType /\ UniqueIDs(t)
  BY DEF WellFormed
<1>2. /\ u \in TableType
      /\ \/ u = t
         \/ \E i \in Slots :
              /\ u.list[i].InvokeID = 0
              /\ \A j \in Slots : j # i => u.list[j] = t.list[j]
  BY <1>1, FreeCheckEffect
<1> HIDE DEF u
<1>3. \A j \in Slots : \/ u.list[j].InvokeID = t.list[j].InvokeID
                       \/ u.list[j].InvokeID = 0
  BY <1>2
<1>4. WellFormed(u)
  BY <1>1, <1>2, <1>3, FreeingKeepsUnique
<1> QED
  BY <1>4 DEF u

(* Binding a peer entry keeps the table well formed; the internal ID it    *)
(* returns, if any, is the ID of a slot.                                   *)
LEMMA CreatePeerWellFormed ==
    ASSUME NEW t, WellFormed(t), NEW p \in PeerEntries,
           NEW src \in Address, NEW id \in AnyInvokeID
    PROVE  LET c == CreatePeer(t, p, src, id)
           IN /\ WellFormed(c.t)
              /\ c.id \in AnyInvokeID
<1> DEFINE r == tsm_next_free_invokeID(t)
           i == tsm_find_invokeID_index(r.t, r.id)
           slot == [r.t.list[i] EXCEPT !.dest = src]
           entry == [PeerAddress |-> src, PeerInvokeID |-> id,
                     InternalInvokeID |-> r.id]
           c == CreatePeer(t, p, src, id)
<1>1. /\ WellFormed(r.t) /\ r.id \in AnyInvokeID
      /\ r.id # 0 => i \in Slots
  BY NextFreeWellFormed
<1>2. CASE r.id # 0
  <2>1. /\ c.id = r.id
        /\ c.t = [SetSlot(r.t, i, slot) EXCEPT !.peers[p] = entry]
    BY <1>2 DEF CreatePeer
  <2>2. r.t \in TableType /\ i \in Slots /\ r.t.list[i] \in SlotType
    BY <1>1, <1>2 DEF WellFormed, TableType
  <2>4. entry \in PeerType
    BY <1>1 DEF PeerType
  <2> HIDE DEF r, i
  <2>5. slot \in SlotType /\ slot.InvokeID = r.t.list[i].InvokeID
    BY <2>2 DEF SlotType
  <2> HIDE DEF slot, entry, c
  <2>6. WellFormed(SetSlot(r.t, i, slot))
    BY <1>1, <2>2, <2>5, SetSlotWellFormed
  <2>7. c.t \in TableType /\ c.t.list = SetSlot(r.t, i, slot).list
    BY <2>1, <2>4, <2>6 DEF WellFormed, TableType
  <2>8. WellFormed(c.t)
    BY <2>6, <2>7 DEF WellFormed, UniqueIDs
  <2> QED
    BY <1>1, <2>1, <2>8 DEF c
<1>3. CASE r.id = 0
  <2>1. c.t = t /\ c.id = 0
    BY <1>3 DEF CreatePeer
  <2>2. 0 \in AnyInvokeID
    BY TsmConstants DEF AnyInvokeID
  <2> QED
    BY <2>1, <2>2
<1> QED
  BY <1>2, <1>3

LEMMA GetPeerWellFormed ==
    ASSUME NEW t, WellFormed(t), NEW src \in Address, NEW id \in AnyInvokeID
    PROVE  LET g == tsm_get_peer_id(t, src, id)
           IN WellFormed(g.t) /\ g.id \in AnyInvokeID
<1> DEFINE found == FindPeer(t, src, id)
           free == FirstFreePeer(t)
           g == tsm_get_peer_id(t, src, id)
<1>1. CASE found \in PeerEntries
  <2>1. g.t = t /\ g.id = t.peers[found].InternalInvokeID
    BY <1>1 DEF tsm_get_peer_id
  <2>2. t.peers[found] \in PeerType
    BY <1>1 DEF WellFormed, TableType
  <2>3. t.peers[found].InternalInvokeID \in AnyInvokeID
    BY <2>2 DEF PeerType
  <2> QED
    BY <2>1, <2>3
<1>2. CASE found \notin PeerEntries /\ free \in PeerEntries
  <2>1. g = CreatePeer(t, free, src, id)
    BY <1>2 DEF tsm_get_peer_id
  <2> QED
    BY <1>2, <2>1, CreatePeerWellFormed
<1>3. CASE found \notin PeerEntries /\ free \notin PeerEntries
  <2>1. g.t = t /\ g.id = 0
    BY <1>3 DEF tsm_get_peer_id
  <2>2. 0 \in AnyInvokeID
    BY TsmConstants DEF AnyInvokeID
  <2> QED
    BY <2>1, <2>2
<1> QED
  BY <1>1, <1>2, <1>3

LEMMA FreeSegmentationWellFormed ==
    ASSUME NEW t, WellFormed(t), NEW src \in Address, NEW id \in AnyInvokeID
    PROVE  WellFormed(tsm_free_invoke_id_segmentation(t, src, id))
<1> DEFINE g == tsm_get_peer_id(t, src, id)
<1>1. WellFormed(g.t)
  BY GetPeerWellFormed
<1>2. tsm_free_invoke_id_segmentation(t, src, id)
        = tsm_free_invoke_id_check(g.t, g.id, src)
  BY DEF tsm_free_invoke_id_segmentation
<1> HIDE DEF g
<1> QED
  BY <1>1, <1>2, FreeCheckWellFormed

-----------------------------------------------------------------------------
(* The handlers.                                                           *)

(* The types of the values that the handlers put into a slot.              *)
LEMMA SmallValues ==
    /\ 0 \in Timers /\ ApduTimeout \in Timers /\ SegTimeout \in Timers
    /\ 0 \in Bytes /\ 1 \in Bytes /\ Retries \in Bytes
    /\ 0 \in SeqNumbers /\ 0 \in AnyInvokeID
    /\ PeerInvokeID \subseteq AnyInvokeID /\ InvokeIDs \subseteq AnyInvokeID
    /\ NULL \in ApduType /\ <<>> \in Seq(Payloads)
    /\ {IDLE, AWAIT_CONFIRMATION, SEGMENTED_REQUEST_SERVER,
        SEGMENTED_RESPONSE_SERVER} \subseteq TsmStates
BY TsmConstants DEF Timers, Bytes, SeqNumbers, AnyInvokeID, InvokeIDs, TsmStates,
                    NULL, ApduType

LEMMA RequestSegmentTimerType == RequestSegmentTimer \in Timers
<1>1. SegTimeout * 4 \in Int /\ TIMER \in Nat \ {0}
  BY TsmConstants
<1> QED
  BY <1>1 DEF RequestSegmentTimer, Timers

-----------------------------------------------------------------------------
(* Most of the handlers write into slots without touching who uses them,   *)
(* and some of them then free one slot.                                    *)

(* Every slot keeps its invoke ID and its device, every peer entry stays.  *)
Kept(t, u) ==
    /\ u.peers = t.peers
    /\ \A j \in Slots : /\ u.list[j].InvokeID = t.list[j].InvokeID
                        /\ u.list[j].dest = t.list[j].dest

Edited(t, u) ==
    \E v \in TableType :
        /\ Kept(t, v)
        /\ \/ u = v
           \/ \E x : u = tsm_free_invoke_id_check(v, x, NoAddress)

LEMMA SetSlotKept ==
    ASSUME NEW t \in TableType, NEW i \in Slots, NEW slot \in SlotType,
           slot.InvokeID = t.list[i].InvokeID, slot.dest = t.list[i].dest
    PROVE  SetSlot(t, i, slot) \in TableType /\ Kept(t, SetSlot(t, i, slot))
<1> DEFINE u == SetSlot(t, i, slot)
<1>1. /\ u \in TableType /\ u.list[i] = slot /\ u.peers = t.peers
      /\ \A j \in Slots : j # i => u.list[j] = t.list[j]
  BY SetSlotEffect
<1> HIDE DEF u
<1>2. u \in TableType /\ Kept(t, u)
  BY <1>1 DEF Kept
<1> QED
  BY <1>2 DEF u

LEMMA KeptWellFormed ==
    ASSUME NEW t, WellFormed(t), NEW u \in TableType, Kept(t, u)
    PROVE  WellFormed(u)
BY FreeingKeepsUnique DEF Kept, WellFormed

LEMMA EditedWellFormed ==
    ASSUME NEW t, WellFormed(t), NEW u, Edited(t, u)
    PROVE  WellFormed(u)
BY KeptWellFormed, FreeCheckWellFormed DEF Edited

-----------------------------------------------------------------------------
(* Answers.                                                                *)

(* Every way in which tsm_set_complexack_transaction ends: the slot of the *)
(* exchange is written, and perhaps freed.                                 *)
ComplexAckEnds(g, u, dest) ==
    \/ u = g.t
    \/ LET i == tsm_find_invokeID_index(g.t, g.id)
       IN /\ g.id # 0
          /\ i \in Slots
          /\ \E slot \in SlotType :
               /\ slot.InvokeID = g.t.list[i].InvokeID
               /\ slot.dest = dest
               /\ \/ u = SetSlot(g.t, i, slot)
                  \/ u = tsm_free_invoke_id_check(SetSlot(g.t, i, slot), g.id, dest)

LEMMA ComplexAckEffect ==
    ASSUME NEW t, WellFormed(t), NEW dest \in Address, NEW id \in PeerInvokeID,
           NEW sv \in Service
    PROVE  ComplexAckEnds(tsm_get_peer_id(t, dest, id),
                          tsm_set_complexack_transaction(t, dest, id, sv).t, dest)
<1> DEFINE g == tsm_get_peer_id(t, dest, id)
           i == tsm_find_invokeID_index(g.t, g.id)
           apdu_max == bacnet_calc_apdu_max(sv.max_resp)
           slot == [g.t.list[i] EXCEPT
                      !.apdu = [len |-> sv.len, max |-> apdu_max, id |-> id],
                      !.dest = dest, !.RetryCount = Retries,
                      !.ActualWindowSize = 1, !.InitialSequenceNumber = 0]
           started == [slot EXCEPT
                      !.state = SEGMENTED_RESPONSE_SERVER,
                      !.SegmentRetryCount = Retries,
                      !.RequestTimer = 0, !.SegmentTimer = SegTimeout]
           freed == tsm_free_invoke_id_check(SetSlot(g.t, i, slot), g.id, dest)
           u == tsm_set_complexack_transaction(t, dest, id, sv).t
<1>1. g.t \in TableType
  BY SmallValues, GetPeerWellFormed DEF WellFormed
<1>2. \/ u = g.t
      \/ g.id # 0 /\ i \in Slots /\ u = freed
      \/ g.id # 0 /\ i \in Slots /\ u = SetSlot(g.t, i, started)
  BY DEF tsm_set_complexack_transaction, Result
<1>3. apdu_max \in Nat /\ sv.len \in Nat
  BY ServiceType, SegmentSizes DEF bacnet_calc_apdu_max, MinOf
<1>4. ASSUME i \in Slots
      PROVE  /\ slot \in SlotType /\ started \in SlotType
             /\ slot.InvokeID = g.t.list[i].InvokeID /\ slot.dest = dest
             /\ started.InvokeID = g.t.list[i].InvokeID /\ started.dest = dest
  <2>1. g.t.list[i] \in SlotType
    BY <1>1, <1>4 DEF TableType
  <2> HIDE DEF g, i, apdu_max
  <2>2. [len |-> sv.len, max |-> apdu_max, id |-> id] \in ApduType
    BY <1>3, SmallValues DEF ApduType
  <2>3. /\ slot \in SlotType /\ slot.InvokeID = g.t.list[i].InvokeID
        /\ slot.dest = dest
    BY <2>1, <2>2, SmallValues DEF SlotType
  <2> HIDE DEF slot
  <2>4. /\ started \in SlotType /\ started.InvokeID = g.t.list[i].InvokeID
        /\ started.dest = dest
    BY <2>3, SmallValues DEF SlotType
  <2> QED
    BY <2>3, <2>4
<1> HIDE DEF g, started, slot, u
<1>5. ComplexAckEnds(g, u, dest)
  BY <1>2, <1>4 DEF ComplexAckEnds
<1> QED
  BY <1>5 DEF g, u

LEMMA ComplexAckWellFormed ==
    ASSUME NEW t, WellFormed(t), NEW dest \in Address, NEW id \in PeerInvokeID,
           NEW sv \in Service
    PROVE  WellFormed(tsm_set_complexack_transaction(t, dest, id, sv).t)
<1> DEFINE g == tsm_get_peer_id(t, dest, id)
           u == tsm_set_complexack_transaction(t, dest, id, sv).t
<1>1. WellFormed(g.t)
  BY SmallValues, GetPeerWellFormed
<1>2. ComplexAckEnds(g, u, dest)
  BY ComplexAckEffect
<1> HIDE DEF g, u
<1>3. WellFormed(u)
  BY <1>1, <1>2, SetSlotWellFormed, FreeCheckWellFormed DEF ComplexAckEnds
<1> QED
  BY <1>3 DEF u

LEMMA ServiceWellFormed ==
    ASSUME NEW t, WellFormed(t), NEW src \in Address, NEW id \in PeerInvokeID,
           NEW sv \in Service
    PROVE  WellFormed(invoke_confirmed_service(t, src, id, sv).t)
<1>1. \/ invoke_confirmed_service(t, src, id, sv).t = t
      \/ invoke_confirmed_service(t, src, id, sv)
            = tsm_set_complexack_transaction(t, src, id, sv)
  BY DEF invoke_confirmed_service, Result
<1> QED
  BY <1>1, ComplexAckWellFormed

-----------------------------------------------------------------------------
(* Segments of a request.                                                  *)

LEMMA RestartedType ==
    ASSUME NEW slot \in SlotType
    PROVE  /\ Restarted(slot) \in SlotType
           /\ Restarted(slot).InvokeID = slot.InvokeID
           /\ Restarted(slot).dest = slot.dest
BY SmallValues, RequestSegmentTimerType DEF Restarted, SlotType

LEMMA FirstSegmentEdits ==
    ASSUME NEW t \in TableType, NEW i \in Slots, NEW src \in Address,
           NEW id \in PeerInvokeID, NEW seq \in SeqNumbers, NEW window \in Bytes,
           FirstSegment(t, i, src, id, seq, window)
    PROVE  Edited(t, tsm') /\ Duplicate_Count' = Duplicate_Count
<1> DEFINE empty == <<>>
           slot == [t.list[i] EXCEPT
                      !.state = SEGMENTED_REQUEST_SERVER,
                      !.ActualWindowSize = window,
                      !.InitialSequenceNumber = 0, !.LastSequenceNumber = 0,
                      !.RetryCount = 0, !.SegmentRetryCount = 0,
                      !.ReceivedSegmentsCount = 1, !.RequestTimer = 0,
                      !.SegmentTimer = RequestSegmentTimer, !.blob = empty]
           idle == [slot EXCEPT !.state = IDLE]
           data == <<Payload(src, id, seq)>>
           stored == [slot EXCEPT !.blob = data]
<1>1. t.list[i] \in SlotType
  BY DEF TableType
<1>2. /\ slot \in SlotType /\ slot.InvokeID = t.list[i].InvokeID
      /\ slot.dest = t.list[i].dest
  <2>1. empty \in Seq(Payloads)
    OBVIOUS
  <2>2. 1 \in Nat
    OBVIOUS
  <2> HIDE DEF empty
  <2> QED
    BY <1>1, <2>1, <2>2, SmallValues, RequestSegmentTimerType DEF SlotType
<1>3. data \in Seq(Payloads)
  BY DEF Payload, Payloads
<1>4. \/ tsm' = SetSlot(t, i, idle)
      \/ tsm' = tsm_free_invoke_id_check(SetSlot(t, i, free_blob(slot)),
                                         slot.InvokeID, NoAddress)
      \/ tsm' = SetSlot(t, i, stored)
  BY DEF FirstSegment
<1> HIDE DEF slot
<1>5. /\ idle \in SlotType /\ idle.InvokeID = t.list[i].InvokeID
      /\ idle.dest = t.list[i].dest
  BY <1>2, SmallValues DEF SlotType
<1>6. /\ stored \in SlotType /\ stored.InvokeID = t.list[i].InvokeID
      /\ stored.dest = t.list[i].dest
  <2> HIDE DEF data
  <2> QED
    BY <1>2, <1>3 DEF SlotType
<1>7. /\ free_blob(slot) \in SlotType
      /\ free_blob(slot).InvokeID = t.list[i].InvokeID
      /\ free_blob(slot).dest = t.list[i].dest
  BY <1>2, SmallValues DEF SlotType, free_blob
<1> HIDE DEF idle, stored
<1>8. \A s \in {idle, stored, free_blob(slot)} :
        SetSlot(t, i, s) \in TableType /\ Kept(t, SetSlot(t, i, s))
  BY <1>5, <1>6, <1>7, SetSlotKept
<1>9. Edited(t, tsm')
  BY <1>4, <1>8 DEF Edited
<1> QED
  BY <1>9 DEF FirstSegment

LEMMA DuplicateSegmentEdits ==
    ASSUME NEW t \in TableType, NEW i \in Slots, NEW src, NEW id,
           Duplicate_Count \in Bytes, DuplicateSegment(t, i, src, id)
    PROVE  Edited(t, tsm') /\ Duplicate_Count' \in Bytes
<1> DEFINE slot == Restarted(t.list[i])
           kept == [slot EXCEPT !.SegmentTimer = SegTimeout]
           moved == [slot EXCEPT !.SegmentTimer = SegTimeout,
                                 !.InitialSequenceNumber = slot.LastSequenceNumber]
<1>1. t.list[i] \in SlotType
  BY DEF TableType
<1>2. /\ slot \in SlotType /\ slot.InvokeID = t.list[i].InvokeID
      /\ slot.dest = t.list[i].dest
  BY <1>1, RestartedType
<1>3. \/ /\ tsm' = SetSlot(t, i, kept)
         /\ Duplicate_Count < slot.ActualWindowSize
         /\ Duplicate_Count' = Duplicate_Count + 1
      \/ tsm' = SetSlot(t, i, moved) /\ Duplicate_Count' = 0
      \/ tsm' = SetSlot(t, i, slot) /\ Duplicate_Count' = Duplicate_Count
  BY DEF DuplicateSegment
<1> HIDE DEF slot
<1>4. /\ kept \in SlotType /\ kept.InvokeID = t.list[i].InvokeID
      /\ kept.dest = t.list[i].dest
  BY <1>2, SmallValues DEF SlotType
<1>5. /\ moved \in SlotType /\ moved.InvokeID = t.list[i].InvokeID
      /\ moved.dest = t.list[i].dest
  BY <1>2, SmallValues DEF SlotType
<1> HIDE DEF kept, moved
<1>6. \A s \in {kept, moved, slot} :
        SetSlot(t, i, s) \in TableType /\ Kept(t, SetSlot(t, i, s))
  BY <1>2, <1>4, <1>5, SetSlotKept
<1>7. slot.ActualWindowSize \in Bytes
  BY <1>2 DEF SlotType
<1>8. Duplicate_Count' \in Bytes
  BY <1>3, <1>7, TsmConstants DEF Bytes
<1> QED
  BY <1>3, <1>6, <1>8 DEF Edited

(* The next segment is stored; after the last one the exchange is handed   *)
(* to the service, without its peer entry, and then its slot is freed.     *)
HandedOver(t, u, src, id, sv) ==
    \E v \in TableType, x \in AnyInvokeID :
        /\ Kept(t, v)
        /\ u = tsm_free_invoke_id_check(
                 invoke_confirmed_service(tsm_clear_peer_id(v, x), src, id, sv).t,
                 x, NoAddress)

LEMMA NewSegmentEdits ==
    ASSUME NEW t \in TableType, NEW i \in Slots, NEW src \in Address,
           NEW id \in PeerInvokeID, NEW seq \in SeqNumbers, NEW more \in BOOLEAN,
           NEW sv \in Service, NewSegment(t, i, src, id, seq, more, sv)
    PROVE  /\ Edited(t, tsm') \/ HandedOver(t, tsm', src, id, sv)
           /\ Duplicate_Count' = Duplicate_Count
<1> DEFINE old == t.list[i]
           last == seq = (old.InitialSequenceNumber + old.ActualWindowSize) % SEQ
           re == Restarted(old)
           data == Append(re.blob, Payload(src, id, seq))
           slot == [re EXCEPT
                      !.ReceivedSegmentsCount = @ + 1,
                      !.LastSequenceNumber = seq,
                      !.blob = Append(@, Payload(src, id, seq)),
                      !.InitialSequenceNumber = IF last THEN seq ELSE @]
           stored == SetSlot(t, i, slot)
           cleared == tsm_clear_peer_id(stored, slot.InvokeID)
           service == invoke_confirmed_service(cleared, src, id, sv)
<1>1. old \in SlotType
  BY DEF TableType
<1>2. re \in SlotType /\ re.InvokeID = old.InvokeID /\ re.dest = old.dest
  BY <1>1, RestartedType
<1>3. Payload(src, id, seq) \in Payloads
  BY DEF Payload, Payloads
<1>4. /\ slot \in SlotType /\ slot.InvokeID = t.list[i].InvokeID
      /\ slot.dest = t.list[i].dest
  <2> HIDE DEF last, re
  <2>1. re.blob \in Seq(Payloads) /\ re.ReceivedSegmentsCount + 1 \in Nat
    BY <1>2 DEF SlotType
  <2>2. data \in Seq(Payloads)
    BY <1>3, <2>1
  <2>3. slot = [re EXCEPT !.ReceivedSegmentsCount = re.ReceivedSegmentsCount + 1,
                          !.LastSequenceNumber = seq,
                          !.blob = data,
                          !.InitialSequenceNumber =
                              IF last THEN seq ELSE re.InitialSequenceNumber]
    BY <1>2 DEF SlotType
  <2> HIDE DEF data, slot
  <2> QED
    BY <1>2, <2>1, <2>2, <2>3 DEF SlotType
<1>5. \/ tsm' = stored
      \/ tsm' = tsm_free_invoke_id_check(service.t, slot.InvokeID, NoAddress)
  BY DEF NewSegment
<1> HIDE DEF slot
<1>6. stored \in TableType /\ Kept(t, stored)
  BY <1>4, SetSlotKept
<1> HIDE DEF stored
<1>7. slot.InvokeID \in AnyInvokeID
  BY <1>4 DEF SlotType
<1>8. Edited(t, tsm') \/ HandedOver(t, tsm', src, id, sv)
  BY <1>5, <1>6, <1>7 DEF Edited, HandedOver
<1> QED
  BY <1>8 DEF NewSegment

LEMMA ServedWellFormed ==
    ASSUME NEW t, WellFormed(t), NEW u, NEW src \in Address,
           NEW id \in PeerInvokeID, NEW sv \in Service, HandedOver(t, u, src, id, sv)
    PROVE  WellFormed(u)
<1>1. PICK v \in TableType, x \in AnyInvokeID :
         /\ Kept(t, v)
         /\ u = tsm_free_invoke_id_check(
                  invoke_confirmed_service(tsm_clear_peer_id(v, x), src, id, sv).t,
                  x, NoAddress)
  BY DEF HandedOver
<1>2. WellFormed(tsm_clear_peer_id(v, x))
  BY <1>1, KeptWellFormed, ClearPeerWellFormed
<1>3. WellFormed(invoke_confirmed_service(tsm_clear_peer_id(v, x), src, id, sv).t)
  BY <1>2, ServiceWellFormed
<1> QED
  BY <1>1, <1>3, FreeCheckWellFormed

LEMMA LaterSegmentEdits ==
    ASSUME NEW t \in TableType, NEW i \in Slots, NEW src \in Address,
           NEW id \in PeerInvokeID, NEW seq \in SeqNumbers, NEW more \in BOOLEAN,
           NEW sv \in Service, Duplicate_Count \in Bytes,
           LaterSegment(t, i, src, id, seq, more, sv)
    PROVE  /\ Edited(t, tsm') \/ HandedOver(t, tsm', src, id, sv)
           /\ Duplicate_Count' \in Bytes
<1>1. CASE DuplicateSegment(t, i, src, id)
  BY <1>1, DuplicateSegmentEdits
<1>2. CASE NewSegment(t, i, src, id, seq, more, sv)
  BY <1>2, NewSegmentEdits
<1>3. CASE OutOfOrderSegment(t, i, src, id) \/ TooManySegments(t, i, src, id)
  <2>1. t.list[i] \in SlotType
    BY DEF TableType
  <2>2. /\ SetSlot(t, i, Restarted(t.list[i])) \in TableType
        /\ Kept(t, SetSlot(t, i, Restarted(t.list[i])))
    BY <2>1, RestartedType, SetSlotKept
  <2>3. Edited(t, tsm')
    BY <1>3, <2>2 DEF Edited, OutOfOrderSegment, TooManySegments
  <2> QED
    BY <1>3, <2>3, SmallValues DEF OutOfOrderSegment, TooManySegments
<1> QED
  BY <1>1, <1>2, <1>3 DEF LaterSegment

(* A segment of a request: every way in which the call may end.            *)
LEMMA SegmentEdits ==
    ASSUME WellFormed(tsm), Duplicate_Count \in Bytes, NEW src \in Address,
           NEW id \in PeerInvokeID, NEW seq \in SeqNumbers, NEW more \in BOOLEAN,
           NEW window \in Bytes, NEW sv \in Service,
           apdu_handler_confirmed_service_segment(src, id, seq, more, window, sv)
    PROVE  /\ LET t == tsm_get_peer_id(tsm, src, id).t
              IN \/ tsm' = t
                 \/ Edited(t, tsm')
                 \/ HandedOver(t, tsm', src, id, sv)
           /\ Duplicate_Count' \in Bytes
<1> DEFINE g == tsm_get_peer_id(tsm, src, id)
           i == tsm_find_invokeID_index(g.t, g.id)
<1>1. g.t \in TableType
  BY SmallValues, GetPeerWellFormed DEF WellFormed
<1>2. \/ tsm' = g.t /\ Duplicate_Count' = Duplicate_Count
      \/ i \in Slots /\ FirstSegment(g.t, i, src, id, seq, window)
      \/ i \in Slots /\ LaterSegment(g.t, i, src, id, seq, more, sv)
  BY DEF apdu_handler_confirmed_service_segment
<1> HIDE DEF g, i
<1>3. /\ tsm' = g.t \/ Edited(g.t, tsm') \/ HandedOver(g.t, tsm', src, id, sv)
      /\ Duplicate_Count' \in Bytes
  BY <1>1, <1>2, FirstSegmentEdits, LaterSegmentEdits
<1> QED
  BY <1>3 DEF g

LEMMA SegmentWellFormed ==
    ASSUME WellFormed(tsm), Duplicate_Count \in Bytes, NEW src \in Address,
           NEW id \in PeerInvokeID, NEW seq \in SeqNumbers, NEW more \in BOOLEAN,
           NEW window \in Bytes, NEW sv \in Service,
           apdu_handler_confirmed_service_segment(src, id, seq, more, window, sv)
    PROVE  WellFormed(tsm') /\ Duplicate_Count' \in Bytes
<1> DEFINE t == tsm_get_peer_id(tsm, src, id).t
<1>1. WellFormed(t)
  BY SmallValues, GetPeerWellFormed
<1>2. /\ tsm' = t \/ Edited(t, tsm') \/ HandedOver(t, tsm', src, id, sv)
      /\ Duplicate_Count' \in Bytes
  BY SegmentEdits
<1> HIDE DEF t
<1> QED
  BY <1>1, <1>2, EditedWellFormed, ServedWellFormed

LEMMA RequestWellFormed ==
    ASSUME WellFormed(tsm), NEW src \in Address, NEW id \in PeerInvokeID,
           NEW sv \in Service, apdu_handler_confirmed_service(src, id, sv)
    PROVE  WellFormed(tsm')
<1> DEFINE service == invoke_confirmed_service(tsm, src, id, sv)
<1>1. \/ \E x : tsm' = tsm_free_invoke_id_check(tsm, x, src)
      \/ tsm' = service.t
  BY DEF apdu_handler_confirmed_service
<1>2. WellFormed(service.t)
  BY ServiceWellFormed
<1> HIDE DEF service
<1> QED
  BY <1>1, <1>2, FreeCheckWellFormed

-----------------------------------------------------------------------------
(* Acknowledgements of the segments of a response.                         *)

LEMMA ResponseAckedEdits ==
    ASSUME tsm \in TableType, NEW i \in Slots, NEW seq \in SeqNumbers,
           NEW window \in Bytes, ResponseAcked(i, seq, window)
    PROVE  Edited(tsm, tsm')
<1> DEFINE slot == tsm.list[i]
           next == NextToSend(slot, seq)
           slid == [slot EXCEPT
                      !.InitialSequenceNumber = next % SEQ,
                      !.ActualWindowSize = window,
                      !.SegmentRetryCount = Retries,
                      !.SegmentTimer = SegTimeout]
           kept == [slot EXCEPT !.SegmentTimer = SegTimeout]
           done == [slot EXCEPT !.SegmentTimer = 0]
<1>1. slot \in SlotType
  BY DEF TableType
<1>2. next % SEQ \in SeqNumbers
  <2>1. slot.InitialSequenceNumber \in SeqNumbers
    BY <1>1 DEF SlotType
  <2>2. SEQ \in Nat \ {0}
    BY TsmConstants
  <2> HIDE DEF slot
  <2>3. (seq - slot.InitialSequenceNumber) % SEQ \in Int
    BY <2>1, <2>2 DEF SeqNumbers
  <2>4. next \in Int
    BY <2>1, <2>3 DEF NextToSend, SeqNumbers
  <2> HIDE DEF next
  <2> QED
    BY <2>2, <2>4 DEF SeqNumbers
<1>3. \/ tsm' = SetSlot(tsm, i, kept)
      \/ tsm' = SetSlot(tsm, i, slid)
      \/ tsm' = tsm_free_invoke_id_check(SetSlot(tsm, i, done),
                                         slot.InvokeID, NoAddress)
  BY DEF ResponseAcked
<1>4. /\ kept \in SlotType /\ done \in SlotType
      /\ kept.InvokeID = slot.InvokeID /\ kept.dest = slot.dest
      /\ done.InvokeID = slot.InvokeID /\ done.dest = slot.dest
  <2> HIDE DEF slot
  <2> QED
    BY <1>1, SmallValues DEF SlotType
<1>5. /\ slid \in SlotType
      /\ slid.InvokeID = slot.InvokeID /\ slid.dest = slot.dest
  <2> HIDE DEF slot, next
  <2> QED
    BY <1>1, <1>2, SmallValues DEF SlotType
<1> HIDE DEF kept, done, slid
<1>6. \A s \in {kept, slid, done} :
        SetSlot(tsm, i, s) \in TableType /\ Kept(tsm, SetSlot(tsm, i, s))
  BY <1>4, <1>5, SetSlotKept
<1> QED
  BY <1>3, <1>6 DEF Edited

LEMMA SegmentACKEdits ==
    ASSUME tsm \in TableType, NEW src \in Address, NEW id \in PeerInvokeID,
           NEW seq \in SeqNumbers, NEW window \in Bytes, NEW server \in BOOLEAN,
           tsm_segmentack_received(src, id, seq, window, server)
    PROVE  Edited(tsm, tsm')
<1>1. \/ tsm' = tsm
      \/ \E i \in Slots : ResponseAcked(i, seq, window)
      \/ \E x : tsm' = tsm_free_invoke_id_check(tsm, x, NoAddress)
  BY DEF tsm_segmentack_received
<1>2. Kept(tsm, tsm)
  BY DEF Kept
<1>3. CASE \E i \in Slots : ResponseAcked(i, seq, window)
  BY <1>3, ResponseAckedEdits
<1> QED
  BY <1>1, <1>2, <1>3 DEF Edited

-----------------------------------------------------------------------------
(* Requests of our own.                                                    *)

LEMMA SendRequestWellFormed ==
    ASSUME WellFormed(tsm), nullbuf \in ApduType, NEW dest \in Address,
           NEW fits \in BOOLEAN, SendRequest(dest, fits)
    PROVE  /\ WellFormed(tsm')
           /\ nullbuf' \in ApduType
           /\ \E id \in InvokeIDs :
                \/ UNCHANGED <<pending, asked>>
                \/ /\ pending' = pending \cup {<<dest, id>>}
                   /\ asked' = asked \cup {<<dest, id>>}
<1> DEFINE r == tsm_next_free_invokeID(tsm)
           i == tsm_find_invokeID_index(r.t, r.id)
           apdu == IF r.t.list[i].apdu = NULL THEN NULL ELSE ClientApdu(r.id)
           slot == [r.t.list[i] EXCEPT
                      !.state = AWAIT_CONFIRMATION, !.RetryCount = 0,
                      !.RequestTimer = ApduTimeout, !.dest = dest,
                      !.apdu = IF @ = NULL THEN NULL ELSE ClientApdu(r.id)]
<1>1. r.id # 0
  BY DEF SendRequest
<1>2. WellFormed(r.t) /\ r.id \in InvokeIDs /\ i \in Slots
  BY <1>1, NextFreeWellFormed
<1>3. \/ /\ tsm' = SetSlot(r.t, i, slot)
         /\ nullbuf' = IF slot.apdu = NULL THEN ClientApdu(r.id) ELSE nullbuf
         /\ pending' = pending \cup {<<dest, r.id>>}
         /\ asked' = asked \cup {<<dest, r.id>>}
      \/ /\ tsm' = tsm_free_invoke_id(r.t, r.id)
         /\ UNCHANGED <<nullbuf, pending, asked>>
  BY DEF SendRequest
<1>4. r.t.list[i] \in SlotType
  BY <1>2 DEF WellFormed, TableType
<1> HIDE DEF r, i
<1>5. ClientApdu(r.id) \in ApduType
  BY <1>2, SmallValues DEF ClientApdu, ApduType
<1>6. apdu \in ApduType
  BY <1>5, SmallValues
<1>7. slot = [r.t.list[i] EXCEPT
                !.state = AWAIT_CONFIRMATION, !.RetryCount = 0,
                !.RequestTimer = ApduTimeout, !.dest = dest, !.apdu = apdu]
  BY <1>4 DEF SlotType
<1>8. slot \in SlotType /\ slot.InvokeID = r.t.list[i].InvokeID
  <2> HIDE DEF slot, apdu
  <2> QED
    BY <1>4, <1>6, <1>7, SmallValues DEF SlotType
<1> HIDE DEF slot
<1>9. WellFormed(SetSlot(r.t, i, slot)) /\ WellFormed(tsm_free_invoke_id(r.t, r.id))
  BY <1>2, <1>8, SetSlotWellFormed, FreeWellFormed
<1> QED
  BY <1>2, <1>3, <1>5, <1>9

LEMMA PollWellFormed ==
    ASSUME WellFormed(tsm), NEW request, Poll(request)
    PROVE  WellFormed(tsm')
<1>1. tsm' = tsm \/ tsm' = tsm_free_invoke_id(tsm, request[2])
  BY DEF Poll
<1> QED
  BY <1>1, FreeWellFormed

-----------------------------------------------------------------------------
(* The timer.                                                              *)

LEMMA TickedType ==
    ASSUME NEW slot \in SlotType
    PROVE  /\ Ticked(slot) \in SlotType
           /\ Ticked(slot).InvokeID \in {0, slot.InvokeID}
<1> DEFINE later == [slot EXCEPT !.RequestTimer = Elapsed(slot.RequestTimer)]
           again == [slot EXCEPT !.RequestTimer = ApduTimeout,
                                 !.RetryCount = slot.RetryCount + 1]
           failed == [slot EXCEPT !.RequestTimer = 0, !.state = IDLE]
           resend(s) == [slot EXCEPT !.SegmentRetryCount = RetriesLeft(slot),
                                     !.SegmentTimer = SegTimeout, !.state = s]
           seglater == [slot EXCEPT !.SegmentTimer = Elapsed(slot.SegmentTimer)]
<1>1. /\ slot.RequestTimer \in Timers /\ slot.SegmentTimer \in Timers
      /\ slot.SegmentRetryCount \in Bytes /\ slot.RetryCount \in Bytes
      /\ slot.state \in TsmStates
  BY DEF SlotType
<1>2. \/ Ticked(slot) = later
      \/ slot.RetryCount < Retries /\ Ticked(slot) = again
      \/ Ticked(slot) = failed
      \/ Ticked(slot) = resend(IDLE) \/ Ticked(slot) = resend(slot.state)
      \/ Ticked(slot) = free_blob(FreeSlot(slot))
      \/ Ticked(slot) = seglater
      \/ Ticked(slot) = slot
  <2> USE DEF Ticked, SlotType, IDLE, AWAIT_CONFIRMATION,
              SEGMENTED_RESPONSE_SERVER, SEGMENTED_REQUEST_SERVER
  <2>1. CASE slot.state = AWAIT_CONFIRMATION /\ ~ Expires(slot)
    BY <2>1
  <2>2. CASE slot.state = AWAIT_CONFIRMATION /\ Expires(slot)
    BY <2>2
  <2>3. CASE slot.state = SEGMENTED_RESPONSE_SERVER /\ Expires(slot)
    BY <2>3
  <2>4. CASE slot.state = SEGMENTED_REQUEST_SERVER /\ Expires(slot)
    BY <2>4
  <2>5. CASE /\ slot.state \in {SEGMENTED_RESPONSE_SERVER, SEGMENTED_REQUEST_SERVER}
             /\ ~ Expires(slot)
    BY <2>5
  <2>6. CASE slot.state = IDLE
    BY <2>6
  <2> QED
    BY <1>1, <2>1, <2>2, <2>3, <2>4, <2>5, <2>6 DEF TsmStates
<1>3. Elapsed(slot.RequestTimer) \in Timers /\ Elapsed(slot.SegmentTimer) \in Timers
  BY <1>1, TsmConstants DEF Elapsed, Timers
<1>4. RetriesLeft(slot) \in Bytes
  BY <1>1, TsmConstants DEF RetriesLeft, Bytes
<1>5. slot.RetryCount < Retries => slot.RetryCount + 1 \in Bytes
  BY <1>1, TsmConstants DEF Bytes
<1>6. later \in SlotType /\ seglater \in SlotType /\ failed \in SlotType
  BY <1>3, SmallValues DEF SlotType
<1>7. slot.RetryCount < Retries => again \in SlotType
  BY <1>5, SmallValues DEF SlotType
<1>8. resend(IDLE) \in SlotType /\ resend(slot.state) \in SlotType
  BY <1>1, <1>4, SmallValues DEF SlotType
<1>9. /\ free_blob(FreeSlot(slot)) \in SlotType
      /\ free_blob(FreeSlot(slot)).InvokeID = 0
  BY FreedSlotType
<1>10. /\ later.InvokeID = slot.InvokeID /\ seglater.InvokeID = slot.InvokeID
       /\ failed.InvokeID = slot.InvokeID /\ again.InvokeID = slot.InvokeID
       /\ \A s \in TsmStates : resend(s).InvokeID = slot.InvokeID
  BY DEF SlotType
<1>11. IDLE \in TsmStates
  BY SmallValues
<1> HIDE DEF later, again, failed, resend, seglater
<1> QED
  BY <1>1, <1>2, <1>6, <1>7, <1>8, <1>9, <1>10, <1>11

LEMMA TimerWellFormed ==
    ASSUME WellFormed(tsm), tsm_timer_milliseconds
    PROVE  WellFormed(tsm')
<1>1. tsm \in TableType /\ UniqueIDs(tsm)
  BY DEF WellFormed
<1>2. tsm' = [tsm EXCEPT
                !.list = [i \in Slots |-> Ticked(tsm.list[i])],
                !.peers = [p \in PeerEntries |->
                    IF ForgottenPeer(tsm.peers[p]) THEN ZeroPeer ELSE tsm.peers[p]]]
  BY DEF tsm_timer_milliseconds
<1>3. \A i \in Slots : /\ Ticked(tsm.list[i]) \in SlotType
                       /\ Ticked(tsm.list[i]).InvokeID \in {0, tsm.list[i].InvokeID}
  BY <1>1, TickedType DEF TableType
<1>4. ZeroPeer \in PeerType
  BY SmallValues DEF ZeroPeer, PeerType
<1>5. tsm' \in TableType
  BY <1>1, <1>2, <1>3, <1>4 DEF TableType
<1>6. \A i \in Slots : tsm'.list[i] = Ticked(tsm.list[i])
  BY <1>1, <1>2 DEF TableType
<1> QED
  BY <1>1, <1>3, <1>5, <1>6, FreeingKeepsUnique

-----------------------------------------------------------------------------
(* The first inductive invariant.  The two parts need each other: the type *)
(* of the table lets tsm_next_free_invokeID find a free ID, and only the   *)
(* whole of TypeOK bounds what a handler writes into a slot.               *)

TypedAndUnique == TypeOK /\ UniqueInvokeIDs

(* All that a step must show, given that TypeOK holds before it.           *)
LEMMA KeepsInvariant ==
    ASSUME TypedAndUnique, WellFormed(tsm'), Duplicate_Count' \in Bytes,
           nullbuf' \in ApduType, refused' \subseteq pending',
           pending' \subseteq asked', asked' \subseteq Address \X InvokeIDs
    PROVE  TypedAndUnique'
BY DEF TypedAndUnique, TypeOK, UniqueInvokeIDs, WellFormed

LEMMA InitialTable ==
    ASSUME NEW id \in AnyInvokeID
    PROVE  WellFormed(tsm_invokeID_set(InitTable, id))
<1>1. ZeroSlot \in SlotType
  <2> DEFINE empty == <<>>
             slot == [InvokeID |-> 0, state |-> IDLE, dest |-> NoAddress,
                      RequestTimer |-> 0, RetryCount |-> 0,
                      SegmentTimer |-> 0, SegmentRetryCount |-> 0,
                      LastSequenceNumber |-> 0, InitialSequenceNumber |-> 0,
                      ActualWindowSize |-> 0, ReceivedSegmentsCount |-> 0,
                      blob |-> empty, apdu |-> NULL]
  <2>1. empty \in Seq(Payloads) /\ 0 \in Nat
    OBVIOUS
  <2>2. ZeroSlot = slot
    BY DEF ZeroSlot
  <2> HIDE DEF empty
  <2>3. slot \in SlotType
    BY <2>1, SmallValues DEF SlotType
  <2> QED
    BY <2>2, <2>3
<1>2. ZeroPeer \in PeerType
  BY SmallValues DEF ZeroPeer, PeerType
<1>3. 1 \in InvokeIDs
  BY TsmConstants DEF InvokeIDs
<1>4. ZeroSlot.InvokeID = 0
  BY DEF ZeroSlot
<1> HIDE DEF ZeroSlot
<1>5. InitTable \in TableType
  BY <1>1, <1>2, <1>3 DEF InitTable, TableType
<1> DEFINE t == tsm_invokeID_set(InitTable, id)
<1>6. t \in TableType /\ t.list = InitTable.list
  BY <1>3, <1>5 DEF tsm_invokeID_set, TableType, AnyInvokeID, InvokeIDs
<1>7. \A i \in Slots : t.list[i].InvokeID = 0
  BY <1>4, <1>6 DEF InitTable
<1> QED
  BY <1>6, <1>7 DEF WellFormed, UniqueIDs

(* What every call of the main loop preserves.                             *)
LEMMA StepKeepsTypedAndUnique ==
    ASSUME TypedAndUnique, [Next]_vars
    PROVE  TypedAndUnique'
<1>1. /\ WellFormed(tsm) /\ Duplicate_Count \in Bytes /\ nullbuf \in ApduType
      /\ refused \subseteq pending /\ pending \subseteq asked
      /\ asked \subseteq Address \X InvokeIDs
  BY DEF TypedAndUnique, TypeOK, UniqueInvokeIDs, WellFormed
<1>2. CASE SegmentArrives
  <2>1. PICK src \in Address, id \in PeerInvokeID, seq \in SeqNumbers,
             more \in BOOLEAN, window \in Bytes, sv \in Service :
           apdu_handler_confirmed_service_segment(src, id, seq, more, window, sv)
    BY <1>2, SmallValues, WindowSizes DEF SegmentArrives
  <2>2. WellFormed(tsm') /\ Duplicate_Count' \in Bytes
    BY <1>1, <2>1, SegmentWellFormed
  <2>3. UNCHANGED <<nullbuf, pending, refused, asked>>
    BY <2>1 DEF apdu_handler_confirmed_service_segment
  <2> QED
    BY <1>1, <2>2, <2>3, KeepsInvariant
<1>3. CASE RequestArrives
  <2>1. PICK src \in Address, id \in PeerInvokeID, sv \in Service :
           apdu_handler_confirmed_service(src, id, sv)
    BY <1>3 DEF RequestArrives
  <2>2. WellFormed(tsm')
    BY <1>1, <2>1, RequestWellFormed
  <2>3. UNCHANGED <<Duplicate_Count, nullbuf, pending, refused, asked>>
    BY <2>1 DEF apdu_handler_confirmed_service
  <2> QED
    BY <1>1, <2>2, <2>3, KeepsInvariant
<1>4. CASE SegmentACKArrives
  <2>1. PICK src \in Address, id \in PeerInvokeID, seq \in SeqNumbers,
             window \in Windows, server \in BOOLEAN :
           tsm_segmentack_received(src, id, seq, window, server)
    BY <1>4 DEF SegmentACKArrives
  <2>2. WellFormed(tsm')
    BY <1>1, <2>1, WindowSizes, SegmentACKEdits, EditedWellFormed DEF WellFormed
  <2>3. UNCHANGED <<Duplicate_Count, nullbuf, pending, refused, asked>>
    BY <2>1 DEF tsm_segmentack_received
  <2> QED
    BY <1>1, <2>2, <2>3, KeepsInvariant
<1>5. ASSUME NEW src \in Address, NEW id \in AnyInvokeID, NEW server \in BOOLEAN,
             ErrorReceived(src, id) \/ AbortReceived(src, id, server)
      PROVE  TypedAndUnique'
  <2>1. /\ tsm' = tsm_free_invoke_id_segmentation(tsm, src, id)
        /\ \/ refused' = refused
           \/ refused' = refused \cup ({<<src, id>>} \cap pending)
        /\ UNCHANGED <<Duplicate_Count, nullbuf, pending, asked>>
    BY <1>5 DEF ErrorReceived, AbortReceived
  <2>2. WellFormed(tsm')
    BY <1>1, <2>1, FreeSegmentationWellFormed
  <2>3. refused' \subseteq pending'
    BY <1>1, <2>1
  <2> QED
    BY <1>1, <2>1, <2>2, <2>3, KeepsInvariant
<1>6. CASE ClientAbortArrives
  BY <1>5, <1>6, SmallValues DEF ClientAbortArrives
<1>7. CASE AnswerArrives
  <2>1. PICK a \in asked : \/ AckReceived(a[1], a[2])
                           \/ ErrorReceived(a[1], a[2])
                           \/ AbortReceived(a[1], a[2], TRUE)
    BY <1>7 DEF AnswerArrives
  <2>2. a[1] \in Address /\ a[2] \in AnyInvokeID
    BY <1>1, SmallValues
  <2>3. CASE AckReceived(a[1], a[2])
    <3>1. /\ tsm' = tsm_free_invoke_id(tsm, a[2])
          /\ UNCHANGED <<Duplicate_Count, nullbuf, pending, refused, asked>>
      BY <2>3 DEF AckReceived
    <3>2. WellFormed(tsm')
      BY <1>1, <3>1, FreeWellFormed
    <3> QED
      BY <1>1, <3>1, <3>2, KeepsInvariant
  <2> QED
    BY <1>5, <2>1, <2>2, <2>3
<1>8. CASE tsm_timer_milliseconds
  <2>1. WellFormed(tsm')
    BY <1>1, <1>8, TimerWellFormed
  <2>2. UNCHANGED <<Duplicate_Count, nullbuf, pending, refused, asked>>
    BY <1>8 DEF tsm_timer_milliseconds
  <2> QED
    BY <1>1, <2>1, <2>2, KeepsInvariant
<1>9. ASSUME NEW dest \in Address, NEW fits \in BOOLEAN, SendRequest(dest, fits)
      PROVE  TypedAndUnique'
  <2>1. PICK id \in InvokeIDs : \/ UNCHANGED <<pending, asked>>
                                \/ /\ pending' = pending \cup {<<dest, id>>}
                                   /\ asked' = asked \cup {<<dest, id>>}
    BY <1>1, <1>9, SendRequestWellFormed
  <2>2. WellFormed(tsm') /\ nullbuf' \in ApduType
    BY <1>1, <1>9, SendRequestWellFormed
  <2>3. UNCHANGED <<Duplicate_Count, refused>>
    BY <1>9 DEF SendRequest
  <2>4. /\ refused' \subseteq pending' /\ pending' \subseteq asked'
        /\ asked' \subseteq Address \X InvokeIDs
    BY <1>1, <2>1, <2>3
  <2> QED
    BY <1>1, <2>2, <2>3, <2>4, KeepsInvariant
<1>10. ASSUME NEW request \in pending, Poll(request)
       PROVE  TypedAndUnique'
  <2>1. WellFormed(tsm')
    BY <1>1, <1>10, PollWellFormed
  <2>2. /\ pending' = pending \ {request} /\ refused' = refused \ {request}
        /\ UNCHANGED <<Duplicate_Count, nullbuf, asked>>
    BY <1>10 DEF Poll
  <2>3. refused' \subseteq pending' /\ pending' \subseteq asked'
    BY <1>1, <2>2
  <2> QED
    BY <1>1, <2>1, <2>2, <2>3, KeepsInvariant
<1>11. CASE UNCHANGED vars
  BY <1>11 DEF vars, TypedAndUnique, TypeOK, UniqueInvokeIDs
<1> QED
  BY <1>2, <1>3, <1>4, <1>6, <1>7, <1>8, <1>9, <1>10, <1>11
     DEF Next, ServerNext, ClientNext

(* Every field of every slot keeps the width tsm.h gives it and the invoke *)
(* ID counter never rests on the reserved 0, for every table size.         *)
THEOREM TypeCorrect == Spec => []TypeOK
<1>1. Init => TypedAndUnique
  BY InitialTable, SmallValues
     DEF Init, TypedAndUnique, TypeOK, UniqueInvokeIDs, WellFormed
<1>2. TypedAndUnique /\ [Next]_vars => TypedAndUnique'
  BY StepKeepsTypedAndUnique
<1>3. TypedAndUnique => TypeOK
  BY DEF TypedAndUnique
<1> QED
  BY <1>1, <1>2, <1>3, PTL DEF Spec

(* tsm_next_free_invokeID, and every call that keeps or gives back an ID,  *)
(* leave each invoke ID with at most one slot, for every table size, every *)
(* set of peers and every interleaving of received APDUs, timer ticks and  *)
(* requests of the application.                                            *)
THEOREM InvokeIDsUnique == Spec => []UniqueInvokeIDs
<1>1. Init => TypedAndUnique
  BY InitialTable, SmallValues
     DEF Init, TypedAndUnique, TypeOK, UniqueInvokeIDs, WellFormed
<1>2. TypedAndUnique /\ [Next]_vars => TypedAndUnique'
  BY StepKeepsTypedAndUnique
<1>3. TypedAndUnique => UniqueInvokeIDs
  BY DEF TypedAndUnique
<1> QED
  BY <1>1, <1>2, <1>3, PTL DEF Spec

-----------------------------------------------------------------------------
(***************************************************************************)
(* A device that only answers requests keeps its two tables in step: for   *)
(* every size of the tables, the peer entries in use and the slots in use  *)
(* are in one-to-one correspondence.                                       *)
(***************************************************************************)

(* Between the clearing of a peer entry and the freeing of its slot, while *)
(* the service handler runs, one slot has no entry.  x is its invoke ID,   *)
(* or 0 when there is no such slot.                                        *)
OwnedExcept(t, x) ==
    \A i \in Slots :
        t.list[i].InvokeID \notin {0, x} =>
            \E p \in PeerEntries :
                t.peers[p].InternalInvokeID = t.list[i].InvokeID

Paired(t, x) ==
    /\ WellFormed(t)
    /\ EntriesBound(t)
    /\ EntriesDistinct(t)
    /\ OwnedExcept(t, x)

-----------------------------------------------------------------------------
(* The operations on the tables.                                           *)

LEMMA KeptPaired ==
    ASSUME NEW t, NEW x, Paired(t, x), NEW u \in TableType, Kept(t, u)
    PROVE  Paired(u, x)
<1>1. WellFormed(u)
  BY KeptWellFormed DEF Paired
<1>2. EntriesBound(u)
  BY DEF Paired, Kept, EntriesBound
<1>3. EntriesDistinct(u)
  BY DEF Paired, Kept, EntriesDistinct
<1>4. OwnedExcept(u, x)
  BY DEF Paired, Kept, OwnedExcept
<1> QED
  BY <1>1, <1>2, <1>3, <1>4 DEF Paired

(* Clearing the entries of an ID leaves at most its slot without an entry. *)
LEMMA ClearPeerPaired ==
    ASSUME NEW t, Paired(t, 0), NEW x
    PROVE  Paired(tsm_clear_peer_id(t, x), x)
<1> DEFINE u == tsm_clear_peer_id(t, x)
<1>1. /\ WellFormed(u) /\ u.list = t.list
      /\ \A p \in PeerEntries :
           u.peers[p] = IF t.peers[p].InternalInvokeID = x
                        THEN ZeroPeer ELSE t.peers[p]
  BY ClearPeerWellFormed, ClearPeerEffect DEF Paired, WellFormed
<1> HIDE DEF u
<1>2. ZeroPeer.InternalInvokeID = 0
  BY DEF ZeroPeer
<1>3. EntriesBound(u)
  BY <1>1, <1>2 DEF Paired, EntriesBound
<1>4. EntriesDistinct(u)
  BY <1>1, <1>2 DEF Paired, EntriesDistinct
<1>5. OwnedExcept(u, x)
  BY <1>1, <1>2 DEF Paired, OwnedExcept
<1>6. Paired(u, x)
  BY <1>1, <1>3, <1>4, <1>5 DEF Paired
<1> QED
  BY <1>6 DEF u

LEMMA FreeCheckPaired ==
    ASSUME NEW t, NEW x, Paired(t, x), NEW id, NEW addr
    PROVE  Paired(tsm_free_invoke_id_check(t, id, addr), x)
<1> DEFINE u == tsm_free_invoke_id_check(t, id, addr)
<1>1. WellFormed(u)
  BY FreeCheckWellFormed DEF Paired
<1>2. \/ u = t
      \/ \E i \in Slots :
           /\ t.list[i].InvokeID = id
           /\ u.list[i].InvokeID = 0
           /\ \A j \in Slots : j # i => u.list[j] = t.list[j]
           /\ \A p \in PeerEntries :
                u.peers[p] = IF t.peers[p].InternalInvokeID = id
                             THEN ZeroPeer ELSE t.peers[p]
  BY FreeCheckEffect DEF Paired, WellFormed
<1> HIDE DEF u
<1>3. ASSUME NEW i \in Slots,
             t.list[i].InvokeID = id, u.list[i].InvokeID = 0,
             \A j \in Slots : j # i => u.list[j] = t.list[j],
             \A p \in PeerEntries :
                u.peers[p] = IF t.peers[p].InternalInvokeID = id
                             THEN ZeroPeer ELSE t.peers[p]
      PROVE  Paired(u, x)
  <2>1. ZeroPeer.InternalInvokeID = 0
    BY DEF ZeroPeer
  <2>2. EntriesBound(u)
    BY <1>3, <2>1 DEF Paired, EntriesBound
  <2>3. EntriesDistinct(u)
    BY <1>3, <2>1 DEF Paired, EntriesDistinct
  <2>4. OwnedExcept(u, x)
    <3>1. SUFFICES ASSUME NEW j \in Slots, u.list[j].InvokeID \notin {0, x}
                   PROVE  \E p \in PeerEntries :
                             u.peers[p].InternalInvokeID = u.list[j].InvokeID
      BY DEF OwnedExcept
    <3>2. j # i /\ u.list[j] = t.list[j]
      BY <1>3, <3>1
    <3>3. t.list[j].InvokeID # id
      BY <1>3, <3>1, <3>2 DEF Paired, WellFormed, UniqueIDs
    <3>4. PICK p \in PeerEntries :
             t.peers[p].InternalInvokeID = t.list[j].InvokeID
      BY <3>1, <3>2 DEF Paired, OwnedExcept
    <3> QED
      BY <1>3, <3>2, <3>3, <3>4
  <2> QED
    BY <1>1, <2>2, <2>3, <2>4 DEF Paired
<1>4. Paired(u, x)
  BY <1>2, <1>3
<1> QED
  BY <1>4 DEF u

(* The slot without an entry is freed at last.                             *)
LEMMA FreeCheckRepairs ==
    ASSUME NEW t, NEW x, Paired(t, x)
    PROVE  LET u == tsm_free_invoke_id_check(t, x, NoAddress)
           IN /\ Paired(u, 0)
              /\ x # 0 => \A j \in Slots : u.list[j].InvokeID # x
<1> DEFINE u == tsm_free_invoke_id_check(t, x, NoAddress)
           i == tsm_find_invokeID_index(t, x)
           c == tsm_clear_peer_id(t, x)
           slot == free_blob(FreeSlot(t.list[i]))
<1>1. Paired(u, x)
  BY FreeCheckPaired
<1>2. ASSUME x # 0 PROVE \A j \in Slots : u.list[j].InvokeID # x
  <2>1. CASE Uses(t, x)
    <3>1. i \in Slots /\ t.list[i].InvokeID = x
      BY <2>1, FindIndexFound
    <3>2. u = SetSlot(c, i, slot)
      BY <3>1 DEF tsm_free_invoke_id_check
    <3>3. c \in TableType /\ c.list = t.list
      BY ClearPeerEffect DEF Paired, WellFormed
    <3>4. t.list[i] \in SlotType
      BY <3>1 DEF Paired, WellFormed, TableType
    <3>5. slot \in SlotType /\ slot.InvokeID = 0
      BY <3>4, FreedSlotType
    <3> HIDE DEF u, i, c, slot
    <3>6. u.list[i] = slot /\ \A j \in Slots : j # i => u.list[j] = t.list[j]
      BY <3>1, <3>2, <3>3, <3>5, SetSlotEffect
    <3> QED
      BY <1>2, <3>1, <3>5, <3>6 DEF Paired, WellFormed, UniqueIDs
  <2>2. CASE ~ Uses(t, x)
    <3>1. u = t
      BY <2>2, FindIndexNone DEF tsm_free_invoke_id_check
    <3> QED
      BY <2>2, <3>1 DEF Uses
  <2> QED
    BY <2>1, <2>2
<1> HIDE DEF u
<1>3. OwnedExcept(u, 0)
  BY <1>1, <1>2 DEF Paired, OwnedExcept
<1>4. Paired(u, 0)
  BY <1>1, <1>3 DEF Paired
<1> QED
  BY <1>2, <1>4 DEF u

(* A new exchange takes a free slot with an unused ID and a free entry.    *)
LEMMA CreatePeerEffect ==
    ASSUME NEW t, WellFormed(t), NEW p \in PeerEntries,
           NEW src \in Address, NEW id \in AnyInvokeID,
           CreatePeer(t, p, src, id).id # 0
    PROVE  LET c == CreatePeer(t, p, src, id)
           IN /\ ~ Uses(t, c.id)
              /\ c.t.peers[p] = [PeerAddress |-> src, PeerInvokeID |-> id,
                                 InternalInvokeID |-> c.id]
              /\ \A q \in PeerEntries : q # p => c.t.peers[q] = t.peers[q]
              /\ \E i \in Slots :
                   /\ t.list[i].InvokeID = 0
                   /\ c.t.list[i].InvokeID = c.id
                   /\ c.t.list[i].dest = src /\ c.t.list[i].state = IDLE
                   /\ c.t.list[i].blob = t.list[i].blob
                   /\ \A j \in Slots : j # i => c.t.list[j] = t.list[j]
<1> DEFINE r == tsm_next_free_invokeID(t)
           i == tsm_find_invokeID_index(r.t, r.id)
           slot == [r.t.list[i] EXCEPT !.dest = src]
           entry == [PeerAddress |-> src, PeerInvokeID |-> id,
                     InternalInvokeID |-> r.id]
           c == CreatePeer(t, p, src, id)
<1>1. r.id # 0
  BY DEF CreatePeer
<1>2. /\ c.id = r.id
      /\ c.t = [SetSlot(r.t, i, slot) EXCEPT !.peers[p] = entry]
  BY <1>1 DEF CreatePeer
<1>3. tsm_transaction_available(t)
  BY <1>1 DEF tsm_next_free_invokeID
<1>4. /\ r.t \in TableType /\ ~ Uses(t, r.id) /\ r.t.peers = t.peers
      /\ \E k \in Slots :
           /\ t.list[k].InvokeID = 0
           /\ r.t.list[k].InvokeID = r.id /\ r.t.list[k].state = IDLE
           /\ r.t.list[k].blob = t.list[k].blob
           /\ \A j \in Slots : j # k => r.t.list[j] = t.list[j]
  BY <1>3, NextFreeEffect DEF WellFormed
<1>5. i \in Slots
  BY <1>1, NextFreeWellFormed
<1>6. r.t.list[i].InvokeID = r.id
  BY <1>4, <1>5, FoundSlot
<1> HIDE DEF r, i
<1>7. /\ t.list[i].InvokeID = 0
      /\ r.t.list[i].state = IDLE /\ r.t.list[i].blob = t.list[i].blob
      /\ \A j \in Slots : j # i => r.t.list[j] = t.list[j]
  BY <1>4, <1>5, <1>6 DEF Uses
<1>8. r.t.list[i] \in SlotType
  BY <1>4, <1>5 DEF TableType
<1>9. /\ slot \in SlotType /\ slot.InvokeID = r.id /\ slot.dest = src
      /\ slot.state = IDLE /\ slot.blob = t.list[i].blob
  BY <1>6, <1>7, <1>8 DEF SlotType
<1> HIDE DEF slot
<1>10. /\ SetSlot(r.t, i, slot) \in TableType
       /\ SetSlot(r.t, i, slot).list[i] = slot
       /\ \A j \in Slots : j # i => SetSlot(r.t, i, slot).list[j] = t.list[j]
       /\ SetSlot(r.t, i, slot).peers = t.peers
  BY <1>4, <1>5, <1>7, <1>9, SetSlotEffect
<1> HIDE DEF c, entry
<1>11. /\ c.t.list = SetSlot(r.t, i, slot).list
       /\ c.t.peers[p] = entry
       /\ \A q \in PeerEntries : q # p => c.t.peers[q] = t.peers[q]
  BY <1>2, <1>10 DEF TableType
<1>12. /\ ~ Uses(t, c.id)
       /\ c.t.peers[p] = [PeerAddress |-> src, PeerInvokeID |-> id,
                          InternalInvokeID |-> c.id]
  BY <1>2, <1>4, <1>11 DEF entry
<1>13. /\ t.list[i].InvokeID = 0 /\ c.t.list[i].InvokeID = c.id
       /\ c.t.list[i].dest = src /\ c.t.list[i].state = IDLE
       /\ c.t.list[i].blob = t.list[i].blob
       /\ \A j \in Slots : j # i => c.t.list[j] = t.list[j]
  BY <1>2, <1>5, <1>7, <1>9, <1>10, <1>11
<1> QED
  BY <1>5, <1>11, <1>12, <1>13 DEF c

LEMMA CreatePeerSlot ==
    ASSUME NEW t, WellFormed(t), NEW p \in PeerEntries,
           NEW src \in Address, NEW id \in AnyInvokeID,
           CreatePeer(t, p, src, id).id # 0
    PROVE  \E i \in Slots : /\ CreatePeer(t, p, src, id).t.list[i].InvokeID
                                 = CreatePeer(t, p, src, id).id
                            /\ CreatePeer(t, p, src, id).t.list[i].dest = src
<1> DEFINE c == CreatePeer(t, p, src, id)
<1>1. /\ ~ Uses(t, c.id)
      /\ c.t.peers[p] = [PeerAddress |-> src, PeerInvokeID |-> id,
                         InternalInvokeID |-> c.id]
      /\ \A q \in PeerEntries : q # p => c.t.peers[q] = t.peers[q]
      /\ \E i \in Slots :
           /\ t.list[i].InvokeID = 0
           /\ c.t.list[i].InvokeID = c.id
           /\ c.t.list[i].dest = src
           /\ \A j \in Slots : j # i => c.t.list[j] = t.list[j]
  BY CreatePeerEffect
<1> HIDE DEF c
<1>2. \E i \in Slots : c.t.list[i].InvokeID = c.id /\ c.t.list[i].dest = src
  BY <1>1
<1> QED
  BY <1>2 DEF c

LEMMA CreatePeerPaired ==
    ASSUME NEW t, NEW x, Paired(t, x), NEW p \in PeerEntries,
           NEW src \in Address, NEW id \in AnyInvokeID,
           t.peers[p].InternalInvokeID = 0,
           \A q \in PeerEntries : ~ PeerMatches(t, q, src, id)
    PROVE  Paired(CreatePeer(t, p, src, id).t, x)
<1> DEFINE c == CreatePeer(t, p, src, id)
<1>1. WellFormed(c.t)
  BY CreatePeerWellFormed DEF Paired
<1>2. CASE c.id = 0
  <2>1. c.t = t
    BY <1>2 DEF CreatePeer
  <2> QED
    BY <2>1
<1>3. CASE c.id # 0
  <2>1. /\ ~ Uses(t, c.id)
        /\ c.t.peers[p] = [PeerAddress |-> src, PeerInvokeID |-> id,
                           InternalInvokeID |-> c.id]
        /\ \A q \in PeerEntries : q # p => c.t.peers[q] = t.peers[q]
        /\ \E i \in Slots :
             /\ t.list[i].InvokeID = 0
             /\ c.t.list[i].InvokeID = c.id
             /\ c.t.list[i].dest = src
             /\ \A j \in Slots : j # i => c.t.list[j] = t.list[j]
    BY <1>3, CreatePeerEffect DEF Paired
  <2> HIDE DEF c
  <2>2. PICK i \in Slots :
             /\ t.list[i].InvokeID = 0
             /\ c.t.list[i].InvokeID = c.id
             /\ c.t.list[i].dest = src
             /\ \A j \in Slots : j # i => c.t.list[j] = t.list[j]
    BY <2>1
  <2>3. EntriesBound(c.t)
    <3>1. SUFFICES ASSUME NEW q \in PeerEntries, c.t.peers[q].InternalInvokeID # 0
                   PROVE  \E j \in Slots :
                            /\ c.t.list[j].InvokeID = c.t.peers[q].InternalInvokeID
                            /\ c.t.list[j].dest = c.t.peers[q].PeerAddress
      BY DEF EntriesBound
    <3>2. CASE q = p
      BY <2>1, <2>2, <3>2
    <3>3. CASE q # p
      <4>1. PICK j \in Slots : /\ t.list[j].InvokeID = t.peers[q].InternalInvokeID
                               /\ t.list[j].dest = t.peers[q].PeerAddress
        BY <2>1, <3>1, <3>3 DEF Paired, EntriesBound
      <4>2. j # i
        BY <2>1, <2>2, <3>1, <3>3, <4>1
      <4> QED
        BY <2>1, <2>2, <3>3, <4>1, <4>2
    <3> QED
      BY <3>2, <3>3
  <2>4. \A q \in PeerEntries : q # p => t.peers[q].InternalInvokeID # c.id
    BY <1>3, <2>1 DEF Paired, EntriesBound, Uses
  <2>5. EntriesDistinct(c.t)
    BY <2>1, <2>4 DEF Paired, EntriesDistinct, PeerMatches
  <2>6. OwnedExcept(c.t, x)
    <3>1. SUFFICES ASSUME NEW j \in Slots, c.t.list[j].InvokeID \notin {0, x}
                   PROVE  \E q \in PeerEntries :
                             c.t.peers[q].InternalInvokeID = c.t.list[j].InvokeID
      BY DEF OwnedExcept
    <3>2. CASE j = i
      BY <2>1, <2>2, <3>2
    <3>3. CASE j # i
      <4>1. PICK q \in PeerEntries :
               t.peers[q].InternalInvokeID = t.list[j].InvokeID
        BY <2>2, <3>1, <3>3 DEF Paired, OwnedExcept
      <4>2. q # p
        BY <2>2, <3>1, <3>3, <4>1
      <4> QED
        BY <2>1, <2>2, <3>3, <4>1, <4>2
    <3> QED
      BY <3>2, <3>3
  <2>7. Paired(c.t, x)
    BY <1>1, <2>3, <2>5, <2>6 DEF Paired
  <2> QED
    BY <2>7 DEF c
<1> QED
  BY <1>2, <1>3

(* tsm_get_peer_id returns the ID of a slot that talks to the same device. *)
LEMMA GetPeerPaired ==
    ASSUME NEW t, NEW x, Paired(t, x), NEW src \in Address, NEW id \in AnyInvokeID
    PROVE  LET g == tsm_get_peer_id(t, src, id)
           IN /\ Paired(g.t, x)
              /\ g.id # 0 => \E i \in Slots : /\ g.t.list[i].InvokeID = g.id
                                              /\ g.t.list[i].dest = src
<1> DEFINE found == FindPeer(t, src, id)
           free == FirstFreePeer(t)
           g == tsm_get_peer_id(t, src, id)
<1>1. CASE found \in PeerEntries
  <2>1. g.t = t /\ g.id = t.peers[found].InternalInvokeID
    BY <1>1 DEF tsm_get_peer_id
  <2>2. t.peers[found].InternalInvokeID # 0 /\ t.peers[found].PeerAddress = src
    BY <1>1, FindPeerFound DEF PeerMatches
  <2> HIDE DEF found, g
  <2>3. \E i \in Slots : /\ t.list[i].InvokeID = g.id
                         /\ t.list[i].dest = src
    BY <1>1, <2>1, <2>2 DEF Paired, EntriesBound
  <2> QED
    BY <2>1, <2>3 DEF g
<1>2. CASE found \notin PeerEntries /\ free \in PeerEntries
  <2>1. g = CreatePeer(t, free, src, id)
    BY <1>2 DEF tsm_get_peer_id
  <2>2. \A q \in PeerEntries : ~ PeerMatches(t, q, src, id)
    BY <1>2, FindPeerNone
  <2>3. t.peers[free].InternalInvokeID = 0
    BY <1>2, FirstFreePeerFree
  <2> HIDE DEF free
  <2>4. Paired(CreatePeer(t, free, src, id).t, x)
    BY <1>2, <2>2, <2>3, CreatePeerPaired
  <2>5. g.id # 0 => \E i \in Slots : /\ g.t.list[i].InvokeID = g.id
                                     /\ g.t.list[i].dest = src
    <3> HIDE DEF g
    <3> QED
      BY <1>2, <2>1, CreatePeerSlot DEF Paired
  <2> QED
    BY <2>1, <2>4, <2>5
<1>3. CASE found \notin PeerEntries /\ free \notin PeerEntries
  BY <1>3 DEF tsm_get_peer_id
<1> QED
  BY <1>1, <1>2, <1>3

LEMMA FreeSegmentationPaired ==
    ASSUME NEW t, Paired(t, 0), NEW src \in Address, NEW id \in AnyInvokeID
    PROVE  Paired(tsm_free_invoke_id_segmentation(t, src, id), 0)
<1> DEFINE g == tsm_get_peer_id(t, src, id)
<1>1. Paired(g.t, 0)
  BY GetPeerPaired
<1>2. tsm_free_invoke_id_segmentation(t, src, id)
        = tsm_free_invoke_id_check(g.t, g.id, src)
  BY DEF tsm_free_invoke_id_segmentation
<1> HIDE DEF g
<1> QED
  BY <1>1, <1>2, FreeCheckPaired

-----------------------------------------------------------------------------
(* The handlers.                                                           *)

LEMMA EditedPaired ==
    ASSUME NEW t, NEW x, Paired(t, x), NEW u, Edited(t, u)
    PROVE  Paired(u, x)
BY KeptPaired, FreeCheckPaired DEF Edited

(* The slot that an answer is written into already talks to that device.   *)
LEMMA ComplexAckPaired ==
    ASSUME NEW t, NEW x, Paired(t, x), NEW dest \in Address,
           NEW id \in PeerInvokeID, NEW sv \in Service
    PROVE  Paired(tsm_set_complexack_transaction(t, dest, id, sv).t, x)
<1> DEFINE g == tsm_get_peer_id(t, dest, id)
           i == tsm_find_invokeID_index(g.t, g.id)
           u == tsm_set_complexack_transaction(t, dest, id, sv).t
<1>1. /\ Paired(g.t, x)
      /\ g.id # 0 => \E k \in Slots : /\ g.t.list[k].InvokeID = g.id
                                      /\ g.t.list[k].dest = dest
  BY SmallValues, GetPeerPaired
<1>2. ComplexAckEnds(g, u, dest)
  BY ComplexAckEffect DEF Paired
<1>3. ASSUME i \in Slots PROVE g.t.list[i].InvokeID = g.id
  BY <1>1, <1>3, FoundSlot DEF Paired, WellFormed
<1> HIDE DEF g, u
<1>4. ASSUME u = g.t PROVE Paired(u, x)
  BY <1>1, <1>4
<1>5. ASSUME u # g.t PROVE Paired(u, x)
  <2>1. g.id # 0 /\ i \in Slots
    BY <1>2, <1>5 DEF ComplexAckEnds
  <2>2. PICK slot \in SlotType :
           /\ slot.InvokeID = g.t.list[i].InvokeID
           /\ slot.dest = dest
           /\ \/ u = SetSlot(g.t, i, slot)
              \/ u = tsm_free_invoke_id_check(SetSlot(g.t, i, slot), g.id, dest)
    BY <1>2, <1>5 DEF ComplexAckEnds
  <2> HIDE DEF i
  <2>3. g.t.list[i].dest = dest
    BY <1>1, <1>3, <2>1 DEF Paired, WellFormed, UniqueIDs
  <2>4. /\ SetSlot(g.t, i, slot) \in TableType
        /\ Kept(g.t, SetSlot(g.t, i, slot))
    BY <1>1, <2>1, <2>2, <2>3, SetSlotKept DEF Paired, WellFormed
  <2>5. Paired(SetSlot(g.t, i, slot), x)
    BY <1>1, <2>4, KeptPaired
  <2> QED
    BY <2>2, <2>5, FreeCheckPaired
<1> QED
  BY <1>4, <1>5 DEF u

LEMMA ServicePaired ==
    ASSUME NEW t, NEW x, Paired(t, x), NEW src \in Address,
           NEW id \in PeerInvokeID, NEW sv \in Service
    PROVE  Paired(invoke_confirmed_service(t, src, id, sv).t, x)
<1>1. \/ invoke_confirmed_service(t, src, id, sv).t = t
      \/ invoke_confirmed_service(t, src, id, sv)
            = tsm_set_complexack_transaction(t, src, id, sv)
  BY DEF invoke_confirmed_service, Result
<1> QED
  BY <1>1, ComplexAckPaired

(* The last segment of a request: its entry is cleared, the handler may    *)
(* start a segmented answer under the same peer and invoke ID, and only    *)
(* then is the slot of the request freed.                                  *)
LEMMA ServedPaired ==
    ASSUME NEW t, Paired(t, 0), NEW u, NEW src \in Address,
           NEW id \in PeerInvokeID, NEW sv \in Service, HandedOver(t, u, src, id, sv)
    PROVE  Paired(u, 0)
<1>1. PICK v \in TableType, x \in AnyInvokeID :
         /\ Kept(t, v)
         /\ u = tsm_free_invoke_id_check(
                  invoke_confirmed_service(tsm_clear_peer_id(v, x), src, id, sv).t,
                  x, NoAddress)
  BY DEF HandedOver
<1>2. Paired(tsm_clear_peer_id(v, x), x)
  BY <1>1, KeptPaired, ClearPeerPaired
<1>3. Paired(invoke_confirmed_service(tsm_clear_peer_id(v, x), src, id, sv).t, x)
  BY <1>2, ServicePaired
<1> QED
  BY <1>1, <1>3, FreeCheckRepairs

LEMMA SegmentPaired ==
    ASSUME Paired(tsm, 0), Duplicate_Count \in Bytes, NEW src \in Address,
           NEW id \in PeerInvokeID, NEW seq \in SeqNumbers, NEW more \in BOOLEAN,
           NEW window \in Bytes, NEW sv \in Service,
           apdu_handler_confirmed_service_segment(src, id, seq, more, window, sv)
    PROVE  Paired(tsm', 0)
<1> DEFINE t == tsm_get_peer_id(tsm, src, id).t
<1>1. Paired(t, 0)
  BY SmallValues, GetPeerPaired
<1>2. tsm' = t \/ Edited(t, tsm') \/ HandedOver(t, tsm', src, id, sv)
  BY SegmentEdits DEF Paired
<1> HIDE DEF t
<1> QED
  BY <1>1, <1>2, EditedPaired, ServedPaired

LEMMA RequestPaired ==
    ASSUME Paired(tsm, 0), NEW src \in Address, NEW id \in PeerInvokeID,
           NEW sv \in Service, apdu_handler_confirmed_service(src, id, sv)
    PROVE  Paired(tsm', 0)
<1> DEFINE service == invoke_confirmed_service(tsm, src, id, sv)
<1>1. \/ \E x : tsm' = tsm_free_invoke_id_check(tsm, x, src)
      \/ tsm' = service.t
  BY DEF apdu_handler_confirmed_service
<1>2. Paired(service.t, 0)
  BY ServicePaired
<1> HIDE DEF service
<1> QED
  BY <1>1, <1>2, FreeCheckPaired

(* The timer frees a slot together with its entry, and nothing else.       *)
LEMMA TickedKeeps ==
    ASSUME NEW slot \in SlotType
    PROVE  \/ /\ Ticked(slot).InvokeID = slot.InvokeID
              /\ Ticked(slot).dest = slot.dest
              /\ ~ (slot.state = SEGMENTED_REQUEST_SERVER /\ Expires(slot))
           \/ /\ Ticked(slot).InvokeID = 0
              /\ slot.state = SEGMENTED_REQUEST_SERVER /\ Expires(slot)
<1> USE DEF Ticked, SlotType, IDLE, AWAIT_CONFIRMATION,
            SEGMENTED_RESPONSE_SERVER, SEGMENTED_REQUEST_SERVER
<1>1. CASE slot.state = AWAIT_CONFIRMATION /\ ~ Expires(slot)
  BY <1>1
<1>2. CASE slot.state = AWAIT_CONFIRMATION /\ Expires(slot)
  BY <1>2
<1>3. CASE slot.state = SEGMENTED_RESPONSE_SERVER /\ Expires(slot)
  BY <1>3
<1>4. CASE slot.state = SEGMENTED_REQUEST_SERVER /\ Expires(slot)
  <2>1. Ticked(slot) = free_blob(FreeSlot(slot))
    BY <1>4
  <2> QED
    BY <1>4, <2>1, FreedSlotType
<1>5. CASE /\ slot.state \in {SEGMENTED_RESPONSE_SERVER, SEGMENTED_REQUEST_SERVER}
           /\ ~ Expires(slot)
  BY <1>5
<1>6. CASE slot.state = IDLE
  BY <1>6
<1> QED
  BY <1>1, <1>2, <1>3, <1>4, <1>5, <1>6 DEF TsmStates

LEMMA TimerPaired ==
    ASSUME Paired(tsm, 0), tsm_timer_milliseconds
    PROVE  Paired(tsm', 0)
<1> DEFINE Gone(i) == /\ tsm.list[i].state = SEGMENTED_REQUEST_SERVER
                      /\ Expires(tsm.list[i])
<1>1. /\ tsm \in TableType /\ UniqueIDs(tsm) /\ EntriesBound(tsm)
      /\ EntriesDistinct(tsm) /\ OwnedExcept(tsm, 0)
  BY DEF Paired, WellFormed
<1>2. WellFormed(tsm')
  BY TimerWellFormed DEF Paired
<1>3. tsm' = [tsm EXCEPT
                !.list = [i \in Slots |-> Ticked(tsm.list[i])],
                !.peers = [p \in PeerEntries |->
                    IF ForgottenPeer(tsm.peers[p]) THEN ZeroPeer ELSE tsm.peers[p]]]
  BY DEF tsm_timer_milliseconds
<1>4. \A i \in Slots :
        \/ /\ tsm'.list[i].InvokeID = tsm.list[i].InvokeID
           /\ tsm'.list[i].dest = tsm.list[i].dest
           /\ ~ Gone(i)
        \/ tsm'.list[i].InvokeID = 0 /\ Gone(i)
  <2>1. SUFFICES ASSUME NEW i \in Slots
                 PROVE  \/ /\ tsm'.list[i].InvokeID = tsm.list[i].InvokeID
                           /\ tsm'.list[i].dest = tsm.list[i].dest
                           /\ ~ Gone(i)
                        \/ tsm'.list[i].InvokeID = 0 /\ Gone(i)
    OBVIOUS
  <2>2. tsm.list[i] \in SlotType /\ tsm'.list[i] = Ticked(tsm.list[i])
    BY <1>1, <1>3 DEF TableType
  <2> QED
    BY <2>2, TickedKeeps
<1>5. \A p \in PeerEntries :
        tsm'.peers[p] = IF \E i \in Slots :
                             /\ Gone(i)
                             /\ tsm.list[i].InvokeID = tsm.peers[p].InternalInvokeID
                        THEN ZeroPeer ELSE tsm.peers[p]
  BY <1>1, <1>3 DEF TableType, ForgottenPeer
<1>6. ZeroPeer.InternalInvokeID = 0
  BY DEF ZeroPeer
<1> HIDE DEF Gone
<1>7. EntriesBound(tsm')
  <2>1. SUFFICES ASSUME NEW p \in PeerEntries, tsm'.peers[p].InternalInvokeID # 0
                 PROVE  \E i \in Slots :
                          /\ tsm'.list[i].InvokeID = tsm'.peers[p].InternalInvokeID
                          /\ tsm'.list[i].dest = tsm'.peers[p].PeerAddress
    BY DEF EntriesBound
  <2>2. /\ tsm'.peers[p] = tsm.peers[p]
        /\ \A i \in Slots : Gone(i) =>
             tsm.list[i].InvokeID # tsm.peers[p].InternalInvokeID
    BY <1>5, <1>6, <2>1
  <2>3. PICK i \in Slots : /\ tsm.list[i].InvokeID = tsm.peers[p].InternalInvokeID
                           /\ tsm.list[i].dest = tsm.peers[p].PeerAddress
    BY <1>1, <2>1, <2>2 DEF EntriesBound
  <2> QED
    BY <1>4, <2>2, <2>3
<1>8. EntriesDistinct(tsm')
  BY <1>1, <1>5, <1>6 DEF EntriesDistinct
<1>9. OwnedExcept(tsm', 0)
  <2>1. SUFFICES ASSUME NEW i \in Slots, tsm'.list[i].InvokeID # 0
                 PROVE  \E p \in PeerEntries :
                          tsm'.peers[p].InternalInvokeID = tsm'.list[i].InvokeID
    BY DEF OwnedExcept
  <2>2. ~ Gone(i) /\ tsm'.list[i].InvokeID = tsm.list[i].InvokeID
    BY <1>4, <2>1
  <2>3. PICK p \in PeerEntries :
           tsm.peers[p].InternalInvokeID = tsm.list[i].InvokeID
    BY <1>1, <2>1, <2>2 DEF OwnedExcept
  <2>4. \A j \in Slots : Gone(j) =>
           tsm.list[j].InvokeID # tsm.peers[p].InternalInvokeID
    BY <1>1, <2>1, <2>2, <2>3 DEF UniqueIDs
  <2> QED
    BY <1>5, <2>2, <2>3, <2>4
<1> QED
  BY <1>2, <1>7, <1>8, <1>9 DEF Paired

-----------------------------------------------------------------------------
(* The inductive invariant of a device that only answers.                  *)

InStep == TypedAndUnique /\ Paired(tsm, 0)

LEMMA StepKeepsInStep ==
    ASSUME InStep, [ServerNext]_vars
    PROVE  InStep'
<1>1. Paired(tsm, 0) /\ TypedAndUnique /\ Duplicate_Count \in Bytes
  BY DEF InStep, TypedAndUnique, TypeOK
<1>2. TypedAndUnique'
  BY <1>1, StepKeepsTypedAndUnique DEF Next
<1>3. SUFFICES Paired(tsm', 0)
  BY <1>2 DEF InStep, Paired, WellFormed, EntriesBound, EntriesDistinct,
              OwnedExcept, UniqueIDs
<1>4. CASE SegmentArrives
  <2>1. PICK src \in Address, id \in PeerInvokeID, seq \in SeqNumbers,
             more \in BOOLEAN, window \in Bytes, sv \in Service :
           apdu_handler_confirmed_service_segment(src, id, seq, more, window, sv)
    BY <1>4, SmallValues, WindowSizes DEF SegmentArrives
  <2> QED
    BY <1>1, <2>1, SegmentPaired
<1>5. CASE RequestArrives
  BY <1>1, <1>5, RequestPaired DEF RequestArrives
<1>6. CASE SegmentACKArrives
  <2>1. PICK src \in Address, id \in PeerInvokeID, seq \in SeqNumbers,
             window \in Windows, server \in BOOLEAN :
           tsm_segmentack_received(src, id, seq, window, server)
    BY <1>6 DEF SegmentACKArrives
  <2>2. Edited(tsm, tsm')
    BY <1>1, <2>1, WindowSizes, SegmentACKEdits DEF Paired, WellFormed
  <2> QED
    BY <1>1, <2>2, EditedPaired
<1>7. CASE ClientAbortArrives
  <2>1. PICK src \in Address, id \in PeerInvokeID : AbortReceived(src, id, FALSE)
    BY <1>7 DEF ClientAbortArrives
  <2>2. tsm' = tsm_free_invoke_id_segmentation(tsm, src, id)
    BY <2>1 DEF AbortReceived
  <2> QED
    BY <1>1, <2>2, SmallValues, FreeSegmentationPaired
<1>8. CASE tsm_timer_milliseconds
  BY <1>1, <1>8, TimerPaired
<1>9. CASE UNCHANGED vars
  <2>1. tsm' = tsm
    BY <1>9 DEF vars
  <2> QED
    BY <1>1, <2>1
<1> QED
  BY <1>4, <1>5, <1>6, <1>7, <1>8, <1>9 DEF ServerNext

LEMMA InitiallyInStep == Init => InStep
<1> SUFFICES ASSUME Init PROVE InStep
  OBVIOUS
<1> PICK id \in AnyInvokeID : tsm = tsm_invokeID_set(InitTable, id)
  BY DEF Init
<1>1. TypedAndUnique
  BY InitialTable, SmallValues
     DEF Init, TypedAndUnique, TypeOK, UniqueInvokeIDs, WellFormed
<1>2. /\ \A i \in Slots : tsm.list[i].InvokeID = 0
      /\ \A p \in PeerEntries : tsm.peers[p].InternalInvokeID = 0
  BY DEF InitTable, tsm_invokeID_set, ZeroSlot, ZeroPeer
<1>3. Paired(tsm, 0)
  BY <1>2, InitialTable DEF Paired, EntriesBound, EntriesDistinct, OwnedExcept
<1> QED
  BY <1>1, <1>3 DEF InStep

(* The lookups that tsm.c marks "shall not fail" do not fail in a device   *)
(* that sends no requests of its own: every peer entry in use names a slot *)
(* that talks to the same device, for every table size and set of peers.   *)
THEOREM EntriesAlwaysBound == ServerSpec => []PeerEntriesBound
<1>1. InStep /\ [ServerNext]_vars => InStep'
  BY StepKeepsInStep
<1>2. InStep => PeerEntriesBound
  BY DEF InStep, Paired, PeerEntriesBound
<1> QED
  BY InitiallyInStep, <1>1, <1>2, PTL DEF ServerSpec

(* In such a device two exchanges never share a slot and one exchange      *)
(* never has two entries: tsm_get_peer_id only creates what it cannot find *)
(* and every ID it creates is fresh.                                       *)
THEOREM EntriesAlwaysDistinct == ServerSpec => []PeerEntriesDistinct
<1>1. InStep /\ [ServerNext]_vars => InStep'
  BY StepKeepsInStep
<1>2. InStep => PeerEntriesDistinct
  BY DEF InStep, Paired, PeerEntriesDistinct
<1> QED
  BY InitiallyInStep, <1>1, <1>2, PTL DEF ServerSpec

(* In such a device no call leaks a slot: whatever the order of segments,  *)
(* acknowledgements, aborts, answers and timeouts, a slot in use can be    *)
(* found, and freed, through the peer table.                               *)
THEOREM NoSlotOrphaned == ServerSpec => []NoOrphanSlot
<1>1. InStep /\ [ServerNext]_vars => InStep'
  BY StepKeepsInStep
<1>2. InStep => NoOrphanSlot
  BY DEF InStep, Paired, OwnedExcept, NoOrphanSlot, SlotsOwned
<1> QED
  BY InitiallyInStep, <1>1, <1>2, PTL DEF ServerSpec

-----------------------------------------------------------------------------
(***************************************************************************)
(* What the slots of segmented exchanges hold, and what the service        *)
(* handlers are given, for every size of the tables, window and answer.    *)
(***************************************************************************)

(* What a slot in the middle of an exchange satisfies.                     *)
Receiving(s) ==
    s.state = SEGMENTED_REQUEST_SERVER =>
        /\ s.ReceivedSegmentsCount = Len(s.blob)
        /\ Len(s.blob) \in 1 .. MAX_SEGMENTS_ACCEPTED
        /\ s.LastSequenceNumber = (Len(s.blob) - 1) % SEQ
        /\ (s.LastSequenceNumber - s.InitialSequenceNumber) % SEQ
              < s.ActualWindowSize

Answering(s) ==
    s.state = SEGMENTED_RESPONSE_SERVER =>
        /\ s.apdu # NULL
        /\ s.InitialSequenceNumber < TotalSegments(s)
        /\ TotalSegments(s) \in 2 .. MAX_SEGMENTS_ACCEPTED

Consistent(t) == \A i \in Slots : Receiving(t.list[i]) /\ Answering(t.list[i])

(* Data received in order from one exchange of one peer.                   *)
Carries(blob, src, id) ==
    \A n \in 1 .. Len(blob) : blob[n] = Payload(src, id, (n - 1) % SEQ)

(* The data in a slot comes from the exchange of its peer entry, in order. *)
Tagged(t) ==
    \A i \in Slots, p \in PeerEntries :
        /\ t.list[i].state = SEGMENTED_REQUEST_SERVER
        /\ t.list[i].InvokeID # 0
        /\ t.peers[p].InternalInvokeID = t.list[i].InvokeID
        => Carries(t.list[i].blob, t.peers[p].PeerAddress,
                   t.peers[p].PeerInvokeID)

-----------------------------------------------------------------------------
(* Most operations leave a slot alone or take it out of its reassembly,    *)
(* and bind a peer entry to no slot that was in use.                       *)
Calm(t, u) ==
    /\ \A j \in Slots :
         \/ u.list[j] = t.list[j]
         \/ u.list[j].state # SEGMENTED_REQUEST_SERVER /\ Answering(u.list[j])
    /\ \A p \in PeerEntries :
         \/ u.peers[p] = t.peers[p]
         \/ u.peers[p].InternalInvokeID = 0
         \/ ~ Uses(t, u.peers[p].InternalInvokeID)

LEMMA CalmConsistent ==
    ASSUME NEW t, NEW u, Consistent(t), Calm(t, u)
    PROVE  Consistent(u)
BY DEF Consistent, Calm, Receiving

(* A slot that is still in its reassembly has the same data for the same   *)
(* exchange.                                                               *)
SameData(t, u) ==
    /\ \A j \in Slots :
         u.list[j].state = SEGMENTED_REQUEST_SERVER =>
            /\ t.list[j].state = SEGMENTED_REQUEST_SERVER
            /\ u.list[j].InvokeID = t.list[j].InvokeID
            /\ u.list[j].blob = t.list[j].blob
    /\ \A p \in PeerEntries :
         \/ u.peers[p] = t.peers[p]
         \/ u.peers[p].InternalInvokeID = 0
         \/ ~ Uses(t, u.peers[p].InternalInvokeID)

LEMMA SameDataTagged ==
    ASSUME NEW t, NEW u, Tagged(t), SameData(t, u)
    PROVE  Tagged(u)
<1>1. SUFFICES ASSUME NEW i \in Slots, NEW p \in PeerEntries,
                      u.list[i].state = SEGMENTED_REQUEST_SERVER,
                      u.list[i].InvokeID # 0,
                      u.peers[p].InternalInvokeID = u.list[i].InvokeID
               PROVE  Carries(u.list[i].blob, u.peers[p].PeerAddress,
                              u.peers[p].PeerInvokeID)
  BY DEF Tagged
<1>2. /\ t.list[i].state = SEGMENTED_REQUEST_SERVER
      /\ u.list[i].InvokeID = t.list[i].InvokeID
      /\ u.list[i].blob = t.list[i].blob
  BY <1>1 DEF SameData
<1>3. Uses(t, u.peers[p].InternalInvokeID)
  BY <1>1, <1>2 DEF Uses
<1>4. u.peers[p] = t.peers[p]
  BY <1>1, <1>3 DEF SameData
<1>. QED  BY <1>1, <1>2, <1>4 DEF Tagged

LEMMA CalmTagged ==
    ASSUME NEW t, NEW u, Tagged(t), Calm(t, u)
    PROVE  Tagged(u)
<1>1. SameData(t, u)
  BY DEF Calm, SameData
<1>. QED  BY <1>1, SameDataTagged

LEMMA IdleAnswers ==
    ASSUME NEW s, s.state \in {IDLE, AWAIT_CONFIRMATION}
    PROVE  /\ s.state # SEGMENTED_REQUEST_SERVER /\ Answering(s)
           /\ Receiving(s)
BY DEF Answering, Receiving, IDLE, AWAIT_CONFIRMATION,
       SEGMENTED_REQUEST_SERVER, SEGMENTED_RESPONSE_SERVER

LEMMA FreeCheckCalm ==
    ASSUME NEW t \in TableType, NEW id, NEW addr
    PROVE  Calm(t, tsm_free_invoke_id_check(t, id, addr))
<1> DEFINE u == tsm_free_invoke_id_check(t, id, addr)
<1>1. \/ u = t
      \/ \E i \in Slots :
           /\ u.list[i].state = IDLE
           /\ \A j \in Slots : j # i => u.list[j] = t.list[j]
           /\ \A p \in PeerEntries :
                u.peers[p] = IF t.peers[p].InternalInvokeID = id
                             THEN ZeroPeer ELSE t.peers[p]
  BY FreeCheckEffect
<1> HIDE DEF u
<1>2. ZeroPeer.InternalInvokeID = 0
  BY DEF ZeroPeer
<1>3. Calm(t, u)
  BY <1>1, <1>2, IdleAnswers DEF Calm
<1>. QED  BY <1>3 DEF u

LEMMA FreeCalm ==
    ASSUME NEW t \in TableType, NEW id
    PROVE  Calm(t, tsm_free_invoke_id(t, id))
<1> DEFINE u == tsm_free_invoke_id(t, id)
<1>1. /\ u.peers = t.peers
      /\ \A j \in Slots : u.list[j] = t.list[j] \/ u.list[j].state = IDLE
  BY FreeEffect
<1> HIDE DEF u
<1>2. Calm(t, u)
  BY <1>1, IdleAnswers DEF Calm
<1>. QED  BY <1>2 DEF u

LEMMA ClearPeerCalm ==
    ASSUME NEW t \in TableType, NEW id
    PROVE  Calm(t, tsm_clear_peer_id(t, id))
<1> DEFINE u == tsm_clear_peer_id(t, id)
<1>1. /\ u.list = t.list
      /\ \A p \in PeerEntries :
           u.peers[p] = IF t.peers[p].InternalInvokeID = id
                        THEN ZeroPeer ELSE t.peers[p]
  BY ClearPeerEffect
<1> HIDE DEF u
<1>2. ZeroPeer.InternalInvokeID = 0
  BY DEF ZeroPeer
<1>3. Calm(t, u)
  BY <1>1, <1>2 DEF Calm
<1>. QED  BY <1>3 DEF u

LEMMA NextFreeCalm ==
    ASSUME NEW t \in TableType
    PROVE  Calm(t, tsm_next_free_invokeID(t).t)
<1> DEFINE u == tsm_next_free_invokeID(t).t
<1>1. CASE tsm_transaction_available(t)
  <2>1. /\ u.peers = t.peers
        /\ \E i \in Slots : /\ u.list[i].state = IDLE
                            /\ \A j \in Slots : j # i => u.list[j] = t.list[j]
    BY <1>1, NextFreeEffect
  <2> HIDE DEF u
  <2>2. Calm(t, u)
    BY <2>1, IdleAnswers DEF Calm
  <2>. QED  BY <2>2 DEF u
<1>2. CASE ~ tsm_transaction_available(t)
  BY <1>2 DEF tsm_next_free_invokeID, Calm
<1>. QED  BY <1>1, <1>2

(* A slot written and then freed in the same call is left alone or IDLE.   *)
LEMMA WrittenAndFreedCalm ==
    ASSUME NEW t, WellFormed(t), NEW i \in Slots, NEW slot \in SlotType,
           slot.InvokeID = t.list[i].InvokeID, slot.InvokeID # 0,
           NEW addr, addr \in {NoAddress, slot.dest}
    PROVE  Calm(t, tsm_free_invoke_id_check(SetSlot(t, i, slot),
                                            slot.InvokeID, addr))
<1> DEFINE v == SetSlot(t, i, slot)
           k == tsm_find_invokeID_index(v, slot.InvokeID)
           c == tsm_clear_peer_id(v, slot.InvokeID)
           free == free_blob(FreeSlot(v.list[k]))
           u == tsm_free_invoke_id_check(v, slot.InvokeID, addr)
<1>1. t \in TableType /\ UniqueIDs(t)
  BY DEF WellFormed
<1>2. /\ v \in TableType /\ v.list[i] = slot /\ v.peers = t.peers
      /\ \A j \in Slots : j # i => v.list[j] = t.list[j]
  BY <1>1, SetSlotEffect
<1> HIDE DEF v
<1>3. Uses(v, slot.InvokeID)
  BY <1>2 DEF Uses
<1>4. k \in Slots /\ v.list[k].InvokeID = slot.InvokeID
  BY <1>3, FindIndexFound
<1>5. k = i
  <2> HIDE DEF k
  <2>. QED  BY <1>1, <1>2, <1>4 DEF UniqueIDs
<1>6. u = SetSlot(c, k, free)
  BY <1>2, <1>4, <1>5 DEF tsm_free_invoke_id_check
<1>7. /\ c \in TableType /\ c.list = v.list
      /\ \A p \in PeerEntries :
           c.peers[p] = IF v.peers[p].InternalInvokeID = slot.InvokeID
                        THEN ZeroPeer ELSE v.peers[p]
  BY <1>2, ClearPeerEffect
<1>8. free \in SlotType /\ free.state = IDLE
  BY <1>2, <1>5, FreedSlotType
<1> HIDE DEF k, c, free, u
<1>9. /\ u.list[i] = free
      /\ \A j \in Slots : j # i => u.list[j] = c.list[j]
      /\ u.peers = c.peers
  BY <1>5, <1>6, <1>7, <1>8, SetSlotEffect
<1>10. ZeroPeer.InternalInvokeID = 0
  BY DEF ZeroPeer
<1>11. Calm(t, u)
  BY <1>2, <1>7, <1>8, <1>9, <1>10, IdleAnswers DEF Calm
<1>. QED  BY <1>11 DEF u, v

LEMMA CreatePeerCalm ==
    ASSUME NEW t, WellFormed(t), NEW p \in PeerEntries,
           NEW src \in Address, NEW id \in AnyInvokeID
    PROVE  Calm(t, CreatePeer(t, p, src, id).t)
<1> DEFINE r == tsm_next_free_invokeID(t)
           i == tsm_find_invokeID_index(r.t, r.id)
           slot == [r.t.list[i] EXCEPT !.dest = src]
           entry == [PeerAddress |-> src, PeerInvokeID |-> id,
                     InternalInvokeID |-> r.id]
           u == CreatePeer(t, p, src, id).t
<1>1. CASE r.id = 0
  BY <1>1 DEF CreatePeer, Calm
<1>2. CASE r.id # 0
  <2>1. u = [SetSlot(r.t, i, slot) EXCEPT !.peers[p] = entry]
    BY <1>2 DEF CreatePeer
  <2>2. tsm_transaction_available(t)
    BY <1>2 DEF tsm_next_free_invokeID
  <2>3. /\ r.t \in TableType /\ ~ Uses(t, r.id) /\ r.t.peers = t.peers
        /\ \E k \in Slots :
             /\ t.list[k].InvokeID = 0
             /\ r.t.list[k].InvokeID = r.id
             /\ r.t.list[k].state = IDLE
             /\ \A j \in Slots : j # k => r.t.list[j] = t.list[j]
    BY <2>2, NextFreeEffect DEF WellFormed
  <2>4. i \in Slots
    BY <1>2, NextFreeWellFormed
  <2>5. r.t.list[i].InvokeID = r.id /\ r.t.list[i] \in SlotType
    BY <2>3, <2>4, FoundSlot
  <2> HIDE DEF r, i
  <2>6. /\ r.t.list[i].state = IDLE
        /\ \A j \in Slots : j # i => r.t.list[j] = t.list[j]
    BY <2>3, <2>4, <2>5 DEF Uses
  <2>7. slot \in SlotType /\ slot.state = IDLE
    BY <2>5, <2>6 DEF SlotType
  <2> HIDE DEF slot
  <2>8. /\ SetSlot(r.t, i, slot) \in TableType
        /\ SetSlot(r.t, i, slot).list[i] = slot
        /\ \A j \in Slots : j # i => SetSlot(r.t, i, slot).list[j] = t.list[j]
        /\ SetSlot(r.t, i, slot).peers = t.peers
    BY <2>3, <2>4, <2>6, <2>7, SetSlotEffect
  <2> HIDE DEF u, entry
  <2>9. /\ u.list = SetSlot(r.t, i, slot).list
        /\ u.peers[p] = entry
        /\ \A q \in PeerEntries : q # p => u.peers[q] = t.peers[q]
    BY <2>1, <2>8 DEF TableType
  <2>10. entry.InternalInvokeID = r.id
    BY DEF entry
  <2>11. Calm(t, u)
    BY <2>3, <2>7, <2>8, <2>9, <2>10, IdleAnswers DEF Calm
  <2>. QED  BY <2>11 DEF u
<1>. QED  BY <1>1, <1>2

LEMMA GetPeerCalm ==
    ASSUME NEW t, WellFormed(t), NEW src \in Address, NEW id \in AnyInvokeID
    PROVE  Calm(t, tsm_get_peer_id(t, src, id).t)
<1> DEFINE found == FindPeer(t, src, id)
           free == FirstFreePeer(t)
           g == tsm_get_peer_id(t, src, id)
<1>1. CASE found \notin PeerEntries /\ free \in PeerEntries
  <2>1. g = CreatePeer(t, free, src, id)
    BY <1>1 DEF tsm_get_peer_id
  <2>. QED  BY <1>1, <2>1, CreatePeerCalm
<1>2. CASE ~ (found \notin PeerEntries /\ free \in PeerEntries)
  <2>1. g.t = t
    BY <1>2 DEF tsm_get_peer_id
  <2>. QED  BY <2>1 DEF Calm
<1>. QED  BY <1>1, <1>2

(* The entry behind the ID that tsm_get_peer_id returns is that of the     *)
(* exchange it was asked for.                                              *)
LEMMA GetPeerEntry ==
    ASSUME NEW t, WellFormed(t), NEW src \in Address, NEW id \in AnyInvokeID,
           tsm_get_peer_id(t, src, id).id # 0
    PROVE  \E p \in PeerEntries :
             tsm_get_peer_id(t, src, id).t.peers[p] =
                [PeerAddress |-> src, PeerInvokeID |-> id,
                 InternalInvokeID |-> tsm_get_peer_id(t, src, id).id]
<1> DEFINE found == FindPeer(t, src, id)
           free == FirstFreePeer(t)
           g == tsm_get_peer_id(t, src, id)
<1>1. CASE found \in PeerEntries
  <2>1. g.t = t /\ g.id = t.peers[found].InternalInvokeID
    BY <1>1 DEF tsm_get_peer_id
  <2>2. /\ t.peers[found].PeerAddress = src
        /\ t.peers[found].PeerInvokeID = id
    BY <1>1, FindPeerFound DEF PeerMatches
  <2>3. t.peers[found] \in PeerType
    BY <1>1 DEF WellFormed, TableType
  <2> HIDE DEF found, g
  <2>4. g.t.peers[found] = [PeerAddress |-> src, PeerInvokeID |-> id,
                            InternalInvokeID |-> g.id]
    BY <2>1, <2>2, <2>3 DEF PeerType
  <2>. QED  BY <1>1, <2>4 DEF g
<1>2. CASE found \notin PeerEntries /\ free \in PeerEntries
  <2>1. g = CreatePeer(t, free, src, id)
    BY <1>2 DEF tsm_get_peer_id
  <2>2. CreatePeer(t, free, src, id).t.peers[free] =
           [PeerAddress |-> src, PeerInvokeID |-> id,
            InternalInvokeID |-> CreatePeer(t, free, src, id).id]
    BY <1>2, <2>1, CreatePeerEffect
  <2>. QED  BY <1>2, <2>1, <2>2
<1>3. CASE found \notin PeerEntries /\ free \notin PeerEntries
  BY <1>3 DEF tsm_get_peer_id
<1>. QED  BY <1>1, <1>2, <1>3

-----------------------------------------------------------------------------
(* An answer that is sent in segments: what tsm_set_complexack_transaction *)
(* accepts is cut into at least two segments and no more than the peer     *)
(* takes, so that the uint8_t sequence numbers do not wrap.                *)
LEMMA Quotient ==
    ASSUME NEW a \in Nat, NEW b \in Nat, b > 0
    PROVE  /\ a \div b \in Nat
           /\ (a \div b) * b <= a /\ a < (a \div b) * b + b
OBVIOUS

LEMMA FewSegments ==
    ASSUME NEW len \in Nat, len # 0, NEW max \in Nat, max <= MAX_APDU,
           max # HeaderSegmented, NEW segs \in Nat,
           segs <= MAX_SEGMENTS_ACCEPTED,
           get_apdu_max_segments(len, max) # 1,
           ~ TooMuchData(len, max, segs * max)
    PROVE  get_apdu_max_segments(len, max) \in 2 .. MAX_SEGMENTS_ACCEPTED
<1> DEFINE block == Minus32(max, HeaderSegmented)
           q == (len - 1) \div block
           n == get_apdu_max_segments(len, max)
<1>1. block \in Nat /\ block > 0
  BY SegmentSizes DEF Minus32
<1>2. block = max - HeaderSegmented \/ max < HeaderSegmented
  BY SegmentSizes DEF Minus32
<1>3. n = q + 1
  BY SegmentSizes DEF get_apdu_max_segments, get_apdu_header_typical_size, Minus32
<1>4. len + n * HeaderSegmented <= segs * max
  BY <1>1, <1>3, SegmentSizes, Quotient
     DEF TooMuchData, get_apdu_header_typical_size
<1> HIDE DEF block, n
<1>5. q \in Nat /\ q * block <= len - 1
  BY <1>1, Quotient
<1> HIDE DEF q
<1>6. n >= 2 /\ n \in Nat
  BY <1>3, <1>5 DEF n
<1>7. CASE max < HeaderSegmented
  <2>1. n * HeaderSegmented <= segs * max
    BY <1>4, <1>6, SegmentSizes
  <2>2. segs * max <= segs * HeaderSegmented
    BY <1>7, SegmentSizes
  <2>3. n <= segs
    BY <1>6, <2>1, <2>2, SegmentSizes
  <2>. QED  BY <1>6, <2>3, SegmentSizes DEF n
<1>8. CASE block = max - HeaderSegmented
  <2>1. q * block = q * max - q * HeaderSegmented
    BY <1>5, <1>8, SegmentSizes
  <2>2. n * HeaderSegmented = q * HeaderSegmented + HeaderSegmented
    BY <1>3, <1>5, SegmentSizes
  <2>3. q * max < segs * max
    BY <1>4, <1>5, <2>1, <2>2, SegmentSizes
  <2>4. q < segs
    BY <1>5, <2>3
  <2>. QED  BY <1>3, <1>5, <1>6, <2>4, SegmentSizes DEF n
<1>. QED  BY <1>2, <1>7, <1>8

LEMMA ComplexAckCalm ==
    ASSUME NEW t, WellFormed(t), NEW dest \in Address, NEW id \in PeerInvokeID,
           NEW sv \in Service, sv.len # 0, sv.accepts
    PROVE  Calm(tsm_get_peer_id(t, dest, id).t,
                tsm_set_complexack_transaction(t, dest, id, sv).t)
<1> DEFINE g == tsm_get_peer_id(t, dest, id)
           i == tsm_find_invokeID_index(g.t, g.id)
           apdu_max == bacnet_calc_apdu_max(sv.max_resp)
           total_max == bacnet_calc_transmittable_length(
                          sv.max_resp, sv.max_segs, sv.accepts)
           segments == get_apdu_max_segments(sv.len, apdu_max)
           apdu == [len |-> sv.len, max |-> apdu_max, id |-> id]
           slot == [g.t.list[i] EXCEPT
                      !.apdu = [len |-> sv.len, max |-> apdu_max, id |-> id],
                      !.dest = dest, !.RetryCount = Retries,
                      !.ActualWindowSize = 1, !.InitialSequenceNumber = 0]
           started == [slot EXCEPT
                      !.state = SEGMENTED_RESPONSE_SERVER,
                      !.SegmentRetryCount = Retries,
                      !.RequestTimer = 0, !.SegmentTimer = SegTimeout]
           freed == tsm_free_invoke_id_check(SetSlot(g.t, i, slot), g.id, dest)
           u == tsm_set_complexack_transaction(t, dest, id, sv).t
<1>1. WellFormed(g.t) /\ g.t \in TableType
  BY SmallValues, GetPeerWellFormed DEF WellFormed
<1>2. \/ u = g.t
      \/ g.id # 0 /\ i \in Slots /\ u = freed
      \/ /\ g.id # 0 /\ i \in Slots /\ segments # 1
         /\ ~ TooMuchData(sv.len, apdu_max, total_max)
         /\ u = SetSlot(g.t, i, started)
  BY DEF tsm_set_complexack_transaction, Result
<1>3. /\ sv.len \in Nat /\ sv.max_resp \in Nat /\ sv.max_segs \in Nat
      /\ apdu_max \in Nat /\ apdu_max <= MAX_APDU
      /\ apdu_max # HeaderSegmented
  BY ServiceType, AnswerSizes, SegmentSizes DEF bacnet_calc_apdu_max, MinOf
<1>4. \E segs \in Nat : /\ segs <= MAX_SEGMENTS_ACCEPTED
                        /\ total_max = segs * apdu_max
  <2>1. /\ bacnet_calc_max_segments(sv.max_segs) \in Nat
        /\ bacnet_calc_max_segments(sv.max_segs) <= MAX_SEGMENTS_ACCEPTED
    BY <1>3, SegmentSizes DEF bacnet_calc_max_segments, MinOf
  <2>2. total_max = bacnet_calc_max_segments(sv.max_segs) * apdu_max
    BY DEF bacnet_calc_transmittable_length
  <2>. QED  BY <2>1, <2>2
<1> HIDE DEF apdu_max, total_max
<1>5. ASSUME segments # 1, ~ TooMuchData(sv.len, apdu_max, total_max)
      PROVE  segments \in 2 .. MAX_SEGMENTS_ACCEPTED
  BY <1>3, <1>4, <1>5, FewSegments
<1>6. ASSUME g.id # 0, i \in Slots
      PROVE  /\ g.t.list[i] \in SlotType /\ g.t.list[i].InvokeID = g.id
             /\ slot \in SlotType /\ slot.InvokeID = g.id /\ slot.dest = dest
             /\ slot.apdu = apdu /\ slot.InitialSequenceNumber = 0
  <2>1. g.t.list[i] \in SlotType /\ g.t.list[i].InvokeID = g.id
    BY <1>1, <1>6, FoundSlot
  <2> HIDE DEF g, i
  <2>2. [len |-> sv.len, max |-> apdu_max, id |-> id] \in ApduType
    BY <1>3, SmallValues DEF ApduType
  <2>. QED  BY <2>1, <2>2, SmallValues DEF SlotType
<1>7. apdu.len = sv.len /\ apdu.max = apdu_max /\ apdu # NULL
  BY <1>3 DEF NULL
<1> HIDE DEF g, i, slot, apdu, freed, u
<1>8. CASE g.id # 0 /\ i \in Slots /\ u = freed
  <2>1. u = tsm_free_invoke_id_check(SetSlot(g.t, i, slot), slot.InvokeID, dest)
    BY <1>6, <1>8 DEF freed
  <2>2. Calm(g.t, tsm_free_invoke_id_check(SetSlot(g.t, i, slot),
                                           slot.InvokeID, dest))
    BY <1>1, <1>6, <1>8, WrittenAndFreedCalm
  <2>. QED  BY <2>1, <2>2 DEF g, u
<1>9. CASE /\ g.id # 0 /\ i \in Slots /\ segments # 1
           /\ ~ TooMuchData(sv.len, apdu_max, total_max)
           /\ u = SetSlot(g.t, i, started)
  <2>1. slot \in SlotType /\ slot.apdu = apdu /\ slot.InitialSequenceNumber = 0
    BY <1>6, <1>9
  <2>2. /\ started \in SlotType
        /\ started.state = SEGMENTED_RESPONSE_SERVER
        /\ started.apdu = apdu /\ started.InitialSequenceNumber = 0
    BY <2>1, SmallValues DEF SlotType
  <2> HIDE DEF started
  <2>3. TotalSegments(started) = segments
    BY <1>7, <2>2 DEF TotalSegments
  <2>4. segments \in 2 .. MAX_SEGMENTS_ACCEPTED
    BY <1>5, <1>9
  <2> HIDE DEF segments
  <2>5. Answering(started)
    BY <1>7, <2>2, <2>3, <2>4, SegmentSizes DEF Answering
  <2>6. /\ u.list[i] = started /\ u.peers = g.t.peers
        /\ \A j \in Slots : j # i => u.list[j] = g.t.list[j]
    BY <1>1, <1>9, <2>2, SetSlotEffect
  <2>7. Calm(g.t, u)
    BY <1>9, <2>2, <2>5, <2>6
       DEF Calm, SEGMENTED_REQUEST_SERVER, SEGMENTED_RESPONSE_SERVER
  <2>. QED  BY <2>7 DEF g, u
<1>10. CASE u = g.t
  <2>1. Calm(g.t, u)
    BY <1>10 DEF Calm
  <2>. QED  BY <2>1 DEF g, u
<1>. QED  BY <1>2, <1>8, <1>9, <1>10

LEMMA ServiceKeeps ==
    ASSUME NEW t, WellFormed(t), NEW src \in Address, NEW id \in PeerInvokeID,
           NEW sv \in Service
    PROVE  LET u == invoke_confirmed_service(t, src, id, sv).t
           IN /\ Consistent(t) => Consistent(u)
              /\ Tagged(t) => Tagged(u)
              /\ \A j \in Slots : u.list[j].state = SEGMENTED_REQUEST_SERVER
                                    => u.list[j] = t.list[j]
<1> DEFINE u == invoke_confirmed_service(t, src, id, sv).t
           g == tsm_get_peer_id(t, src, id)
<1>1. \/ u = t
      \/ /\ sv.len # 0 /\ sv.accepts
         /\ u = tsm_set_complexack_transaction(t, src, id, sv).t
  <2>1. /\ sv.len \in Nat /\ HeaderUnsegmented \in Nat /\ sv.accepts \in BOOLEAN
        /\ bacnet_calc_apdu_max(sv.max_resp) \in Nat
    BY ServiceType, SegmentSizes DEF bacnet_calc_apdu_max, MinOf
  <2>2. ASSUME sv.len # 0, sv.accepts
        PROVE  \/ u = t
               \/ u = tsm_set_complexack_transaction(t, src, id, sv).t
    BY <2>1, <2>2 DEF invoke_confirmed_service, Result
  <2>3. ASSUME sv.len = 0 \/ ~ sv.accepts
        PROVE  u = t
    BY <2>1, <2>3 DEF invoke_confirmed_service, Result
  <2>. QED  BY <2>1, <2>2, <2>3
<1>2. CASE u = t
  BY <1>2
<1>3. CASE /\ sv.len # 0 /\ sv.accepts
           /\ u = tsm_set_complexack_transaction(t, src, id, sv).t
  <2>1. Calm(t, g.t)
    BY SmallValues, GetPeerCalm
  <2>2. Calm(g.t, u)
    BY <1>3, ComplexAckCalm
  <2> HIDE DEF u, g
  <2>3. /\ Consistent(t) => Consistent(u)
        /\ Tagged(t) => Tagged(u)
    BY <2>1, <2>2, CalmConsistent, CalmTagged
  <2>4. \A j \in Slots : u.list[j].state = SEGMENTED_REQUEST_SERVER
                           => u.list[j] = t.list[j]
    BY <2>1, <2>2 DEF Calm
  <2>. QED  BY <2>3, <2>4 DEF u
<1>. QED  BY <1>1, <1>2, <1>3

-----------------------------------------------------------------------------
(* The segments of a request.                                              *)

(* Sequence numbers modulo SEQ: a difference grows by one or starts again. *)
LEMMA Remainder ==
    ASSUME NEW a \in Int, a < SEQ, 0 - SEQ < a
    PROVE  a % SEQ = IF a >= 0 THEN a ELSE a + SEQ
<1>1. SEQ \in Nat /\ SEQ > 0
  BY TsmConstants
<1>. QED  BY <1>1

LEMMA NextInWindow ==
    ASSUME NEW last \in SeqNumbers, NEW first \in SeqNumbers,
           NEW window \in Bytes, (last - first) % SEQ < window,
           NEW seq, seq = (last + 1) % SEQ
    PROVE  /\ seq # (first + window) % SEQ => (seq - first) % SEQ < window
           /\ (seq - seq) % SEQ < window
<1>1. /\ SEQ \in Nat /\ SEQ > 0 /\ last \in Nat /\ first \in Nat
      /\ last < SEQ /\ first < SEQ /\ window \in Nat
  BY TsmConstants DEF SeqNumbers, Bytes
<1>2. (last - first) % SEQ = IF last >= first THEN last - first
                             ELSE (last - first) + SEQ
  BY <1>1, Remainder
<1>3. seq = IF last + 1 = SEQ THEN 0 ELSE last + 1
  BY <1>1
<1>4. (seq - first) % SEQ = IF seq >= first THEN seq - first
                            ELSE (seq - first) + SEQ
  BY <1>1, <1>3, Remainder
<1>5. (seq - seq) % SEQ = 0 /\ window > 0
  BY <1>1, <1>2, <1>3, Remainder
<1>6. ASSUME (seq - first) % SEQ >= window
      PROVE  seq = (first + window) % SEQ
  <2>1. first + window = seq \/ first + window = seq + SEQ
    BY <1>1, <1>2, <1>3, <1>4, <1>6
  <2>2. seq % SEQ = seq /\ (seq + SEQ) % SEQ = seq
    BY <1>1, <1>3
  <2>. QED  BY <2>1, <2>2
<1>7. (seq - first) % SEQ \in Int
  BY <1>1, <1>3, <1>4
<1>. QED  BY <1>1, <1>5, <1>6, <1>7

(* The slot after the next segment in order.                               *)
NextSlot(s, src, id, seq) ==
    LET last == seq = (s.InitialSequenceNumber + s.ActualWindowSize) % SEQ
        re == Restarted(s)
    IN [re EXCEPT
          !.ReceivedSegmentsCount = re.ReceivedSegmentsCount + 1,
          !.LastSequenceNumber = seq,
          !.blob = Append(re.blob, Payload(src, id, seq)),
          !.InitialSequenceNumber = IF last THEN seq ELSE re.InitialSequenceNumber]

LEMMA RestartedFields ==
    ASSUME NEW s \in SlotType
    PROVE  LET re == Restarted(s)
           IN /\ re \in SlotType
              /\ re.state \in {IDLE, s.state}
              /\ re.InvokeID = s.InvokeID /\ re.dest = s.dest
              /\ re.blob = s.blob /\ re.apdu = s.apdu
              /\ re.ReceivedSegmentsCount = s.ReceivedSegmentsCount
              /\ re.LastSequenceNumber = s.LastSequenceNumber
              /\ re.InitialSequenceNumber = s.InitialSequenceNumber
              /\ re.ActualWindowSize = s.ActualWindowSize
BY RestartedType DEF Restarted, SlotType

LEMMA NextSlotEffect ==
    ASSUME NEW s \in SlotType, s.state = SEGMENTED_REQUEST_SERVER, Receiving(s),
           NEW src \in Address, NEW id \in PeerInvokeID, NEW seq \in SeqNumbers,
           seq = (s.LastSequenceNumber + 1) % SEQ,
           s.ReceivedSegmentsCount + 1 <= MAX_SEGMENTS_ACCEPTED
    PROVE  LET new == NextSlot(s, src, id, seq)
           IN /\ new \in SlotType
              /\ new.state \in {IDLE, SEGMENTED_REQUEST_SERVER}
              /\ new.InvokeID = s.InvokeID /\ new.dest = s.dest
              /\ new.blob = Append(s.blob, Payload(src, id, seq))
              /\ new.ActualWindowSize = s.ActualWindowSize
              /\ seq = Len(s.blob) % SEQ
              /\ Receiving(new) /\ Answering(new)
<1> DEFINE re == Restarted(s)
           last == seq = (s.InitialSequenceNumber + s.ActualWindowSize) % SEQ
           data == Append(re.blob, Payload(src, id, seq))
           first == IF last THEN seq ELSE re.InitialSequenceNumber
           new == NextSlot(s, src, id, seq)
<1>1. /\ re \in SlotType
      /\ re.state \in {IDLE, s.state}
      /\ re.InvokeID = s.InvokeID /\ re.dest = s.dest
      /\ re.blob = s.blob
      /\ re.ReceivedSegmentsCount = s.ReceivedSegmentsCount
      /\ re.InitialSequenceNumber = s.InitialSequenceNumber
      /\ re.ActualWindowSize = s.ActualWindowSize
  BY RestartedFields
<1>2. /\ s.blob \in Seq(Payloads) /\ s.ReceivedSegmentsCount \in Nat
      /\ s.InitialSequenceNumber \in SeqNumbers
      /\ s.LastSequenceNumber \in SeqNumbers
      /\ s.ActualWindowSize \in Bytes
  BY DEF SlotType
<1>3. new = [re EXCEPT !.ReceivedSegmentsCount = re.ReceivedSegmentsCount + 1,
                       !.LastSequenceNumber = seq, !.blob = data,
                       !.InitialSequenceNumber = first]
  BY DEF NextSlot
<1> HIDE DEF re, new
<1>4. Payload(src, id, seq) \in Payloads
  BY DEF Payload, Payloads
<1>5. /\ data \in Seq(Payloads) /\ Len(data) = Len(s.blob) + 1
      /\ data = Append(s.blob, Payload(src, id, seq))
  BY <1>1, <1>2, <1>4
<1>6. first \in SeqNumbers /\ re.ReceivedSegmentsCount + 1 \in Nat
  BY <1>1, <1>2
<1> HIDE DEF data, first
<1>7. /\ new \in SlotType /\ new.state = re.state
      /\ new.InvokeID = s.InvokeID /\ new.dest = s.dest
      /\ new.blob = data /\ new.LastSequenceNumber = seq
      /\ new.InitialSequenceNumber = first
      /\ new.ActualWindowSize = s.ActualWindowSize
      /\ new.ReceivedSegmentsCount = s.ReceivedSegmentsCount + 1
  BY <1>1, <1>3, <1>5, <1>6 DEF SlotType
<1>8. /\ s.ReceivedSegmentsCount = Len(s.blob)
      /\ Len(s.blob) \in 1 .. MAX_SEGMENTS_ACCEPTED
      /\ s.LastSequenceNumber = (Len(s.blob) - 1) % SEQ
      /\ (s.LastSequenceNumber - s.InitialSequenceNumber) % SEQ
            < s.ActualWindowSize
  BY DEF Receiving
<1>9. seq = Len(s.blob) /\ Len(s.blob) % SEQ = Len(s.blob)
  <2>1. /\ SEQ \in Nat /\ MAX_SEGMENTS_ACCEPTED \in Nat
        /\ MAX_SEGMENTS_ACCEPTED < SEQ
    BY TsmConstants, SegmentSizes
  <2> DEFINE n == Len(s.blob)
  <2>2. n \in Nat /\ n >= 1 /\ n + 1 <= MAX_SEGMENTS_ACCEPTED
    BY <1>2, <1>8
  <2>3. /\ s.LastSequenceNumber = (n - 1) % SEQ
        /\ seq = (s.LastSequenceNumber + 1) % SEQ
    BY <1>8
  <2> HIDE DEF n
  <2>4. n < SEQ /\ n - 1 \in Int /\ 0 - SEQ < n - 1 /\ n - 1 < SEQ /\ 0 - SEQ < n
    BY <2>1, <2>2
  <2>5. (n - 1) % SEQ = n - 1
    BY <2>2, <2>4, Remainder
  <2>6. n % SEQ = n
    BY <2>2, <2>4, Remainder
  <2>7. (n - 1) + 1 = n
    BY <2>2
  <2>8. seq = n /\ n % SEQ = n
    BY <2>3, <2>5, <2>6, <2>7
  <2>. QED  BY <2>8 DEF n
<1>10. (seq - first) % SEQ < s.ActualWindowSize
  <2>1. /\ seq # (s.InitialSequenceNumber + s.ActualWindowSize) % SEQ
             => (seq - s.InitialSequenceNumber) % SEQ < s.ActualWindowSize
        /\ (seq - seq) % SEQ < s.ActualWindowSize
    BY <1>2, <1>8, NextInWindow
  <2>. QED  BY <1>1, <2>1 DEF first
<1>11. Receiving(new)
  <2>1. /\ Len(s.blob) \in Nat /\ Len(s.blob) + 1 \in 1 .. MAX_SEGMENTS_ACCEPTED
        /\ (Len(s.blob) + 1) - 1 = Len(s.blob)
    BY <1>2, <1>8, SegmentSizes
  <2>. QED  BY <1>5, <1>7, <1>8, <1>9, <1>10, <2>1 DEF Receiving
<1>12. new.state \in {IDLE, SEGMENTED_REQUEST_SERVER}
  BY <1>1, <1>7
<1>13. Answering(new)
  BY <1>12 DEF Answering, IDLE, SEGMENTED_REQUEST_SERVER, SEGMENTED_RESPONSE_SERVER
<1>14. seq = Len(s.blob) % SEQ
  BY <1>9
<1>. QED  BY <1>5, <1>7, <1>11, <1>12, <1>13, <1>14 DEF new

(* Only (src, id) has an entry for slot i.                                 *)
OwnedBy(t, i, src, id) ==
    \A p \in PeerEntries :
        t.peers[p].InternalInvokeID = t.list[i].InvokeID =>
            t.peers[p].PeerAddress = src /\ t.peers[p].PeerInvokeID = id

LEMMA SetSlotConsistent ==
    ASSUME NEW t \in TableType, Consistent(t), NEW i \in Slots,
           NEW slot \in SlotType, Receiving(slot), Answering(slot)
    PROVE  Consistent(SetSlot(t, i, slot))
<1> DEFINE u == SetSlot(t, i, slot)
<1>1. u.list[i] = slot /\ \A j \in Slots : j # i => u.list[j] = t.list[j]
  BY SetSlotEffect
<1> HIDE DEF u
<1>2. Consistent(u)
  BY <1>1 DEF Consistent
<1>. QED  BY <1>2 DEF u

LEMMA SetSlotTagged ==
    ASSUME NEW t \in TableType, Tagged(t), NEW i \in Slots,
           NEW slot \in SlotType, slot.InvokeID = t.list[i].InvokeID,
           NEW src, NEW id, OwnedBy(t, i, src, id),
           slot.state = SEGMENTED_REQUEST_SERVER => Carries(slot.blob, src, id)
    PROVE  Tagged(SetSlot(t, i, slot))
<1> DEFINE u == SetSlot(t, i, slot)
<1>1. /\ u.list[i] = slot /\ u.peers = t.peers
      /\ \A j \in Slots : j # i => u.list[j] = t.list[j]
  BY SetSlotEffect
<1> HIDE DEF u
<1>2. Tagged(u)
  <2>1. SUFFICES ASSUME NEW j \in Slots, NEW p \in PeerEntries,
                        u.list[j].state = SEGMENTED_REQUEST_SERVER,
                        u.list[j].InvokeID # 0,
                        u.peers[p].InternalInvokeID = u.list[j].InvokeID
                 PROVE  Carries(u.list[j].blob, u.peers[p].PeerAddress,
                                u.peers[p].PeerInvokeID)
    BY DEF Tagged
  <2>2. CASE j = i
    BY <1>1, <2>1, <2>2 DEF OwnedBy
  <2>3. CASE j # i
    BY <1>1, <2>1, <2>3 DEF Tagged
  <2>. QED  BY <2>2, <2>3
<1>. QED  BY <1>2 DEF u

(* The same slot with the same data, still receiving or now IDLE.          *)
LEMMA SetSlotSameData ==
    ASSUME NEW t \in TableType, NEW i \in Slots, NEW slot \in SlotType,
           slot.InvokeID = t.list[i].InvokeID, slot.blob = t.list[i].blob,
           slot.state \in {IDLE, t.list[i].state}
    PROVE  SameData(t, SetSlot(t, i, slot))
<1> DEFINE u == SetSlot(t, i, slot)
<1>1. /\ u.list[i] = slot /\ u.peers = t.peers
      /\ \A j \in Slots : j # i => u.list[j] = t.list[j]
  BY SetSlotEffect
<1> HIDE DEF u
<1>2. SameData(t, u)
  BY <1>1 DEF SameData, IDLE, SEGMENTED_REQUEST_SERVER
<1>. QED  BY <1>2 DEF u

LEMMA FirstSegmentKeeps ==
    ASSUME NEW t, WellFormed(t), Consistent(t), NEW i \in Slots,
           t.list[i].InvokeID # 0, NEW src \in Address,
           NEW id \in PeerInvokeID, NEW seq \in SeqNumbers, NEW window \in Bytes,
           FirstSegment(t, i, src, id, seq, window)
    PROVE  /\ Consistent(tsm')
           /\ Tagged(t) /\ OwnedBy(t, i, src, id) => Tagged(tsm')
<1> DEFINE empty == <<>>
           slot == [t.list[i] EXCEPT
                      !.state = SEGMENTED_REQUEST_SERVER,
                      !.ActualWindowSize = window,
                      !.InitialSequenceNumber = 0, !.LastSequenceNumber = 0,
                      !.RetryCount = 0, !.SegmentRetryCount = 0,
                      !.ReceivedSegmentsCount = 1, !.RequestTimer = 0,
                      !.SegmentTimer = RequestSegmentTimer, !.blob = empty]
           idle == [slot EXCEPT !.state = IDLE]
           data == <<Payload(src, id, seq)>>
           stored == [slot EXCEPT !.blob = data]
<1>1. t \in TableType /\ t.list[i] \in SlotType
  BY DEF WellFormed, TableType
<1>2. /\ slot \in SlotType /\ slot.InvokeID = t.list[i].InvokeID
      /\ slot.state = SEGMENTED_REQUEST_SERVER
      /\ slot.ActualWindowSize = window /\ slot.InitialSequenceNumber = 0
      /\ slot.LastSequenceNumber = 0 /\ slot.ReceivedSegmentsCount = 1
  <2>1. empty \in Seq(Payloads)
    OBVIOUS
  <2>2. 1 \in Nat
    OBVIOUS
  <2> HIDE DEF empty
  <2>. QED  BY <1>1, <2>1, <2>2, SmallValues, RequestSegmentTimerType DEF SlotType
<1>3. /\ data \in Seq(Payloads) /\ Len(data) = 1
      /\ data[1] = Payload(src, id, seq)
  BY DEF Payload, Payloads
<1>4. \/ tsm' = SetSlot(t, i, idle)
      \/ tsm' = tsm_free_invoke_id_check(SetSlot(t, i, free_blob(slot)),
                                         slot.InvokeID, NoAddress)
      \/ tsm' = SetSlot(t, i, stored) /\ seq = 0 /\ window # 0
  BY DEF FirstSegment
<1> HIDE DEF slot
<1>5. idle \in SlotType /\ idle.InvokeID = t.list[i].InvokeID /\ idle.state = IDLE
  BY <1>2, SmallValues DEF SlotType
<1>6. /\ stored \in SlotType /\ stored.InvokeID = t.list[i].InvokeID
      /\ stored.state = SEGMENTED_REQUEST_SERVER /\ stored.blob = data
      /\ stored.ActualWindowSize = window /\ stored.InitialSequenceNumber = 0
      /\ stored.LastSequenceNumber = 0 /\ stored.ReceivedSegmentsCount = 1
  <2> HIDE DEF data
  <2>. QED  BY <1>2, <1>3 DEF SlotType
<1>7. free_blob(slot) \in SlotType /\ free_blob(slot).InvokeID = slot.InvokeID
  BY <1>2, SmallValues DEF SlotType, free_blob
<1> HIDE DEF idle, stored, data
<1>8. CASE tsm' = SetSlot(t, i, idle)
  <2>1. Consistent(SetSlot(t, i, idle))
    BY <1>1, <1>5, IdleAnswers, SetSlotConsistent
  <2>2. Tagged(t) /\ OwnedBy(t, i, src, id) => Tagged(SetSlot(t, i, idle))
    BY <1>1, <1>5, SetSlotTagged DEF IDLE, SEGMENTED_REQUEST_SERVER
  <2>. QED  BY <1>8, <2>1, <2>2
<1>9. CASE tsm' = tsm_free_invoke_id_check(SetSlot(t, i, free_blob(slot)),
                                           slot.InvokeID, NoAddress)
  <2>1. Calm(t, tsm_free_invoke_id_check(SetSlot(t, i, free_blob(slot)),
                                         free_blob(slot).InvokeID, NoAddress))
    BY <1>2, <1>7, WrittenAndFreedCalm
  <2>2. Calm(t, tsm')
    BY <1>7, <1>9, <2>1
  <2>. QED  BY <2>2, CalmConsistent, CalmTagged
<1>10. CASE tsm' = SetSlot(t, i, stored) /\ seq = 0 /\ window # 0
  <2>1. (1 - 1) % SEQ = 0 /\ (0 - 0) % SEQ = 0 /\ 0 < window
    BY <1>10, TsmConstants DEF Bytes
  <2>2. Receiving(stored)
    <3>1. Len(stored.blob) = 1 /\ 1 \in 1 .. MAX_SEGMENTS_ACCEPTED
      BY <1>3, <1>6, SegmentSizes
    <3>2. stored.LastSequenceNumber = (Len(stored.blob) - 1) % SEQ
      BY <1>6, <2>1, <3>1
    <3>3. (stored.LastSequenceNumber - stored.InitialSequenceNumber) % SEQ
             < stored.ActualWindowSize
      BY <1>6, <2>1
    <3>. QED  BY <1>6, <3>1, <3>2, <3>3 DEF Receiving
  <2>3. Answering(stored)
    BY <1>6 DEF Answering, SEGMENTED_REQUEST_SERVER, SEGMENTED_RESPONSE_SERVER
  <2>4. Carries(data, src, id)
    BY <1>3, <1>10, <2>1 DEF Carries
  <2>5. Consistent(SetSlot(t, i, stored))
    BY <1>1, <1>6, <2>2, <2>3, SetSlotConsistent
  <2>6. Tagged(t) /\ OwnedBy(t, i, src, id) => Tagged(SetSlot(t, i, stored))
    BY <1>1, <1>6, <2>4, SetSlotTagged
  <2>. QED  BY <1>10, <2>5, <2>6
<1>. QED  BY <1>4, <1>8, <1>9, <1>10

(* Duplicates, segments out of order and one too many.                     *)
LEMMA UnstoredSegmentKeeps ==
    ASSUME NEW t, WellFormed(t), Consistent(t), NEW i \in Slots,
           t.list[i].state = SEGMENTED_REQUEST_SERVER, t.list[i].InvokeID # 0,
           NEW src, NEW id,
           \/ DuplicateSegment(t, i, src, id)
           \/ OutOfOrderSegment(t, i, src, id)
           \/ TooManySegments(t, i, src, id)
    PROVE  Consistent(tsm') /\ SameData(t, tsm')
<1> DEFINE slot == Restarted(t.list[i])
           kept == [slot EXCEPT !.SegmentTimer = SegTimeout]
           moved == [slot EXCEPT !.SegmentTimer = SegTimeout,
                                 !.InitialSequenceNumber = slot.LastSequenceNumber]
<1>1. t \in TableType /\ t.list[i] \in SlotType /\ Receiving(t.list[i])
  BY DEF WellFormed, TableType, Consistent
<1>2. /\ slot \in SlotType
      /\ slot.state \in {IDLE, SEGMENTED_REQUEST_SERVER}
      /\ slot.InvokeID = t.list[i].InvokeID
      /\ slot.blob = t.list[i].blob
      /\ slot.ReceivedSegmentsCount = t.list[i].ReceivedSegmentsCount
      /\ slot.LastSequenceNumber = t.list[i].LastSequenceNumber
      /\ slot.InitialSequenceNumber = t.list[i].InitialSequenceNumber
      /\ slot.ActualWindowSize = t.list[i].ActualWindowSize
  BY <1>1, RestartedFields
<1>3. \/ tsm' = SetSlot(t, i, kept)
      \/ tsm' = SetSlot(t, i, moved)
      \/ tsm' = SetSlot(t, i, slot)
      \/ tsm' = tsm_free_invoke_id_check(SetSlot(t, i, slot), slot.InvokeID,
                                         NoAddress)
  BY <1>2 DEF DuplicateSegment, OutOfOrderSegment, TooManySegments
<1> HIDE DEF slot
<1>4. /\ kept \in SlotType /\ kept.state = slot.state
      /\ kept.InvokeID = slot.InvokeID /\ kept.blob = slot.blob
      /\ kept.ReceivedSegmentsCount = slot.ReceivedSegmentsCount
      /\ kept.LastSequenceNumber = slot.LastSequenceNumber
      /\ kept.InitialSequenceNumber = slot.InitialSequenceNumber
      /\ kept.ActualWindowSize = slot.ActualWindowSize
  BY <1>2, SmallValues DEF SlotType
<1>5. /\ moved \in SlotType /\ moved.state = slot.state
      /\ moved.InvokeID = slot.InvokeID /\ moved.blob = slot.blob
      /\ moved.ReceivedSegmentsCount = slot.ReceivedSegmentsCount
      /\ moved.LastSequenceNumber = slot.LastSequenceNumber
      /\ moved.InitialSequenceNumber = slot.LastSequenceNumber
      /\ moved.ActualWindowSize = slot.ActualWindowSize
  BY <1>2, SmallValues DEF SlotType
<1> HIDE DEF kept, moved
<1>6. Receiving(slot) /\ Receiving(kept)
  BY <1>1, <1>2, <1>4 DEF Receiving
<1>7. Receiving(moved)
  <2>1. /\ moved.LastSequenceNumber \in Nat
        /\ t.list[i].InitialSequenceNumber \in Nat
        /\ t.list[i].LastSequenceNumber \in Nat
        /\ moved.ActualWindowSize \in Nat /\ SEQ \in Nat \ {0}
    <3>1. /\ moved.LastSequenceNumber \in SeqNumbers
          /\ t.list[i].InitialSequenceNumber \in SeqNumbers
          /\ t.list[i].LastSequenceNumber \in SeqNumbers
          /\ moved.ActualWindowSize \in Bytes
      BY <1>1, <1>5 DEF SlotType
    <3>. QED  BY <3>1, TsmConstants DEF SeqNumbers, Bytes
  <2>2. (t.list[i].LastSequenceNumber - t.list[i].InitialSequenceNumber) % SEQ
           < moved.ActualWindowSize
    BY <1>1, <1>2, <1>5 DEF Receiving
  <2>3. (moved.LastSequenceNumber - moved.InitialSequenceNumber) % SEQ
           < moved.ActualWindowSize
    <3>1. /\ moved.LastSequenceNumber - moved.InitialSequenceNumber = 0
          /\ 0 % SEQ = 0
      BY <1>2, <1>5, <2>1
    <3>2. (t.list[i].LastSequenceNumber - t.list[i].InitialSequenceNumber) % SEQ >= 0
      BY <2>1
    <3>. QED  BY <2>1, <2>2, <3>1, <3>2
  <2>. QED  BY <1>1, <1>2, <1>5, <2>3 DEF Receiving
<1>8. ASSUME NEW s \in {slot, kept, moved}
      PROVE  Consistent(SetSlot(t, i, s)) /\ SameData(t, SetSlot(t, i, s))
  <2>1. /\ s \in SlotType /\ s.state \in {IDLE, SEGMENTED_REQUEST_SERVER}
        /\ s.InvokeID = t.list[i].InvokeID /\ s.blob = t.list[i].blob
        /\ Receiving(s)
    BY <1>2, <1>4, <1>5, <1>6, <1>7
  <2>2. Answering(s)
    BY <2>1 DEF Answering, IDLE, SEGMENTED_REQUEST_SERVER,
                SEGMENTED_RESPONSE_SERVER
  <2>. QED  BY <1>1, <2>1, <2>2, SetSlotConsistent, SetSlotSameData
<1>9. CASE tsm' = tsm_free_invoke_id_check(SetSlot(t, i, slot), slot.InvokeID,
                                           NoAddress)
  <2>1. Calm(t, tsm')
    BY <1>2, <1>9, WrittenAndFreedCalm
  <2>. QED  BY <2>1, CalmConsistent DEF Calm, SameData
<1>. QED  BY <1>3, <1>8, <1>9

LEMMA NewSegmentKeeps ==
    ASSUME NEW t, WellFormed(t), Consistent(t), NEW i \in Slots,
           t.list[i].state = SEGMENTED_REQUEST_SERVER, t.list[i].InvokeID # 0,
           NEW src \in Address, NEW id \in PeerInvokeID, NEW seq \in SeqNumbers,
           seq = (t.list[i].LastSequenceNumber + 1) % SEQ,
           t.list[i].ReceivedSegmentsCount + 1 <= MAX_SEGMENTS_ACCEPTED,
           NEW more \in BOOLEAN, NEW sv \in Service,
           NewSegment(t, i, src, id, seq, more, sv)
    PROVE  /\ Consistent(tsm')
           /\ /\ Tagged(t) /\ OwnedBy(t, i, src, id)
              /\ Carries(t.list[i].blob, src, id)
              => /\ Tagged(tsm')
                 /\ Carries(NextSlot(t.list[i], src, id, seq).blob, src, id)
<1> DEFINE old == t.list[i]
           slot == NextSlot(old, src, id, seq)
           stored == SetSlot(t, i, slot)
           cleared == tsm_clear_peer_id(stored, slot.InvokeID)
           service == invoke_confirmed_service(cleared, src, id, sv)
<1>1. t \in TableType /\ old \in SlotType /\ Receiving(old)
  BY DEF WellFormed, TableType, Consistent
<1>2. \/ tsm' = stored
      \/ tsm' = tsm_free_invoke_id_check(service.t, slot.InvokeID, NoAddress)
  <2>1. Restarted(old) \in SlotType
    BY <1>1, RestartedFields
  <2>. QED  BY <2>1 DEF NewSegment, NextSlot, SlotType
<1>3. /\ slot \in SlotType
      /\ slot.state \in {IDLE, SEGMENTED_REQUEST_SERVER}
      /\ slot.InvokeID = old.InvokeID /\ slot.dest = old.dest
      /\ slot.blob = Append(old.blob, Payload(src, id, seq))
      /\ seq = Len(old.blob) % SEQ
      /\ Receiving(slot) /\ Answering(slot)
  BY <1>1, NextSlotEffect
<1>4. ASSUME Carries(old.blob, src, id)
      PROVE  Carries(slot.blob, src, id)
  <2>1. old.blob \in Seq(Payloads) /\ Payload(src, id, seq) \in Payloads
    BY <1>1 DEF SlotType, Payload, Payloads
  <2> HIDE DEF slot, old
  <2>2. /\ Len(slot.blob) = Len(old.blob) + 1 /\ Len(old.blob) \in Nat
        /\ \A n \in 1 .. Len(old.blob) : slot.blob[n] = old.blob[n]
        /\ slot.blob[Len(old.blob) + 1] = Payload(src, id, seq)
    BY <1>3, <2>1
  <2>3. SUFFICES ASSUME NEW n \in 1 .. Len(slot.blob)
                 PROVE  slot.blob[n] = Payload(src, id, (n - 1) % SEQ)
    BY DEF Carries
  <2>4. CASE n <= Len(old.blob)
    BY <1>4, <2>2, <2>4 DEF Carries
  <2>5. CASE n = Len(old.blob) + 1
    <3>1. n - 1 = Len(old.blob)
      BY <2>2, <2>5
    <3>. QED  BY <1>3, <2>2, <2>5, <3>1
  <2>. QED  BY <2>2, <2>4, <2>5
<1> HIDE DEF slot
<1>5. /\ Consistent(stored)
      /\ Tagged(t) /\ OwnedBy(t, i, src, id) /\ Carries(slot.blob, src, id)
            => Tagged(stored)
  BY <1>1, <1>3, SetSlotConsistent, SetSlotTagged
<1>6. WellFormed(stored) /\ stored \in TableType
  BY <1>3, SetSlotWellFormed DEF WellFormed
<1> HIDE DEF stored
<1>7. WellFormed(cleared) /\ Calm(stored, cleared)
  BY <1>6, ClearPeerWellFormed, ClearPeerCalm
<1>8. /\ Consistent(cleared)
      /\ Tagged(stored) => Tagged(cleared)
  BY <1>5, <1>7, CalmConsistent, CalmTagged
<1> HIDE DEF cleared
<1>9. /\ Consistent(service.t) /\ WellFormed(service.t)
      /\ Tagged(cleared) => Tagged(service.t)
  BY <1>7, <1>8, ServiceKeeps, ServiceWellFormed
<1> HIDE DEF service
<1>10. Calm(service.t, tsm_free_invoke_id_check(service.t, slot.InvokeID, NoAddress))
  BY <1>9, FreeCheckCalm DEF WellFormed
<1>11. /\ Consistent(tsm')
       /\ Tagged(stored) => Tagged(tsm')
  BY <1>2, <1>5, <1>8, <1>9, <1>10, CalmConsistent, CalmTagged
<1>. QED  BY <1>4, <1>5, <1>11 DEF slot

(* The slot that tsm_get_peer_id finds or takes for an exchange belongs to *)
(* that exchange alone.                                                    *)
LEMMA GetPeerOwned ==
    ASSUME NEW t0, Paired(t0, 0), NEW src \in Address, NEW id \in PeerInvokeID,
           tsm_get_peer_id(t0, src, id).id # 0, NEW i \in Slots,
           tsm_get_peer_id(t0, src, id).t.list[i].InvokeID
             = tsm_get_peer_id(t0, src, id).id
    PROVE  LET t == tsm_get_peer_id(t0, src, id).t
           IN /\ OwnedBy(t, i, src, id)
              /\ Tagged(t) /\ t.list[i].state = SEGMENTED_REQUEST_SERVER
                   => Carries(t.list[i].blob, src, id)
<1> DEFINE g == tsm_get_peer_id(t0, src, id)
           t == g.t
<1>1. Paired(t, 0)
  BY SmallValues, GetPeerPaired
<1>2. \E p \in PeerEntries :
         g.t.peers[p] = [PeerAddress |-> src, PeerInvokeID |-> id,
                         InternalInvokeID |-> g.id]
  BY SmallValues, GetPeerEntry DEF Paired
<1>3. t.list[i].InvokeID = g.id /\ g.id # 0
  OBVIOUS
<1> HIDE DEF g
<1>4. PICK p \in PeerEntries :
         /\ t.peers[p].PeerAddress = src /\ t.peers[p].PeerInvokeID = id
         /\ t.peers[p].InternalInvokeID = g.id
  BY <1>2
<1>5. OwnedBy(t, i, src, id)
  BY <1>1, <1>3, <1>4 DEF OwnedBy, Paired, EntriesDistinct
<1>6. ASSUME Tagged(t), t.list[i].state = SEGMENTED_REQUEST_SERVER
      PROVE  Carries(t.list[i].blob, src, id)
  <2>1. Carries(t.list[i].blob, t.peers[p].PeerAddress, t.peers[p].PeerInvokeID)
    BY <1>3, <1>4, <1>6 DEF Tagged
  <2>. QED  BY <1>4, <2>1
<1>. QED  BY <1>5, <1>6 DEF g

LEMMA SegmentKeeps ==
    ASSUME WellFormed(tsm), Consistent(tsm), NEW src \in Address,
           NEW id \in PeerInvokeID, NEW seq \in SeqNumbers, NEW more \in BOOLEAN,
           NEW window \in Bytes, NEW sv \in Service,
           apdu_handler_confirmed_service_segment(src, id, seq, more, window, sv)
    PROVE  /\ Consistent(tsm')
           /\ Paired(tsm, 0) /\ Tagged(tsm) => Tagged(tsm')
<1> DEFINE g == tsm_get_peer_id(tsm, src, id)
           t == g.t
           i == tsm_find_invokeID_index(t, g.id)
<1>1. WellFormed(t) /\ Calm(tsm, t)
  BY SmallValues, GetPeerWellFormed, GetPeerCalm
<1>2. /\ Consistent(t)
      /\ Tagged(tsm) => Tagged(t)
  BY <1>1, CalmConsistent, CalmTagged
<1>3. \/ tsm' = t
      \/ /\ g.id # 0 /\ i \in Slots
         /\ FirstSegment(t, i, src, id, seq, window)
      \/ /\ g.id # 0 /\ i \in Slots
         /\ t.list[i].state = SEGMENTED_REQUEST_SERVER
         /\ LaterSegment(t, i, src, id, seq, more, sv)
  BY DEF apdu_handler_confirmed_service_segment
<1>4. ASSUME g.id # 0, i \in Slots
      PROVE  t.list[i].InvokeID = g.id
  BY <1>1, <1>4, FoundSlot DEF WellFormed
<1>5. ASSUME g.id # 0, i \in Slots, Paired(tsm, 0)
      PROVE  /\ OwnedBy(t, i, src, id)
             /\ /\ Tagged(t)
                /\ t.list[i].state = SEGMENTED_REQUEST_SERVER
                => Carries(t.list[i].blob, src, id)
  BY <1>4, <1>5, GetPeerOwned
<1> HIDE DEF g, i
<1>6. CASE tsm' = t
  BY <1>2, <1>6
<1>7. CASE /\ g.id # 0 /\ i \in Slots
           /\ FirstSegment(t, i, src, id, seq, window)
  <2>1. t.list[i].InvokeID # 0
    BY <1>4, <1>7
  <2>2. /\ Consistent(tsm')
        /\ Tagged(t) /\ OwnedBy(t, i, src, id) => Tagged(tsm')
    BY <1>1, <1>2, <1>7, <2>1, FirstSegmentKeeps
  <2>. QED  BY <1>2, <1>5, <1>7, <2>2
<1>8. CASE /\ g.id # 0 /\ i \in Slots
           /\ t.list[i].state = SEGMENTED_REQUEST_SERVER
           /\ LaterSegment(t, i, src, id, seq, more, sv)
  <2>1. t.list[i].InvokeID # 0
    BY <1>4, <1>8
  <2>2. CASE \/ DuplicateSegment(t, i, src, id)
             \/ OutOfOrderSegment(t, i, src, id)
             \/ TooManySegments(t, i, src, id)
    <3>1. Consistent(tsm') /\ SameData(t, tsm')
      BY <1>1, <1>2, <1>8, <2>1, <2>2, UnstoredSegmentKeeps
    <3>. QED  BY <1>2, <3>1, SameDataTagged
  <2>3. CASE /\ seq = (t.list[i].LastSequenceNumber + 1) % SEQ
             /\ t.list[i].ReceivedSegmentsCount + 1 <= MAX_SEGMENTS_ACCEPTED
             /\ NewSegment(t, i, src, id, seq, more, sv)
    <3>1. /\ Consistent(tsm')
          /\ /\ Tagged(t) /\ OwnedBy(t, i, src, id)
             /\ Carries(t.list[i].blob, src, id)
             => Tagged(tsm')
      BY <1>1, <1>2, <1>8, <2>1, <2>3, NewSegmentKeeps
    <3>. QED  BY <1>2, <1>5, <1>8, <3>1
  <2>. QED  BY <1>8, <2>2, <2>3 DEF LaterSegment
<1>. QED  BY <1>3, <1>6, <1>7, <1>8

-----------------------------------------------------------------------------
(* The other handlers.                                                     *)

LEMMA RequestKeeps ==
    ASSUME WellFormed(tsm), Consistent(tsm), NEW src \in Address,
           NEW id \in PeerInvokeID, NEW sv \in Service,
           apdu_handler_confirmed_service(src, id, sv)
    PROVE  /\ Consistent(tsm')
           /\ Tagged(tsm) => Tagged(tsm')
<1> DEFINE service == invoke_confirmed_service(tsm, src, id, sv)
<1>1. \/ \E x : tsm' = tsm_free_invoke_id_check(tsm, x, src)
      \/ tsm' = service.t
  BY DEF apdu_handler_confirmed_service
<1>2. /\ Consistent(service.t)
      /\ Tagged(tsm) => Tagged(service.t)
  BY ServiceKeeps
<1> HIDE DEF service
<1>3. ASSUME NEW x, tsm' = tsm_free_invoke_id_check(tsm, x, src)
      PROVE  Calm(tsm, tsm')
  BY <1>3, FreeCheckCalm DEF WellFormed
<1>. QED  BY <1>1, <1>2, <1>3, CalmConsistent, CalmTagged

(* An answer whose window slides has still something to send.              *)
LEMMA SlidAnswers ==
    ASSUME NEW slot \in SlotType, slot.state = SEGMENTED_RESPONSE_SERVER,
           Answering(slot), NEW seq \in SeqNumbers, NEW window \in Bytes,
           NextToSend(slot, seq) < TotalSegments(slot)
    PROVE  LET slid == [slot EXCEPT
                          !.InitialSequenceNumber = NextToSend(slot, seq) % SEQ,
                          !.ActualWindowSize = window,
                          !.SegmentRetryCount = Retries,
                          !.SegmentTimer = SegTimeout]
           IN /\ slid \in SlotType /\ Answering(slid)
              /\ slid.state = SEGMENTED_RESPONSE_SERVER
              /\ slid.InitialSequenceNumber \in Nat
<1> DEFINE next == NextToSend(slot, seq)
           slid == [slot EXCEPT
                      !.InitialSequenceNumber = next % SEQ,
                      !.ActualWindowSize = window,
                      !.SegmentRetryCount = Retries,
                      !.SegmentTimer = SegTimeout]
<1>1. slot.InitialSequenceNumber \in SeqNumbers
  BY DEF SlotType
<1>2. next \in Nat
  <2>1. SEQ \in Nat \ {0}
    BY TsmConstants
  <2>2. (seq - slot.InitialSequenceNumber) % SEQ \in Nat
    BY <1>1, <2>1 DEF SeqNumbers
  <2>. QED  BY <1>1, <2>2 DEF NextToSend, SeqNumbers
<1>3. next < TotalSegments(slot)
  OBVIOUS
<1> HIDE DEF next
<1>4. /\ slot.apdu # NULL
      /\ TotalSegments(slot) \in 2 .. MAX_SEGMENTS_ACCEPTED
  BY DEF Answering
<1>5. next < SEQ /\ 0 - SEQ < next
  BY <1>2, <1>3, <1>4, TsmConstants, SegmentSizes
<1>6. next % SEQ = next
  BY <1>2, <1>5, Remainder
<1>7. next % SEQ \in SeqNumbers
  BY <1>2, <1>5, <1>6, TsmConstants DEF SeqNumbers
<1>8. /\ slid \in SlotType /\ slid.state = slot.state
      /\ slid.apdu = slot.apdu
      /\ slid.InitialSequenceNumber = next
  BY <1>6, <1>7, SmallValues DEF SlotType
<1> HIDE DEF slid
<1>9. Answering(slid)
  BY <1>3, <1>4, <1>8 DEF Answering, TotalSegments
<1>10. /\ slid \in SlotType /\ Answering(slid)
       /\ slid.state = SEGMENTED_RESPONSE_SERVER
       /\ slid.InitialSequenceNumber \in Nat
  BY <1>2, <1>8, <1>9
<1>. QED  BY <1>10 DEF slid, next

LEMMA ResponseAckedCalm ==
    ASSUME WellFormed(tsm), Consistent(tsm), NEW i \in Slots,
           tsm.list[i].state = SEGMENTED_RESPONSE_SERVER,
           tsm.list[i].InvokeID # 0, NEW seq \in SeqNumbers,
           NEW window \in Bytes, ResponseAcked(i, seq, window)
    PROVE  Calm(tsm, tsm')
<1> DEFINE slot == tsm.list[i]
           next == NextToSend(slot, seq)
           slid == [slot EXCEPT
                      !.InitialSequenceNumber = next % SEQ,
                      !.ActualWindowSize = window,
                      !.SegmentRetryCount = Retries,
                      !.SegmentTimer = SegTimeout]
           kept == [slot EXCEPT !.SegmentTimer = SegTimeout]
           done == [slot EXCEPT !.SegmentTimer = 0]
<1>1. tsm \in TableType /\ slot \in SlotType /\ Answering(slot)
  BY DEF WellFormed, TableType, Consistent
<1>2. \/ tsm' = SetSlot(tsm, i, kept)
      \/ tsm' = SetSlot(tsm, i, slid) /\ next < TotalSegments(slot)
      \/ tsm' = tsm_free_invoke_id_check(SetSlot(tsm, i, done),
                                         slot.InvokeID, NoAddress)
  BY DEF ResponseAcked
<1>3. ASSUME next < TotalSegments(slot)
      PROVE  slid \in SlotType /\ Answering(slid) /\ slid.state = slot.state
  BY <1>1, <1>3, SlidAnswers
<1> HIDE DEF slot, next
<1>4. slot.state = SEGMENTED_RESPONSE_SERVER /\ slot.InvokeID # 0
  BY DEF slot
<1>5. /\ slot.apdu # NULL
      /\ slot.InitialSequenceNumber < TotalSegments(slot)
      /\ TotalSegments(slot) \in 2 .. MAX_SEGMENTS_ACCEPTED
  BY <1>1, <1>4 DEF Answering
<1>6. CASE tsm' = SetSlot(tsm, i, kept)
  <2>1. /\ kept \in SlotType /\ kept.state = slot.state
        /\ kept.apdu = slot.apdu
        /\ kept.InitialSequenceNumber = slot.InitialSequenceNumber
    BY <1>1, SmallValues DEF SlotType
  <2> HIDE DEF kept
  <2>2. Answering(kept)
    BY <1>4, <1>5, <2>1 DEF Answering, TotalSegments
  <2>3. /\ tsm'.list[i] = kept /\ tsm'.peers = tsm.peers
        /\ \A j \in Slots : j # i => tsm'.list[j] = tsm.list[j]
    BY <1>1, <1>6, <2>1, SetSlotEffect
  <2>. QED  BY <1>4, <2>1, <2>2, <2>3
               DEF Calm, SEGMENTED_REQUEST_SERVER, SEGMENTED_RESPONSE_SERVER
<1>7. CASE tsm' = SetSlot(tsm, i, slid) /\ next < TotalSegments(slot)
  <2>1. slid \in SlotType /\ Answering(slid) /\ slid.state = slot.state
    BY <1>3, <1>7
  <2> HIDE DEF slid
  <2>2. /\ tsm'.list[i] = slid /\ tsm'.peers = tsm.peers
        /\ \A j \in Slots : j # i => tsm'.list[j] = tsm.list[j]
    BY <1>1, <1>7, <2>1, SetSlotEffect
  <2>. QED  BY <1>4, <2>1, <2>2
               DEF Calm, SEGMENTED_REQUEST_SERVER, SEGMENTED_RESPONSE_SERVER
<1>8. CASE tsm' = tsm_free_invoke_id_check(SetSlot(tsm, i, done),
                                           slot.InvokeID, NoAddress)
  <2>1. done \in SlotType /\ done.InvokeID = slot.InvokeID
    BY <1>1, SmallValues DEF SlotType
  <2> HIDE DEF done
  <2>2. done.InvokeID = tsm.list[i].InvokeID /\ done.InvokeID # 0
    BY <1>4, <2>1 DEF slot
  <2>3. Calm(tsm, tsm_free_invoke_id_check(SetSlot(tsm, i, done),
                                           done.InvokeID, NoAddress))
    BY <2>1, <2>2, WrittenAndFreedCalm
  <2>. QED  BY <1>8, <2>1, <2>3
<1>. QED  BY <1>2, <1>6, <1>7, <1>8

LEMMA SegmentACKCalm ==
    ASSUME WellFormed(tsm), Consistent(tsm), NEW src, NEW id,
           NEW seq \in SeqNumbers, NEW window \in Bytes, NEW server \in BOOLEAN,
           tsm_segmentack_received(src, id, seq, window, server)
    PROVE  Calm(tsm, tsm')
<1>1. \/ tsm' = tsm
      \/ \E x : /\ x # 0 /\ tsm_find_invokeID_index(tsm, x) \in Slots
               /\ tsm.list[tsm_find_invokeID_index(tsm, x)].state
                     = SEGMENTED_RESPONSE_SERVER
               /\ ResponseAcked(tsm_find_invokeID_index(tsm, x), seq, window)
      \/ \E x : tsm' = tsm_free_invoke_id_check(tsm, x, NoAddress)
  <2>1. MAX_TSM_TRANSACTIONS \notin Slots
    BY TsmConstants DEF Slots
  <2>. QED  BY <2>1 DEF tsm_segmentack_received
<1>2. CASE tsm' = tsm
  BY <1>2 DEF Calm
<1>3. ASSUME NEW x, x # 0, tsm_find_invokeID_index(tsm, x) \in Slots,
             tsm.list[tsm_find_invokeID_index(tsm, x)].state
                = SEGMENTED_RESPONSE_SERVER,
             ResponseAcked(tsm_find_invokeID_index(tsm, x), seq, window)
      PROVE  Calm(tsm, tsm')
  <2>1. tsm.list[tsm_find_invokeID_index(tsm, x)].InvokeID = x
    BY <1>3, FoundSlot DEF WellFormed
  <2>. QED  BY <1>3, <2>1, ResponseAckedCalm
<1>4. ASSUME NEW x, tsm' = tsm_free_invoke_id_check(tsm, x, NoAddress)
      PROVE  Calm(tsm, tsm')
  BY <1>4, FreeCheckCalm DEF WellFormed
<1>. QED  BY <1>1, <1>2, <1>3, <1>4

LEMMA FreeSegmentationKeeps ==
    ASSUME NEW t, WellFormed(t), Consistent(t), NEW src \in Address,
           NEW id \in AnyInvokeID
    PROVE  LET u == tsm_free_invoke_id_segmentation(t, src, id)
           IN /\ Consistent(u)
              /\ Tagged(t) => Tagged(u)
<1> DEFINE g == tsm_get_peer_id(t, src, id)
           u == tsm_free_invoke_id_segmentation(t, src, id)
<1>1. WellFormed(g.t) /\ Calm(t, g.t)
  BY GetPeerWellFormed, GetPeerCalm
<1>2. u = tsm_free_invoke_id_check(g.t, g.id, src)
  BY DEF tsm_free_invoke_id_segmentation
<1> HIDE DEF g, u
<1>3. Calm(g.t, u)
  BY <1>1, <1>2, FreeCheckCalm DEF WellFormed
<1>4. Consistent(u) /\ (Tagged(t) => Tagged(u))
  BY <1>1, <1>3, CalmConsistent, CalmTagged
<1>. QED  BY <1>4 DEF u

(* The timer takes a slot to IDLE or changes its timers and counters.      *)
LEMMA TickedKeepsData ==
    ASSUME NEW slot \in SlotType, Receiving(slot), Answering(slot)
    PROVE  /\ Receiving(Ticked(slot)) /\ Answering(Ticked(slot))
           /\ Ticked(slot).state = SEGMENTED_REQUEST_SERVER =>
                /\ slot.state = SEGMENTED_REQUEST_SERVER
                /\ Ticked(slot).InvokeID = slot.InvokeID
                /\ Ticked(slot).blob = slot.blob
<1> DEFINE new == Ticked(slot)
<1>1. \/ new.state \in {IDLE, AWAIT_CONFIRMATION}
      \/ /\ new.state = slot.state /\ new.InvokeID = slot.InvokeID
         /\ new.blob = slot.blob /\ new.apdu = slot.apdu
         /\ new.ReceivedSegmentsCount = slot.ReceivedSegmentsCount
         /\ new.LastSequenceNumber = slot.LastSequenceNumber
         /\ new.InitialSequenceNumber = slot.InitialSequenceNumber
         /\ new.ActualWindowSize = slot.ActualWindowSize
  <2> USE DEF Ticked, SlotType, IDLE, AWAIT_CONFIRMATION,
              SEGMENTED_RESPONSE_SERVER, SEGMENTED_REQUEST_SERVER
  <2>1. CASE slot.state = AWAIT_CONFIRMATION /\ ~ Expires(slot)
    BY <2>1
  <2>2. CASE slot.state = AWAIT_CONFIRMATION /\ Expires(slot)
    BY <2>2
  <2>3. CASE slot.state = SEGMENTED_RESPONSE_SERVER /\ Expires(slot)
    BY <2>3
  <2>4. CASE slot.state = SEGMENTED_REQUEST_SERVER /\ Expires(slot)
    <3>1. Ticked(slot) = free_blob(FreeSlot(slot))
      BY <2>4
    <3>. QED  BY <3>1, FreedSlotType
  <2>5. CASE /\ slot.state \in {SEGMENTED_RESPONSE_SERVER, SEGMENTED_REQUEST_SERVER}
             /\ ~ Expires(slot)
    BY <2>5
  <2>6. CASE slot.state = IDLE
    BY <2>6
  <2>. QED  BY <2>1, <2>2, <2>3, <2>4, <2>5, <2>6 DEF TsmStates
<1> HIDE DEF new
<1>2. CASE new.state \in {IDLE, AWAIT_CONFIRMATION}
  BY <1>2, IdleAnswers DEF new
<1>3. CASE /\ new.state = slot.state /\ new.InvokeID = slot.InvokeID
           /\ new.blob = slot.blob /\ new.apdu = slot.apdu
           /\ new.ReceivedSegmentsCount = slot.ReceivedSegmentsCount
           /\ new.LastSequenceNumber = slot.LastSequenceNumber
           /\ new.InitialSequenceNumber = slot.InitialSequenceNumber
           /\ new.ActualWindowSize = slot.ActualWindowSize
  <2>1. Receiving(new) /\ Answering(new)
    BY <1>3 DEF Receiving, Answering, TotalSegments
  <2>. QED  BY <1>3, <2>1 DEF new
<1>. QED  BY <1>1, <1>2, <1>3

LEMMA TimerKeeps ==
    ASSUME WellFormed(tsm), Consistent(tsm), tsm_timer_milliseconds
    PROVE  Consistent(tsm') /\ SameData(tsm, tsm')
<1>1. tsm \in TableType /\ \A i \in Slots : tsm.list[i] \in SlotType
  BY DEF WellFormed, TableType
<1>2. tsm' = [tsm EXCEPT
                !.list = [i \in Slots |-> Ticked(tsm.list[i])],
                !.peers = [p \in PeerEntries |->
                    IF ForgottenPeer(tsm.peers[p]) THEN ZeroPeer ELSE tsm.peers[p]]]
  BY DEF tsm_timer_milliseconds
<1>3. /\ \A i \in Slots : tsm'.list[i] = Ticked(tsm.list[i])
      /\ \A p \in PeerEntries : tsm'.peers[p] = tsm.peers[p]
                                 \/ tsm'.peers[p] = ZeroPeer
  BY <1>1, <1>2 DEF TableType
<1>4. ZeroPeer.InternalInvokeID = 0
  BY DEF ZeroPeer
<1>5. ASSUME NEW i \in Slots
      PROVE  /\ Receiving(tsm'.list[i]) /\ Answering(tsm'.list[i])
             /\ tsm'.list[i].state = SEGMENTED_REQUEST_SERVER =>
                  /\ tsm.list[i].state = SEGMENTED_REQUEST_SERVER
                  /\ tsm'.list[i].InvokeID = tsm.list[i].InvokeID
                  /\ tsm'.list[i].blob = tsm.list[i].blob
  <2>1. tsm.list[i] \in SlotType /\ Receiving(tsm.list[i]) /\ Answering(tsm.list[i])
    BY <1>1 DEF Consistent
  <2>2. tsm'.list[i] = Ticked(tsm.list[i])
    BY <1>3
  <2>. QED  BY <2>1, <2>2, TickedKeepsData
<1>. QED  BY <1>3, <1>4, <1>5 DEF Consistent, SameData

LEMMA SendRequestConsistent ==
    ASSUME WellFormed(tsm), Consistent(tsm), NEW dest \in Address,
           NEW fits \in BOOLEAN, SendRequest(dest, fits)
    PROVE  Consistent(tsm')
<1> DEFINE r == tsm_next_free_invokeID(tsm)
           i == tsm_find_invokeID_index(r.t, r.id)
           apdu == IF r.t.list[i].apdu = NULL THEN NULL ELSE ClientApdu(r.id)
           slot == [r.t.list[i] EXCEPT
                      !.state = AWAIT_CONFIRMATION, !.RetryCount = 0,
                      !.RequestTimer = ApduTimeout, !.dest = dest,
                      !.apdu = IF @ = NULL THEN NULL ELSE ClientApdu(r.id)]
<1>1. r.id # 0
  BY DEF SendRequest
<1>2. WellFormed(r.t) /\ r.id \in InvokeIDs /\ i \in Slots
  BY <1>1, NextFreeWellFormed
<1>3. r.t \in TableType /\ r.t.list[i] \in SlotType
  BY <1>2 DEF WellFormed, TableType
<1>4. Consistent(r.t)
  BY NextFreeCalm, CalmConsistent DEF WellFormed
<1>5. tsm' = SetSlot(r.t, i, slot) \/ tsm' = tsm_free_invoke_id(r.t, r.id)
  BY DEF SendRequest
<1> HIDE DEF r, i
<1>6. ClientApdu(r.id) \in ApduType
  BY <1>2, SmallValues DEF ClientApdu, ApduType
<1>7. apdu \in ApduType
  BY <1>6, SmallValues
<1>8. slot = [r.t.list[i] EXCEPT
                !.state = AWAIT_CONFIRMATION, !.RetryCount = 0,
                !.RequestTimer = ApduTimeout, !.dest = dest, !.apdu = apdu]
  BY <1>3 DEF SlotType
<1>9. slot \in SlotType /\ slot.state = AWAIT_CONFIRMATION
  <2> HIDE DEF slot, apdu
  <2>. QED  BY <1>3, <1>7, <1>8, SmallValues DEF SlotType
<1> HIDE DEF slot
<1>10. Consistent(SetSlot(r.t, i, slot))
  BY <1>2, <1>3, <1>4, <1>9, IdleAnswers, SetSlotConsistent
<1>11. Consistent(tsm_free_invoke_id(r.t, r.id))
  BY <1>3, <1>4, FreeCalm, CalmConsistent
<1>. QED  BY <1>5, <1>10, <1>11

-----------------------------------------------------------------------------
(* The slots of a device that answers and asks.                            *)

LEMMA StepKeepsConsistent ==
    ASSUME TypedAndUnique, Consistent(tsm), [Next]_vars
    PROVE  Consistent(tsm')
<1>1. /\ WellFormed(tsm) /\ tsm \in TableType
      /\ asked \subseteq Address \X InvokeIDs
  BY DEF TypedAndUnique, TypeOK, UniqueInvokeIDs, WellFormed
<1>2. CASE SegmentArrives
  <2>1. PICK src \in Address, id \in PeerInvokeID, seq \in SeqNumbers,
             more \in BOOLEAN, window \in Bytes, sv \in Service :
           apdu_handler_confirmed_service_segment(src, id, seq, more, window, sv)
    BY <1>2, SmallValues, WindowSizes DEF SegmentArrives
  <2>. QED  BY <1>1, <2>1, SegmentKeeps
<1>3. CASE RequestArrives
  BY <1>1, <1>3, RequestKeeps DEF RequestArrives
<1>4. CASE SegmentACKArrives
  <2>1. PICK src \in Address, id \in PeerInvokeID, seq \in SeqNumbers,
             window \in Bytes, server \in BOOLEAN :
           tsm_segmentack_received(src, id, seq, window, server)
    BY <1>4, WindowSizes DEF SegmentACKArrives
  <2>2. Calm(tsm, tsm')
    BY <1>1, <2>1, SegmentACKCalm
  <2>. QED  BY <2>2, CalmConsistent
<1>5. ASSUME NEW src \in Address, NEW id \in AnyInvokeID, NEW server \in BOOLEAN,
             ErrorReceived(src, id) \/ AbortReceived(src, id, server)
      PROVE  Consistent(tsm')
  <2>1. tsm' = tsm_free_invoke_id_segmentation(tsm, src, id)
    BY <1>5 DEF ErrorReceived, AbortReceived
  <2>. QED  BY <1>1, <2>1, FreeSegmentationKeeps
<1>6. CASE ClientAbortArrives
  BY <1>5, <1>6, SmallValues DEF ClientAbortArrives
<1>7. CASE AnswerArrives
  <2>1. PICK a \in asked : \/ AckReceived(a[1], a[2])
                           \/ ErrorReceived(a[1], a[2])
                           \/ AbortReceived(a[1], a[2], TRUE)
    BY <1>7 DEF AnswerArrives
  <2>2. a[1] \in Address /\ a[2] \in AnyInvokeID
    BY <1>1, SmallValues
  <2>3. CASE AckReceived(a[1], a[2])
    <3>1. tsm' = tsm_free_invoke_id(tsm, a[2])
      BY <2>3 DEF AckReceived
    <3>. QED  BY <1>1, <3>1, FreeCalm, CalmConsistent
  <2>. QED  BY <1>5, <2>1, <2>2, <2>3
<1>8. CASE tsm_timer_milliseconds
  BY <1>1, <1>8, TimerKeeps
<1>9. ASSUME NEW dest \in Address, NEW fits \in BOOLEAN, SendRequest(dest, fits)
      PROVE  Consistent(tsm')
  BY <1>1, <1>9, SendRequestConsistent
<1>10. ASSUME NEW request \in pending, Poll(request)
       PROVE  Consistent(tsm')
  <2>1. tsm' = tsm \/ tsm' = tsm_free_invoke_id(tsm, request[2])
    BY <1>10 DEF Poll
  <2>. QED  BY <1>1, <2>1, FreeCalm, CalmConsistent
<1>11. CASE UNCHANGED vars
  <2>1. tsm' = tsm
    BY <1>11 DEF vars
  <2>. QED  BY <2>1
<1>. QED  BY <1>2, <1>3, <1>4, <1>6, <1>7, <1>8, <1>9, <1>10, <1>11
             DEF Next, ServerNext, ClientNext

ConsistentInv == TypedAndUnique /\ Consistent(tsm)

LEMMA InitiallyConsistent == Init => ConsistentInv /\ Tagged(tsm)
<1> SUFFICES ASSUME Init PROVE ConsistentInv /\ Tagged(tsm)
  OBVIOUS
<1>1. TypedAndUnique
  BY InitiallyInStep DEF InStep
<1>2. PICK id \in AnyInvokeID : tsm = tsm_invokeID_set(InitTable, id)
  BY DEF Init
<1>3. \A i \in Slots : tsm.list[i].state = IDLE
  BY <1>2 DEF InitTable, tsm_invokeID_set, ZeroSlot
<1>4. Consistent(tsm) /\ Tagged(tsm)
  BY <1>3, IdleAnswers DEF Consistent, Tagged
<1>. QED  BY <1>1, <1>4 DEF ConsistentInv

LEMMA AlwaysConsistent == Spec => []ConsistentInv
<1>1. Init => ConsistentInv
  BY InitiallyConsistent
<1>2. ConsistentInv /\ [Next]_vars => ConsistentInv'
  <2> SUFFICES ASSUME ConsistentInv, [Next]_vars PROVE ConsistentInv'
    OBVIOUS
  <2>1. TypedAndUnique' /\ Consistent(tsm')
    BY StepKeepsTypedAndUnique, StepKeepsConsistent DEF ConsistentInv
  <2>. QED  BY <2>1 DEF ConsistentInv, Consistent, Receiving, Answering,
                        TotalSegments
<1>. QED  BY <1>1, <1>2, PTL DEF Spec

(* The sequence number last received, the count that bounds the memory of  *)
(* a request and the data stored so far agree in every slot, whatever      *)
(* duplicates, gaps, timeouts and other exchanges come in between, and the *)
(* window that is being received always has room for another segment.      *)
THEOREM ReassemblyConsistentTheorem == Spec => []ReassemblyConsistent
<1>1. ConsistentInv => ReassemblyConsistent
  BY DEF ConsistentInv, Consistent, Receiving, ReassemblyConsistent
<1>. QED  BY <1>1, AlwaysConsistent, PTL

(* Every answer under way in segments was cut into at least two and no     *)
(* more than MAX_SEGMENTS_ACCEPTED segments, for every size of answer and  *)
(* of APDU, and has one left to send: an acknowledgement that repeats or   *)
(* runs ahead never moves it past its end, and its numbers never wrap.     *)
THEOREM ResponseInProgressTheorem == Spec => []ResponseInProgress
<1>1. ConsistentInv => ResponseInProgress
  BY DEF ConsistentInv, Consistent, Answering, ResponseInProgress
<1>. QED  BY <1>1, AlwaysConsistent, PTL

-----------------------------------------------------------------------------
(* What the calls send and indicate.                                       *)

(* A sequence of messages none of which is of the given type.              *)
Without(o, type) == \E A : o \in Seq(A) /\ \A m \in A : m.type # type

LEMMA WithoutOne ==
    ASSUME NEW m, NEW type, m.type # type
    PROVE  Without(<<m>>, type) /\ Without(<<>>, type)
<1> DEFINE A == {m}
<1>1. <<m>> \in Seq(A) /\ <<>> \in Seq(A)
  OBVIOUS
<1>2. \A x \in A : x.type # type
  OBVIOUS
<1> HIDE DEF A
<1>. QED  BY <1>1, <1>2 DEF Without

LEMMA WithoutNone ==
    ASSUME NEW type
    PROVE  Without(<<>>, type)
<1> DEFINE A == {}
<1>1. <<>> \in Seq(A) /\ \A m \in A : m.type # type
  OBVIOUS
<1> HIDE DEF A
<1>. QED  BY <1>1 DEF Without

LEMMA WithoutJoin ==
    ASSUME NEW a, NEW b, NEW type, Without(a, type), Without(b, type)
    PROVE  Without(a \o b, type)
<1>1. PICK A : a \in Seq(A) /\ \A m \in A : m.type # type
  BY DEF Without
<1>2. PICK B : b \in Seq(B) /\ \A m \in B : m.type # type
  BY DEF Without
<1>3. a \o b \in Seq(A \cup B)
  BY <1>1, <1>2
<1>4. \A m \in A \cup B : m.type # type
  BY <1>1, <1>2
<1>. QED  BY <1>3, <1>4 DEF Without

LEMMA WithoutAppend ==
    ASSUME NEW a, NEW m, NEW type, Without(a, type), m.type # type
    PROVE  Without(Append(a, m), type)
<1>1. PICK A : a \in Seq(A) /\ \A x \in A : x.type # type
  BY DEF Without
<1>2. Append(a, m) \in Seq(A \cup {m})
  BY <1>1
<1>3. \A x \in A \cup {m} : x.type # type
  BY <1>1
<1>. QED  BY <1>2, <1>3 DEF Without

LEMMA WithoutSays ==
    ASSUME NEW o, NEW type, Without(o, type)
    PROVE  \A k \in DOMAIN o : o[k].type # type
BY DEF Without

(* A call indicates at most one request; tagged says that the data of the  *)
(* table is in order.                                                      *)
Indicates(o, src, id, data) ==
    \E pre, post :
        /\ o = (pre \o <<Indication(src, id, data)>>) \o post
        /\ Without(pre, "Indication") /\ Without(post, "Indication")

OneIndication(o, tagged) ==
    \/ Without(o, "Indication")
    \/ \E src, id, data :
         /\ Indicates(o, src, id, data)
         /\ data \in Seq(Payloads)
         /\ tagged => Carries(data, src, id)

(* The three parts of such a sequence.                                     *)
LEMMA ThreeParts ==
    ASSUME NEW A, NEW pre \in Seq(A), NEW B, NEW post \in Seq(B), NEW m,
           NEW k \in DOMAIN ((pre \o <<m>>) \o post)
    PROVE  LET o == (pre \o <<m>>) \o post
           IN /\ k \in Nat
              /\ \/ k \in DOMAIN pre /\ k <= Len(pre) /\ o[k] = pre[k]
                 \/ k = Len(pre) + 1 /\ o[k] = m
                 \/ /\ k > Len(pre) + 1
                    /\ \E n \in DOMAIN post : o[k] = post[n]
<1> DEFINE head == pre \o <<m>>
           o == head \o post
<1>1. /\ head \in Seq(A \cup {m}) /\ Len(head) = Len(pre) + 1
      /\ \A n \in 1 .. Len(pre) : head[n] = pre[n]
      /\ head[Len(pre) + 1] = m
      /\ Len(pre) \in Nat /\ DOMAIN pre = 1 .. Len(pre)
      /\ Len(post) \in Nat /\ DOMAIN post = 1 .. Len(post)
  OBVIOUS
<1> HIDE DEF head
<1>2. /\ DOMAIN o = 1 .. Len(head) + Len(post)
      /\ \A n \in 1 .. Len(head) : o[n] = head[n]
      /\ \A n \in 1 .. Len(post) : o[Len(head) + n] = post[n]
  BY <1>1
<1>3. k \in DOMAIN o
  BY DEF head
<1> HIDE DEF o
<1>4. k \in 1 .. Len(head) + Len(post)
  BY <1>2, <1>3
<1>5. CASE k > Len(pre) + 1
  <2>1. k - Len(head) \in 1 .. Len(post) /\ Len(head) + (k - Len(head)) = k
    BY <1>1, <1>4, <1>5
  <2>2. o[k] = post[k - Len(head)]
    BY <1>2, <2>1
  <2>3. k \in Nat /\ k - Len(head) \in DOMAIN post
    BY <1>1, <1>4, <2>1
  <2>. QED  BY <1>5, <2>2, <2>3 DEF o, head
<1>6. CASE k <= Len(pre)
  <2>1. k \in Nat /\ k \in DOMAIN pre /\ o[k] = pre[k]
    BY <1>1, <1>2, <1>4, <1>6
  <2>. QED  BY <1>6, <2>1 DEF o, head
<1>7. CASE k = Len(pre) + 1
  <2>1. k \in Nat /\ o[k] = m
    BY <1>1, <1>2, <1>4, <1>7
  <2>. QED  BY <1>7, <2>1 DEF o, head
<1>. QED  BY <1>1, <1>4, <1>5, <1>6, <1>7

LEMMA IndicationInOrder ==
    ASSUME NEW o, OneIndication(o, TRUE)
    PROVE  \A k \in DOMAIN o :
             o[k].type = "Indication" =>
               \A n \in DOMAIN o[k].data :
                 o[k].data[n] = Payload(o[k].dest, o[k].id, (n - 1) % SEQ)
<1>1. CASE Without(o, "Indication")
  BY <1>1, WithoutSays
<1>2. ASSUME NEW pre, NEW post, NEW src, NEW id, NEW data,
             o = (pre \o <<Indication(src, id, data)>>) \o post,
             Without(pre, "Indication"), Without(post, "Indication"),
             data \in Seq(Payloads), Carries(data, src, id),
             NEW k \in DOMAIN o, o[k].type = "Indication"
      PROVE  \A n \in DOMAIN o[k].data :
               o[k].data[n] = Payload(o[k].dest, o[k].id, (n - 1) % SEQ)
  <2> DEFINE m == Indication(src, id, data)
  <2>1. PICK A : pre \in Seq(A) /\ \A x \in A : x.type # "Indication"
    BY <1>2 DEF Without
  <2>2. PICK B : post \in Seq(B) /\ \A x \in B : x.type # "Indication"
    BY <1>2 DEF Without
  <2>3. \/ k \in DOMAIN pre /\ o[k] = pre[k]
        \/ o[k] = m
        \/ \E n \in DOMAIN post : o[k] = post[n]
    <3> HIDE DEF m
    <3>1. k \in DOMAIN ((pre \o <<m>>) \o post)
      BY <1>2 DEF m
    <3>2. o = (pre \o <<m>>) \o post
      BY <1>2 DEF m
    <3>. QED  BY <2>1, <2>2, <3>1, <3>2, ThreeParts
  <2>4. o[k] = m
    BY <1>2, <2>3, WithoutSays
  <2>5. m.dest = src /\ m.id = id /\ m.data = data
    BY DEF Indication
  <2>6. DOMAIN data = 1 .. Len(data)
    BY <1>2
  <2> HIDE DEF m
  <2>. QED  BY <1>2, <2>4, <2>5, <2>6 DEF Carries
<1>. QED  BY <1>1, <1>2 DEF OneIndication, Indicates

(* The messages themselves.                                                *)
LEMMA MessageTypes ==
    /\ \A d, i, r : Abort(d, i, r).type # "Indication"
    /\ \A d, i, a, b, c : SegmentACK(d, i, a, b, c).type # "Indication"
    /\ \A s, n : Segment(s, n).type # "Indication"
    /\ \A d, i, n : ComplexACK(d, i, n).type # "Indication"
    /\ \A d, i : Request(d, i).type # "Indication"
    /\ \A d, i, a : Answered(d, i, a).type # "Indication"
BY DEF Abort, SegmentACK, Segment, ComplexACK, Request, Answered

LEMMA SentTypes ==
    /\ \A d, i, r : Abort(d, i, r).type = "Abort"
    /\ \A s, n : Segment(s, n).type = "Segment"
    /\ \A d, i : Request(d, i).type = "Request"
    /\ \A d, i, n : ComplexACK(d, i, n).type = "ComplexACK"
BY DEF Abort, Segment, Request, ComplexACK

LEMMA EarlyAbortOut ==
    ASSUME NEW src, NEW id
    PROVE  Without(EarlyAbort(src, id), "Indication")
BY WithoutOne, WithoutNone, MessageTypes DEF EarlyAbort

LEMMA ServiceOut ==
    ASSUME NEW t, NEW src, NEW id, NEW sv,
           NEW type, type \notin {"ComplexACK", "Segment", "Abort"}
    PROVE  Without(invoke_confirmed_service(t, src, id, sv).out, type)
<1>1. Without(tsm_set_complexack_transaction(t, src, id, sv).out, type)
  BY WithoutOne, WithoutNone, SentTypes
     DEF tsm_set_complexack_transaction, Result
<1>. QED  BY <1>1, WithoutOne, WithoutNone, SentTypes
             DEF invoke_confirmed_service, Result

LEMMA FillWindowOut ==
    ASSUME NEW slot \in SlotType, Answering(slot),
           slot.state = SEGMENTED_RESPONSE_SERVER, NEW n \in Nat,
           NEW type, type \notin {"Request", "Segment", "Abort"}
    PROVE  Without(FillWindow(slot, n), type)
<1> DEFINE count == MaxOf(0, MinOf(slot.ActualWindowSize, TotalSegments(slot) - n))
           A == {Segment(slot, k) : k \in Int}
<1>1. slot.ActualWindowSize \in Bytes
  BY DEF SlotType
<1>2. slot.ActualWindowSize \in Nat /\ TotalSegments(slot) \in Nat
  BY <1>1, TsmConstants DEF Bytes, Answering
<1>3. count \in Nat
  BY <1>2 DEF MaxOf, MinOf
<1> HIDE DEF count
<1>4. \A m \in A : m.type # type
  BY SentTypes
<1>5. [k \in 1 .. count |-> Segment(slot, n + k - 1)] \in Seq(A)
  <2>1. \A k \in 1 .. count : Segment(slot, n + k - 1) \in A
    OBVIOUS
  <2> HIDE DEF A
  <2>. QED  BY <1>3, <2>1
<1> HIDE DEF A
<1>6. FillWindow(slot, n) = [k \in 1 .. count |-> Segment(slot, n + k - 1)]
  BY DEF FillWindow, count
<1>. QED  BY <1>4, <1>5, <1>6 DEF Without

LEMMA NewSegmentOut ==
    ASSUME NEW t, NEW i, t.list[i] \in SlotType, NEW src, NEW id, NEW seq,
           NEW more \in BOOLEAN, NEW sv, NewSegment(t, i, src, id, seq, more, sv)
    PROVE  IF more
           THEN Without(out', "Indication")
           ELSE Indicates(out', src, id, NextSlot(t.list[i], src, id, seq).blob)
<1> DEFINE old == t.list[i]
           slot == NextSlot(old, src, id, seq)
           last == seq = (old.InitialSequenceNumber + old.ActualWindowSize) % SEQ
           ack == IF last \/ ~ more
                  THEN <<SegmentACK(src, id, FALSE, seq, slot.ActualWindowSize)>>
                  ELSE <<>>
           pre == EarlyAbort(src, id) \o ack
           post == invoke_confirmed_service(
                     tsm_clear_peer_id(SetSlot(t, i, slot), slot.InvokeID),
                     src, id, sv).out
<1>1. \/ more /\ out' = pre
      \/ ~ more /\ out' = (pre \o <<Indication(src, id, slot.blob)>>) \o post
  <2>1. Restarted(old) \in SlotType
    BY RestartedFields
  <2>. QED  BY <2>1 DEF NewSegment, NextSlot, SlotType
<1> HIDE DEF slot
<1>2. Without(ack, "Indication")
  BY WithoutOne, WithoutNone, MessageTypes
<1> HIDE DEF ack
<1>3. Without(pre, "Indication")
  BY <1>2, EarlyAbortOut, WithoutJoin
<1>4. Without(post, "Indication")
  BY ServiceOut
<1> HIDE DEF pre, post
<1>. QED  BY <1>1, <1>3, <1>4 DEF slot, Indicates

LEMMA SegmentOut ==
    ASSUME WellFormed(tsm), Consistent(tsm), NEW src \in Address,
           NEW id \in PeerInvokeID, NEW seq \in SeqNumbers, NEW more \in BOOLEAN,
           NEW window \in Bytes, NEW sv \in Service,
           apdu_handler_confirmed_service_segment(src, id, seq, more, window, sv)
    PROVE  OneIndication(out', Paired(tsm, 0) /\ Tagged(tsm))
<1> DEFINE g == tsm_get_peer_id(tsm, src, id)
           t == g.t
           i == tsm_find_invokeID_index(t, g.id)
<1>1. WellFormed(t) /\ Calm(tsm, t)
  BY SmallValues, GetPeerWellFormed, GetPeerCalm
<1>2. /\ Consistent(t)
      /\ Tagged(tsm) => Tagged(t)
  BY <1>1, CalmConsistent, CalmTagged
<1>3. \/ \E reason : out' = <<Abort(src, id, reason)>>
      \/ out' = <<>>
      \/ FirstSegment(t, i, src, id, seq, window)
      \/ /\ g.id # 0 /\ i \in Slots
         /\ t.list[i].state = SEGMENTED_REQUEST_SERVER
         /\ LaterSegment(t, i, src, id, seq, more, sv)
  BY DEF apdu_handler_confirmed_service_segment
<1>4. ASSUME g.id # 0, i \in Slots
      PROVE  t.list[i].InvokeID = g.id /\ t.list[i] \in SlotType
  BY <1>1, <1>4, FoundSlot DEF WellFormed
<1>5. ASSUME g.id # 0, i \in Slots, Paired(tsm, 0), Tagged(t),
             t.list[i].state = SEGMENTED_REQUEST_SERVER
      PROVE  Carries(t.list[i].blob, src, id) /\ OwnedBy(t, i, src, id)
  BY <1>4, <1>5, GetPeerOwned
<1> HIDE DEF g, i
<1>6. CASE (\E reason : out' = <<Abort(src, id, reason)>>) \/ out' = <<>>
  BY <1>6, WithoutOne, WithoutNone, MessageTypes DEF OneIndication
<1>7. CASE FirstSegment(t, i, src, id, seq, window)
  <2>1. \/ \E reason : out' = <<Abort(src, id, reason)>>
        \/ out' = <<SegmentACK(src, id, FALSE, 0, window)>>
    BY <1>7 DEF FirstSegment
  <2>. QED  BY <2>1, WithoutOne, MessageTypes DEF OneIndication
<1>8. CASE /\ g.id # 0 /\ i \in Slots
           /\ t.list[i].state = SEGMENTED_REQUEST_SERVER
           /\ LaterSegment(t, i, src, id, seq, more, sv)
  <2>1. CASE \/ DuplicateSegment(t, i, src, id)
             \/ OutOfOrderSegment(t, i, src, id)
             \/ TooManySegments(t, i, src, id)
    <3>1. \/ out' = EarlyAbort(src, id)
          \/ \E n, w : out' = Append(EarlyAbort(src, id),
                                     SegmentACK(src, id, TRUE, n, w))
          \/ \E r : out' = Append(EarlyAbort(src, id), Abort(src, id, r))
      BY <2>1 DEF DuplicateSegment, OutOfOrderSegment, TooManySegments
    <3>. QED  BY <3>1, EarlyAbortOut, WithoutAppend, MessageTypes DEF OneIndication
  <2>2. CASE /\ seq = (t.list[i].LastSequenceNumber + 1) % SEQ
             /\ t.list[i].ReceivedSegmentsCount + 1 <= MAX_SEGMENTS_ACCEPTED
             /\ NewSegment(t, i, src, id, seq, more, sv)
    <3> DEFINE data == NextSlot(t.list[i], src, id, seq).blob
    <3>1. t.list[i].InvokeID # 0 /\ t.list[i] \in SlotType /\ Receiving(t.list[i])
      BY <1>2, <1>4, <1>8 DEF Consistent
    <3>2. data \in Seq(Payloads)
      <4>1. NextSlot(t.list[i], src, id, seq) \in SlotType
        BY <1>8, <2>2, <3>1, NextSlotEffect
      <4>. QED  BY <4>1 DEF SlotType
    <3>3. Paired(tsm, 0) /\ Tagged(tsm) => Carries(data, src, id)
      <4>1. /\ Tagged(t) /\ OwnedBy(t, i, src, id)
            /\ Carries(t.list[i].blob, src, id)
            => Carries(data, src, id)
        BY <1>1, <1>2, <1>8, <2>2, <3>1, NewSegmentKeeps
      <4>. QED  BY <1>2, <1>5, <1>8, <4>1
    <3>4. \/ Without(out', "Indication")
          \/ Indicates(out', src, id, data)
      <4>1. /\ t.list[i] \in SlotType
            /\ NewSegment(t, i, src, id, seq, more, sv)
        BY <2>2, <3>1
      <4> HIDE DEF t
      <4>. QED  BY <4>1, NewSegmentOut
    <3> HIDE DEF data
    <3>. QED  BY <3>2, <3>3, <3>4 DEF OneIndication
  <2>. QED  BY <1>8, <2>1, <2>2 DEF LaterSegment
<1>. QED  BY <1>3, <1>6, <1>7, <1>8

LEMMA RequestOut ==
    ASSUME NEW src, NEW id, NEW sv, apdu_handler_confirmed_service(src, id, sv)
    PROVE  OneIndication(out', TRUE)
<1> DEFINE post == invoke_confirmed_service(tsm, src, id, sv).out
           none == <<>>
           m == Indication(src, id, none)
<1>1. \/ out' = <<Abort(src, id, "INVALID_APDU_IN_THIS_STATE")>>
      \/ out' = <<m>> \o post
  BY DEF apdu_handler_confirmed_service
<1>2. Without(post, "Indication")
  BY ServiceOut
<1>3. none \in Seq(Payloads) /\ Carries(none, src, id)
  BY DEF Carries
<1>4. Without(none, "Indication")
  BY WithoutNone
<1>5. <<m>> = none \o <<m>>
  <2> HIDE DEF m
  <2>1. <<m>> \in Seq({m})
    OBVIOUS
  <2>. QED  BY <2>1
<1> HIDE DEF post, none
<1>6. CASE out' = <<m>> \o post
  <2>1. out' = (none \o <<m>>) \o post
    BY <1>5, <1>6
  <2>. QED  BY <1>2, <1>3, <1>4, <2>1 DEF OneIndication, Indicates
<1>7. CASE out' = <<Abort(src, id, "INVALID_APDU_IN_THIS_STATE")>>
  BY <1>7, WithoutOne, MessageTypes DEF OneIndication
<1>. QED  BY <1>1, <1>6, <1>7

LEMMA SegmentACKOut ==
    ASSUME WellFormed(tsm), Consistent(tsm), NEW src, NEW id,
           NEW seq \in SeqNumbers, NEW window \in Bytes, NEW server \in BOOLEAN,
           tsm_segmentack_received(src, id, seq, window, server),
           NEW type, type \notin {"Request", "Segment", "Abort"}
    PROVE  Without(out', type)
<1>1. \/ out' = <<>>
      \/ \E x : out' = <<Abort(src, x, "INVALID_APDU_IN_THIS_STATE")>>
      \/ \E x : /\ x # 0 /\ tsm_find_invokeID_index(tsm, x) \in Slots
               /\ tsm.list[tsm_find_invokeID_index(tsm, x)].state
                     = SEGMENTED_RESPONSE_SERVER
               /\ ResponseAcked(tsm_find_invokeID_index(tsm, x), seq, window)
  <2>1. MAX_TSM_TRANSACTIONS \notin Slots
    BY TsmConstants DEF Slots
  <2>. QED  BY <2>1 DEF tsm_segmentack_received
<1>2. ASSUME NEW i \in Slots, tsm.list[i].state = SEGMENTED_RESPONSE_SERVER,
             ResponseAcked(i, seq, window)
      PROVE  Without(out', type)
  <2> DEFINE slot == tsm.list[i]
             next == NextToSend(slot, seq)
             slid == [slot EXCEPT
                        !.InitialSequenceNumber = next % SEQ,
                        !.ActualWindowSize = window,
                        !.SegmentRetryCount = Retries,
                        !.SegmentTimer = SegTimeout]
  <2>1. slot \in SlotType /\ Answering(slot)
    BY DEF WellFormed, TableType, Consistent
  <2>2. \/ out' = <<>>
        \/ /\ out' = FillWindow(slid, slid.InitialSequenceNumber)
           /\ next < TotalSegments(slot)
    BY <1>2 DEF ResponseAcked
  <2>3. ASSUME next < TotalSegments(slot)
        PROVE  /\ slid \in SlotType /\ Answering(slid)
               /\ slid.state = SEGMENTED_RESPONSE_SERVER
               /\ slid.InitialSequenceNumber \in Nat
    BY <1>2, <2>1, <2>3, SlidAnswers
  <2> HIDE DEF slid, slot, next
  <2>. QED  BY <2>2, <2>3, FillWindowOut, WithoutNone
<1>. QED  BY <1>1, <1>2, WithoutOne, WithoutNone, SentTypes

LEMMA ResentOut ==
    ASSUME NEW slot \in SlotType,
           slot.state = SEGMENTED_RESPONSE_SERVER => Answering(slot),
           NEW type, type \notin {"Request", "Segment", "Abort"}
    PROVE  Without(Resent(slot), type)
<1>1. \/ \E d, x : Resent(slot) = <<Request(d, x)>>
      \/ /\ slot.state = SEGMENTED_RESPONSE_SERVER
         /\ Resent(slot) = FillWindow(slot, slot.InitialSequenceNumber)
      \/ Resent(slot) = <<>>
  BY DEF Resent, AWAIT_CONFIRMATION, SEGMENTED_RESPONSE_SERVER
<1>2. slot.InitialSequenceNumber \in SeqNumbers
  BY DEF SlotType
<1>3. slot.InitialSequenceNumber \in Nat
  BY <1>2, TsmConstants DEF SeqNumbers
<1>. QED  BY <1>1, <1>3, FillWindowOut, WithoutOne, WithoutNone, SentTypes

(* What f must be for it to list what slots 0 to n send.                   *)
Lists(f, n) ==
    \A i \in 0 .. n :
        f[i] = IF i = 0 THEN Resent(tsm.list[0])
                        ELSE f[i - 1] \o Resent(tsm.list[i])

LEMMA ListsExist ==
    ASSUME NEW n \in Nat
    PROVE  \E f : Lists(f, n)
<1> DEFINE T == {m \in Nat : ~ \E f : Lists(f, m)}
<1>1. ASSUME T # {} PROVE FALSE
  <2>1. PICK m \in T : \A y \in T : m <= y
    BY <1>1, LeastNatural
  <2>2. CASE m = 0
    <3> DEFINE f == [i \in {0} |-> Resent(tsm.list[0])]
    <3>1. Lists(f, 0)
      BY DEF Lists
    <3> HIDE DEF f
    <3>. QED  BY <2>1, <2>2, <3>1
  <2>3. CASE m # 0
    <3>1. m - 1 \in Nat /\ m - 1 \notin T
      BY <2>1, <2>3
    <3>2. PICK h : Lists(h, m - 1)
      BY <3>1
    <3> DEFINE f == [i \in 0 .. m |-> IF i = m THEN h[m - 1] \o Resent(tsm.list[m])
                                              ELSE h[i]]
    <3>3. \A i \in 0 .. m :
            f[i] = IF i = 0 THEN Resent(tsm.list[0])
                            ELSE f[i - 1] \o Resent(tsm.list[i])
      <4> TAKE i \in 0 .. m
      <4>1. CASE i = m
        <5>1. f[i] = h[m - 1] \o Resent(tsm.list[m]) /\ f[m - 1] = h[m - 1]
          BY <2>3, <4>1, <3>1
        <5> HIDE DEF f
        <5>. QED  BY <2>3, <4>1, <5>1
      <4>2. CASE i # m
        <5>1. i \in 0 .. m - 1 /\ f[i] = h[i]
          BY <3>1, <4>2
        <5>2. i # 0 => f[i - 1] = h[i - 1]
          BY <3>1, <4>2
        <5> HIDE DEF f
        <5>. QED  BY <3>2, <5>1, <5>2 DEF Lists
      <4>. QED  BY <4>1, <4>2
    <3> HIDE DEF f
    <3>4. Lists(f, m)
      BY <3>3 DEF Lists
    <3>. QED  BY <2>1, <3>4
  <2>. QED  BY <2>2, <2>3
<1>. QED  BY <1>1

LEMMA ResentEquation ==
    \A i \in Slots :
        resent[i] = IF i = 0 THEN Resent(tsm.list[0])
                             ELSE resent[i - 1] \o Resent(tsm.list[i])
<1> DEFINE Is(f) == f = [i \in Slots |-> IF i = 0 THEN Resent(tsm.list[0])
                                      ELSE f[i - 1] \o Resent(tsm.list[i])]
<1>1. resent = CHOOSE f : Is(f)
  BY DEF resent
<1>2. \E f : Is(f)
  <2>1. MAX_TSM_TRANSACTIONS - 1 \in Nat /\ Slots = 0 .. MAX_TSM_TRANSACTIONS - 1
    BY TsmConstants DEF Slots
  <2>2. PICK h : Lists(h, MAX_TSM_TRANSACTIONS - 1)
    BY <2>1, ListsExist
  <2> DEFINE f == [i \in Slots |-> h[i]]
  <2>3. \A i \in Slots :
          f[i] = IF i = 0 THEN Resent(tsm.list[0])
                          ELSE f[i - 1] \o Resent(tsm.list[i])
    <3> TAKE i \in Slots
    <3>1. i # 0 => i - 1 \in Slots
      BY <2>1
    <3>2. f[i] = h[i] /\ (i # 0 => f[i - 1] = h[i - 1])
      BY <3>1
    <3> HIDE DEF f
    <3>. QED  BY <2>1, <2>2, <3>2 DEF Lists
  <2>4. f = [i \in Slots |-> f[i]]
    OBVIOUS
  <2> HIDE DEF f
  <2>5. Is(f)
    BY <2>3, <2>4
  <2>. QED  BY <2>5
<1>3. Is(resent)
  <2> HIDE DEF Is
  <2>. QED  BY <1>1, <1>2
<1> DEFINE e(i) == IF i = 0 THEN Resent(tsm.list[0])
                           ELSE resent[i - 1] \o Resent(tsm.list[i])
<1>4. resent = [i \in Slots |-> e(i)]
  BY <1>3
<1> HIDE DEF Is
<1>5. \A i \in Slots : resent[i] = e(i)
  <2> HIDE DEF e
  <2>. QED  BY <1>4
<1>. QED  BY <1>5

LEMMA TimerOut ==
    ASSUME WellFormed(tsm), Consistent(tsm), tsm_timer_milliseconds,
           NEW type, type \notin {"Request", "Segment", "Abort"}
    PROVE  Without(out', type)
<1>1. \A i \in Slots : Without(Resent(tsm.list[i]), type)
  BY ResentOut DEF WellFormed, TableType, Consistent
<1> DEFINE T == {i \in Slots : ~ Without(resent[i], type)}
<1>2. Slots \subseteq Nat /\ MAX_TSM_TRANSACTIONS - 1 \in Slots
      /\ \A i \in Slots : i # 0 => i - 1 \in Slots
  BY TsmConstants DEF Slots
<1>3. ASSUME T # {} PROVE FALSE
  <2>0. T \subseteq Nat
    BY <1>2
  <2>1. PICK i \in T : \A y \in T : i <= y
    BY <1>3, <2>0, LeastNatural
  <2>2. i # 0 => i - 1 \in Slots /\ ~ (i <= i - 1)
    BY <1>2, <2>1
  <2>3. i # 0 => Without(resent[i - 1], type)
    BY <2>1, <2>2
  <2>. QED  BY <1>1, <2>1, <2>3, ResentEquation, WithoutJoin
<1>4. Without(resent[MAX_TSM_TRANSACTIONS - 1], type)
  BY <1>2, <1>3
<1>. QED  BY <1>4 DEF tsm_timer_milliseconds

(* Every call indicates at most one request.                               *)
LEMMA StepOut ==
    ASSUME TypedAndUnique, Consistent(tsm), Next
    PROVE  OneIndication(out', Paired(tsm, 0) /\ Tagged(tsm))
<1>1. WellFormed(tsm)
  BY DEF TypedAndUnique, TypeOK, UniqueInvokeIDs, WellFormed
<1>2. CASE SegmentArrives
  <2>1. PICK src \in Address, id \in PeerInvokeID, seq \in SeqNumbers,
             more \in BOOLEAN, window \in Bytes, sv \in Service :
           apdu_handler_confirmed_service_segment(src, id, seq, more, window, sv)
    BY <1>2, SmallValues, WindowSizes DEF SegmentArrives
  <2>. QED  BY <1>1, <2>1, SegmentOut
<1>3. CASE RequestArrives
  <2>1. OneIndication(out', TRUE)
    BY <1>3, RequestOut DEF RequestArrives
  <2>. QED  BY <2>1 DEF OneIndication
<1>4. CASE Without(out', "Indication")
  BY <1>4 DEF OneIndication
<1>5. CASE SegmentACKArrives
  <2>1. PICK src \in Address, id \in PeerInvokeID, seq \in SeqNumbers,
             window \in Bytes, server \in BOOLEAN :
           tsm_segmentack_received(src, id, seq, window, server)
    BY <1>5, WindowSizes DEF SegmentACKArrives
  <2>. QED  BY <1>1, <1>4, <2>1, SegmentACKOut
<1>6. CASE tsm_timer_milliseconds
  BY <1>1, <1>4, <1>6, TimerOut
<1>7. CASE ClientAbortArrives \/ AnswerArrives
  <2>1. \/ \E d, x, a : out' = <<Answered(d, x, a)>>
        \/ \E d, x, r : out' = <<Abort(d, x, r)>>
    BY <1>7 DEF ClientAbortArrives, AnswerArrives, AckReceived, ErrorReceived,
                AbortReceived
  <2>. QED  BY <1>4, <2>1, WithoutOne, MessageTypes
<1>8. CASE \/ \E dest \in Address, fits \in BOOLEAN : SendRequest(dest, fits)
           \/ \E request \in pending : Poll(request)
  <2>1. out' = <<>> \/ \E d, x : out' = <<Request(d, x)>>
    BY <1>8 DEF SendRequest, Poll
  <2>. QED  BY <1>4, <2>1, WithoutOne, WithoutNone, MessageTypes
<1>. QED  BY <1>2, <1>3, <1>5, <1>6, <1>7, <1>8 DEF Next, ServerNext, ClientNext

-----------------------------------------------------------------------------
(* A device that only answers: the data of a slot belongs to its peer.     *)

LEMMA StepKeepsTagged ==
    ASSUME InStep, Consistent(tsm), Tagged(tsm), [ServerNext]_vars
    PROVE  Tagged(tsm')
<1>1. Paired(tsm, 0) /\ WellFormed(tsm)
  BY DEF InStep, Paired
<1>2. CASE SegmentArrives
  <2>1. PICK src \in Address, id \in PeerInvokeID, seq \in SeqNumbers,
             more \in BOOLEAN, window \in Bytes, sv \in Service :
           apdu_handler_confirmed_service_segment(src, id, seq, more, window, sv)
    BY <1>2, SmallValues, WindowSizes DEF SegmentArrives
  <2>. QED  BY <1>1, <2>1, SegmentKeeps
<1>3. CASE RequestArrives
  BY <1>1, <1>3, RequestKeeps DEF RequestArrives
<1>4. CASE SegmentACKArrives
  <2>1. PICK src \in Address, id \in PeerInvokeID, seq \in SeqNumbers,
             window \in Bytes, server \in BOOLEAN :
           tsm_segmentack_received(src, id, seq, window, server)
    BY <1>4, WindowSizes DEF SegmentACKArrives
  <2>2. Calm(tsm, tsm')
    BY <1>1, <2>1, SegmentACKCalm
  <2>. QED  BY <2>2, CalmTagged
<1>5. CASE ClientAbortArrives
  <2>1. PICK src \in Address, id \in PeerInvokeID : AbortReceived(src, id, FALSE)
    BY <1>5 DEF ClientAbortArrives
  <2>2. tsm' = tsm_free_invoke_id_segmentation(tsm, src, id)
    BY <2>1 DEF AbortReceived
  <2>. QED  BY <1>1, <2>2, SmallValues, FreeSegmentationKeeps
<1>6. CASE tsm_timer_milliseconds
  <2>1. SameData(tsm, tsm')
    BY <1>1, <1>6, TimerKeeps
  <2>. QED  BY <2>1, SameDataTagged
<1>7. CASE UNCHANGED vars
  <2>1. tsm' = tsm
    BY <1>7 DEF vars
  <2>. QED  BY <2>1
<1>. QED  BY <1>2, <1>3, <1>4, <1>5, <1>6, <1>7 DEF ServerNext

ServedInOrder ==
    InStep /\ Consistent(tsm) /\ Tagged(tsm) /\ ReassembledInOrder

(* In a device that only answers, a service handler is given the data of   *)
(* consecutive segments of one exchange of one peer, from the first one on *)
(* and with none missing, repeated or swapped, whatever other exchanges,   *)
(* aborts, timeouts and new uses of the same slot are interleaved.         *)
THEOREM ReassembledInOrderTheorem == ServerSpec => []ReassembledInOrder
<1>1. Init => ServedInOrder
  <2> SUFFICES ASSUME Init PROVE ServedInOrder
    OBVIOUS
  <2>1. InStep /\ Consistent(tsm) /\ Tagged(tsm)
    BY InitiallyInStep, InitiallyConsistent DEF ConsistentInv
  <2>2. ReassembledInOrder
    BY DEF Init, ReassembledInOrder
  <2>. QED  BY <2>1, <2>2 DEF ServedInOrder
<1>2. ServedInOrder /\ [ServerNext]_vars => ServedInOrder'
  <2> SUFFICES ASSUME ServedInOrder, [ServerNext]_vars PROVE ServedInOrder'
    OBVIOUS
  <2>1. /\ InStep /\ Consistent(tsm) /\ Tagged(tsm)
        /\ TypedAndUnique /\ Paired(tsm, 0) /\ [Next]_vars
    BY DEF ServedInOrder, InStep, Next
  <2>2. InStep'
    BY <2>1, StepKeepsInStep
  <2>3. Consistent(tsm') /\ Tagged(tsm')
    BY <2>1, StepKeepsConsistent, StepKeepsTagged
  <2>4. Consistent(tsm)' /\ Tagged(tsm)'
    BY <2>3 DEF Consistent, Tagged, Receiving, Answering, TotalSegments, Carries
  <2>5. ReassembledInOrder'
    <3>1. CASE ServerNext
      <4>1. OneIndication(out', Paired(tsm, 0) /\ Tagged(tsm))
        BY <2>1, <3>1, StepOut DEF Next
      <4>2. OneIndication(out', TRUE)
        BY <2>1, <4>1 DEF OneIndication
      <4>. QED  BY <4>2, IndicationInOrder DEF ReassembledInOrder
    <3>2. CASE UNCHANGED vars
      BY <3>2 DEF vars, ServedInOrder, ReassembledInOrder
    <3>. QED  BY <3>1, <3>2
  <2>. QED  BY <2>2, <2>4, <2>5 DEF ServedInOrder
<1>3. ServedInOrder => ReassembledInOrder
  BY DEF ServedInOrder
<1>. QED  BY <1>1, <1>2, <1>3, PTL DEF ServerSpec
=============================================================================
