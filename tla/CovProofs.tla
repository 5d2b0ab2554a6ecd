------------------------------ MODULE CovProofs ------------------------------
(***************************************************************************)
(* Change-of-value subscriptions: their address list, the invoke IDs they  *)
(* hold and the changes they are owed, for every number of subscriptions,  *)
(* addresses and slots and whatever the clients ask for.                   *)
(***************************************************************************)
EXTENDS Cov, TsmProofs

-----------------------------------------------------------------------------
(* The invariant.                                                          *)

(* The context of an entry that is not valid may be none of a request.     *)
SubscriptionType ==
    [valid : BOOLEAN, dest_index : 0 .. MAX_COV_ADDRESSES,
     context : Contexts \cup {Invalid.context}, confirmed : BOOLEAN,
     invokeID : AnyInvokeID, lifetime : Nat, send_requested : BOOLEAN]

(* AddressesShared and SlotsHeld of a list of subscriptions, a list of     *)
(* addresses and a table.                                                  *)
Listed(addresses, a) == IF a \in AddressEntries THEN addresses[a] ELSE NoAddress

Shared(subs, addresses) ==
    /\ \A i \in Subscriptions :
         subs[i].valid =>
            Listed(addresses, subs[i].dest_index) = subs[i].context.src
    /\ \A a, b \in AddressEntries :
         addresses[a] = addresses[b] /\ addresses[a] # NoAddress => a = b
    /\ \A a \in AddressEntries :
         addresses[a] # NoAddress =>
            \E i \in Subscriptions : subs[i].valid /\ subs[i].dest_index = a

Holds(sub, slot) ==
    /\ sub.valid /\ sub.confirmed
    /\ sub.invokeID = slot.InvokeID /\ sub.context.src = slot.dest

Held(subs, t) ==
    \A k \in Slots : t.list[k].InvokeID # 0 =>
        \E i \in Subscriptions : Holds(subs[i], t.list[k])

(* The table of a device that sends nothing but notifications: no peer has *)
(* an exchange with it, and a free slot awaits nothing.                    *)
Notifying(t) ==
    /\ WellFormed(t)
    /\ \A p \in PeerEntries : t.peers[p].InternalInvokeID = 0
    /\ \A j \in Slots : t.list[j].InvokeID = 0 => t.list[j].state = IDLE

ListType(subs, addresses) ==
    /\ subs \in [Subscriptions -> SubscriptionType]
    /\ addresses \in [AddressEntries -> Address \cup {NoAddress}]
    /\ \A i \in Subscriptions : subs[i].valid => subs[i].context \in Contexts

Agree(subs, addresses, t) ==
    /\ ListType(subs, addresses)
    /\ Shared(subs, addresses)
    /\ Notifying(t)
    /\ Held(subs, t)

CovInv ==
    /\ Agree(COV_Subscriptions, COV_Addresses, tsm)
    /\ index \in Subscriptions

-----------------------------------------------------------------------------
(* The table: slots are freed, and the others keep who they talk to.       *)

Freed(t, u) ==
    /\ Notifying(u)
    /\ \A j \in Slots :
         \/ u.list[j].InvokeID = 0
         \/ /\ u.list[j].InvokeID = t.list[j].InvokeID
            /\ u.list[j].dest = t.list[j].dest

LEMMA FreedHeld ==
    ASSUME NEW subs, NEW t, NEW u, Held(subs, t), Freed(t, u)
    PROVE  Held(subs, u)
BY DEF Held, Freed, Holds

(* tsm_free_invoke_id: nothing uses the ID any more.                       *)
LEMMA FreeFreed ==
    ASSUME NEW t, Notifying(t), NEW id, id # 0
    PROVE  /\ Freed(t, tsm_free_invoke_id(t, id))
           /\ ~ Uses(tsm_free_invoke_id(t, id), id)
<1>. DEFINE i == tsm_find_invokeID_index(t, id)
            u == tsm_free_invoke_id(t, id)
<1>1. WellFormed(t) /\ t \in TableType /\ WellFormed(u)
  BY FreeWellFormed DEF Notifying, WellFormed
<1>2. CASE Uses(t, id)
  <2>1. i \in Slots /\ t.list[i].InvokeID = id
    BY <1>2, FindIndexFound
  <2>. DEFINE f == FreeSlot(t.list[i])
  <2>2. f \in SlotType /\ f.InvokeID = 0 /\ f.state = IDLE
    <3>1. t.list[i] \in SlotType
      BY <1>1, <2>1 DEF TableType
    <3>. HIDE DEF i
    <3>. QED  BY <3>1, FreedSlotType
  <2>3. u = SetSlot(t, i, f)
    BY <2>1 DEF tsm_free_invoke_id
  <2>. HIDE DEF u, f, i
  <2>4. /\ u.list[i] = f /\ u.peers = t.peers
        /\ \A j \in Slots : j # i => u.list[j] = t.list[j]
    BY <1>1, <2>1, <2>2, <2>3, SetSlotEffect
  <2>5. Freed(t, u)
    BY <1>1, <2>2, <2>4 DEF Freed, Notifying
  <2>6. ~ Uses(u, id)
    <3>1. ASSUME NEW j \in Slots, t.list[j].InvokeID = id
          PROVE  j = i
      BY <1>1, <2>1, <3>1 DEF WellFormed, UniqueIDs
    <3>. QED  BY <2>2, <2>4, <3>1 DEF Uses
  <2>. QED  BY <2>5, <2>6 DEF u
<1>3. CASE ~ Uses(t, id)
  <2>1. u = t
    BY <1>3, FindIndexNone DEF tsm_free_invoke_id
  <2>. QED  BY <1>1, <1>3, <2>1 DEF Freed, Notifying
<1>. QED  BY <1>2, <1>3

LEMMA FreeHeldFreed ==
    ASSUME Notifying(tsm), NEW id
    PROVE  Freed(tsm, FreeHeld(id)) /\ (id # 0 => ~ Uses(FreeHeld(id), id))
<1>1. CASE id # 0
  BY <1>1, FreeFreed DEF FreeHeld
<1>2. CASE id = 0
  BY <1>2 DEF FreeHeld, Freed
<1>. QED  BY <1>1, <1>2

(* An Error for a notification is looked up in the peer table: an exchange *)
(* is made for it, and ended.                                              *)
LEMMA ErrorFreed ==
    ASSUME NEW t, Notifying(t), NEW src \in Address, NEW id \in AnyInvokeID
    PROVE  Freed(t, tsm_free_invoke_id_segmentation(t, src, id))
<1>. DEFINE g == tsm_get_peer_id(t, src, id)
            u == tsm_free_invoke_id_check(g.t, g.id, src)
            free == FirstFreePeer(t)
<1>1. WellFormed(t) /\ t \in TableType
  BY DEF Notifying, WellFormed
<1>2. WellFormed(g.t) /\ WellFormed(u)
  BY <1>1, GetPeerWellFormed, FreeCheckWellFormed
<1>3. FindPeer(t, src, id) \notin PeerEntries
  <2>1. \A p \in PeerEntries : ~ PeerMatches(t, p, src, id)
    BY DEF Notifying, PeerMatches
  <2>. QED  BY <2>1, FindPeerFound
<1>4. CASE g.id = 0
  <2>1. g.t = t
    BY <1>3, <1>4 DEF tsm_get_peer_id, CreatePeer
  <2>2. \/ u = t
        \/ \E i \in Slots :
              /\ t.list[i].InvokeID = 0
              /\ u.list[i].InvokeID = 0
              /\ u.list[i].state = IDLE
              /\ \A j \in Slots : j # i => u.list[j] = t.list[j]
              /\ \A p \in PeerEntries :
                   u.peers[p] = IF t.peers[p].InternalInvokeID = 0
                                THEN ZeroPeer ELSE t.peers[p]
    BY <1>1, <1>4, <2>1, FreeCheckEffect
  <2>. HIDE DEF u
  <2>3. Freed(t, u)
    BY <1>1, <1>2, <2>2 DEF Freed, Notifying, ZeroPeer
  <2>. QED  BY <2>3 DEF u, tsm_free_invoke_id_segmentation
<1>5. CASE g.id # 0
  <2>. DEFINE r == tsm_next_free_invokeID(t)
              i == tsm_find_invokeID_index(r.t, r.id)
              entry == [PeerAddress |-> src, PeerInvokeID |-> id,
                        InternalInvokeID |-> r.id]
              slot == [r.t.list[i] EXCEPT !.dest = src]
              v == SetSlot(r.t, i, slot)
  <2>1. /\ free \in PeerEntries /\ r.id # 0 /\ g.id = r.id
        /\ g.t = [v EXCEPT !.peers[free] = entry]
    BY <1>3, <1>5 DEF tsm_get_peer_id, CreatePeer
  <2>2. tsm_transaction_available(t)
    BY <2>1 DEF tsm_next_free_invokeID
  <2>3. PICK k \in Slots :
            /\ t.list[k].InvokeID = 0
            /\ r.t.list[k].InvokeID = r.id
            /\ \A j \in Slots : j # k => r.t.list[j] = t.list[j]
    BY <1>1, <2>2, NextFreeEffect
  <2>4. /\ r.t \in TableType /\ r.id \in InvokeIDs /\ ~ Uses(t, r.id)
        /\ r.t.peers = t.peers
    BY <1>1, <2>2, NextFreeEffect
  <2>. HIDE DEF r
  <2>5. \A j \in Slots : r.t.list[j].InvokeID = r.id => j = k
    BY <2>3, <2>4 DEF Uses
  <2>6. i = k
    <3>1. Uses(r.t, r.id)
      BY <2>3 DEF Uses
    <3>. QED  BY <2>5, <3>1, FindIndexFound
  <2>7. slot \in SlotType /\ slot.InvokeID = r.id /\ slot.dest = src
    <3>1. r.t.list[i] \in SlotType
      BY <2>4, <2>6 DEF TableType
    <3>. QED  BY <2>3, <2>6, <3>1 DEF SlotType
  <2>. HIDE DEF i, slot
  <2>8. /\ v \in TableType /\ v.peers = t.peers /\ v.list[k] = slot
        /\ \A j \in Slots : j # k => v.list[j] = t.list[j]
    BY <2>3, <2>4, <2>6, <2>7, SetSlotEffect
  <2>. HIDE DEF v
  <2>9. /\ g.t.list = v.list /\ g.t.peers = [t.peers EXCEPT ![free] = entry]
    BY <2>1, <2>8 DEF TableType
  <2>10. /\ g.t.list[k].InvokeID = r.id /\ g.t.list[k].dest = src
         /\ \A j \in Slots : j # k => g.t.list[j] = t.list[j]
         /\ g.t \in TableType
    BY <1>2, <2>7, <2>8, <2>9 DEF WellFormed
  <2>11. /\ entry.InternalInvokeID = r.id
         /\ \A p \in PeerEntries :
              g.t.peers[p].InternalInvokeID = IF p = free THEN r.id ELSE 0
    <3>1. t.peers \in [PeerEntries -> PeerType]
      BY <1>1 DEF TableType
    <3>2. entry.InternalInvokeID = r.id
      OBVIOUS
    <3>. HIDE DEF entry, g
    <3>. QED  BY <2>1, <2>9, <3>1, <3>2 DEF Notifying
  <2>. HIDE DEF g, entry
  <2>12. \A j \in Slots : g.t.list[j].InvokeID = r.id => j = k
    BY <2>4, <2>10 DEF Uses
  <2>13. /\ u.list[k].InvokeID = 0 /\ u.list[k].state = IDLE
         /\ \A j \in Slots : j # k => u.list[j] = t.list[j]
         /\ \A p \in PeerEntries :
              u.peers[p] = IF g.t.peers[p].InternalInvokeID = r.id
                           THEN ZeroPeer ELSE g.t.peers[p]
    <3>1. tsm_find_invokeID_index(g.t, g.id) = k
      <4>1. Uses(g.t, r.id)
        BY <2>10 DEF Uses
      <4>2. /\ tsm_find_invokeID_index(g.t, r.id) \in Slots
            /\ g.t.list[tsm_find_invokeID_index(g.t, r.id)].InvokeID = r.id
        BY <4>1, FindIndexFound
      <4>. QED  BY <2>1, <2>12, <4>2
    <3>. DEFINE w == tsm_clear_peer_id(g.t, r.id)
                f == free_blob(FreeSlot(g.t.list[k]))
    <3>2. u = SetSlot(w, k, f)
      BY <2>1, <2>10, <3>1 DEF tsm_free_invoke_id_check
    <3>3. f \in SlotType /\ f.InvokeID = 0 /\ f.state = IDLE
      <4>1. g.t.list[k] \in SlotType
        BY <2>10 DEF TableType
      <4>. QED  BY <4>1, FreedSlotType
    <3>4. /\ w \in TableType /\ w.list = g.t.list
          /\ \A p \in PeerEntries :
               w.peers[p] = IF g.t.peers[p].InternalInvokeID = r.id
                            THEN ZeroPeer ELSE g.t.peers[p]
      BY <2>10, ClearPeerEffect
    <3>. HIDE DEF u, w, f
    <3>5. /\ u.list[k] = f /\ u.peers = w.peers
          /\ \A j \in Slots : j # k => u.list[j] = w.list[j]
      BY <3>2, <3>3, <3>4, SetSlotEffect
    <3>. QED  BY <2>10, <3>3, <3>4, <3>5
  <2>. HIDE DEF u
  <2>14. Freed(t, u)
    BY <1>1, <1>2, <2>3, <2>11, <2>13 DEF Freed, Notifying, ZeroPeer
  <2>. QED  BY <2>14 DEF u, g, tsm_free_invoke_id_segmentation
<1>. QED  BY <1>4, <1>5

(* A tick of the timer, which may give a notification up, frees no slot of *)
(* ours.                                                                   *)
LEMMA TimerFreed ==
    ASSUME Notifying(tsm), tsm_timer_milliseconds
    PROVE  Freed(tsm, tsm')
<1>1. tsm \in TableType /\ WellFormed(tsm')
  BY TimerWellFormed DEF Notifying, WellFormed
<1>2. \A j \in Slots : tsm'.list[j] = Ticked(tsm.list[j])
  BY <1>1 DEF tsm_timer_milliseconds, TableType
<1>3. \A p \in PeerEntries : tsm'.peers[p].InternalInvokeID = 0
  BY <1>1 DEF tsm_timer_milliseconds, TableType, Notifying, ZeroPeer
<1>4. ASSUME NEW slot \in SlotType
      PROVE  \/ Ticked(slot).InvokeID = 0 /\ Ticked(slot).state = IDLE
             \/ /\ Ticked(slot).InvokeID = slot.InvokeID
                /\ Ticked(slot).dest = slot.dest
                /\ slot.state = IDLE => Ticked(slot).state = IDLE
  <2>1. free_blob(FreeSlot(slot)).InvokeID = 0 /\ free_blob(FreeSlot(slot)).state = IDLE
    BY FreedSlotType
  <2>2. CASE slot.state = SEGMENTED_REQUEST_SERVER /\ Expires(slot)
    BY <2>1, <2>2 DEF Ticked, IDLE, AWAIT_CONFIRMATION,
       SEGMENTED_REQUEST_SERVER, SEGMENTED_RESPONSE_SERVER
  <2>3. CASE ~ (slot.state = SEGMENTED_REQUEST_SERVER /\ Expires(slot))
    BY <2>3 DEF Ticked, SlotType, TsmStates, IDLE, AWAIT_CONFIRMATION,
       SEGMENTED_REQUEST_SERVER, SEGMENTED_RESPONSE_SERVER
  <2>. QED  BY <2>2, <2>3
<1>5. \A j \in Slots : tsm.list[j] \in SlotType
  BY <1>1 DEF TableType
<1>. QED  BY <1>1, <1>2, <1>3, <1>4, <1>5 DEF Freed, Notifying

(* A subscription holds no slot of the table.                              *)
Gone(sub, t) == sub.confirmed /\ sub.invokeID # 0 => ~ Uses(t, sub.invokeID)

LEMMA ExpiryFreed ==
    ASSUME Notifying(tsm)
    PROVE  /\ Freed(tsm, ExpiryFreesSlots)
           /\ \A i \in Subscriptions :
                Expired(i) => Gone(COV_Subscriptions[i], ExpiryFreesSlots)
<1>. DEFINE freed == {COV_Subscriptions[i].invokeID :
                        i \in {j \in Subscriptions :
                                Expired(j) /\ COV_Subscriptions[j].confirmed}}
                     \ {0}
            u == ExpiryFreesSlots
<1>1. tsm \in TableType /\ UniqueIDs(tsm)
  BY DEF Notifying, WellFormed
<1>2. \A j \in Slots : tsm.list[j] \in SlotType
  BY <1>1 DEF TableType
<1>3. /\ u.peers = tsm.peers /\ u.cur = tsm.cur
      /\ \A j \in Slots : u.list[j] = IF tsm.list[j].InvokeID \in freed
                                      THEN FreeSlot(tsm.list[j]) ELSE tsm.list[j]
  BY <1>1 DEF ExpiryFreesSlots, TableType
<1>4. \A j \in Slots : /\ FreeSlot(tsm.list[j]) \in SlotType
                       /\ FreeSlot(tsm.list[j]).InvokeID = 0
                       /\ FreeSlot(tsm.list[j]).state = IDLE
  BY <1>2, FreedSlotType
<1>5. u \in TableType
  <2>1. [i \in Slots |-> IF tsm.list[i].InvokeID \in freed
                         THEN FreeSlot(tsm.list[i]) ELSE tsm.list[i]]
            \in [Slots -> SlotType]
    BY <1>2, <1>4
  <2>. QED  BY <1>1, <2>1 DEF ExpiryFreesSlots, TableType
<1>. HIDE DEF u, freed
<1>6. WellFormed(u)
  BY <1>1, <1>3, <1>4, <1>5, FreeingKeepsUnique
<1>7. Freed(tsm, u)
  BY <1>3, <1>4, <1>6 DEF Freed, Notifying
<1>8. \A id \in freed : ~ Uses(u, id)
  <2>1. 0 \notin freed
    BY DEF freed
  <2>. QED  BY <1>3, <1>4, <2>1 DEF Uses
<1>9. \A i \in Subscriptions :
        Expired(i) /\ COV_Subscriptions[i].confirmed
        /\ COV_Subscriptions[i].invokeID # 0 => COV_Subscriptions[i].invokeID \in freed
  BY DEF freed
<1>. QED  BY <1>7, <1>8, <1>9 DEF u, Gone

-----------------------------------------------------------------------------
(* The subscriptions and their addresses.                                  *)

LEMMA ContextSource ==
    ASSUME NEW c \in Contexts
    PROVE  c.src \in Address /\ c.src # NoAddress
BY CovConstants, TsmConstants DEF Contexts

LEMMA InvalidType ==
    Invalid \in SubscriptionType /\ Invalid.valid = FALSE /\ Invalid.invokeID = 0
<1>. DEFINE c == CHOOSE x \in Contexts : TRUE
<1>1. Invalid = [valid |-> FALSE, dest_index |-> MAX_COV_ADDRESSES, context |-> c,
                 confirmed |-> FALSE, invokeID |-> 0, lifetime |-> 0,
                 send_requested |-> FALSE]
  BY DEF Invalid
<1>2. MAX_COV_ADDRESSES \in 0 .. MAX_COV_ADDRESSES /\ 0 \in AnyInvokeID
  BY CovConstants, SmallValues
<1>. HIDE DEF c
<1>3. Invalid.context = c /\ Invalid.valid = FALSE /\ Invalid.invokeID = 0
  BY <1>1
<1>4. Invalid \in [valid : BOOLEAN, dest_index : 0 .. MAX_COV_ADDRESSES,
                   context : Contexts \cup {c}, confirmed : BOOLEAN,
                   invokeID : AnyInvokeID, lifetime : Nat, send_requested : BOOLEAN]
  BY <1>1, <1>2
<1>. QED  BY <1>3, <1>4 DEF SubscriptionType

(* cov_address_add finds the address, or a place for it.                   *)
LEMMA AddressAdded ==
    ASSUME NEW src
    PROVE  LET a == cov_address_add(src)
           IN /\ (\E b \in AddressEntries : COV_Addresses[b] = src) =>
                    a \in AddressEntries /\ COV_Addresses[a] = src
              /\ a \in AddressEntries =>
                    \/ COV_Addresses[a] = src
                    \/ /\ COV_Addresses[a] = NoAddress
                       /\ \A b \in AddressEntries : COV_Addresses[b] # src
<1>. DEFINE S == {a \in AddressEntries : COV_Addresses[a] = src}
            F == {a \in AddressEntries : COV_Addresses[a] = NoAddress}
            f == First(F, -1)
            r == First(S, f)
<1>1. S \subseteq Nat /\ F \subseteq Nat /\ -1 \notin AddressEntries
  BY CovConstants DEF AddressEntries
<1>2. cov_address_add(src) = r
  BY DEF cov_address_add
<1>3. (F # {} => f \in F) /\ (F = {} => f = -1)
  <2>. HIDE DEF F
  <2>. QED  BY <1>1, FirstHit
<1>4. (S # {} => r \in S) /\ (S = {} => r = f)
  <2>. HIDE DEF S, f
  <2>. QED  BY <1>1, FirstHit
<1>. HIDE DEF f, r
<1>. QED  BY <1>1, <1>2, <1>3, <1>4

(* What the address list depends on.                                       *)
SameAddress(sub, new) ==
    /\ new.valid = sub.valid /\ new.dest_index = sub.dest_index
    /\ new.context = sub.context

LEMMA SharedKept ==
    ASSUME NEW subs, NEW new, NEW addresses, Shared(subs, addresses),
           \A i \in Subscriptions : SameAddress(subs[i], new[i])
    PROVE  Shared(new, addresses)
BY DEF Shared, SameAddress

(* cov_address_remove_unused after subscriptions have gone.                *)
LEMMA RemovedShared ==
    ASSUME NEW subs, ListType(COV_Subscriptions, COV_Addresses),
           Shared(COV_Subscriptions, COV_Addresses),
           \A i \in Subscriptions :
               subs[i].valid => SameAddress(COV_Subscriptions[i], subs[i])
    PROVE  /\ Shared(subs, cov_address_remove_unused(subs))
           /\ cov_address_remove_unused(subs) \in
                  [AddressEntries -> Address \cup {NoAddress}]
<1>. DEFINE new == cov_address_remove_unused(subs)
<1>1. /\ new \in [AddressEntries -> Address \cup {NoAddress}]
      /\ \A a \in AddressEntries :
           new[a] = IF \E i \in Subscriptions : subs[i].valid /\ subs[i].dest_index = a
                    THEN COV_Addresses[a] ELSE NoAddress
  BY DEF cov_address_remove_unused, ListType
<1>. HIDE DEF new
<1>2. ASSUME NEW i \in Subscriptions, subs[i].valid
      PROVE  Listed(new, subs[i].dest_index) = subs[i].context.src
  <2>1. Listed(COV_Addresses, subs[i].dest_index) = subs[i].context.src
    BY <1>2 DEF Shared, SameAddress
  <2>. QED  BY <1>1, <1>2, <2>1 DEF Listed
<1>3. \A a, b \in AddressEntries :
          new[a] = new[b] /\ new[a] # NoAddress => a = b
  BY <1>1 DEF Shared
<1>4. \A a \in AddressEntries : new[a] # NoAddress =>
          \E i \in Subscriptions : subs[i].valid /\ subs[i].dest_index = a
  BY <1>1
<1>5. Shared(subs, new)
  BY <1>2, <1>3, <1>4 DEF Shared
<1>. QED  BY <1>1, <1>5 DEF new

(* What the slots depend on.  A subscription that changes in it had no     *)
(* slot, or its slot is free now.                                          *)
SameHold(sub, new) ==
    /\ new.valid = sub.valid /\ new.confirmed = sub.confirmed
    /\ new.invokeID = sub.invokeID /\ new.context = sub.context

LEMMA HeldKept ==
    ASSUME NEW subs, NEW new, NEW t, NEW u, Held(subs, t), Freed(t, u),
           \A i \in Subscriptions :
               \/ SameHold(subs[i], new[i])
               \/ Gone(subs[i], u)
    PROVE  Held(new, u)
<1>. SUFFICES ASSUME NEW k \in Slots, u.list[k].InvokeID # 0
              PROVE  \E i \in Subscriptions : Holds(new[i], u.list[k])
  BY DEF Held
<1>1. u.list[k].InvokeID = t.list[k].InvokeID /\ u.list[k].dest = t.list[k].dest
  BY DEF Freed
<1>2. PICK i \in Subscriptions : Holds(subs[i], t.list[k])
  BY <1>1 DEF Held
<1>3. subs[i].invokeID = u.list[k].InvokeID /\ Uses(u, subs[i].invokeID)
  BY <1>1, <1>2 DEF Holds, Uses
<1>4. SameHold(subs[i], new[i])
  BY <1>1, <1>2, <1>3 DEF Holds, Gone
<1>. QED  BY <1>1, <1>2, <1>4 DEF Holds, SameHold

(* The parts of the invariant.                                             *)
LEMMA CovParts ==
    ASSUME CovInv
    PROVE  /\ ListType(COV_Subscriptions, COV_Addresses)
           /\ Shared(COV_Subscriptions, COV_Addresses)
           /\ Notifying(tsm) /\ Held(COV_Subscriptions, tsm)
           /\ Agree(COV_Subscriptions, COV_Addresses, tsm)
           /\ COV_Subscriptions \in [Subscriptions -> SubscriptionType]
           /\ COV_Addresses \in [AddressEntries -> Address \cup {NoAddress}]
           /\ \A i \in Subscriptions : COV_Subscriptions[i] \in SubscriptionType
           /\ index \in Subscriptions
BY DEF CovInv, Agree, ListType

(* The subscription that a request names is of the same device, and its    *)
(* address is in the list.                                                 *)
LEMMA ExistingOne ==
    ASSUME CovInv, NEW c \in Contexts, Existing(c) \in Subscriptions
    PROVE  LET i == Existing(c)
           IN /\ COV_Subscriptions[i].valid
              /\ COV_Subscriptions[i].context.src = c.src
              /\ COV_Subscriptions[i].dest_index \in AddressEntries
              /\ COV_Addresses[COV_Subscriptions[i].dest_index] = c.src
<1>. DEFINE S == {i \in Subscriptions : Matches(i, c)}
            i == Existing(c)
<1>1. S \subseteq Nat
  BY CovConstants DEF Subscriptions
<1>2. i = First(S, MAX_COV_SUBCRIPTIONS) /\ i \in Subscriptions
  BY DEF Existing
<1>3. MAX_COV_SUBCRIPTIONS \notin Subscriptions
  BY CovConstants DEF Subscriptions
<1>4. i \in S
  <2>. HIDE DEF S, i
  <2>1. (S # {} => i \in S) /\ (S = {} => i = MAX_COV_SUBCRIPTIONS)
    BY <1>1, <1>2, FirstHit
  <2>. QED  BY <1>2, <1>3, <2>1
<1>. HIDE DEF i
<1>5. /\ COV_Subscriptions[i].valid
      /\ cov_address_get(COV_Subscriptions[i].dest_index) \in {c.src, NoAddress}
  BY <1>4 DEF Matches
<1>6. /\ cov_address_get(COV_Subscriptions[i].dest_index)
             = COV_Subscriptions[i].context.src
      /\ COV_Subscriptions[i].context \in Contexts
  BY <1>4, <1>5, CovParts DEF Shared, Listed, cov_address_get, ListType
<1>7. cov_address_get(COV_Subscriptions[i].dest_index) # NoAddress
  BY <1>6, ContextSource
<1>. QED  BY <1>5, <1>6, <1>7 DEF cov_address_get, i

-----------------------------------------------------------------------------
(* The steps.                                                              *)

LEMMA AgreeStep ==
    ASSUME CovInv, UNCHANGED index,
           Agree(COV_Subscriptions', COV_Addresses', tsm')
    PROVE  CovInv'
BY DEF CovInv

LEMMA CancelInv ==
    ASSUME CovInv, NEW c \in Contexts, Cancel(c), UNCHANGED index
    PROVE  CovInv'
<1>. DEFINE i == Existing(c)
            subs == [COV_Subscriptions EXCEPT ![i] = Invalid]
            u == FreeHeld(COV_Subscriptions[i].invokeID)
<1>1. /\ i \in Subscriptions
      /\ COV_Subscriptions' = subs /\ COV_Addresses' = cov_address_remove_unused(subs)
      /\ tsm' = u
  BY DEF Cancel
<1>2. Freed(tsm, u) /\ (COV_Subscriptions[i].invokeID # 0 =>
                            ~ Uses(u, COV_Subscriptions[i].invokeID))
  BY CovParts, FreeHeldFreed
<1>. HIDE DEF i, u
<1>3. /\ subs \in [Subscriptions -> SubscriptionType]
      /\ ~ subs[i].valid
      /\ \A j \in Subscriptions : j # i => subs[j] = COV_Subscriptions[j]
  BY <1>1, CovParts, InvalidType
<1>. HIDE DEF subs
<1>4. Shared(subs, COV_Addresses') /\ ListType(subs, COV_Addresses')
  BY <1>1, <1>3, CovParts, RemovedShared DEF SameAddress, ListType
<1>5. Held(subs, u)
  BY <1>1, <1>2, <1>3, CovParts, HeldKept DEF SameHold, Gone
<1>6. Agree(COV_Subscriptions', COV_Addresses', tsm')
  BY <1>1, <1>2, <1>4, <1>5 DEF Agree, Freed
<1>. QED  BY <1>6, AgreeStep

LEMMA RequestParts ==
    ASSUME NEW r \in Requests
    PROVE  /\ r.context \in Contexts /\ r.confirmed \in BOOLEAN /\ r.lifetime \in Nat
           /\ r.context.src \in Address /\ r.context.src # NoAddress
BY CovConstants, ContextSource DEF Contexts

(* A renewal finds its own address again.                                  *)
LEMMA RenewInv ==
    ASSUME CovInv, NEW r \in Requests, Renew(r), UNCHANGED index
    PROVE  CovInv'
<1>. DEFINE i == Existing(r.context)
            a == cov_address_add(r.context.src)
            old == COV_Subscriptions[i]
            u == FreeHeld(old.invokeID)
            subs == [COV_Subscriptions EXCEPT
                        ![i].dest_index = a, ![i].confirmed = r.confirmed,
                        ![i].lifetime = r.lifetime, ![i].send_requested = TRUE,
                        ![i].invokeID = 0]
<1>1. /\ i \in Subscriptions
      /\ COV_Subscriptions' = subs /\ tsm' = u
      /\ COV_Addresses' = IF a \in AddressEntries
                          THEN [COV_Addresses EXCEPT ![a] = r.context.src]
                          ELSE COV_Addresses
  BY DEF Renew
<1>2. /\ r.context \in Contexts /\ r.confirmed \in BOOLEAN /\ r.lifetime \in Nat
      /\ r.context.src # NoAddress
  BY RequestParts
<1>3. /\ old.valid /\ old.context.src = r.context.src
      /\ old.dest_index \in AddressEntries
      /\ COV_Addresses[old.dest_index] = r.context.src
  BY <1>1, <1>2, ExistingOne
<1>4. a \in AddressEntries /\ COV_Addresses[a] = r.context.src
  BY <1>3, AddressAdded
<1>5. Freed(tsm, u) /\ (old.invokeID # 0 => ~ Uses(u, old.invokeID))
  BY CovParts, FreeHeldFreed
<1>6. old \in SubscriptionType
  BY <1>1, CovParts
<1>7. a = old.dest_index /\ COV_Addresses' = COV_Addresses
  <2>1. a = old.dest_index
    <3>. HIDE DEF a, old
    <3>. QED  BY <1>2, <1>3, <1>4, CovParts DEF Shared
  <2>2. COV_Addresses' = COV_Addresses
    <3>. HIDE DEF a
    <3>. QED  BY <1>1, <1>4, CovParts
  <2>. QED  BY <2>1, <2>2
<1>. HIDE DEF a, i, u
<1>8. /\ subs[i] \in SubscriptionType /\ SameAddress(old, subs[i])
      /\ subs \in [Subscriptions -> SubscriptionType]
      /\ \A j \in Subscriptions : j # i => subs[j] = COV_Subscriptions[j]
  <2>1. a \in 0 .. MAX_COV_ADDRESSES /\ 0 \in AnyInvokeID
    BY <1>4, CovConstants, SmallValues DEF AddressEntries
  <2>. DEFINE new == [[[[[old EXCEPT !.dest_index = a] EXCEPT !.confirmed = r.confirmed]
                        EXCEPT !.lifetime = r.lifetime] EXCEPT !.send_requested = TRUE]
                      EXCEPT !.invokeID = 0]
  <2>2. new \in SubscriptionType /\ SameAddress(old, new)
    <3>. HIDE DEF old
    <3>. QED  BY <1>2, <1>6, <1>7, <2>1 DEF SubscriptionType, SameAddress
  <2>3. subs = [COV_Subscriptions EXCEPT ![i] = new]
    BY <1>1, CovParts
  <2>. HIDE DEF new, subs
  <2>. QED  BY <1>1, <2>2, <2>3, CovParts
<1>. HIDE DEF subs
<1>9. \A j \in Subscriptions : SameAddress(COV_Subscriptions[j], subs[j])
  BY <1>8 DEF SameAddress
<1>10. Shared(subs, COV_Addresses)
  BY <1>9, CovParts, SharedKept
<1>11. ListType(subs, COV_Addresses)
  BY <1>8, <1>9, CovParts DEF ListType, SameAddress
<1>12. Held(subs, u)
  BY <1>1, <1>5, <1>8, CovParts, HeldKept DEF SameHold, Gone
<1>13. Agree(COV_Subscriptions', COV_Addresses', tsm')
  BY <1>1, <1>5, <1>7, <1>10, <1>11, <1>12 DEF Agree, Freed
<1>. QED  BY <1>13, AgreeStep

(* A new subscription shares the entry of its device, or gets one that     *)
(* nobody uses.                                                            *)
LEMMA SubscribeInv ==
    ASSUME CovInv, NEW r \in Requests, Subscribe(r), UNCHANGED index
    PROVE  CovInv'
<1>. DEFINE i == FirstInvalid
            a == cov_address_add(r.context.src)
            new == [valid |-> TRUE, dest_index |-> a, context |-> r.context,
                    confirmed |-> r.confirmed, invokeID |-> 0,
                    lifetime |-> r.lifetime, send_requested |-> TRUE]
            subs == [COV_Subscriptions EXCEPT ![i] = new]
            addresses == [COV_Addresses EXCEPT ![a] = r.context.src]
<1>1. /\ i \in Subscriptions /\ a \in AddressEntries
      /\ COV_Subscriptions' = subs /\ COV_Addresses' = addresses /\ tsm' = tsm
  BY DEF Subscribe
<1>2. /\ r.context \in Contexts /\ r.confirmed \in BOOLEAN /\ r.lifetime \in Nat
      /\ r.context.src \in Address /\ r.context.src # NoAddress
  BY RequestParts
<1>3. ~ COV_Subscriptions[i].valid
  <2>. DEFINE S == {j \in Subscriptions : ~ COV_Subscriptions[j].valid}
  <2>1. S \subseteq Nat /\ MAX_COV_SUBCRIPTIONS \notin Subscriptions
    BY CovConstants DEF Subscriptions
  <2>2. i = First(S, MAX_COV_SUBCRIPTIONS)
    BY DEF FirstInvalid
  <2>. HIDE DEF i
  <2>3. i \in S
    <3>. HIDE DEF S
    <3>1. (S # {} => i \in S) /\ (S = {} => i = MAX_COV_SUBCRIPTIONS)
      BY <2>1, <2>2, FirstHit
    <3>. QED  BY <1>1, <2>1, <3>1
  <2>. QED  BY <2>3
<1>4. \/ COV_Addresses[a] = r.context.src
      \/ /\ COV_Addresses[a] = NoAddress
         /\ \A b \in AddressEntries : COV_Addresses[b] # r.context.src
  BY <1>1, AddressAdded
<1>5. /\ new \in SubscriptionType /\ new.valid = TRUE /\ new.dest_index = a
      /\ new.context = r.context /\ new.invokeID = 0
  <2>1. a \in 0 .. MAX_COV_ADDRESSES /\ 0 \in AnyInvokeID
    BY <1>1, CovConstants, SmallValues DEF AddressEntries
  <2>. HIDE DEF a
  <2>. QED  BY <1>2, <2>1 DEF SubscriptionType
<1>. HIDE DEF i, a, new
<1>6. /\ subs \in [Subscriptions -> SubscriptionType] /\ subs[i] = new
      /\ \A j \in Subscriptions : j # i => subs[j] = COV_Subscriptions[j]
  BY <1>1, <1>5, CovParts
<1>7. /\ addresses \in [AddressEntries -> Address \cup {NoAddress}]
      /\ addresses[a] = r.context.src
      /\ \A b \in AddressEntries : b # a => addresses[b] = COV_Addresses[b]
  BY <1>1, <1>2, CovParts
<1>. HIDE DEF subs, addresses
<1>8. ListType(subs, addresses)
  BY <1>2, <1>5, <1>6, <1>7, CovParts DEF ListType
<1>9. Shared(subs, addresses)
  <2>1. ASSUME NEW j \in Subscriptions, subs[j].valid
        PROVE  Listed(addresses, subs[j].dest_index) = subs[j].context.src
    <3>1. CASE j = i
      BY <1>1, <1>5, <1>6, <1>7, <3>1 DEF Listed
    <3>2. CASE j # i
      <4>1. /\ Listed(COV_Addresses, subs[j].dest_index) = subs[j].context.src
            /\ subs[j].context \in Contexts
        BY <1>6, <2>1, <3>2, CovParts DEF Shared, ListType
      <4>2. subs[j].context.src # NoAddress
        BY <4>1, ContextSource
      <4>. QED  BY <1>4, <1>7, <4>1, <4>2 DEF Listed
    <3>. QED  BY <3>1, <3>2
  <2>2. \A b, d \in AddressEntries :
            addresses[b] = addresses[d] /\ addresses[b] # NoAddress => b = d
    BY <1>1, <1>2, <1>4, <1>7, CovParts DEF Shared
  <2>3. ASSUME NEW b \in AddressEntries, addresses[b] # NoAddress
        PROVE  \E j \in Subscriptions : subs[j].valid /\ subs[j].dest_index = b
    <3>1. CASE b = a
      BY <1>1, <1>5, <1>6, <3>1
    <3>2. CASE b # a
      <4>1. PICK j \in Subscriptions : /\ COV_Subscriptions[j].valid
                                       /\ COV_Subscriptions[j].dest_index = b
        BY <1>7, <2>3, <3>2, CovParts DEF Shared
      <4>2. j # i
        BY <1>3, <4>1
      <4>. QED  BY <1>6, <4>1, <4>2
    <3>. QED  BY <3>1, <3>2
  <2>. QED  BY <2>1, <2>2, <2>3 DEF Shared
<1>10. Held(subs, tsm)
  <2>. SUFFICES ASSUME NEW k \in Slots, tsm.list[k].InvokeID # 0
                PROVE  \E j \in Subscriptions : Holds(subs[j], tsm.list[k])
    BY DEF Held
  <2>1. PICK j \in Subscriptions : Holds(COV_Subscriptions[j], tsm.list[k])
    BY CovParts DEF Held
  <2>2. j # i
    BY <1>3, <2>1 DEF Holds
  <2>. QED  BY <1>6, <2>1, <2>2
<1>11. Agree(COV_Subscriptions', COV_Addresses', tsm')
  BY <1>1, <1>8, <1>9, <1>10, CovParts DEF Agree
<1>. QED  BY <1>11, AgreeStep

(* handler_cov_timer_seconds.                                              *)
LEMMA SecondInv ==
    ASSUME CovInv, handler_cov_timer_seconds, UNCHANGED index
    PROVE  CovInv'
<1>. DEFINE subs == [i \in Subscriptions |->
                        IF Expired(i) THEN Invalid ELSE Aged(COV_Subscriptions[i])]
            u == ExpiryFreesSlots
<1>1. /\ COV_Subscriptions' = subs /\ tsm' = u
      /\ COV_Addresses' = IF \E i \in Subscriptions : Expired(i)
                          THEN cov_address_remove_unused(subs)
                          ELSE COV_Addresses
  BY DEF handler_cov_timer_seconds
<1>2. /\ Freed(tsm, u)
      /\ \A i \in Subscriptions : Expired(i) => Gone(COV_Subscriptions[i], u)
  BY CovParts, ExpiryFreed
<1>3. ASSUME NEW s \in SubscriptionType
      PROVE  Aged(s) \in SubscriptionType /\ SameAddress(s, Aged(s)) /\ SameHold(s, Aged(s))
  BY DEF Aged, SubscriptionType, SameAddress, SameHold
<1>4. \A i \in Subscriptions :
          IF Expired(i) THEN subs[i] = Invalid ELSE subs[i] = Aged(COV_Subscriptions[i])
  OBVIOUS
<1>5. subs \in [Subscriptions -> SubscriptionType]
  BY <1>3, CovParts, InvalidType
<1>. HIDE DEF subs, u
<1>6. \A i \in Subscriptions :
          /\ subs[i].valid => SameAddress(COV_Subscriptions[i], subs[i])
          /\ ~ Expired(i) => /\ SameAddress(COV_Subscriptions[i], subs[i])
                             /\ SameHold(COV_Subscriptions[i], subs[i])
  BY <1>3, <1>4, CovParts, InvalidType
<1>7. /\ Shared(subs, COV_Addresses')
      /\ COV_Addresses' \in [AddressEntries -> Address \cup {NoAddress}]
  <2>1. CASE \E i \in Subscriptions : Expired(i)
    BY <1>1, <1>6, <2>1, CovParts, RemovedShared
  <2>2. CASE ~ \E i \in Subscriptions : Expired(i)
    BY <1>1, <1>6, <2>2, CovParts, SharedKept
  <2>. QED  BY <2>1, <2>2
<1>8. ListType(subs, COV_Addresses')
  BY <1>5, <1>6, <1>7, CovParts DEF ListType, SameAddress
<1>9. Held(subs, u)
  BY <1>2, <1>6, CovParts, HeldKept
<1>10. Agree(COV_Subscriptions', COV_Addresses', tsm')
  BY <1>1, <1>2, <1>7, <1>8, <1>9 DEF Agree, Freed
<1>. QED  BY <1>10, AgreeStep

(* A step of the TSM that frees slots or none.                             *)
LEMMA FreedInv ==
    ASSUME CovInv, Freed(tsm, tsm'), UNCHANGED <<listvars, index>>
    PROVE  CovInv'
<1>1. Held(COV_Subscriptions, tsm')
  BY CovParts, FreedHeld
<1>2. Agree(COV_Subscriptions', COV_Addresses', tsm')
  BY <1>1, CovParts DEF Agree, Freed, listvars
<1>. QED  BY <1>2, AgreeStep DEF listvars

LEMMA AnswerInv ==
    ASSUME CovInv, NotificationAnswered
    PROVE  CovInv'
<1>1. PICK k \in Slots :
        /\ tsm.list[k].state = AWAIT_CONFIRMATION
        /\ \/ TsmStep(AckReceived(tsm.list[k].dest, tsm.list[k].InvokeID))
           \/ TsmStep(ErrorReceived(tsm.list[k].dest, tsm.list[k].InvokeID))
  BY DEF NotificationAnswered
<1>. DEFINE id == tsm.list[k].InvokeID
            dest == tsm.list[k].dest
<1>2. id # 0
  BY <1>1, CovParts DEF Notifying, IDLE, AWAIT_CONFIRMATION
<1>3. id \in AnyInvokeID
  BY CovParts DEF Notifying, WellFormed, TableType, SlotType
<1>4. dest \in Address
  <2>1. PICK i \in Subscriptions : Holds(COV_Subscriptions[i], tsm.list[k])
    BY <1>2, CovParts DEF Held
  <2>2. COV_Subscriptions[i].context \in Contexts
    BY <2>1, CovParts DEF Holds, ListType
  <2>. QED  BY <2>1, <2>2, ContextSource DEF Holds
<1>5. /\ tsm' \in {tsm_free_invoke_id(tsm, id),
                   tsm_free_invoke_id_segmentation(tsm, dest, id)}
      /\ UNCHANGED <<listvars, index>>
  BY <1>1 DEF TsmStep, AckReceived, ErrorReceived, taskvars
<1>6. Freed(tsm, tsm')
  <2>. HIDE DEF id, dest
  <2>1. Freed(tsm, tsm_free_invoke_id(tsm, id))
    BY <1>2, CovParts, FreeFreed
  <2>2. Freed(tsm, tsm_free_invoke_id_segmentation(tsm, dest, id))
    BY <1>3, <1>4, CovParts, ErrorFreed
  <2>. QED  BY <1>5, <2>1, <2>2
<1>. QED  BY <1>5, <1>6, FreedInv

-----------------------------------------------------------------------------
(* The passes of handler_cov_fsm.                                          *)

LEMMA IndexKept ==
    ASSUME CovInv, NEW state, NEW next, Step(state, next)
    PROVE  index' \in Subscriptions
<1>1. index \in Nat /\ MAX_COV_SUBCRIPTIONS \in Nat \ {0}
  BY CovParts, CovConstants DEF Subscriptions
<1>2. (index + 1) % MAX_COV_SUBCRIPTIONS \in 0 .. MAX_COV_SUBCRIPTIONS - 1
  BY <1>1
<1>. QED  BY <1>2 DEF Step, Subscriptions

(* The MARK pass.                                                          *)
LEMMA MarkInv ==
    ASSUME CovInv, COV_STATE_MARK
    PROVE  CovInv'
<1>. DEFINE s == COV_Subscriptions[index]
            marked == s.send_requested \/ (s.valid /\ Change_Of_Value[s.context.object])
            new == [s EXCEPT !.send_requested = marked]
            subs == [COV_Subscriptions EXCEPT ![index] = new]
<1>1. /\ COV_Subscriptions' = subs /\ COV_Addresses' = COV_Addresses /\ tsm' = tsm
      /\ index' \in Subscriptions
  BY IndexKept DEF COV_STATE_MARK, TsmUntouched
<1>2. s \in SubscriptionType /\ marked \in BOOLEAN
  BY CovParts
<1>3. new \in SubscriptionType /\ SameAddress(s, new) /\ SameHold(s, new)
  <2>. HIDE DEF s, marked
  <2>. QED  BY <1>2 DEF SubscriptionType, SameAddress, SameHold
<1>. HIDE DEF new
<1>4. /\ subs \in [Subscriptions -> SubscriptionType]
      /\ \A i \in Subscriptions : /\ SameAddress(COV_Subscriptions[i], subs[i])
                                  /\ SameHold(COV_Subscriptions[i], subs[i])
  BY <1>3, CovParts DEF SameAddress, SameHold
<1>. HIDE DEF subs
<1>5. Freed(tsm, tsm)
  BY CovParts DEF Freed
<1>6. /\ Shared(subs, COV_Addresses) /\ ListType(subs, COV_Addresses)
      /\ Held(subs, tsm)
  BY <1>4, <1>5, CovParts, SharedKept, HeldKept DEF ListType, SameAddress
<1>. QED  BY <1>1, <1>6, CovParts DEF CovInv, Agree

(* The FREE pass: an ID is forgotten when nothing uses it, or when the     *)
(* slot that failed is given back.                                         *)
LEMMA FreeInv ==
    ASSUME CovInv, COV_STATE_FREE
    PROVE  CovInv'
<1>. DEFINE s == COV_Subscriptions[index]
            held == s.valid /\ s.confirmed /\ s.invokeID # 0
            answered == held /\ tsm_invoke_id_free(s.invokeID)
            failed == held /\ tsm_invoke_id_failed(s.invokeID)
            new == [s EXCEPT !.invokeID = IF answered \/ failed THEN 0 ELSE @]
            subs == [COV_Subscriptions EXCEPT ![index] = new]
            u == IF failed THEN tsm_free_invoke_id(tsm, s.invokeID) ELSE tsm
<1>1. /\ COV_Subscriptions' = subs /\ COV_Addresses' = COV_Addresses /\ tsm' = u
      /\ index' \in Subscriptions
  BY IndexKept, CovParts DEF COV_STATE_FREE
<1>2. s \in SubscriptionType
  BY CovParts
<1>3. /\ new \in SubscriptionType /\ SameAddress(s, new)
      /\ ~ answered /\ ~ failed => SameHold(s, new)
  <2>. HIDE DEF s, answered, failed
  <2>. QED  BY <1>2, SmallValues DEF SubscriptionType, SameAddress, SameHold
<1>4. Freed(tsm, u) /\ (answered \/ failed => ~ Uses(u, s.invokeID))
  <2>1. CASE failed
    BY <2>1, CovParts, FreeFreed
  <2>2. CASE ~ failed
    BY <2>2, CovParts DEF Freed, tsm_invoke_id_free
  <2>. QED  BY <2>1, <2>2
<1>. HIDE DEF new, u, answered, failed
<1>5. /\ subs \in [Subscriptions -> SubscriptionType]
      /\ subs[index] = new
      /\ \A i \in Subscriptions : i # index => subs[i] = COV_Subscriptions[i]
  BY <1>3, CovParts
<1>. HIDE DEF subs
<1>6. \A i \in Subscriptions : SameAddress(COV_Subscriptions[i], subs[i])
  BY <1>3, <1>5 DEF SameAddress
<1>7. \A i \in Subscriptions : \/ SameHold(COV_Subscriptions[i], subs[i])
                               \/ ~ Uses(u, COV_Subscriptions[i].invokeID)
  BY <1>3, <1>4, <1>5 DEF SameHold
<1>8. /\ Shared(subs, COV_Addresses) /\ ListType(subs, COV_Addresses)
      /\ Held(subs, u)
  BY <1>4, <1>5, <1>6, <1>7, CovParts, SharedKept, HeldKept
     DEF Gone, ListType, SameAddress
<1>. QED  BY <1>1, <1>4, <1>8, CovParts DEF CovInv, Agree, Freed

(* cov_send_request of a confirmed notification: a free slot is taken and  *)
(* set to talk to the subscriber.                                          *)
LEMMA TransactionSet ==
    ASSUME NEW t, Notifying(t), tsm_transaction_available(t), NEW dest \in Address
    PROVE  LET r == tsm_next_free_invokeID(t)
               u == tsm_set_confirmed_unsegmented_transaction(r.t, r.id, dest)
           IN /\ Notifying(u) /\ r.id \in AnyInvokeID
              /\ \A j \in Slots :
                   \/ u.list[j] = t.list[j]
                   \/ u.list[j].InvokeID = r.id /\ u.list[j].dest = dest
<1>. DEFINE r == tsm_next_free_invokeID(t)
            i == tsm_find_invokeID_index(r.t, r.id)
            apdu == IF r.t.list[i].apdu = NULL THEN NULL ELSE ClientApdu(r.id)
            slot == [r.t.list[i] EXCEPT
                       !.state = AWAIT_CONFIRMATION, !.RetryCount = 0,
                       !.RequestTimer = ApduTimeout, !.dest = dest,
                       !.apdu = IF @ = NULL THEN NULL ELSE ClientApdu(r.id)]
            u == tsm_set_confirmed_unsegmented_transaction(r.t, r.id, dest)
<1>1. WellFormed(t) /\ t \in TableType
  BY DEF Notifying, WellFormed
<1>2. u = SetSlot(r.t, i, slot)
  BY DEF tsm_set_confirmed_unsegmented_transaction
<1>3. /\ r.id \in InvokeIDs /\ ~ Uses(t, r.id) /\ r.t.peers = t.peers
  BY <1>1, NextFreeEffect
<1>4. PICK k \in Slots :
          /\ r.t.list[k].InvokeID = r.id
          /\ \A j \in Slots : j # k => r.t.list[j] = t.list[j]
  BY <1>1, NextFreeEffect
<1>5. r.id # 0
  BY <1>3 DEF InvokeIDs
<1>6. WellFormed(r.t) /\ i \in Slots
  BY <1>1, <1>5, NextFreeWellFormed
<1>. HIDE DEF r
<1>7. i = k
  <2>1. Uses(r.t, r.id)
    BY <1>4 DEF Uses
  <2>2. r.t.list[i].InvokeID = r.id
    BY <2>1, FindIndexFound
  <2>. HIDE DEF i
  <2>. QED  BY <1>3, <1>4, <1>6, <2>2 DEF Uses
<1>8. r.t.list[i] \in SlotType
  BY <1>6 DEF WellFormed, TableType
<1>. HIDE DEF i
<1>9. apdu \in ApduType
  BY <1>3, SmallValues DEF ClientApdu, ApduType
<1>10. slot = [r.t.list[i] EXCEPT
                !.state = AWAIT_CONFIRMATION, !.RetryCount = 0,
                !.RequestTimer = ApduTimeout, !.dest = dest, !.apdu = apdu]
  BY <1>8 DEF SlotType
<1>11. slot \in SlotType /\ slot.InvokeID = r.id /\ slot.dest = dest
  <2>. HIDE DEF slot, apdu
  <2>. QED  BY <1>4, <1>7, <1>8, <1>9, <1>10, SmallValues DEF SlotType
<1>. HIDE DEF slot, u
<1>12. WellFormed(u)
  BY <1>2, <1>4, <1>6, <1>7, <1>11, SetSlotWellFormed
<1>13. /\ u.list[k] = slot /\ u.peers = t.peers
       /\ \A j \in Slots : j # k => u.list[j] = t.list[j]
  BY <1>2, <1>3, <1>4, <1>6, <1>7, <1>11, SetSlotEffect DEF WellFormed
<1>14. Notifying(u)
  BY <1>5, <1>11, <1>12, <1>13 DEF Notifying
<1>15. r.id \in AnyInvokeID
  BY <1>3, SmallValues
<1>. QED  BY <1>11, <1>13, <1>14, <1>15 DEF u, r

(* The SEND pass: a subscription that holds an ID is not sent to, so the   *)
(* ID it takes replaces none.                                              *)
LEMMA SendInv ==
    ASSUME CovInv, NEW sent \in BOOLEAN, COV_STATE_SEND(sent)
    PROVE  CovInv'
<1>. DEFINE s == COV_Subscriptions[index]
            r == tsm_next_free_invokeID(tsm)
            dest == cov_address_get(s.dest_index)
            id == IF s.confirmed THEN r.id ELSE s.invokeID
            new == [[s EXCEPT !.invokeID = id] EXCEPT !.send_requested = ~ sent]
            subs == [COV_Subscriptions EXCEPT ![index] = new]
            u == tsm_set_confirmed_unsegmented_transaction(r.t, r.id, dest)
<1>1. index' \in Subscriptions /\ COV_Addresses' = COV_Addresses
  BY IndexKept DEF COV_STATE_SEND
<1>2. CASE COV_Subscriptions' = COV_Subscriptions /\ tsm' = tsm
  BY <1>1, <1>2, CovParts DEF CovInv
<1>3. CASE Sendable(s) /\ cov_send_request(index, sent)
  <2>1. s \in SubscriptionType /\ s.valid
    BY <1>3, CovParts DEF Sendable
  <2>2. COV_Subscriptions' = subs
    BY <1>3, <2>1, CovParts DEF cov_send_request, SubscriptionType
  <2>3. IF s.confirmed
        THEN tsm' = u /\ s.invokeID = 0 /\ tsm_transaction_available(tsm)
        ELSE tsm' = tsm
    BY <1>3 DEF cov_send_request, Sendable
  <2>4. dest = s.context.src /\ dest \in Address
    <3>1. dest = s.context.src /\ s.context \in Contexts
      BY <2>1, CovParts DEF Shared, Listed, cov_address_get, ListType
    <3>. QED  BY <3>1, ContextSource
  <2>5. s.confirmed =>
          /\ Notifying(u) /\ r.id \in AnyInvokeID
          /\ \A j \in Slots : \/ u.list[j] = tsm.list[j]
                              \/ u.list[j].InvokeID = r.id /\ u.list[j].dest = dest
    BY <2>3, <2>4, CovParts, TransactionSet
  <2>. HIDE DEF u, r, dest
  <2>6. /\ new \in SubscriptionType /\ SameAddress(s, new)
        /\ new.confirmed = s.confirmed /\ new.invokeID = id
    <3>1. id \in AnyInvokeID
      BY <2>1, <2>5 DEF SubscriptionType
    <3>. HIDE DEF s, id
    <3>. QED  BY <2>1, <3>1 DEF SubscriptionType, SameAddress
  <2>. HIDE DEF new
  <2>7. /\ subs \in [Subscriptions -> SubscriptionType] /\ subs[index] = new
        /\ \A i \in Subscriptions : i # index => subs[i] = COV_Subscriptions[i]
    BY <2>6, CovParts
  <2>. HIDE DEF subs
  <2>8. \A i \in Subscriptions : SameAddress(COV_Subscriptions[i], subs[i])
    BY <2>6, <2>7 DEF SameAddress
  <2>9. Shared(subs, COV_Addresses) /\ ListType(subs, COV_Addresses)
    BY <2>7, <2>8, CovParts, SharedKept DEF ListType, SameAddress
  <2>10. CASE s.confirmed
    <3>1. ASSUME NEW j \in Slots, u.list[j].InvokeID # 0
          PROVE  \E i \in Subscriptions : Holds(subs[i], u.list[j])
      <4>1. CASE u.list[j].InvokeID = r.id /\ u.list[j].dest = dest
        BY <2>1, <2>4, <2>6, <2>7, <2>10, <4>1, CovParts DEF Holds, SameAddress
      <4>2. CASE u.list[j] = tsm.list[j]
        <5>1. PICK i \in Subscriptions : Holds(COV_Subscriptions[i], tsm.list[j])
          BY <3>1, <4>2, CovParts DEF Held
        <5>2. i # index
          BY <2>3, <2>10, <3>1, <4>2, <5>1 DEF Holds
        <5>. QED  BY <2>7, <4>2, <5>1, <5>2
      <4>. QED  BY <2>5, <2>10, <4>1, <4>2
    <3>2. Held(subs, u)
      BY <3>1 DEF Held
    <3>. QED  BY <1>1, <2>2, <2>3, <2>5, <2>9, <2>10, <3>2 DEF CovInv, Agree
  <2>11. CASE ~ s.confirmed
    <3>1. \A i \in Subscriptions : SameHold(COV_Subscriptions[i], subs[i])
      BY <2>6, <2>7, <2>11 DEF SameHold, SameAddress
    <3>2. Freed(tsm, tsm)
      BY CovParts DEF Freed
    <3>3. Held(subs, tsm)
      BY <3>1, <3>2, CovParts, HeldKept
    <3>. QED  BY <1>1, <2>2, <2>3, <2>9, <2>11, <3>3, CovParts DEF CovInv, Agree
  <2>. QED  BY <2>10, <2>11
<1>. QED  BY <1>2, <1>3 DEF COV_STATE_SEND

-----------------------------------------------------------------------------
(* The theorems.                                                           *)

LEMMA CovInitial ==
    ASSUME CovInit
    PROVE  CovInv
<1>1. PICK id \in AnyInvokeID : tsm = tsm_invokeID_set(InitTable, id)
  BY DEF CovInit, Init
<1>2. /\ WellFormed(tsm)
      /\ tsm.list = [i \in Slots |-> ZeroSlot]
      /\ tsm.peers = [p \in PeerEntries |-> ZeroPeer]
  BY <1>1, InitialTable DEF tsm_invokeID_set, InitTable
<1>3. Notifying(tsm) /\ Held(COV_Subscriptions, tsm)
  <2>1. \A j \in Slots : tsm.list[j].InvokeID = 0 /\ tsm.list[j].state = IDLE
    BY <1>2 DEF ZeroSlot
  <2>2. \A p \in PeerEntries : tsm.peers[p].InternalInvokeID = 0
    BY <1>2 DEF ZeroPeer
  <2>. QED  BY <1>2, <2>1, <2>2 DEF Notifying, Held
<1>4. /\ COV_Subscriptions = [i \in Subscriptions |-> Invalid]
      /\ COV_Addresses = [a \in AddressEntries |-> NoAddress]
      /\ index = 0 /\ 0 \in Subscriptions
  BY CovConstants DEF CovInit, handler_cov_init, Subscriptions
<1>5. /\ ListType(COV_Subscriptions, COV_Addresses)
      /\ Shared(COV_Subscriptions, COV_Addresses)
  BY <1>4, InvalidType DEF ListType, Shared
<1>. QED  BY <1>3, <1>4, <1>5 DEF CovInv, Agree

LEMMA CovStep ==
    ASSUME CovInv, [CovNext]_covvars
    PROVE  CovInv'
<1>1. CASE UNCHANGED <<listvars, index, tsm>>
  BY <1>1, CovParts, AgreeStep DEF listvars
<1>2. CASE handler_cov_subscribe
  <2>1. UNCHANGED index
    BY <1>2 DEF handler_cov_subscribe, taskvars
  <2>. QED
    BY <1>2, <2>1, CancelInv, RenewInv, SubscribeInv DEF handler_cov_subscribe
<1>3. ASSUME NEW o \in Objects, Present_Value_Set(o)
      PROVE  CovInv'
  BY <1>1, <1>3 DEF Present_Value_Set, TsmUntouched, taskvars
<1>4. ASSUME NEW minutes, NEW status, dcc_set_status_duration(status, minutes)
      PROVE  CovInv'
  BY <1>1, <1>4 DEF dcc_set_status_duration, TsmUntouched, taskvars
<1>5. CASE Second
  BY <1>5, SecondInv DEF Second, taskvars
<1>6. ASSUME NEW sent \in BOOLEAN, handler_cov_fsm(sent)
      PROVE  CovInv'
  <2>1. CASE COV_STATE_IDLE
    <3>1. 0 \in Subscriptions
      BY CovConstants DEF Subscriptions
    <3>. QED  BY <2>1, <3>1 DEF COV_STATE_IDLE, TsmUntouched, listvars, CovInv
  <2>2. CASE COV_STATE_CLEAR
    BY <2>2, IndexKept DEF COV_STATE_CLEAR, TsmUntouched, listvars, CovInv
  <2>. QED
    BY <1>6, <2>1, <2>2, MarkInv, FreeInv, SendInv DEF handler_cov_fsm
<1>7. CASE NotificationAnswered
  BY <1>7, AnswerInv
<1>8. CASE TsmStep(tsm_timer_milliseconds)
  BY <1>8, CovParts, TimerFreed, FreedInv DEF TsmStep, taskvars
<1>9. CASE UNCHANGED covvars
  BY <1>1, <1>9 DEF covvars, vars, taskvars
<1>. QED
  BY <1>2, <1>3, <1>4, <1>5, <1>6, <1>7, <1>8, <1>9 DEF CovNext, Environment

(* CovInv holds in every state: the types, the sharing of the addresses    *)
(* and the holding of the slots need one another.                          *)
THEOREM CovInvariant == CovSpec => []CovInv
<1>1. CovInit => CovInv
  BY CovInitial
<1>2. CovInv /\ [CovNext]_covvars => CovInv'
  BY CovStep
<1>. QED  BY <1>1, <1>2, PTL DEF CovSpec

(* However requests, expiries and the passes of handler_cov_fsm            *)
(* interleave, and with any number of subscriptions and addresses: the     *)
(* entry a valid subscription points to in COV_Addresses is that of its    *)
(* subscriber, none is listed twice, and none outlives its subscriptions.  *)
THEOREM AddressesSharedTheorem == CovSpec => []AddressesShared
<1>1. CovInv => AddressesShared
  BY DEF CovInv, Agree, Shared, Listed, AddressesShared, cov_address_get
<1>. QED  BY <1>1, CovInvariant, PTL

(* No invoke ID leaks from h_cov.c: in any table of slots, a slot in use   *)
(* is held by a valid subscription for confirmed notifications, and is     *)
(* set to talk to its subscriber, although subscriptions are cancelled,    *)
(* renewed and expire while a notification awaits its answer.              *)
THEOREM SlotsHeldTheorem == CovSpec => []SlotsHeld
<1>1. CovInv => SlotsHeld
  BY DEF CovInv, Agree, Held, Holds, SlotsHeld
<1>. QED  BY <1>1, CovInvariant, PTL

-----------------------------------------------------------------------------
(* The change flags and the passes.                                        *)

TaskType ==
    /\ Change_Of_Value \in [Objects -> BOOLEAN]
    /\ owed \in [Subscriptions -> {"no", "yes", "overtaken", "forgotten"}]
    /\ cov_task_state \in {"IDLE", "MARK", "CLEAR", "FREE", "SEND"}

(* The MARK pass has gone by subscription i, the CLEAR pass is not over.   *)
Behind(i) == (cov_task_state = "MARK" /\ index > i) \/ cov_task_state = "CLEAR"

(* A subscription that is owed the value and not marked has its flag set,  *)
(* and when the passes are beyond it, that is because the change overtook  *)
(* it.                                                                     *)
Tracked(i) ==
    COV_Subscriptions[i].valid /\ ~ COV_Subscriptions[i].send_requested =>
        /\ owed[i] \in {"yes", "overtaken"} =>
               Change_Of_Value[COV_Subscriptions[i].context.object]
        /\ owed[i] = "yes" => ~ Behind(i)

ChangeInv == TaskType /\ \A i \in Subscriptions : Tracked(i)

(* What a step does to a subscription it is not about.                     *)
LEMMA TrackedKept ==
    ASSUME NEW i \in Subscriptions, Tracked(i), owed'[i] = owed[i],
           Change_Of_Value' = Change_Of_Value, Behind(i)' => Behind(i),
           COV_Subscriptions'[i].valid =>
              /\ COV_Subscriptions[i].valid
              /\ COV_Subscriptions'[i].send_requested
                    = COV_Subscriptions[i].send_requested
              /\ COV_Subscriptions'[i].context = COV_Subscriptions[i].context
    PROVE  Tracked(i)'
BY DEF Tracked

LEMMA TrackedInitial ==
    ASSUME CovInit
    PROVE  ChangeInv
BY DEF CovInit, ChangeInv, TaskType, Tracked

(* SubscribeCOV: what is new is marked, what is cancelled is not valid.    *)
LEMMA TrackedSubscribe ==
    ASSUME CovInv, ChangeInv, handler_cov_subscribe
    PROVE  ChangeInv'
<1>. USE DEF ChangeInv
<1>1. UNCHANGED <<cov_task_state, index, Change_Of_Value>>
  BY DEF handler_cov_subscribe, taskvars
<1>2. \A j \in Subscriptions : Behind(j)' => Behind(j)
  BY <1>1 DEF Behind
<1>3. ASSUME NEW c \in Contexts, Cancel(c)
      PROVE  ChangeInv'
  <2>. DEFINE i == Existing(c)
  <2>1. /\ i \in Subscriptions
        /\ COV_Subscriptions' = [COV_Subscriptions EXCEPT ![i] = Invalid]
        /\ owed' = [owed EXCEPT ![i] = "no"]
    BY <1>3 DEF Cancel
  <2>. HIDE DEF i
  <2>2. TaskType'
    BY <1>1, <2>1 DEF TaskType
  <2>3. ~ COV_Subscriptions'[i].valid
    BY <2>1, CovParts DEF Invalid
  <2>4. \A j \in Subscriptions \ {i} :
          COV_Subscriptions'[j] = COV_Subscriptions[j] /\ owed'[j] = owed[j]
    BY <2>1, CovParts DEF TaskType
  <2>5. \A j \in Subscriptions : Tracked(j)'
    <3>1. \A j \in Subscriptions \ {i} : Tracked(j)'
      BY <1>1, <1>2, <2>4, TrackedKept
    <3>. QED  BY <2>3, <3>1 DEF Tracked
  <2>. QED  BY <2>2, <2>5
<1>4. ASSUME NEW i \in Subscriptions, owed' = [owed EXCEPT ![i] = "yes"],
             COV_Subscriptions'[i].send_requested,
             \A j \in Subscriptions \ {i} :
                COV_Subscriptions'[j] = COV_Subscriptions[j]
      PROVE  ChangeInv'
  <2>1. TaskType'
    BY <1>1, <1>4 DEF TaskType
  <2>2. \A j \in Subscriptions \ {i} : owed'[j] = owed[j]
    BY <1>4 DEF TaskType
  <2>3. \A j \in Subscriptions \ {i} : Tracked(j)'
    BY <1>1, <1>2, <1>4, <2>2, TrackedKept
  <2>4. Tracked(i)'
    BY <1>4 DEF Tracked
  <2>. QED  BY <2>1, <2>3, <2>4
<1>5. ASSUME NEW r \in Requests, Renew(r)
      PROVE  ChangeInv'
  <2>. DEFINE i == Existing(r.context)
              a == cov_address_add(r.context.src)
  <2>1. /\ i \in Subscriptions /\ owed' = [owed EXCEPT ![i] = "yes"]
        /\ COV_Subscriptions' = [COV_Subscriptions EXCEPT
             ![i].dest_index = a, ![i].confirmed = r.confirmed,
             ![i].lifetime = r.lifetime, ![i].send_requested = TRUE,
             ![i].invokeID = 0]
    BY <1>5 DEF Renew
  <2>. HIDE DEF i, a
  <2>2. COV_Subscriptions'[i].send_requested
    BY <2>1, CovParts DEF SubscriptionType
  <2>3. \A j \in Subscriptions \ {i} : COV_Subscriptions'[j] = COV_Subscriptions[j]
    BY <2>1, CovParts
  <2>. QED  BY <1>4, <2>1, <2>2, <2>3
<1>6. ASSUME NEW r \in Requests, Subscribe(r)
      PROVE  ChangeInv'
  <2>. DEFINE i == FirstInvalid
  <2>1. /\ i \in Subscriptions /\ owed' = [owed EXCEPT ![i] = "yes"]
        /\ COV_Subscriptions'[i].send_requested
        /\ \A j \in Subscriptions \ {i} :
             COV_Subscriptions'[j] = COV_Subscriptions[j]
    <3>. HIDE DEF i
    <3>. QED  BY <1>6, CovParts DEF Subscribe, i
  <2>. HIDE DEF i
  <2>. QED  BY <1>4, <2>1
<1>. QED  BY <1>3, <1>5, <1>6 DEF handler_cov_subscribe

(* A second, and the changes of value.                                     *)
LEMMA TrackedSecond ==
    ASSUME CovInv, ChangeInv, Second
    PROVE  ChangeInv'
<1>. USE DEF ChangeInv
<1>1. /\ UNCHANGED <<cov_task_state, index, Change_Of_Value>>
      /\ COV_Subscriptions' = [i \in Subscriptions |->
            IF Expired(i) THEN Invalid ELSE Aged(COV_Subscriptions[i])]
      /\ owed' = [i \in Subscriptions |-> IF Expired(i) THEN "no" ELSE owed[i]]
  BY DEF Second, handler_cov_timer_seconds, taskvars
<1>2. TaskType'
  BY <1>1 DEF TaskType
<1>3. ASSUME NEW i \in Subscriptions PROVE Tracked(i)'
  <2>1. CASE Expired(i)
    <3>1. ~ COV_Subscriptions'[i].valid
      BY <1>1, <2>1 DEF Invalid
    <3>. QED  BY <3>1 DEF Tracked
  <2>2. CASE ~ Expired(i)
    <3>1. COV_Subscriptions'[i] = Aged(COV_Subscriptions[i]) /\ owed'[i] = owed[i]
      BY <1>1, <2>2
    <3>2. /\ COV_Subscriptions'[i].valid = COV_Subscriptions[i].valid
          /\ COV_Subscriptions'[i].send_requested = COV_Subscriptions[i].send_requested
          /\ COV_Subscriptions'[i].context = COV_Subscriptions[i].context
      BY <3>1, CovParts DEF Aged, SubscriptionType
    <3>. QED  BY <1>1, <3>1, <3>2, TrackedKept DEF Behind
  <2>. QED  BY <2>1, <2>2
<1>. QED  BY <1>2, <1>3

LEMMA TrackedChange ==
    ASSUME CovInv, ChangeInv, NEW o \in Objects, Present_Value_Set(o)
    PROVE  ChangeInv'
<1>. USE DEF ChangeInv
<1>1. /\ UNCHANGED <<cov_task_state, index, COV_Subscriptions>>
      /\ Change_Of_Value' = [Change_Of_Value EXCEPT ![o] = TRUE]
      /\ owed' = [i \in Subscriptions |->
                  IF /\ COV_Subscriptions[i].valid
                     /\ COV_Subscriptions[i].context.object = o
                  THEN IF MarkPassed(i) THEN "overtaken" ELSE "yes"
                  ELSE owed[i]]
  BY DEF Present_Value_Set, listvars, taskvars
<1>2. TaskType'
  BY <1>1 DEF TaskType
<1>3. ASSUME NEW i \in Subscriptions PROVE Tracked(i)'
  <2>. SUFFICES ASSUME COV_Subscriptions[i].valid,
                       ~ COV_Subscriptions[i].send_requested
                PROVE  Tracked(i)'
    BY <1>1 DEF Tracked
  <2>1. COV_Subscriptions[i].context.object \in Objects
    BY CovParts DEF ListType, Objects
  <2>2. CASE COV_Subscriptions[i].context.object = o
    <3>1. Change_Of_Value'[o]
      BY <1>1 DEF TaskType
    <3>2. owed'[i] = "yes" => ~ Behind(i)
      BY <1>1, <2>2 DEF MarkPassed, Behind
    <3>. QED  BY <1>1, <2>2, <3>1, <3>2 DEF Tracked, Behind
  <2>3. CASE COV_Subscriptions[i].context.object # o
    <3>1. /\ owed'[i] = owed[i]
          /\ Change_Of_Value'[COV_Subscriptions[i].context.object]
                = Change_Of_Value[COV_Subscriptions[i].context.object]
      BY <1>1, <2>1, <2>3 DEF TaskType
    <3>. QED  BY <1>1, <3>1 DEF Tracked, Behind
  <2>. QED  BY <2>2, <2>3
<1>. QED  BY <1>2, <1>3

(* The passes.  A step in a pass moves on by one or to the next pass.      *)
LEMMA TrackedMark ==
    ASSUME CovInv, ChangeInv, COV_STATE_MARK
    PROVE  ChangeInv'
<1>. USE DEF ChangeInv
<1>1. /\ cov_task_state = "MARK" /\ Change_Of_Value' = Change_Of_Value /\ owed' = owed
      /\ index' = (index + 1) % MAX_COV_SUBCRIPTIONS
      /\ cov_task_state' = IF index + 1 < MAX_COV_SUBCRIPTIONS
                           THEN "MARK" ELSE "CLEAR"
      /\ COV_Subscriptions' = [COV_Subscriptions EXCEPT ![index].send_requested =
            @ \/ /\ COV_Subscriptions[index].valid
                 /\ Change_Of_Value[COV_Subscriptions[index].context.object]]
  BY DEF COV_STATE_MARK, Step
<1>2. TaskType'
  BY <1>1 DEF TaskType
<1>3. /\ index \in Int /\ index >= 0 /\ index < MAX_COV_SUBCRIPTIONS
      /\ MAX_COV_SUBCRIPTIONS \in Int
  BY CovParts, CovConstants DEF Subscriptions
<1>4. index + 1 < MAX_COV_SUBCRIPTIONS => index' = index + 1
  BY <1>1, <1>3
<1>5. ASSUME NEW i \in Subscriptions, i # index PROVE Tracked(i)'
  <2>1. COV_Subscriptions'[i] = COV_Subscriptions[i]
    BY <1>1, <1>5, CovParts
  <2>2. i \in Int /\ i < MAX_COV_SUBCRIPTIONS
    BY CovConstants DEF Subscriptions
  <2>3. Behind(i)' => Behind(i)
    <3>1. CASE index + 1 < MAX_COV_SUBCRIPTIONS
      BY <1>1, <1>3, <1>4, <1>5, <2>2, <3>1 DEF Behind
    <3>2. CASE ~ (index + 1 < MAX_COV_SUBCRIPTIONS)
      BY <1>1, <1>3, <1>5, <2>2, <3>2 DEF Behind
    <3>. QED  BY <3>1, <3>2
  <2>. QED  BY <1>1, <2>1, <2>3, TrackedKept
<1>6. ASSUME NEW n \in Subscriptions, n = index PROVE Tracked(n)'
  <2>1. COV_Subscriptions'[n] = [COV_Subscriptions[n] EXCEPT !.send_requested =
            @ \/ /\ COV_Subscriptions[n].valid
                 /\ Change_Of_Value[COV_Subscriptions[n].context.object]]
    BY <1>1, <1>6, CovParts
  <2>2. /\ COV_Subscriptions'[n].valid = COV_Subscriptions[n].valid
        /\ COV_Subscriptions'[n].send_requested =
             (\/ COV_Subscriptions[n].send_requested
              \/ /\ COV_Subscriptions[n].valid
                 /\ Change_Of_Value[COV_Subscriptions[n].context.object])
    BY <2>1, CovParts DEF SubscriptionType
  <2>3. COV_Subscriptions'[n].valid /\ ~ COV_Subscriptions'[n].send_requested
          => owed'[n] \notin {"yes", "overtaken"}
    BY <1>1, <2>2 DEF Tracked
  <2>. QED  BY <2>3 DEF Tracked
<1>. QED  BY <1>2, <1>5, <1>6

(* The flag an entry is tracked by is cleared for another entry only, and  *)
(* then the change has overtaken it and is forgotten.                      *)
LEMMA TrackedClear ==
    ASSUME CovInv, ChangeInv, COV_STATE_CLEAR
    PROVE  ChangeInv'
<1>. USE DEF ChangeInv
<1>. DEFINE s == COV_Subscriptions[index]
<1>1. /\ cov_task_state = "CLEAR" /\ cov_task_state' \in {"CLEAR", "FREE"}
      /\ COV_Subscriptions' = COV_Subscriptions
      /\ Change_Of_Value' = [Change_Of_Value EXCEPT ![s.context.object] =
                                @ /\ ~ Clears(s)]
      /\ owed' = [i \in Subscriptions |->
                    IF Clears(s) /\ Forgets(index, i) THEN "forgotten" ELSE owed[i]]
  BY DEF COV_STATE_CLEAR, Step, ClearedBy, listvars
<1>2. TaskType'
  BY <1>1 DEF TaskType
<1>3. ASSUME NEW i \in Subscriptions PROVE Tracked(i)'
  <2>. DEFINE o == COV_Subscriptions[i].context.object
  <2>. SUFFICES ASSUME COV_Subscriptions[i].valid,
                       ~ COV_Subscriptions[i].send_requested,
                       owed'[i] \in {"yes", "overtaken"}
                PROVE  owed'[i] # "yes" /\ Change_Of_Value'[o]
    BY <1>1 DEF Tracked
  <2>1. owed'[i] = owed[i] /\ ~ (Clears(s) /\ Forgets(index, i))
    BY <1>1
  <2>2. owed[i] = "overtaken" /\ Change_Of_Value[o]
    BY <1>1, <2>1 DEF Tracked, Behind
  <2>3. o \in Objects
    BY CovParts DEF ListType, Objects
  <2>4. ~ (Clears(s) /\ s.context.object = o)
    BY <2>1, <2>2 DEF Clears, Forgets
  <2>5. Change_Of_Value'[o]
    BY <1>1, <2>2, <2>3, <2>4 DEF TaskType
  <2>. QED  BY <2>1, <2>2, <2>5
<1>. QED  BY <1>2, <1>3

(* The other passes are beyond nothing.                                    *)
LEMMA TrackedFree ==
    ASSUME CovInv, ChangeInv, COV_STATE_FREE
    PROVE  ChangeInv'
<1>. USE DEF ChangeInv
<1>1. /\ cov_task_state' \in {"FREE", "SEND"}
      /\ UNCHANGED <<Change_Of_Value, owed>>
      /\ \E id : COV_Subscriptions' =
                   [COV_Subscriptions EXCEPT ![index].invokeID = id]
  BY DEF COV_STATE_FREE, Step
<1>2. TaskType'
  BY <1>1 DEF TaskType
<1>3. ASSUME NEW i \in Subscriptions PROVE Tracked(i)'
  <2>1. /\ COV_Subscriptions'[i].valid = COV_Subscriptions[i].valid
        /\ COV_Subscriptions'[i].send_requested = COV_Subscriptions[i].send_requested
        /\ COV_Subscriptions'[i].context = COV_Subscriptions[i].context
    BY <1>1, CovParts DEF SubscriptionType
  <2>2. ~ Behind(i)'
    BY <1>1 DEF Behind
  <2>. QED  BY <1>1, <2>1, <2>2, TrackedKept
<1>. QED  BY <1>2, <1>3

LEMMA TrackedSend ==
    ASSUME CovInv, ChangeInv, NEW sent \in BOOLEAN, COV_STATE_SEND(sent)
    PROVE  ChangeInv'
<1>. USE DEF ChangeInv
<1>1. cov_task_state' \in {"SEND", "IDLE"} /\ UNCHANGED Change_Of_Value
  BY DEF COV_STATE_SEND, Step
<1>2. \A i \in Subscriptions : ~ Behind(i)'
  BY <1>1 DEF Behind
<1>3. CASE UNCHANGED <<COV_Subscriptions, owed>>
  <2>1. TaskType'
    BY <1>1, <1>3 DEF TaskType
  <2>. QED  BY <1>1, <1>2, <1>3, <2>1, TrackedKept
<1>4. CASE cov_send_request(index, sent)
  <2>1. PICK id : COV_Subscriptions' = [COV_Subscriptions EXCEPT
                     ![index].invokeID = id, ![index].send_requested = ~ sent]
    BY <1>4 DEF cov_send_request
  <2>2. owed' = [owed EXCEPT ![index] = IF sent THEN "no" ELSE @]
    BY <1>4 DEF cov_send_request
  <2>3. TaskType'
    BY <1>1, <2>2, CovParts DEF TaskType
  <2>4. ASSUME NEW i \in Subscriptions, i # index PROVE Tracked(i)'
    <3>1. COV_Subscriptions'[i] = COV_Subscriptions[i] /\ owed'[i] = owed[i]
      BY <2>1, <2>2, <2>4, CovParts DEF TaskType
    <3>. QED  BY <1>1, <1>2, <3>1, TrackedKept
  <2>5. ASSUME NEW i \in Subscriptions, i = index PROVE Tracked(i)'
    <3>1. COV_Subscriptions'[i].send_requested = ~ sent
      BY <2>1, <2>5, CovParts DEF SubscriptionType
    <3>2. sent => owed'[i] = "no"
      BY <2>2, <2>5 DEF TaskType
    <3>. QED  BY <3>1, <3>2 DEF Tracked
  <2>. QED  BY <2>3, <2>4, <2>5
<1>. QED  BY <1>3, <1>4 DEF COV_STATE_SEND

LEMMA ChangeStep ==
    ASSUME CovInv, ChangeInv, [CovNext]_covvars
    PROVE  ChangeInv'
<1>1. CASE UNCHANGED <<COV_Subscriptions, cov_task_state, index, Change_Of_Value,
                       owed>>
  BY <1>1 DEF ChangeInv, TaskType, Tracked, Behind
<1>2. ASSUME NEW minutes, NEW status, dcc_set_status_duration(status, minutes)
      PROVE  ChangeInv'
  BY <1>1, <1>2 DEF dcc_set_status_duration, listvars, taskvars
<1>3. CASE COV_STATE_IDLE
  <2>1. /\ UNCHANGED <<COV_Subscriptions, Change_Of_Value, owed>>
        /\ index' = 0 /\ cov_task_state' = "MARK"
    BY <1>3 DEF COV_STATE_IDLE, listvars
  <2>2. TaskType'
    BY <2>1 DEF ChangeInv, TaskType
  <2>3. \A i \in Subscriptions : ~ Behind(i)'
    BY <2>1, CovConstants DEF Behind, Subscriptions
  <2>. QED  BY <2>1, <2>2, <2>3, TrackedKept DEF ChangeInv
<1>4. CASE NotificationAnswered \/ TsmStep(tsm_timer_milliseconds)
  <2>1. UNCHANGED <<COV_Subscriptions, cov_task_state, index, Change_Of_Value, owed>>
    BY <1>4 DEF NotificationAnswered, TsmStep, listvars, taskvars
  <2>. QED  BY <1>1, <2>1
<1>5. CASE UNCHANGED covvars
  BY <1>1, <1>5 DEF covvars, listvars, taskvars
<1>6. ASSUME NEW sent \in BOOLEAN, handler_cov_fsm(sent)
      PROVE  ChangeInv'
  BY <1>3, <1>6, TrackedMark, TrackedClear, TrackedFree, TrackedSend
     DEF handler_cov_fsm
<1>. QED
  BY <1>2, <1>4, <1>5, <1>6, TrackedSubscribe, TrackedSecond, TrackedChange
     DEF CovNext, Environment

(* With any number of subscriptions, objects and subscribers of an object: *)
(* a change of value that comes in the middle of the passes of             *)
(* handler_cov_fsm is not lost.  A subscriber that has still to be sent    *)
(* the value is marked or the flag of its object is set, unless the CLEAR  *)
(* pass cleared that flag for another subscription after the change had    *)
(* overtaken its own.                                                      *)
THEOREM NoChangeLostTheorem == CovSpec => []NoChangeLost
<1>1. CovInit => ChangeInv
  BY TrackedInitial
<1>2. CovInv /\ ChangeInv /\ [CovNext]_covvars => ChangeInv'
  BY ChangeStep
<1>3. ChangeInv => NoChangeLost
  BY DEF ChangeInv, Tracked, NoChangeLost
<1>. QED  BY <1>1, <1>2, <1>3, CovInvariant, PTL DEF CovSpec
=============================================================================
