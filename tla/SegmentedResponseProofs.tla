---------------------- MODULE SegmentedResponseProofs -----------------------
(***************************************************************************)
(* A response in segments over a network that loses, repeats and reorders: *)
(* for every number of segments, window and copy, the server implements    *)
(* SegmentTransfer, and its window never runs ahead of the client.  The    *)
(* last section proves how an answer is cut into segments, for every       *)
(* length and every limit that a client may announce.                      *)
(***************************************************************************)
EXTENDS TsmProofs, SegmentedResponse, ComplexAckPlan

(* The peer entry of the exchange, and the slot that it names.             *)
OpenExchange(t) ==
    \E p \in PeerEntries : PeerMatches(t, p, Client, ClientInvokeID)

SlotOfExchange(t, i) ==
    \E p \in PeerEntries :
        /\ PeerMatches(t, p, Client, ClientInvokeID)
        /\ t.peers[p].InternalInvokeID = t.list[i].InvokeID

SlotIn(t) ==
    LET p == FindPeer(t, Client, ClientInvokeID)
    IN IF p \in PeerEntries
       THEN tsm_find_invokeID_index(t, t.peers[p].InternalInvokeID)
       ELSE MAX_TSM_TRANSACTIONS

(* A slot that sends the answer to Ask, the first n segments of which the  *)
(* client has.                                                             *)
AskSlot(s, n) ==
    /\ s.state = SEGMENTED_RESPONSE_SERVER
    /\ s.apdu.len = Ask.len /\ s.apdu.max = AskMax
    /\ s.ActualWindowSize \in {1} \cup ClientWindows
    /\ s.InitialSequenceNumber <= n

Sends(t, n) ==
    \A i \in Slots : SlotOfExchange(t, i) => AskSlot(t.list[i], n)

LEMMA ClientValues ==
    /\ Client \in Address /\ ClientInvokeID \in PeerInvokeID
    /\ ClientInvokeID \in AnyInvokeID
    /\ ClientWindows \subseteq Bytes /\ ClientWindows \subseteq Windows
    /\ Ask \in Service
BY ResponseConstants, AnswerIsSegmented, WindowSizes, SmallValues

LEMMA TotalRange == Total \in 2 .. MAX_SEGMENTS_ACCEPTED
<1> DEFINE segs == bacnet_calc_max_segments(Ask.max_segs)
<1>1. /\ Ask.len \in Nat /\ Ask.max_resp \in Nat /\ Ask.max_segs \in Nat
      /\ AskMax \in Nat /\ AskMax <= MAX_APDU /\ AskMax # HeaderSegmented
  BY ClientValues, ServiceType, AnswerSizes, SegmentSizes
     DEF AskMax, bacnet_calc_apdu_max, MinOf
<1>2. segs \in Nat /\ segs <= MAX_SEGMENTS_ACCEPTED
  BY <1>1, SegmentSizes DEF bacnet_calc_max_segments, MinOf
<1>3. bacnet_calc_transmittable_length(Ask.max_resp, Ask.max_segs, TRUE)
        = segs * AskMax
  BY DEF bacnet_calc_transmittable_length, AskMax
<1> HIDE DEF segs
<1>4. /\ Ask.len # 0 /\ get_apdu_max_segments(Ask.len, AskMax) # 1
      /\ ~ TooMuchData(Ask.len, AskMax, segs * AskMax)
  BY <1>3, AnswerIsSegmented DEF Total
<1>. QED  BY <1>1, <1>2, <1>4, FewSegments DEF Total

(* The search of the code finds the slot of the exchange, and there is     *)
(* only one.                                                               *)
LEMMA SlotInFinds ==
    ASSUME NEW t, Paired(t, 0)
    PROVE  /\ SlotIn(t) \in Slots <=> OpenExchange(t)
           /\ \A i \in Slots : SlotOfExchange(t, i) <=> i = SlotIn(t)
<1> DEFINE p == FindPeer(t, Client, ClientInvokeID)
           x == t.peers[p].InternalInvokeID
<1>1. /\ UniqueIDs(t) /\ EntriesBound(t) /\ EntriesDistinct(t)
  BY DEF Paired, WellFormed
<1>2. CASE p \in PeerEntries
  <2>1. PeerMatches(t, p, Client, ClientInvokeID) /\ x # 0
    BY <1>2, FindPeerFound DEF PeerMatches
  <2>2. Uses(t, x)
    BY <1>1, <1>2, <2>1 DEF EntriesBound, Uses
  <2>3. SlotIn(t) \in Slots /\ t.list[SlotIn(t)].InvokeID = x
    BY <1>2, <2>2, FindIndexFound DEF SlotIn
  <2> HIDE DEF p
  <2>4. \A q \in PeerEntries :
           PeerMatches(t, q, Client, ClientInvokeID) => q = p
    BY <1>1, <1>2, <2>1 DEF EntriesDistinct, PeerMatches
  <2>5. ASSUME NEW i \in Slots, SlotOfExchange(t, i) PROVE i = SlotIn(t)
    BY <1>1, <2>1, <2>3, <2>4, <2>5 DEF SlotOfExchange, UniqueIDs
  <2>. QED  BY <1>2, <2>1, <2>3, <2>5 DEF OpenExchange, SlotOfExchange
<1>3. CASE p \notin PeerEntries
  <2>1. \A q \in PeerEntries : ~ PeerMatches(t, q, Client, ClientInvokeID)
    BY <1>3, FindPeerNone
  <2>2. SlotIn(t) \notin Slots
    BY <1>3, TsmConstants DEF SlotIn, Slots
  <2>. QED  BY <2>1, <2>2 DEF OpenExchange, SlotOfExchange
<1>. QED  BY <1>2, <1>3

LEMMA KeptExchange ==
    ASSUME NEW t, NEW u, Kept(t, u)
    PROVE  /\ OpenExchange(u) <=> OpenExchange(t)
           /\ \A i \in Slots : SlotOfExchange(u, i) <=> SlotOfExchange(t, i)
BY DEF Kept, OpenExchange, SlotOfExchange, PeerMatches

-----------------------------------------------------------------------------
(* The request: the tables are empty, so the exchange gets an entry and a  *)
(* slot, and its first segment is sent.                                    *)
LEMMA EmptyTableHasRoom ==
    ASSUME NEW t, Paired(t, 0),
           \A p \in PeerEntries : t.peers[p].InternalInvokeID = 0
    PROVE  LET g == tsm_get_peer_id(t, Client, ClientInvokeID)
           IN /\ FindPeer(t, Client, ClientInvokeID) \notin PeerEntries
              /\ WellFormed(g.t)
              /\ g.id # 0
              /\ tsm_find_invokeID_index(g.t, g.id) \in Slots
              /\ \E p \in PeerEntries : PeerMatches(g.t, p, Client, ClientInvokeID)
                                          /\ g.t.peers[p].InternalInvokeID = g.id
<1> DEFINE g == tsm_get_peer_id(t, Client, ClientInvokeID)
           free == FirstFreePeer(t)
           S == {p \in PeerEntries : t.peers[p].InternalInvokeID = 0}
<1>1. FindPeer(t, Client, ClientInvokeID) \notin PeerEntries
  BY FindPeerFound DEF PeerMatches
<1>2. free \in PeerEntries
  <2>1. S # {} /\ S \subseteq Nat /\ S \subseteq PeerEntries
    BY TsmConstants DEF PeerEntries
  <2>2. free = First(S, MAX_TSM_PEERS)
    BY DEF FirstFreePeer
  <2> HIDE DEF S
  <2>. QED  BY <2>1, <2>2, FirstHit
<1>3. g = CreatePeer(t, free, Client, ClientInvokeID)
  BY <1>1, <1>2 DEF tsm_get_peer_id
<1>4. tsm_transaction_available(t)
  <2>1. \A i \in Slots : t.list[i].InvokeID = 0
    BY DEF Paired, OwnedExcept
  <2>2. 0 \in Slots
    BY TsmConstants DEF Slots
  <2>. QED  BY <2>1, <2>2 DEF tsm_transaction_available, Uses
<1>5. tsm_next_free_invokeID(t).id \in InvokeIDs
  BY <1>4, NextFreeEffect DEF Paired, WellFormed
<1>6. g.id # 0
  BY <1>3, <1>5 DEF CreatePeer, InvokeIDs
<1>7. WellFormed(g.t)
  BY ClientValues, GetPeerWellFormed DEF Paired
<1>8. Uses(g.t, g.id)
  <2>1. \E i \in Slots : g.t.list[i].InvokeID = g.id
    BY <1>6, ClientValues, GetPeerPaired
  <2>. QED  BY <2>1 DEF Uses
<1>9. tsm_find_invokeID_index(g.t, g.id) \in Slots
  BY <1>8, FindIndexFound
<1>10. PICK p \in PeerEntries :
         g.t.peers[p] = [PeerAddress |-> Client, PeerInvokeID |-> ClientInvokeID,
                         InternalInvokeID |-> g.id]
  BY <1>6, ClientValues, GetPeerEntry DEF Paired
<1> HIDE DEF g
<1>11. /\ PeerMatches(g.t, p, Client, ClientInvokeID)
       /\ g.t.peers[p].InternalInvokeID = g.id
  BY <1>6, <1>10 DEF PeerMatches
<1>. QED  BY <1>1, <1>6, <1>7, <1>9, <1>11 DEF g

LEMMA AskedOpens ==
    ASSUME Paired(tsm, 0), Paired(tsm', 0),
           \A p \in PeerEntries : tsm.peers[p].InternalInvokeID = 0,
           apdu_handler_confirmed_service(Client, ClientInvokeID, Ask),
           NEW n \in Nat
    PROVE  OpenExchange(tsm') /\ Sends(tsm', n)
<1> DEFINE g == tsm_get_peer_id(tsm, Client, ClientInvokeID)
           i == tsm_find_invokeID_index(g.t, g.id)
           slot == [g.t.list[i] EXCEPT
                      !.apdu = [len |-> Ask.len, max |-> AskMax,
                                id |-> ClientInvokeID],
                      !.dest = Client, !.RetryCount = Retries,
                      !.ActualWindowSize = 1, !.InitialSequenceNumber = 0]
           started == [slot EXCEPT
                      !.state = SEGMENTED_RESPONSE_SERVER,
                      !.SegmentRetryCount = Retries,
                      !.RequestTimer = 0, !.SegmentTimer = SegTimeout]
<1>1. /\ FindPeer(tsm, Client, ClientInvokeID) \notin PeerEntries
      /\ WellFormed(g.t) /\ g.id # 0 /\ i \in Slots
  BY EmptyTableHasRoom
<1>2. PICK p \in PeerEntries : /\ PeerMatches(g.t, p, Client, ClientInvokeID)
                               /\ g.t.peers[p].InternalInvokeID = g.id
  BY EmptyTableHasRoom
<1>3. tsm' = invoke_confirmed_service(tsm, Client, ClientInvokeID, Ask).t
  <2>1. MAX_TSM_TRANSACTIONS \notin Slots
    BY TsmConstants DEF Slots
  <2>. QED  BY <1>1, <2>1 DEF apdu_handler_confirmed_service
<1>4. tsm' = tsm_set_complexack_transaction(tsm, Client, ClientInvokeID, Ask).t
  <2>1. /\ Ask.len # 0 /\ Ask.accepts
        /\ ~ (HeaderUnsegmented + Ask.len <= bacnet_calc_apdu_max(Ask.max_resp))
    <3>1. AskMax \in Nat /\ Ask.len \in Nat
      BY ClientValues, ServiceType, SegmentSizes
         DEF AskMax, bacnet_calc_apdu_max, MinOf
    <3>. QED  BY <3>1, AnswerIsSegmented, SegmentSizes DEF AskMax
  <2>. QED  BY <1>3, <2>1 DEF invoke_confirmed_service
<1>5. tsm' = SetSlot(g.t, i, started)
  <2>1. /\ get_apdu_max_segments(Ask.len, bacnet_calc_apdu_max(Ask.max_resp)) # 1
        /\ ~ TooMuchData(Ask.len, bacnet_calc_apdu_max(Ask.max_resp),
               bacnet_calc_transmittable_length(Ask.max_resp, Ask.max_segs,
                                                Ask.accepts))
        /\ Ask.sent
    <3>1. Ask.accepts = TRUE
      BY ClientValues, ServiceType, AnswerIsSegmented
    <3>. QED  BY <3>1, AnswerIsSegmented DEF Total, AskMax
  <2>. QED  BY <1>1, <1>4, <2>1 DEF tsm_set_complexack_transaction, Result, AskMax
<1>6. g.t.list[i] \in SlotType /\ g.t.list[i].InvokeID = g.id
  BY <1>1, FoundSlot DEF WellFormed
<1>7. g.t \in TableType
  BY <1>1 DEF WellFormed
<1>8. [len |-> Ask.len, max |-> AskMax, id |-> ClientInvokeID] \in ApduType
  BY ClientValues, ServiceType, SegmentSizes
     DEF ApduType, AskMax, bacnet_calc_apdu_max, MinOf
<1> HIDE DEF g, i
<1>9. /\ slot \in SlotType /\ slot.InvokeID = g.id
      /\ slot.apdu.len = Ask.len /\ slot.apdu.max = AskMax
      /\ slot.ActualWindowSize = 1 /\ slot.InitialSequenceNumber = 0
  BY <1>6, <1>8, ClientValues, SmallValues DEF SlotType
<1> HIDE DEF slot
<1>10. /\ started \in SlotType /\ started.InvokeID = g.id
       /\ started.apdu = slot.apdu /\ started.ActualWindowSize = 1
       /\ started.InitialSequenceNumber = 0
       /\ started.state = SEGMENTED_RESPONSE_SERVER
  BY <1>9, SmallValues DEF SlotType
<1> HIDE DEF started
<1>11. AskSlot(started, n)
  BY <1>9, <1>10 DEF AskSlot
<1>12. tsm'.list[i] = started /\ tsm'.peers = g.t.peers
  BY <1>1, <1>5, <1>7, <1>10, SetSlotEffect
<1>13. PeerMatches(tsm', p, Client, ClientInvokeID)
  BY <1>2, <1>12 DEF PeerMatches
<1>14. SlotOfExchange(tsm', i)
  BY <1>2, <1>10, <1>12, <1>13 DEF SlotOfExchange
<1>15. Sends(tsm', n)
  BY <1>1, <1>11, <1>12, <1>14, SlotInFinds DEF Sends
<1>. QED  BY <1>13, <1>15 DEF OpenExchange

-----------------------------------------------------------------------------
(* An acknowledgement of segment a, sent by a client that has n > a        *)
(* segments, to a slot whose window starts at f <= n: within the window it *)
(* names a segment of the window, never one before it.                     *)
LEMMA AckCounts ==
    ASSUME NEW s \in Nat, NEW total \in Nat, total < s,
           NEW f \in Nat, f < total, NEW n \in Nat, f <= n, n <= total,
           NEW a \in Nat, a < n,
           NEW w \in Nat, w + total <= s + 1, (a - f) % s < w
    PROVE  f + ((a - f) % s) + 1 = a + 1
<1>1. CASE a >= f
  <2>1. a - f \in 0 .. s - 1
    BY <1>1
  <2>2. (a - f) % s = a - f
    BY <2>1
  <2>. QED  BY <2>2
<1>2. CASE a < f
  <2>1. a - f + s \in 0 .. s - 1
    BY <1>2
  <2>2. (a - f) % s = a - f + s
    BY <2>1
  <2>. QED  BY <1>2, <2>2
<1>. QED  BY <1>1, <1>2

LEMMA AckedMovesOn ==
    ASSUME Paired(tsm, 0), Consistent(tsm), WindowsFit,
           NEW n \in 0 .. Total, NEW seq \in 0 .. n - 1,
           NEW window \in ClientWindows, Sends(tsm, n),
           tsm_segmentack_received(Client, ClientInvokeID, seq, window, FALSE)
    PROVE  /\ Sends(tsm', n)
           /\ \/ OpenExchange(tsm') <=> OpenExchange(tsm)
              \/ n = Total /\ OpenExchange(tsm) /\ ~ OpenExchange(tsm')
<1> DEFINE i == SlotIn(tsm)
           slot == tsm.list[i]
           after == NextToSend(slot, seq)
<1>1. /\ tsm \in TableType /\ WellFormed(tsm)
      /\ seq \in SeqNumbers /\ seq \in Nat /\ n \in Nat
      /\ window \in Bytes /\ window \in Nat
      /\ SEQ \in Nat \ {0} /\ Total \in Nat /\ Total < SEQ
  <2>1. window \in Bytes /\ BYTE \in Nat
    BY ClientValues, TsmConstants
  <2>. QED  BY <2>1, TotalRange, TsmConstants, SegmentSizes
            DEF Paired, WellFormed, SeqNumbers, Bytes
<1>2. CASE i \notin Slots
  <2>1. MAX_TSM_TRANSACTIONS \notin Slots /\ 0 \notin {MAX_TSM_TRANSACTIONS}
    BY TsmConstants DEF Slots
  <2>2. tsm' = tsm
    BY <1>2, <2>1 DEF SlotIn, tsm_segmentack_received
  <2>. QED  BY <2>2
<1>3. CASE i \in Slots
  <2>1. /\ OpenExchange(tsm) /\ SlotOfExchange(tsm, i)
        /\ \A j \in Slots : SlotOfExchange(tsm, j) => j = i
    BY <1>3, SlotInFinds
  <2>2. AskSlot(slot, n) /\ slot \in SlotType /\ Answering(slot)
    BY <1>1, <1>3, <2>1 DEF Sends, TableType, Consistent
  <2>3. ResponseAcked(i, seq, window)
    <3>1. MAX_TSM_TRANSACTIONS \notin Slots
      BY TsmConstants DEF Slots
    <3>2. slot.state = SEGMENTED_RESPONSE_SERVER
      BY <2>2 DEF AskSlot
    <3>3. FindPeer(tsm, Client, ClientInvokeID) \in PeerEntries
      BY <1>3, <3>1 DEF SlotIn
    <3>4. i = tsm_find_invokeID_index(tsm,
                tsm.peers[FindPeer(tsm, Client, ClientInvokeID)].InternalInvokeID)
      BY <3>3 DEF SlotIn
    <3>5. tsm.peers[FindPeer(tsm, Client, ClientInvokeID)].InternalInvokeID # 0
      BY <3>3, FindPeerFound DEF PeerMatches
    <3>. QED  BY <1>3, <3>2, <3>3, <3>4, <3>5 DEF tsm_segmentack_received
  <2>4. /\ slot.InitialSequenceNumber \in Nat /\ slot.ActualWindowSize \in Nat
        /\ slot.InvokeID # 0
    <3>1. slot.InitialSequenceNumber \in SeqNumbers /\ slot.ActualWindowSize \in Bytes
      BY <2>2 DEF SlotType
    <3>. QED  BY <2>1, <3>1, TsmConstants DEF SeqNumbers, Bytes,
                SlotOfExchange, PeerMatches
  <2>5. TotalSegments(slot) = Total /\ slot.InitialSequenceNumber < Total
    BY <2>2 DEF AskSlot, Answering, TotalSegments, Total
  <2>6. ASSUME InWindow(slot, seq, slot.InitialSequenceNumber)
        PROVE  after = seq + 1
    <3>1. slot.ActualWindowSize + Total <= SEQ + 1
      <4>1. slot.ActualWindowSize = 1 \/ slot.ActualWindowSize \in ClientWindows
        BY <2>2 DEF AskSlot
      <4>2. CASE slot.ActualWindowSize = 1
        BY <1>1, <4>2
      <4>3. CASE slot.ActualWindowSize \in ClientWindows
        BY <4>3 DEF WindowsFit
      <4>. QED  BY <4>1, <4>2, <4>3
    <3>2. slot.InitialSequenceNumber <= n /\ n <= Total /\ seq < n
      BY <2>2 DEF AskSlot
    <3>3. (seq - slot.InitialSequenceNumber) % SEQ < slot.ActualWindowSize
      BY <2>6 DEF InWindow
    <3> DEFINE f == slot.InitialSequenceNumber
               w == slot.ActualWindowSize
    <3>4. after = f + ((seq - f) % SEQ) + 1
      BY DEF NextToSend
    <3>5. f \in Nat /\ w \in Nat /\ f < Total
      BY <2>4, <2>5
    <3> HIDE DEF f, w, after, slot
    <3>6. f + ((seq - f) % SEQ) + 1 = seq + 1
      <4>1. /\ w + Total <= SEQ + 1 /\ f <= n /\ n <= Total /\ seq < n
            /\ (seq - f) % SEQ < w
        BY <3>1, <3>2, <3>3 DEF f, w
      <4>. QED  BY <1>1, <3>5, <4>1, AckCounts
    <3>. QED  BY <3>4, <3>6
  <2> DEFINE late == [slot EXCEPT !.SegmentTimer = SegTimeout]
             slid == [slot EXCEPT
                        !.InitialSequenceNumber = after % SEQ,
                        !.ActualWindowSize = window,
                        !.SegmentRetryCount = Retries,
                        !.SegmentTimer = SegTimeout]
             ended == [slot EXCEPT !.SegmentTimer = 0]
  <2>7. \/ tsm' = SetSlot(tsm, i, late)
        \/ /\ InWindow(slot, seq, slot.InitialSequenceNumber)
           /\ after < TotalSegments(slot)
           /\ tsm' = SetSlot(tsm, i, slid)
        \/ /\ InWindow(slot, seq, slot.InitialSequenceNumber)
           /\ after >= TotalSegments(slot)
           /\ tsm' = tsm_free_invoke_id_check(SetSlot(tsm, i, ended),
                                              slot.InvokeID, NoAddress)
    BY <2>3 DEF ResponseAcked
  <2> HIDE DEF i, after
  <2>8. ASSUME NEW u \in SlotType, AskSlot(u, n), u.InvokeID = slot.InvokeID,
               u.dest = slot.dest, tsm' = SetSlot(tsm, i, u)
        PROVE  Sends(tsm', n) /\ (OpenExchange(tsm') <=> OpenExchange(tsm))
    <3>1. Kept(tsm, tsm') /\ tsm'.list[i] = u
      BY <1>1, <1>3, <2>8, SetSlotKept, SetSlotEffect
    <3>2. /\ OpenExchange(tsm') <=> OpenExchange(tsm)
          /\ \A j \in Slots : SlotOfExchange(tsm', j) <=> SlotOfExchange(tsm, j)
      BY <3>1, KeptExchange
    <3>. QED  BY <2>1, <2>8, <3>1, <3>2 DEF Sends
  <2>9. CASE tsm' = SetSlot(tsm, i, late)
    <3>1. /\ late \in SlotType /\ late.InvokeID = slot.InvokeID
          /\ late.dest = slot.dest /\ late.state = slot.state
          /\ late.apdu = slot.apdu
          /\ late.ActualWindowSize = slot.ActualWindowSize
          /\ late.InitialSequenceNumber = slot.InitialSequenceNumber
      BY <2>2, SmallValues DEF SlotType
    <3>2. AskSlot(late, n)
      BY <2>2, <3>1 DEF AskSlot
    <3>. QED  BY <2>8, <2>9, <3>1, <3>2
  <2>10. CASE /\ InWindow(slot, seq, slot.InitialSequenceNumber)
              /\ after < TotalSegments(slot)
              /\ tsm' = SetSlot(tsm, i, slid)
    <3>1. after = seq + 1 /\ after < Total
      BY <2>5, <2>6, <2>10
    <3>2. after % SEQ = after /\ after \in SeqNumbers /\ after <= n
      BY <1>1, <3>1 DEF SeqNumbers
    <3>3. /\ slid \in SlotType /\ slid.InvokeID = slot.InvokeID
          /\ slid.dest = slot.dest /\ slid.state = slot.state
          /\ slid.apdu = slot.apdu /\ slid.ActualWindowSize = window
          /\ slid.InitialSequenceNumber = after
      BY <1>1, <2>2, <3>2, SmallValues DEF SlotType
    <3>4. AskSlot(slid, n)
      BY <2>2, <3>2, <3>3 DEF AskSlot
    <3>. QED  BY <2>8, <2>10, <3>3, <3>4
  <2>11. CASE /\ InWindow(slot, seq, slot.InitialSequenceNumber)
              /\ after >= TotalSegments(slot)
              /\ tsm' = tsm_free_invoke_id_check(SetSlot(tsm, i, ended),
                                                 slot.InvokeID, NoAddress)
    <3>1. n = Total
      <4>1. after = seq + 1 /\ after >= Total
        BY <2>5, <2>6, <2>11
      <4>. QED  BY <1>1, <4>1
    <3>2. /\ ended \in SlotType /\ ended.InvokeID = slot.InvokeID
          /\ ended.dest = slot.dest
      BY <2>2, SmallValues DEF SlotType
    <3> DEFINE v == SetSlot(tsm, i, ended)
    <3>3. v \in TableType /\ Kept(tsm, v)
      BY <1>1, <1>3, <3>2, SetSlotKept
    <3> HIDE DEF v
    <3>4. v.list[i].InvokeID = slot.InvokeID
      BY <1>3, <3>3 DEF Kept
    <3>5. \A p \in PeerEntries :
             tsm'.peers[p] = IF v.peers[p].InternalInvokeID = slot.InvokeID
                             THEN ZeroPeer ELSE v.peers[p]
      <4> DEFINE x == slot.InvokeID
                 j == tsm_find_invokeID_index(v, x)
      <4>1. Uses(v, x)
        BY <1>3, <3>4 DEF Uses
      <4>2. j \in Slots
        BY <4>1, FindIndexFound
      <4>3. tsm' = tsm_free_invoke_id_check(v, x, NoAddress)
        BY <2>11 DEF v
      <4>4. tsm' = SetSlot(tsm_clear_peer_id(v, x), j, free_blob(FreeSlot(v.list[j])))
        BY <4>2, <4>3 DEF tsm_free_invoke_id_check
      <4>5. tsm_clear_peer_id(v, x) \in TableType
        BY <3>3, ClearPeerEffect
      <4>6. tsm'.peers = tsm_clear_peer_id(v, x).peers
        <5>1. v.list[j] \in SlotType
          BY <3>3, <4>2 DEF TableType
        <5>. QED  BY <4>2, <4>4, <4>5, <5>1, FreedSlotType, SetSlotEffect
      <4>. QED  BY <3>3, <4>6, ClearPeerEffect
    <3>6. ~ OpenExchange(tsm')
      <4>1. \A p \in PeerEntries : PeerMatches(tsm, p, Client, ClientInvokeID)
               => tsm.peers[p].InternalInvokeID = slot.InvokeID
        <5>1. PICK q \in PeerEntries : /\ PeerMatches(tsm, q, Client, ClientInvokeID)
                                       /\ tsm.peers[q].InternalInvokeID = slot.InvokeID
          BY <2>1 DEF SlotOfExchange
        <5>. QED  BY <5>1 DEF Paired, EntriesDistinct, PeerMatches
      <4>2. v.peers = tsm.peers
        BY <3>3 DEF Kept
      <4>3. ZeroPeer.InternalInvokeID = 0
        BY DEF ZeroPeer
      <4>. QED  BY <3>5, <4>1, <4>2, <4>3 DEF OpenExchange, PeerMatches
    <3>7. Sends(tsm', n)
      BY <3>6 DEF Sends, SlotOfExchange, OpenExchange
    <3>. QED  BY <2>1, <3>1, <3>6, <3>7
  <2>. QED  BY <2>7, <2>9, <2>10, <2>11
<1>. QED  BY <1>2, <1>3

-----------------------------------------------------------------------------
(* The timer keeps the exchange; it may end it by making its slot IDLE.    *)
LEMMA TickedAsk ==
    ASSUME NEW slot \in SlotType, NEW n, AskSlot(slot, n)
    PROVE  Ticked(slot).state = IDLE \/ AskSlot(Ticked(slot), n)
<1> USE DEF Ticked, SlotType, IDLE, AWAIT_CONFIRMATION,
            SEGMENTED_RESPONSE_SERVER, SEGMENTED_REQUEST_SERVER
<1>1. slot.state = SEGMENTED_RESPONSE_SERVER
  BY DEF AskSlot
<1>2. CASE Expires(slot)
  <2>1. Ticked(slot) = [slot EXCEPT !.SegmentRetryCount = RetriesLeft(slot),
                           !.SegmentTimer = SegTimeout,
                           !.state = IF RetriesLeft(slot) = 0 THEN IDLE ELSE @]
    BY <1>1, <1>2
  <2>. QED  BY <1>1, <2>1 DEF AskSlot
<1>3. CASE ~ Expires(slot)
  <2>1. Ticked(slot) = [slot EXCEPT !.SegmentTimer = Elapsed(@)]
    BY <1>1, <1>3
  <2>. QED  BY <2>1 DEF AskSlot
<1>. QED  BY <1>2, <1>3

LEMMA TimerKeepsExchange ==
    ASSUME Paired(tsm, 0), NEW n, Sends(tsm, n), tsm_timer_milliseconds
    PROVE  /\ OpenExchange(tsm') <=> OpenExchange(tsm)
           /\ tsm'.list[SlotIn(tsm)].state # IDLE => Sends(tsm', n)
<1>1. tsm \in TableType
  BY DEF Paired, WellFormed
<1>2. \A j \in Slots : /\ tsm.list[j] \in SlotType
                       /\ tsm'.list[j] = Ticked(tsm.list[j])
  BY <1>1 DEF TableType, tsm_timer_milliseconds
<1>3. \A p \in PeerEntries :
         tsm'.peers[p] = IF ForgottenPeer(tsm.peers[p]) THEN ZeroPeer ELSE tsm.peers[p]
  BY <1>1 DEF TableType, tsm_timer_milliseconds
<1>4. \A p \in PeerEntries : PeerMatches(tsm, p, Client, ClientInvokeID)
         => tsm'.peers[p] = tsm.peers[p]
  <2>1. SUFFICES ASSUME NEW p \in PeerEntries,
                        PeerMatches(tsm, p, Client, ClientInvokeID)
                 PROVE  ~ ForgottenPeer(tsm.peers[p])
    BY <1>3
  <2>2. \A j \in Slots : tsm.list[j].InvokeID = tsm.peers[p].InternalInvokeID
           => tsm.list[j].state = SEGMENTED_RESPONSE_SERVER
    BY <2>1 DEF Sends, SlotOfExchange, AskSlot
  <2>. QED  BY <2>2 DEF ForgottenPeer, SEGMENTED_RESPONSE_SERVER,
                        SEGMENTED_REQUEST_SERVER
<1>5. ZeroPeer.InternalInvokeID = 0
  BY DEF ZeroPeer
<1>6. \A p \in PeerEntries : PeerMatches(tsm', p, Client, ClientInvokeID)
         <=> PeerMatches(tsm, p, Client, ClientInvokeID)
  BY <1>3, <1>4, <1>5 DEF PeerMatches
<1>7. ASSUME NEW j \in Slots, SlotOfExchange(tsm', j),
             tsm'.list[SlotIn(tsm)].state # IDLE
      PROVE  AskSlot(tsm'.list[j], n)
  <2>1. PICK p \in PeerEntries :
           /\ PeerMatches(tsm', p, Client, ClientInvokeID)
           /\ tsm'.peers[p].InternalInvokeID = tsm'.list[j].InvokeID
    BY <1>7 DEF SlotOfExchange
  <2>2. /\ PeerMatches(tsm, p, Client, ClientInvokeID)
        /\ tsm'.peers[p] = tsm.peers[p] /\ tsm'.list[j].InvokeID # 0
    BY <1>4, <1>6, <2>1 DEF PeerMatches
  <2>3. tsm'.list[j].InvokeID = tsm.list[j].InvokeID
    BY <1>2, <2>2, TickedKeeps
  <2>4. SlotOfExchange(tsm, j)
    BY <2>1, <2>2, <2>3 DEF SlotOfExchange
  <2>5. j = SlotIn(tsm) /\ AskSlot(tsm.list[j], n)
    BY <2>4, SlotInFinds DEF Sends
  <2>. QED  BY <1>2, <1>7, <2>5, TickedAsk
<1>. QED  BY <1>6, <1>7 DEF OpenExchange, Sends

-----------------------------------------------------------------------------
(* The inductive invariant.  A client that has n segments acknowledges     *)
(* only those, and an Abort from it means that it has given up; while the  *)
(* exchange is neither given up nor over, its slot sends the answer from a *)
(* segment that the client has or expects.                                 *)
Messages(ms, n, who) ==
    \A m \in ms :
        /\ m.type = "ClientACK" => m.seq \in 0 .. n - 1 /\ m.window \in ClientWindows
        /\ m.type = "ClientAbort" => who # {}

Progress(t, n, sent, who, ms) ==
    /\ n \in 0 .. Total
    /\ sent \in BOOLEAN
    /\ Messages(ms, n, who)
    /\ ~ sent => who = {} /\ \A p \in PeerEntries : t.peers[p].InternalInvokeID = 0
    /\ sent /\ who = {} => Sends(t, n) /\ (OpenExchange(t) \/ n = Total)

ResponseInv ==
    InStep /\ Consistent(tsm) /\ Progress(tsm, got, asking, gaveUp, net)

(* Outcome, with the search replaced by what it finds.                     *)
OutcomeOf(t, sent, who) ==
    IF ~ sent THEN "open"
    ELSE IF who # {} THEN "failed"
    ELSE IF OpenExchange(t) THEN "open" ELSE "done"

LEMMA OutcomeNow ==
    ASSUME Paired(tsm, 0), asking \in BOOLEAN
    PROVE  Outcome = OutcomeOf(tsm, asking, gaveUp)
<1>1. ExchangeSlot = SlotIn(tsm)
  BY DEF ExchangeSlot, SlotIn
<1>. QED  BY <1>1, SlotInFinds DEF Outcome, OutcomeOf

LEMMA OutcomeNext ==
    ASSUME Paired(tsm', 0), asking' \in BOOLEAN
    PROVE  Outcome' = OutcomeOf(tsm', asking', gaveUp')
<1>1. ExchangeSlot' = SlotIn(tsm')
  BY DEF ExchangeSlot, SlotIn, FindPeer, tsm_find_invokeID_index, PeerMatches
<1>. QED  BY <1>1, SlotInFinds DEF Outcome, OutcomeOf

(* What the server sends is nothing the client could have sent.            *)
LEMMA SentMessages ==
    ASSUME NEW ms, NEW n, NEW who, Messages(ms, n, who), NEW o,
           Without(o, "ClientACK"), Without(o, "ClientAbort")
    PROVE  Messages(ms \cup Sent(o), n, who)
<1>1. \A m \in Sent(o) : m.type # "ClientACK" /\ m.type # "ClientAbort"
  BY WithoutSays DEF Sent
<1>. QED  BY <1>1 DEF Messages

LEMMA FewerMessages ==
    ASSUME NEW ms, NEW n, NEW who, Messages(ms, n, who), NEW m
    PROVE  Messages(ms \ {m}, n, who)
BY DEF Messages

(* Every step of the composition is a step of the server, or leaves it     *)
(* alone.                                                                  *)
LEMMA ResponseIsServer ==
    ASSUME Progress(tsm, got, asking, gaveUp, net), [NextResponse]_allvars
    PROVE  [ServerNext]_vars
<1>1. CASE ServerAsked
  BY <1>1, ClientValues DEF ServerAsked, ServerNext, RequestArrives
<1>2. CASE ServerTimer
  BY <1>2 DEF ServerTimer, ServerNext
<1>3. CASE ClientGivesUp
  BY <1>3 DEF ClientGivesUp
<1>4. ASSUME NEW m \in net, ServerAcked(m) PROVE ServerNext
  <2>1. m.seq \in 0 .. got - 1 /\ m.window \in ClientWindows
    BY <1>4 DEF ServerAcked, Progress, Messages
  <2>2. m.seq \in SeqNumbers /\ m.window \in Windows
    BY <2>1, TotalRange, TsmConstants, SegmentSizes, ClientValues
       DEF SeqNumbers, Progress
  <2>. QED  BY <1>4, <2>2, ClientValues DEF ServerAcked, ServerNext, SegmentACKArrives
<1>5. ASSUME NEW m \in net, ServerAborted(m) PROVE ServerNext
  BY <1>5, ClientValues DEF ServerAborted, ServerNext, ClientAbortArrives
<1>6. ASSUME NEW m \in net, ClientReceives(m) \/ Lose(m) PROVE UNCHANGED vars
  BY <1>6 DEF ClientReceives, Lose
<1>7. CASE UNCHANGED allvars
  BY <1>7 DEF allvars
<1>. QED  BY <1>1, <1>2, <1>3, <1>4, <1>5, <1>6, <1>7 DEF NextResponse

(* The steps of SegmentTransfer that the server takes.                     *)
Moves(n, o, n2, o2) ==
    \/ n2 = n /\ o2 = o
    \/ n < Total /\ n2 = n + 1 /\ o2 = o
    \/ n = Total /\ n2 = n /\ o = "open" /\ o2 = "done"
    \/ n2 = n /\ o = "open" /\ o2 = "failed"

LEMMA AskedMoves ==
    ASSUME Paired(tsm, 0), Paired(tsm', 0),
           Progress(tsm, got, asking, gaveUp, net), ServerAsked
    PROVE  /\ Progress(tsm', got', asking', gaveUp', net')
           /\ Moves(got, OutcomeOf(tsm, asking, gaveUp),
                    got', OutcomeOf(tsm', asking', gaveUp'))
<1>1. /\ got' = got /\ asking' = TRUE /\ asking = FALSE /\ gaveUp' = gaveUp
      /\ gaveUp = {} /\ got \in Nat
  BY TotalRange DEF ServerAsked, Progress
<1>2. OpenExchange(tsm') /\ Sends(tsm', got)
  BY <1>1, AskedOpens DEF ServerAsked, Progress
<1>3. Messages(net', got, gaveUp)
  BY DEF Progress, Messages, ServerAsked
<1>4. Progress(tsm', got', asking', gaveUp', net')
  BY <1>1, <1>2, <1>3 DEF Progress
<1>. QED  BY <1>1, <1>2, <1>4 DEF Moves, OutcomeOf

LEMMA AckedMoves ==
    ASSUME Paired(tsm, 0), Paired(tsm', 0), Consistent(tsm), WindowsFit,
           Progress(tsm, got, asking, gaveUp, net),
           NEW m \in net, ServerAcked(m)
    PROVE  /\ Progress(tsm', got', asking', gaveUp', net')
           /\ Moves(got, OutcomeOf(tsm, asking, gaveUp),
                    got', OutcomeOf(tsm', asking', gaveUp'))
<1>1. /\ got' = got /\ asking' = asking /\ gaveUp' = gaveUp
      /\ tsm_segmentack_received(Client, ClientInvokeID, m.seq, m.window, FALSE)
      /\ m.seq \in 0 .. got - 1 /\ m.window \in ClientWindows
  BY DEF ServerAcked, Progress, Messages
<1>2. m.seq \in SeqNumbers /\ m.window \in Bytes
  BY <1>1, TotalRange, TsmConstants, SegmentSizes, ClientValues
     DEF SeqNumbers, Progress
<1>3. Without(out', "ClientACK") /\ Without(out', "ClientAbort")
  <2>1. /\ "ClientACK" \notin {"Request", "Segment", "Abort"}
        /\ "ClientAbort" \notin {"Request", "Segment", "Abort"}
    OBVIOUS
  <2>. QED  BY <1>1, <1>2, <2>1, SegmentACKOut DEF Paired
<1>4. Messages(net', got, gaveUp)
  <2>1. Messages(net, got, gaveUp) /\ Messages(net \ {m}, got, gaveUp)
    BY FewerMessages DEF Progress
  <2>2. net' = net \cup Sent(out') \/ net' = (net \ {m}) \cup Sent(out')
    BY DEF ServerAcked, TakenByServer
  <2>. QED  BY <1>3, <2>1, <2>2, SentMessages
<1>5. CASE asking /\ gaveUp = {}
  <2>1. /\ Sends(tsm', got)
        /\ \/ OpenExchange(tsm') <=> OpenExchange(tsm)
           \/ got = Total /\ OpenExchange(tsm) /\ ~ OpenExchange(tsm')
    BY <1>1, <1>5, AckedMovesOn DEF Progress
  <2>2. Progress(tsm', got', asking', gaveUp', net')
    BY <1>1, <1>4, <1>5, <2>1 DEF Progress
  <2>. QED  BY <1>1, <1>5, <2>1, <2>2 DEF Moves, OutcomeOf
<1>6. CASE ~ asking
  <2>1. FindPeer(tsm, Client, ClientInvokeID) \notin PeerEntries
    BY <1>6, FindPeerFound DEF PeerMatches, Progress
  <2>2. MAX_TSM_TRANSACTIONS \notin Slots
    BY TsmConstants DEF Slots
  <2>3. tsm' = tsm
    BY <1>1, <2>1, <2>2 DEF tsm_segmentack_received
  <2>4. Progress(tsm', got', asking', gaveUp', net')
    BY <1>1, <1>4, <2>3 DEF Progress
  <2>. QED  BY <1>1, <2>3, <2>4 DEF Moves
<1>7. CASE asking /\ gaveUp # {}
  BY <1>1, <1>4, <1>7 DEF Progress, Moves, OutcomeOf
<1>. QED  BY <1>5, <1>6, <1>7

LEMMA TimerMoves ==
    ASSUME Paired(tsm, 0), Paired(tsm', 0), Consistent(tsm),
           Progress(tsm, got, asking, gaveUp, net), ServerTimer
    PROVE  /\ Progress(tsm', got', asking', gaveUp', net')
           /\ Moves(got, OutcomeOf(tsm, asking, gaveUp),
                    got', OutcomeOf(tsm', asking', gaveUp'))
<1>1. got' = got /\ asking' = asking /\ tsm_timer_milliseconds
  BY DEF ServerTimer
<1>2. gaveUp' = IF SlotIn(tsm) \in Slots /\ tsm'.list[SlotIn(tsm)].state = IDLE
                THEN gaveUp \cup {"server"} ELSE gaveUp
  BY DEF ServerTimer, ExchangeSlot, SlotIn
<1>3. Messages(net', got, gaveUp')
  <2>1. Without(out', "ClientACK") /\ Without(out', "ClientAbort")
    <3>1. /\ "ClientACK" \notin {"Request", "Segment", "Abort"}
          /\ "ClientAbort" \notin {"Request", "Segment", "Abort"}
      OBVIOUS
    <3>. QED  BY <1>1, <3>1, TimerOut DEF Paired
  <2>2. Messages(net \cup Sent(out'), got, gaveUp)
    BY <2>1, SentMessages DEF Progress
  <2>3. net' = net \cup Sent(out')
    BY DEF ServerTimer
  <2>. QED  BY <1>2, <2>2, <2>3 DEF Messages
<1>4. CASE asking /\ gaveUp = {}
  <2>1. /\ OpenExchange(tsm') <=> OpenExchange(tsm)
        /\ tsm'.list[SlotIn(tsm)].state # IDLE => Sends(tsm', got)
    BY <1>1, <1>4, TimerKeepsExchange DEF Progress
  <2>2. SlotIn(tsm) \in Slots <=> OpenExchange(tsm)
    BY SlotInFinds
  <2>3. ASSUME gaveUp' = {} PROVE Sends(tsm', got)
    <3>1. CASE OpenExchange(tsm)
      BY <1>2, <2>1, <2>2, <2>3, <3>1
    <3>2. CASE ~ OpenExchange(tsm)
      BY <2>1, <3>2 DEF Sends, SlotOfExchange, OpenExchange
    <3>. QED  BY <3>1, <3>2
  <2>4. Progress(tsm', got', asking', gaveUp', net')
    BY <1>1, <1>3, <1>4, <2>1, <2>3 DEF Progress
  <2>5. gaveUp' # {} => OpenExchange(tsm)
    BY <1>2, <1>4, <2>2
  <2>. QED  BY <1>1, <1>4, <2>1, <2>4, <2>5 DEF Moves, OutcomeOf
<1>5. CASE ~ asking
  <2>1. ~ OpenExchange(tsm) /\ gaveUp = {}
    BY <1>5 DEF Progress, OpenExchange, PeerMatches
  <2>2. gaveUp' = {}
    BY <1>2, <2>1, SlotInFinds
  <2>3. \A p \in PeerEntries : tsm'.peers[p].InternalInvokeID = 0
    <3>1. \A p \in PeerEntries :
             tsm'.peers[p] = IF ForgottenPeer(tsm.peers[p])
                             THEN ZeroPeer ELSE tsm.peers[p]
      BY <1>1 DEF Paired, WellFormed, TableType, tsm_timer_milliseconds
    <3>. QED  BY <1>5, <3>1 DEF Progress, ZeroPeer
  <2>4. Progress(tsm', got', asking', gaveUp', net')
    BY <1>1, <1>3, <1>5, <2>2, <2>3 DEF Progress
  <2>. QED  BY <1>1, <1>5, <2>4 DEF Moves, OutcomeOf
<1>6. CASE asking /\ gaveUp # {}
  <2>1. gaveUp' # {}
    BY <1>2, <1>6
  <2>. QED  BY <1>1, <1>3, <1>6, <2>1 DEF Progress, Moves, OutcomeOf
<1>. QED  BY <1>4, <1>5, <1>6

LEMMA OneMore ==
    ASSUME NEW total \in Nat, NEW s \in Nat, total < s, NEW a \in 0 .. total,
           NEW b, b = a \/ (a < total /\ b = a + 1)
    PROVE  /\ b \in 0 .. total /\ a <= b /\ (a = total => b = total)
           /\ b > 0 => (b - 1) % s \in 0 .. b - 1
           /\ \A c \in 0 .. a - 1 : c \in 0 .. b - 1
<1>1. /\ b \in 0 .. total /\ a <= b /\ (a = total => b = total)
      /\ \A c \in 0 .. a - 1 : c \in 0 .. b - 1
  OBVIOUS
<1>2. ASSUME b > 0 PROVE (b - 1) % s \in 0 .. b - 1
  <2>1. b - 1 \in 0 .. s - 1
    BY <1>1, <1>2
  <2>2. (b - 1) % s = b - 1
    BY <2>1
  <2>. QED  BY <2>1, <2>2
<1>. QED  BY <1>1, <1>2

(* The client and the network, which leave the tables alone.               *)
LEMMA ClientMoves ==
    ASSUME Paired(tsm, 0), Progress(tsm, got, asking, gaveUp, net), tsm' = tsm,
           NEW m \in net, ClientReceives(m) \/ Lose(m)
    PROVE  /\ Progress(tsm', got', asking', gaveUp', net')
           /\ Moves(got, OutcomeOf(tsm, asking, gaveUp),
                    got', OutcomeOf(tsm', asking', gaveUp'))
<1>1. asking' = asking /\ gaveUp' = gaveUp
  BY DEF ClientReceives, Lose
<1>2. Total \in Nat /\ Total < SEQ /\ SEQ \in Nat \ {0} /\ got \in 0 .. Total
  BY TotalRange, TsmConstants, SegmentSizes DEF Progress
<1>3. got' = got \/ (got < Total /\ got' = got + 1)
  BY <1>2 DEF ClientReceives, Lose
<1>0. /\ got' \in 0 .. Total /\ got <= got' /\ (got = Total => got' = Total)
      /\ got' > 0 => (got' - 1) % SEQ \in 0 .. got' - 1
      /\ \A c \in 0 .. got - 1 : c \in 0 .. got' - 1
  BY <1>2, <1>3, OneMore
<1>4. Messages(net', got', gaveUp)
  <2>1. Messages(net, got, gaveUp)
    BY DEF Progress
  <2>2. \A x \in net' : \/ x \in net
                        \/ \E w \in ClientWindows :
                             /\ got' > 0
                             /\ x = ToServer("ClientACK", (got' - 1) % SEQ, w)
    BY DEF ClientReceives, Lose, Taken
  <2>5. \A t, a, w : /\ ToServer(t, a, w).type = t /\ ToServer(t, a, w).seq = a
                     /\ ToServer(t, a, w).window = w
    BY DEF ToServer
  <2>6. SUFFICES ASSUME NEW x \in net'
                 PROVE  /\ x.type = "ClientACK"
                             => x.seq \in 0 .. got' - 1 /\ x.window \in ClientWindows
                        /\ x.type = "ClientAbort" => gaveUp # {}
    BY DEF Messages
  <2>7. CASE x \in net
    BY <1>0, <2>1, <2>7 DEF Messages
  <2>8. CASE x \notin net
    BY <1>0, <2>2, <2>5, <2>8
  <2>. QED  BY <2>7, <2>8
<1>5. Sends(tsm, got) => Sends(tsm, got')
  <2>1. ASSUME NEW i \in Slots, AskSlot(tsm.list[i], got)
        PROVE  AskSlot(tsm.list[i], got')
    <3>1. tsm.list[i].InitialSequenceNumber \in SeqNumbers
      BY DEF Paired, WellFormed, TableType, SlotType
    <3>2. tsm.list[i].InitialSequenceNumber \in Nat
      BY <3>1, TsmConstants DEF SeqNumbers
    <3>. QED  BY <1>0, <1>2, <2>1, <3>2 DEF AskSlot
  <2>. QED  BY <2>1 DEF Sends
<1>7. Progress(tsm', got', asking', gaveUp', net')
  BY <1>0, <1>1, <1>4, <1>5 DEF Progress
<1>. QED  BY <1>1, <1>3, <1>7 DEF Moves

LEMMA GivingUpMoves ==
    ASSUME Progress(tsm, got, asking, gaveUp, net), tsm' = tsm, ClientGivesUp
    PROVE  /\ Progress(tsm', got', asking', gaveUp', net')
           /\ Moves(got, OutcomeOf(tsm, asking, gaveUp),
                    got', OutcomeOf(tsm', asking', gaveUp'))
<1>1. /\ asking' = asking /\ asking /\ got' = got /\ got < Total
      /\ gaveUp' = gaveUp \cup {"client"} /\ gaveUp' # {}
      /\ net' = net \cup {ToServer("ClientAbort", 0, 0)}
  BY DEF ClientGivesUp
<1>2. Messages(net', got', gaveUp')
  BY <1>1 DEF Messages, Progress, ToServer
<1>3. Progress(tsm', got', asking', gaveUp', net')
  BY <1>1, <1>2 DEF Progress
<1>4. gaveUp = {} => OpenExchange(tsm)
  BY <1>1, TotalRange DEF Progress
<1>. QED  BY <1>1, <1>3, <1>4 DEF Moves, OutcomeOf

LEMMA AbortedMoves ==
    ASSUME Progress(tsm, got, asking, gaveUp, net), NEW m \in net, ServerAborted(m)
    PROVE  /\ Progress(tsm', got', asking', gaveUp', net')
           /\ Moves(got, OutcomeOf(tsm, asking, gaveUp),
                    got', OutcomeOf(tsm', asking', gaveUp'))
<1>1. /\ got' = got /\ asking' = asking /\ gaveUp' = gaveUp /\ gaveUp # {}
      /\ asking
  BY DEF ServerAborted, Progress, Messages
<1>2. Messages(net', got, gaveUp)
  BY DEF ServerAborted, Taken, Messages, Progress
<1>3. Progress(tsm', got', asking', gaveUp', net')
  BY <1>1, <1>2 DEF Progress
<1>. QED  BY <1>1, <1>3 DEF Moves, OutcomeOf

LEMMA ResponseStep ==
    ASSUME ResponseInv, [NextResponse]_allvars, WindowsFit
    PROVE  ResponseInv' /\ [Transfer!Next]_<<got, Outcome>>
<1>1. /\ Paired(tsm, 0) /\ Consistent(tsm) /\ InStep /\ TypedAndUnique
      /\ Progress(tsm, got, asking, gaveUp, net)
  BY DEF ResponseInv, InStep
<1>2. [ServerNext]_vars
  BY <1>1, ResponseIsServer
<1>3. InStep' /\ Paired(tsm', 0) /\ Consistent(tsm')
  <2>1. InStep'
    BY <1>1, <1>2, StepKeepsInStep
  <2>2. Paired(tsm', 0)
    BY <2>1 DEF InStep, Paired, WellFormed, EntriesBound, EntriesDistinct,
                OwnedExcept, UniqueIDs
  <2>3. Consistent(tsm')
    BY <1>1, <1>2, StepKeepsConsistent DEF Next
  <2>. QED  BY <2>1, <2>2, <2>3
<1>4. /\ Progress(tsm', got', asking', gaveUp', net')
      /\ Moves(got, OutcomeOf(tsm, asking, gaveUp),
               got', OutcomeOf(tsm', asking', gaveUp'))
  <2>1. CASE ServerAsked
    BY <1>1, <1>3, <2>1, AskedMoves
  <2>2. CASE ServerTimer
    BY <1>1, <1>3, <2>2, TimerMoves
  <2>3. CASE ClientGivesUp
    BY <1>1, <2>3, GivingUpMoves DEF ClientGivesUp, vars
  <2>4. CASE \E m \in net : ServerAcked(m)
    BY <1>1, <1>3, <2>4, AckedMoves
  <2>5. CASE \E m \in net : ServerAborted(m)
    BY <1>1, <2>5, AbortedMoves
  <2>6. CASE \E m \in net : ClientReceives(m) \/ Lose(m)
    BY <1>1, <2>6, ClientMoves DEF ClientReceives, Lose, vars
  <2>7. CASE UNCHANGED allvars
    BY <1>1, <2>7 DEF Moves, allvars, vars, cvars
  <2>. QED  BY <2>1, <2>2, <2>3, <2>4, <2>5, <2>6, <2>7 DEF NextResponse
<1>5. ResponseInv'
  BY <1>3, <1>4 DEF ResponseInv, Progress, Messages, Sends, OpenExchange,
       SlotOfExchange, AskSlot, PeerMatches, Consistent, Receiving, Answering,
       TotalSegments
<1>6. Moves(got, Outcome, got', Outcome')
  <2>1. asking \in BOOLEAN /\ asking' \in BOOLEAN
    BY <1>1, <1>4 DEF Progress
  <2>. QED  BY <1>1, <1>3, <1>4, <2>1, OutcomeNow, OutcomeNext
<1>7. [Transfer!Next]_<<got, Outcome>>
  BY <1>6 DEF Moves, Transfer!Next, Transfer!Receive, Transfer!Finish, Transfer!Fail
<1>. QED  BY <1>5, <1>7

LEMMA InitiallyResponding == InitResponse => ResponseInv /\ Transfer!Init
<1> SUFFICES ASSUME InitResponse PROVE ResponseInv /\ Transfer!Init
  OBVIOUS
<1>1. InStep /\ Consistent(tsm)
  BY InitiallyInStep, InitiallyConsistent DEF InitResponse, ConsistentInv
<1>2. \A p \in PeerEntries : tsm.peers[p].InternalInvokeID = 0
  BY DEF InitResponse, Init, InitTable, tsm_invokeID_set, ZeroPeer
<1>3. Progress(tsm, got, asking, gaveUp, net)
  <2>1. net = {} /\ got = 0 /\ asking = FALSE /\ gaveUp = {}
    BY DEF InitResponse
  <2>2. 0 \in 0 .. Total
    BY TotalRange, SegmentSizes
  <2>3. Messages(net, got, gaveUp)
    BY <2>1 DEF Messages
  <2>. QED  BY <1>2, <2>1, <2>2, <2>3 DEF Progress
<1>4. Outcome = "open" /\ got = 0
  <2>1. asking = FALSE /\ got = 0
    BY DEF InitResponse
  <2>. QED  BY <2>1 DEF Outcome
<1>. QED  BY <1>1, <1>3, <1>4 DEF ResponseInv, Transfer!Init

-----------------------------------------------------------------------------
(* A response in segments is a SegmentTransfer, for every number of        *)
(* segments and whatever the network loses, repeats or reorders: the       *)
(* server frees the slot on a final acknowledgement only when the client   *)
(* holds every segment.                                                    *)
THEOREM ResponseImplementsTransfer ==
    ASSUME WindowsFit
    PROVE  ResponseSpec => ImplementsTransfer
<1>1. InitResponse => ResponseInv /\ Transfer!Init
  BY InitiallyResponding
<1>2. ResponseInv /\ [NextResponse]_allvars
        => ResponseInv' /\ [Transfer!Next]_<<got, Outcome>>
  BY ResponseStep
<1>. QED  BY <1>1, <1>2, PTL
          DEF ResponseSpec, ImplementsTransfer, Transfer!Spec, Transfer!vars

(* The first segment of the server's window is never one the client does   *)
(* not yet expect, so that no segment is skipped.                          *)
THEOREM WindowStaysBehindClient ==
    ASSUME WindowsFit
    PROVE  ResponseSpec => []WindowBehindClient
<1>1. InitResponse => ResponseInv
  BY InitiallyResponding
<1>2. ResponseInv /\ [NextResponse]_allvars => ResponseInv'
  BY ResponseStep
<1>3. ResponseInv => WindowBehindClient
  <2> SUFFICES ASSUME ResponseInv, Outcome = "open", asking
               PROVE  tsm.list[ExchangeSlot].InitialSequenceNumber <= got
    BY DEF WindowBehindClient
  <2>1. Paired(tsm, 0) /\ Progress(tsm, got, asking, gaveUp, net)
    BY DEF ResponseInv, InStep
  <2>2. gaveUp = {} /\ ExchangeSlot \in Slots
    BY DEF Outcome
  <2>3. ExchangeSlot = SlotIn(tsm)
    BY DEF ExchangeSlot, SlotIn
  <2>4. SlotOfExchange(tsm, ExchangeSlot)
    BY <2>1, <2>2, <2>3, SlotInFinds
  <2>. QED  BY <2>1, <2>2, <2>4 DEF Progress, Sends, AskSlot
<1>. QED  BY <1>1, <1>2, <1>3, PTL DEF ResponseSpec

-----------------------------------------------------------------------------
(* How the answer is cut (ComplexAckPlan).                                 *)

LEMMA Products ==
    ASSUME NEW a \in Int, NEW b \in Int, NEW c \in Int
    PROVE  /\ (a + 1) * b = a * b + b
           /\ a * (b + c) = a * b + a * c
OBVIOUS

LEMMA ProductsGrow ==
    ASSUME NEW a \in Nat, NEW b \in Nat, a <= b, NEW c \in Nat
    PROVE  a * c \in Nat /\ b * c \in Nat /\ a * c <= b * c
<1>1. PICK d \in Nat : b = a + d
  <2>1. b - a \in Nat /\ b = a + (b - a)
    OBVIOUS
  <2>. QED  BY <2>1
<1>2. b * c = a * c + d * c
  BY <1>1
<1>3. a * c \in Nat /\ d * c \in Nat
  OBVIOUS
<1>. QED  BY <1>2, <1>3

(* An answer of len octets in blocks of block octets.                      *)
Blocks(len, block) == (len - 1) \div block + 1

LEMMA BlocksCover ==
    ASSUME NEW len \in Nat \ {0}, NEW block \in Nat \ {0}
    PROVE  /\ Blocks(len, block) \in Nat \ {0}
           /\ (Blocks(len, block) - 1) * block < len
           /\ len <= Blocks(len, block) * block
           /\ \A n \in 0 .. Blocks(len, block) - 1 :
                /\ n * block \in Nat /\ n * block < len
                /\ n < Blocks(len, block) - 1 => n * block + block < len
<1> DEFINE q == (len - 1) \div block
<1>1. q \in Nat /\ q * block <= len - 1 /\ len - 1 < q * block + block
  BY Quotient
<1> HIDE DEF q
<1>2. q * block \in Nat /\ (q + 1) * block = q * block + block
  BY <1>1
<1>3. ASSUME NEW n \in Nat, n <= q
      PROVE  n * block \in Nat /\ n * block <= q * block
  BY <1>1, <1>3, ProductsGrow
<1>4. ASSUME NEW n \in Nat, n < q
      PROVE  n * block + block < len
  <2>1. (n + 1) * block <= q * block
    BY <1>1, <1>4, ProductsGrow
  <2>2. (n + 1) * block = n * block + block /\ n * block \in Nat
    BY Products
  <2>. QED  BY <1>1, <1>2, <2>1, <2>2
<1>5. Blocks(len, block) = q + 1
  BY DEF Blocks, q
<1>6. \A n \in 0 .. q : n * block \in Nat /\ n * block < len
  BY <1>1, <1>2, <1>3
<1>7. \A n \in 0 .. q : n < q => n * block + block < len
  BY <1>1, <1>4
<1>. QED  BY <1>1, <1>2, <1>5, <1>6, <1>7

-----------------------------------------------------------------------------

AnswerType == [len : Lengths, max_resp : MaxResponses, max_segs : MaxSegs]

(* The segments of the answer: their room, where they begin, their size.   *)
Block == BlockSize(ApduMax, TRUE)
Position(n) == SegmentPosition(n, ApduMax, TRUE)
Size(n) == SegmentLength(n, answer.len, ApduMax, TRUE)

(* Decided on by the code to go in segments.                               *)
Segmented ==
    /\ HeaderUnsegmented + answer.len > ApduMax
    /\ Packets # 1
    /\ ~ TooMuchData(answer.len, ApduMax, TotalMax)

PlanInv ==
    /\ answer \in AnswerType
    /\ verdict = "undecided" => next = 0 /\ carried = 0
    /\ verdict = "segmented" =>
         /\ Segmented
         /\ next \in 0 .. Packets
         /\ next < Packets => carried = Position(next)
         /\ next = Packets => carried = answer.len

LEMMA AnswerNumbers ==
    ASSUME answer \in AnswerType
    PROVE  /\ answer.len \in Nat \ {0}
           /\ answer.len + HeaderSegmented <= WORD
           /\ ApduMax \in Nat /\ ApduMax <= answer.max_resp /\ ApduMax <= MAX_APDU
           /\ ApduMax # HeaderSegmented
           /\ answer.max_segs \in Nat
           /\ HeaderSegmented \in Nat /\ WORD \in Nat /\ HeaderUnsegmented \in Nat
<1>1. /\ answer.len \in Lengths /\ answer.max_resp \in MaxResponses
      /\ answer.max_segs \in MaxSegs
  BY DEF AnswerType
<1>2. /\ answer.len \in 1 .. WORD - HeaderSegmented /\ answer.max_resp \in Nat
      /\ answer.max_segs \in Nat /\ ApduMax # HeaderSegmented
  BY <1>1, PlanConstants DEF ApduMax
<1>. QED  BY <1>2, SegmentSizes DEF ApduMax, bacnet_calc_apdu_max, MinOf

(* An answer that goes in segments goes to a client that takes more than   *)
(* the header: the difference in get_apdu_max_segments does not wrap.      *)
LEMMA SegmentedBlocks ==
    ASSUME answer \in AnswerType, Segmented
    PROVE  /\ Block \in Nat \ {0} /\ ApduMax = HeaderSegmented + Block
           /\ Packets = Blocks(answer.len, Block)
<1>1. Packets = Minus32(answer.len, 1) \div Minus32(ApduMax, HeaderSegmented) + 1
  BY AnswerNumbers DEF Segmented, Packets, get_apdu_max_segments,
                       get_apdu_header_typical_size
<1>2. Minus32(answer.len, 1) = answer.len - 1 /\ answer.len - 1 \in Nat
  BY AnswerNumbers DEF Minus32
<1>3. ApduMax > HeaderSegmented
  <2>1. SUFFICES ASSUME ApduMax < HeaderSegmented PROVE FALSE
    BY AnswerNumbers
  <2> DEFINE b == (ApduMax - HeaderSegmented) + WORD
  <2>2. Minus32(ApduMax, HeaderSegmented) = b
    BY <2>1, AnswerNumbers DEF Minus32
  <2>3. b \in Nat \ {0} /\ answer.len - 1 < b
    BY <2>1, AnswerNumbers
  <2> HIDE DEF b
  <2>4. (answer.len - 1) \div b = 0
    BY <1>2, <2>3
  <2>5. Packets = 1
    BY <1>1, <1>2, <2>2, <2>4
  <2>. QED  BY <2>5 DEF Segmented
<1>4. /\ Minus32(ApduMax, HeaderSegmented) = ApduMax - HeaderSegmented
      /\ ApduMax - HeaderSegmented \in Nat \ {0}
  BY <1>3, AnswerNumbers DEF Minus32
<1>5. Block = ApduMax - HeaderSegmented
  BY DEF Block, BlockSize, get_apdu_header_typical_size
<1>6. Packets = Blocks(answer.len, Block)
  BY <1>1, <1>2, <1>4, <1>5 DEF Blocks
<1>7. ApduMax = HeaderSegmented + (ApduMax - HeaderSegmented)
  BY AnswerNumbers
<1>. QED  BY <1>4, <1>5, <1>6, <1>7

(* Each of them carries a full block, but for the last.                    *)
LEMMA SegmentsAre ==
    ASSUME answer \in AnswerType, Segmented, NEW n \in 0 .. Packets - 1
    PROVE  LET size == Size(n)
           IN /\ size \in 1 .. Block
              /\ n < Packets - 1 => size = Block
              /\ n = Packets - 1 => Position(n) + size
                                      = answer.len
              /\ Position(n + 1)
                    = Position(n) + Block
              /\ Position(n) \in Nat
<1> DEFINE block == Block
           at == n * block
           len == answer.len
<1>1. block \in Nat \ {0} /\ Packets = Blocks(len, block) /\ len \in Nat \ {0}
  BY SegmentedBlocks, AnswerNumbers
<1>2. /\ Position(n) = at
      /\ Position(n + 1) = (n + 1) * block
      /\ Size(n) = MaxOf(0, MinOf(len - at, block))
  BY DEF SegmentPosition, SegmentLength, Block, Position, Size
<1> HIDE DEF block, len
<1>3. /\ Packets \in Nat \ {0} /\ at \in Nat /\ at < len
      /\ n < Packets - 1 => at + block < len
      /\ len <= Packets * block
  BY <1>1, BlocksCover
<1>4. n \in Nat /\ (n + 1) * block = at + block
  BY <1>1, <1>3, Products
<1>5. n = Packets - 1 => len <= at + block
  <2>1. SUFFICES ASSUME n = Packets - 1 PROVE len <= at + block
    OBVIOUS
  <2>2. Packets = n + 1
    BY <1>3, <2>1
  <2>. QED  BY <1>3, <1>4, <2>2
<1> HIDE DEF at
<1> DEFINE size == MaxOf(0, MinOf(len - at, block))
<1>6. /\ size \in 1 .. block
      /\ at + block < len => size = block
      /\ len <= at + block => at + size = len
  BY <1>1, <1>3 DEF MaxOf, MinOf
<1> HIDE DEF size
<1>7. Size(n) = size
  BY <1>2 DEF size
<1>. QED  BY <1>2, <1>3, <1>4, <1>5, <1>6, <1>7 DEF block, len

-----------------------------------------------------------------------------

LEMMA PlanStep == PlanInv /\ [NextPlan]_planVars => PlanInv'
<1> SUFFICES ASSUME PlanInv, [NextPlan]_planVars PROVE PlanInv'
  OBVIOUS
<1>1. answer' = answer /\ answer' \in AnswerType
  BY DEF PlanInv, NextPlan, Decide, tsm_pdu_send, planVars
<1>2. /\ ApduMax' = ApduMax /\ Packets' = Packets
      /\ Segmented' <=> Segmented
      /\ Position(next)'
           = Position(next')
  BY <1>1 DEF ApduMax, Packets, TotalMax, Segmented, Position
<1>3. CASE Decide
  <2>1. next' = 0 /\ verdict' # "undecided"
    BY <1>3 DEF Decide, PlanInv
  <2>2. ASSUME verdict' = "segmented"
        PROVE  /\ Segmented /\ next' \in 0 .. Packets /\ next' < Packets
               /\ carried' = Position(next')
    <3>1. Segmented /\ carried' = 0
      <4>1. CASE HeaderUnsegmented + answer.len <= ApduMax
        BY <1>3, <2>2, <4>1 DEF Decide
      <4>2. CASE HeaderUnsegmented + answer.len > ApduMax
        BY <1>3, <2>2, <4>2 DEF Decide, Segmented
      <4>. QED  BY <4>1, <4>2, AnswerNumbers DEF PlanInv
    <3>2. Packets \in Nat \ {0} /\ Block \in Nat
      BY <3>1, SegmentedBlocks, BlocksCover, AnswerNumbers DEF PlanInv
    <3>3. Position(0) = 0
      <4>1. Position(0) = 0 * Block
        BY DEF Position, SegmentPosition, Block
      <4>. QED  BY <3>2, <4>1
    <3>. QED  BY <2>1, <3>1, <3>2, <3>3
  <2>. QED  BY <1>1, <1>2, <2>1, <2>2 DEF PlanInv
<1>4. CASE tsm_pdu_send
  <2>1. verdict' = verdict /\ verdict # "undecided" /\ next' = next + 1
    BY <1>4 DEF tsm_pdu_send
  <2>2. ASSUME verdict = "segmented"
        PROVE  /\ Segmented
               /\ next' \in 0 .. Packets
               /\ next' < Packets =>
                    carried' = Position(next')
               /\ next' = Packets => carried' = answer.len
    <3> DEFINE size == Size(next)
               block == Block
    <3>1. /\ Segmented /\ answer \in AnswerType /\ next \in 0 .. Packets
          /\ next < Packets /\ carried' = carried + size
          /\ carried = Position(next)
      <4>1. next < Packets /\ carried' = carried + size
        BY <1>4, <2>2 DEF tsm_pdu_send, PduSendable, Packets, Size
      <4>. QED  BY <2>2, <4>1 DEF PlanInv
    <3>2. Packets \in Nat
      BY <3>1, SegmentedBlocks, BlocksCover, AnswerNumbers
    <3>3. next \in 0 .. Packets - 1
      BY <3>1, <3>2
    <3>4. /\ next < Packets - 1 => size = block
          /\ next = Packets - 1 => carried + size = answer.len
          /\ Position(next + 1) = carried + block
      BY <3>1, <3>3, SegmentsAre
    <3> HIDE DEF size, block
    <3>. QED  BY <2>1, <3>1, <3>2, <3>3, <3>4
  <2>. QED  BY <1>1, <1>2, <2>1, <2>2 DEF PlanInv
<1>5. CASE UNCHANGED planVars
  BY <1>1, <1>2, <1>5 DEF planVars, PlanInv
<1>. QED  BY <1>3, <1>4, <1>5 DEF NextPlan

LEMMA AlwaysPlanned == PlanSpec => []PlanInv
<1>1. InitPlan => PlanInv
  BY DEF InitPlan, PlanInv, AnswerType
<1>. QED  BY <1>1, PlanStep, PTL DEF PlanSpec

(* For every length of an answer and every limit that a client announces,  *)
(* tsm_pdu_send cuts a segmented answer without gap or overlap: a packet   *)
(* starts where the one before ended, only the last one may be short, none *)
(* is empty, and after the last one the whole answer has been carried.     *)
THEOREM PacketsTileTheorem == PlanSpec => []PacketsTile
<1>1. PlanInv => PacketsTile
  <2> SUFFICES ASSUME PlanInv, verdict = "segmented" PROVE PacketsTile
    BY DEF PacketsTile
  <2>1. /\ answer \in AnswerType /\ Segmented
        /\ next < Packets => carried = Position(next)
        /\ next = Packets => carried = answer.len
    BY DEF PlanInv
  <2>2. /\ Block \in Nat \ {0} /\ ApduMax = HeaderSegmented + Block
        /\ HeaderSegmented \in Nat
    BY <2>1, SegmentedBlocks, AnswerNumbers
  <2>3. ASSUME NEW n \in 0 .. Packets - 1
        PROVE  /\ Size(n) \in 1 .. ApduMax
               /\ MoreFollows(n, answer.len, ApduMax) =>
                    Size(n) = Block
    <3>1. /\ Size(n) \in 1 .. Block
          /\ n < Packets - 1 => Size(n)
                                  = Block
      BY <2>1, SegmentsAre
    <3>2. MoreFollows(n, answer.len, ApduMax) => n < Packets - 1
      BY DEF MoreFollows, Packets
    <3>. QED  BY <2>2, <3>1, <3>2
  <2>. QED  BY <2>1, <2>3 DEF PacketsTile, Block, Position, Size
<1>. QED  BY <1>1, AlwaysPlanned, PTL

(* The check of tsm_set_complexack_transaction, which counts the octets of *)
(* the answer and of all headers, is enough for a client to get no more    *)
(* segments than it announced and this stack allows, and no longer APDU.   *)
THEOREM WithinClientLimitsTheorem == PlanSpec => []WithinClientLimits
<1>1. PlanInv => WithinClientLimits
  <2> SUFFICES ASSUME PlanInv, verdict = "segmented" PROVE WithinClientLimits
    BY DEF WithinClientLimits
  <2> DEFINE block == Block
             segs == bacnet_calc_max_segments(answer.max_segs)
             len == answer.len
             h == HeaderSegmented
  <2>1. answer \in AnswerType /\ Segmented
    BY DEF PlanInv
  <2>2. /\ block \in Nat \ {0} /\ h \in Nat /\ ApduMax = h + block
        /\ Packets = Blocks(len, block) /\ len \in Nat \ {0}
    BY <2>1, SegmentedBlocks, AnswerNumbers
  <2>3. segs \in Nat
    BY <2>1, AnswerNumbers, SegmentSizes DEF bacnet_calc_max_segments, MinOf
  <2>4. len + Packets * h <= segs * ApduMax
    <3>1. ~ (len + Packets * h > segs * ApduMax)
      BY <2>1 DEF Segmented, TooMuchData, Packets, TotalMax, ApduMax,
         bacnet_calc_transmittable_length, get_apdu_header_typical_size
    <3>2. Packets \in Nat
      BY <2>2, BlocksCover
    <3>3. Packets * h \in Nat /\ segs * ApduMax \in Nat
      BY <2>2, <2>3, <3>2
    <3>. QED  BY <2>2, <3>1, <3>3
  <2>5. Packets \in Nat \ {0} /\ (Packets - 1) * block < len
    BY <2>2, BlocksCover
  <2> HIDE DEF block, segs, len, h
  <2>6. Packets <= segs
    <3>1. SUFFICES ASSUME segs <= Packets - 1 PROVE FALSE
      BY <2>3, <2>5
    <3> DEFINE k == Packets - 1
    <3>2. k \in Nat /\ Packets = k + 1
      BY <2>5
    <3>3. segs * ApduMax <= k * ApduMax
      BY <2>2, <2>3, <3>1, <3>2, ProductsGrow
    <3>4. k * ApduMax = k * h + k * block
      BY <2>2, <3>2, Products
    <3>5. Packets * h = k * h + h
      BY <2>2, <3>2, Products
    <3>6. k * h \in Nat /\ k * block \in Nat /\ segs * ApduMax \in Nat
      BY <2>2, <2>3, <3>2
    <3>7. k * block < len
      BY <2>5
    <3> HIDE DEF k
    <3>. QED  BY <2>2, <2>4, <3>3, <3>4, <3>5, <3>6, <3>7
  <2>7. ASSUME NEW n \in 0 .. Packets - 1
        PROVE  HeaderSegmented + Size(n)
                 <= MinOf(answer.max_resp, MAX_APDU)
    <3>1. Size(n) \in 1 .. block
      BY <2>1, SegmentsAre DEF block
    <3>2. ApduMax = MinOf(answer.max_resp, MAX_APDU)
      BY DEF ApduMax, bacnet_calc_apdu_max
    <3>3. HeaderSegmented + Size(n) <= ApduMax
      BY <2>2, <3>1 DEF h
    <3>. QED  BY <3>2, <3>3
  <2>. QED  BY <2>6, <2>7 DEF WithinClientLimits, segs, Size
<1>. QED  BY <1>1, AlwaysPlanned, PTL
=============================================================================
