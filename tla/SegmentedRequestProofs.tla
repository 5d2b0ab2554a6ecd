----------------------- MODULE SegmentedRequestProofs -----------------------
(***************************************************************************)
(* A request in segments over a network that loses, repeats and reorders:  *)
(* for every number of segments and window, the handler is called with the *)
(* whole request, and the server implements SegmentTransfer.               *)
(***************************************************************************)
EXTENDS TsmProofs, SegmentedRequest

LEMMA RequestValues ==
    /\ Client \in Address /\ ClientInvokeID \in PeerInvokeID
    /\ ClientInvokeID \in AnyInvokeID
    /\ ProposedWindow \in Bytes /\ ProposedWindow \in Nat
    /\ Handling \in Service
    /\ Total \in Nat /\ Total >= 2 /\ Total < SEQ /\ SEQ \in Nat \ {0}
    /\ 0 .. Total - 1 \subseteq SeqNumbers
<1>1. /\ Client \in Address /\ ClientInvokeID \in PeerInvokeID
      /\ ClientInvokeID \in AnyInvokeID /\ Handling \in Service
      /\ ProposedWindow \in Bytes
  BY RequestConstants, WindowSizes, SmallValues
<1>2. SEQ \in Nat \ {0} /\ BYTE \in Nat
  BY TsmConstants
<1>3. Total \in Nat /\ Total >= 2 /\ Total < SEQ
  BY <1>2, RequestConstants
<1>4. ProposedWindow \in Nat /\ 0 .. Total - 1 \subseteq SeqNumbers
  BY <1>1, <1>2, <1>3 DEF Bytes, SeqNumbers
<1>. QED  BY <1>1, <1>2, <1>3, <1>4

(* The segment of the request that a step of the server handles.           *)
Handles(n) ==
    /\ n \in 0 .. Total - 1
    /\ apdu_handler_confirmed_service_segment(
         Client, ClientInvokeID, n, n < Total - 1, ProposedWindow, Handling)

(* Segments under way are segments of the request.                         *)
Segments(ms) ==
    \A m \in ms : m.type = "RequestSegment" =>
        \E n \in 0 .. Total - 1 : m = RequestSegment(n)

LEMMA SegmentsOnly ==
    ASSUME NEW ms, Segments(ms), NEW m, NEW o, NEW n \in 0 .. Total - 1
    PROVE  /\ Segments(ms \ {m}) /\ Segments(ms \cup {RequestSegment(n)})
           /\ Segments(ms \cup Sent(o)) /\ Segments((ms \ {m}) \cup Sent(o))
<1>1. \A x \in Sent(o) : x.type # "RequestSegment"
  BY DEF Sent
<1>. QED  BY <1>1 DEF Segments

LEMMA ReceivesHandles ==
    ASSUME Segments(net), NEW m \in net, ServerReceives(m)
    PROVE  \E n \in 0 .. Total - 1 : Handles(n)
<1>1. PICK n \in 0 .. Total - 1 : m = RequestSegment(n)
  BY DEF ServerReceives, Segments
<1>2. m.seq = n /\ m.more = (n < Total - 1)
  BY <1>1 DEF RequestSegment
<1>3. Handles(n)
  BY <1>2 DEF ServerReceives, Handles
<1>. QED  BY <1>3

-----------------------------------------------------------------------------
(* The handler is called with the whole request.                           *)

Whole(o) ==
    \A k \in DOMAIN o : o[k].type = "Indication" => Len(o[k].data) = Total

LEMMA IndicatedWhole ==
    ASSUME NEW o, NEW src, NEW id, NEW data, Indicates(o, src, id, data),
           Len(data) = Total
    PROVE  Whole(o) /\ Served(o)
<1> DEFINE m == Indication(src, id, data)
<1>1. PICK pre, post :
         /\ o = (pre \o <<m>>) \o post
         /\ Without(pre, "Indication") /\ Without(post, "Indication")
  BY DEF Indicates
<1>2. PICK A : pre \in Seq(A) /\ \A x \in A : x.type # "Indication"
  BY <1>1 DEF Without
<1>3. PICK B : post \in Seq(B) /\ \A x \in B : x.type # "Indication"
  BY <1>1 DEF Without
<1>4. m.type = "Indication" /\ m.data = data
  BY DEF Indication
<1> HIDE DEF m
<1>5. ASSUME NEW k \in DOMAIN o, o[k].type = "Indication"
      PROVE  o[k] = m
  <2>1. \/ k \in DOMAIN pre /\ o[k] = pre[k]
        \/ o[k] = m
        \/ \E n \in DOMAIN post : o[k] = post[n]
    BY <1>1, <1>2, <1>3, ThreeParts
  <2>. QED  BY <1>1, <1>5, <2>1, WithoutSays
<1>6. \E k \in DOMAIN o : o[k] = m
  <2> DEFINE head == pre \o <<m>>
  <2>1. /\ head \in Seq(A \cup {m}) /\ Len(head) = Len(pre) + 1
        /\ head[Len(pre) + 1] = m /\ Len(pre) + 1 \in 1 .. Len(head)
    BY <1>2
  <2> HIDE DEF head
  <2>2. /\ o = head \o post
        /\ Len(pre) + 1 \in DOMAIN (head \o post)
        /\ (head \o post)[Len(pre) + 1] = head[Len(pre) + 1]
    BY <1>1, <1>3, <2>1 DEF head
  <2>. QED  BY <2>1, <2>2
<1>. QED  BY <1>4, <1>5, <1>6 DEF Whole, Served

LEMMA NothingIndicated ==
    ASSUME NEW o, Without(o, "Indication")
    PROVE  Whole(o) /\ ~ Served(o)
BY WithoutSays DEF Whole, Served

(* The data of the last segment's slot.                                    *)
LEMMA LastIsWhole ==
    ASSUME NEW s \in SlotType, s.state = SEGMENTED_REQUEST_SERVER, Receiving(s),
           NEW n \in 0 .. Total - 1, n = (s.LastSequenceNumber + 1) % SEQ,
           s.ReceivedSegmentsCount + 1 <= MAX_SEGMENTS_ACCEPTED
    PROVE  LET new == NextSlot(s, Client, ClientInvokeID, n)
           IN /\ new \in SlotType
              /\ new.InvokeID = s.InvokeID /\ new.dest = s.dest
              /\ new.ActualWindowSize = s.ActualWindowSize
              /\ Len(s.blob) = n /\ Len(new.blob) = n + 1
<1> DEFINE new == NextSlot(s, Client, ClientInvokeID, n)
           m == Payload(Client, ClientInvokeID, n)
<1>1. n \in SeqNumbers
  BY RequestValues
<1>2. /\ new \in SlotType
      /\ new.InvokeID = s.InvokeID /\ new.dest = s.dest
      /\ new.blob = Append(s.blob, m)
      /\ new.ActualWindowSize = s.ActualWindowSize
      /\ n = Len(s.blob) % SEQ
  <2>1. Client \in Address /\ ClientInvokeID \in PeerInvokeID
    BY RequestValues
  <2>. QED  BY <1>1, <2>1, NextSlotEffect
<1> HIDE DEF new
<1>3. s.blob \in Seq(Payloads) /\ m \in Payloads
  BY <1>1, RequestValues DEF SlotType, Payload, Payloads
<1>4. Len(new.blob) = Len(s.blob) + 1
  BY <1>2, <1>3
<1>5. /\ Len(s.blob) \in Nat /\ Len(s.blob) < SEQ
  <2>1. Len(s.blob) \in 1 .. MAX_SEGMENTS_ACCEPTED
    BY DEF Receiving
  <2>. QED  BY <2>1, TsmConstants, SegmentSizes
<1>6. Len(s.blob) = n
  <2> DEFINE len == Len(s.blob)
  <2>1. len \in Nat /\ len < SEQ /\ n = len % SEQ
    BY <1>2, <1>5
  <2> HIDE DEF len
  <2>2. len % SEQ = len
    BY <2>1, RequestValues
  <2>. QED  BY <2>1, <2>2 DEF len
<1>. QED  BY <1>2, <1>4, <1>6 DEF new

LEMMA HandledWhole ==
    ASSUME WellFormed(tsm), Consistent(tsm), NEW n, Handles(n)
    PROVE  Whole(out')
<1> DEFINE src == Client
           id == ClientInvokeID
           more == n < Total - 1
           g == tsm_get_peer_id(tsm, src, id)
           t == g.t
           i == tsm_find_invokeID_index(t, g.id)
<1>1. WellFormed(t) /\ Calm(tsm, t)
  BY RequestValues, GetPeerWellFormed, GetPeerCalm
<1>2. Consistent(t)
  BY <1>1, CalmConsistent
<1>3. n \in 0 .. Total - 1 /\ more \in BOOLEAN /\ n \in Nat
  BY RequestValues DEF Handles
<1>4. \/ \E reason : out' = <<Abort(src, id, reason)>>
      \/ out' = <<>>
      \/ FirstSegment(t, i, src, id, n, ProposedWindow)
      \/ /\ g.id # 0 /\ i \in Slots
         /\ t.list[i].state = SEGMENTED_REQUEST_SERVER
         /\ LaterSegment(t, i, src, id, n, more, Handling)
  BY DEF Handles, apdu_handler_confirmed_service_segment
<1> HIDE DEF g, i, more
<1>5. CASE (\E reason : out' = <<Abort(src, id, reason)>>) \/ out' = <<>>
  BY <1>5, WithoutOne, WithoutNone, MessageTypes, NothingIndicated
<1>6. CASE FirstSegment(t, i, src, id, n, ProposedWindow)
  <2>1. \/ \E reason : out' = <<Abort(src, id, reason)>>
        \/ out' = <<SegmentACK(src, id, FALSE, 0, ProposedWindow)>>
    BY <1>6 DEF FirstSegment
  <2>. QED  BY <2>1, WithoutOne, MessageTypes, NothingIndicated
<1>7. CASE /\ g.id # 0 /\ i \in Slots
           /\ t.list[i].state = SEGMENTED_REQUEST_SERVER
           /\ LaterSegment(t, i, src, id, n, more, Handling)
  <2>1. CASE \/ DuplicateSegment(t, i, src, id)
             \/ OutOfOrderSegment(t, i, src, id)
             \/ TooManySegments(t, i, src, id)
    <3>1. \/ out' = EarlyAbort(src, id)
          \/ \E a, w : out' = Append(EarlyAbort(src, id),
                                     SegmentACK(src, id, TRUE, a, w))
          \/ \E r : out' = Append(EarlyAbort(src, id), Abort(src, id, r))
      BY <2>1 DEF DuplicateSegment, OutOfOrderSegment, TooManySegments
    <3>2. Without(out', "Indication")
      BY <3>1, EarlyAbortOut, WithoutAppend, MessageTypes
    <3>. QED  BY <3>2, NothingIndicated
  <2>2. CASE /\ n = (t.list[i].LastSequenceNumber + 1) % SEQ
             /\ t.list[i].ReceivedSegmentsCount + 1 <= MAX_SEGMENTS_ACCEPTED
             /\ NewSegment(t, i, src, id, n, more, Handling)
    <3> DEFINE data == NextSlot(t.list[i], src, id, n).blob
    <3>1. t.list[i] \in SlotType /\ Receiving(t.list[i])
      BY <1>1, <1>2, <1>7 DEF WellFormed, TableType, Consistent
    <3>2. Len(data) = n + 1
      BY <1>3, <1>7, <2>2, <3>1, LastIsWhole
    <3>3. \/ Without(out', "Indication")
          \/ ~ more /\ Indicates(out', src, id, data)
      <4> HIDE DEF t
      <4>. QED  BY <1>3, <2>2, <3>1, NewSegmentOut
    <3> HIDE DEF data
    <3>4. ~ more => Len(data) = Total
      BY <1>3, <3>2, RequestValues DEF more
    <3>. QED  BY <3>3, <3>4, IndicatedWhole, NothingIndicated
  <2>. QED  BY <1>7, <2>1, <2>2 DEF LaterSegment
<1>. QED  BY <1>4, <1>5, <1>6, <1>7

-----------------------------------------------------------------------------
(* What the server acknowledges.                                           *)

(* The acknowledgements in o name segments of S and windows of W.          *)
Acks(o, S, W) ==
    \E A : /\ o \in Seq(A)
           /\ \A m \in A : m.type = "SegmentACK" => m.seq \in S /\ m.window \in W

LEMMA AcksOne ==
    ASSUME NEW dest, NEW id, NEW nak, NEW seq, NEW w
    PROVE  Acks(<<SegmentACK(dest, id, nak, seq, w)>>, {seq}, {w})
<1> DEFINE m == SegmentACK(dest, id, nak, seq, w)
           A == {m}
<1>1. m.seq = seq /\ m.window = w
  BY DEF SegmentACK
<1> HIDE DEF m
<1>2. <<m>> \in Seq(A) /\ \A x \in A : x.seq \in {seq} /\ x.window \in {w}
  BY <1>1
<1> HIDE DEF A
<1>3. Acks(<<m>>, {seq}, {w})
  BY <1>2 DEF Acks
<1>. QED  BY <1>3 DEF m

LEMMA AcksNone ==
    ASSUME NEW o, Without(o, "SegmentACK"), NEW S, NEW W
    PROVE  Acks(o, S, W)
BY DEF Without, Acks

LEMMA AcksJoin ==
    ASSUME NEW a, NEW b, NEW S, NEW W, Acks(a, S, W), Acks(b, S, W)
    PROVE  Acks(a \o b, S, W)
<1> DEFINE Ok(m) == m.type = "SegmentACK" => m.seq \in S /\ m.window \in W
<1>1. PICK A : a \in Seq(A) /\ \A m \in A : Ok(m)
  BY DEF Acks
<1>2. PICK B : b \in Seq(B) /\ \A m \in B : Ok(m)
  BY DEF Acks
<1>3. a \o b \in Seq(A \cup B)
  BY <1>1, <1>2
<1>4. \A m \in A \cup B : Ok(m)
  BY <1>1, <1>2
<1>. QED  BY <1>3, <1>4 DEF Acks

LEMMA AcksMore ==
    ASSUME NEW o, NEW S, NEW W, Acks(o, S, W), NEW S2, NEW W2,
           S \subseteq S2, W \subseteq W2
    PROVE  Acks(o, S2, W2)
BY DEF Acks

LEMMA AcksSay ==
    ASSUME NEW o, NEW S, NEW W, Acks(o, S, W)
    PROVE  \A m \in Sent(o) : m.type = "SegmentACK" => m.seq \in S /\ m.window \in W
BY DEF Acks, Sent

LEMMA EarlyAbortAcks ==
    ASSUME NEW src, NEW id, NEW S, NEW W
    PROVE  /\ Acks(EarlyAbort(src, id), S, W)
           /\ \A r : Acks(<<Abort(src, id, r)>>, S, W)
           /\ Acks(<<>>, S, W)
<1>1. Without(<<>>, "SegmentACK")
  BY WithoutNone
<1>2. \A r : Without(<<Abort(src, id, r)>>, "SegmentACK")
  BY WithoutOne, SentTypes
<1>. QED  BY <1>1, <1>2, AcksNone DEF EarlyAbort

LEMMA AppendIsJoin ==
    ASSUME NEW src, NEW id, NEW m
    PROVE  Append(EarlyAbort(src, id), m) = EarlyAbort(src, id) \o <<m>>
BY DEF EarlyAbort

(* A segment that is not stored is answered with the last one received.    *)
LEMMA UnstoredAcks ==
    ASSUME NEW t, NEW i, t.list[i] \in SlotType, NEW src, NEW id,
           \/ DuplicateSegment(t, i, src, id)
           \/ OutOfOrderSegment(t, i, src, id)
           \/ TooManySegments(t, i, src, id)
    PROVE  /\ Acks(out', {t.list[i].LastSequenceNumber},
                   {t.list[i].ActualWindowSize})
           /\ Without(out', "Indication")
<1> DEFINE seq == t.list[i].LastSequenceNumber
           w == t.list[i].ActualWindowSize
           early == EarlyAbort(src, id)
<1>1. /\ Restarted(t.list[i]).LastSequenceNumber = seq
      /\ Restarted(t.list[i]).ActualWindowSize = w
  BY RestartedFields
<1>2. \/ out' = early
      \/ out' = Append(early, SegmentACK(src, id, TRUE, seq, w))
      \/ \E r : out' = Append(early, Abort(src, id, r))
  BY <1>1 DEF DuplicateSegment, OutOfOrderSegment, TooManySegments
<1> HIDE DEF seq, w
<1>3. Without(out', "Indication")
  BY <1>2, EarlyAbortOut, WithoutAppend, MessageTypes
<1>4. \/ out' = early
      \/ out' = early \o <<SegmentACK(src, id, TRUE, seq, w)>>
      \/ \E r : out' = early \o <<Abort(src, id, r)>>
  BY <1>2, AppendIsJoin
<1>5. Acks(out', {seq}, {w})
  <2>1. Acks(early, {seq}, {w}) /\ \A r : Acks(<<Abort(src, id, r)>>, {seq}, {w})
    BY EarlyAbortAcks
  <2>2. Acks(<<SegmentACK(src, id, TRUE, seq, w)>>, {seq}, {w})
    BY AcksOne
  <2> HIDE DEF early
  <2>. QED  BY <1>4, <2>1, <2>2, AcksJoin
<1>. QED  BY <1>3, <1>5 DEF seq, w

(* A segment that is stored is the one that is acknowledged.               *)
LEMMA NewSegmentAcks ==
    ASSUME NEW t, NEW i, t.list[i] \in SlotType, NEW src, NEW id, NEW seq,
           NEW more \in BOOLEAN, NEW sv, NewSegment(t, i, src, id, seq, more, sv)
    PROVE  Acks(out', {seq}, {t.list[i].ActualWindowSize})
<1> DEFINE old == t.list[i]
           slot == NextSlot(old, src, id, seq)
           w == old.ActualWindowSize
           last == seq = (old.InitialSequenceNumber + old.ActualWindowSize) % SEQ
           ack == IF last \/ ~ more
                  THEN <<SegmentACK(src, id, FALSE, seq, slot.ActualWindowSize)>>
                  ELSE <<>>
           pre == EarlyAbort(src, id) \o ack
           m == <<Indication(src, id, slot.blob)>>
           post == invoke_confirmed_service(
                     tsm_clear_peer_id(SetSlot(t, i, slot), slot.InvokeID),
                     src, id, sv).out
<1>1. out' = pre \/ out' = (pre \o m) \o post
  <2>1. Restarted(old) \in SlotType
    BY RestartedFields
  <2>. QED  BY <2>1 DEF NewSegment, NextSlot, SlotType
<1>2. slot.ActualWindowSize = w
  <2>1. Restarted(old) \in SlotType /\ Restarted(old).ActualWindowSize = w
    BY RestartedFields
  <2>. QED  BY <2>1 DEF NextSlot, SlotType
<1> HIDE DEF slot, w
<1>3. Acks(ack, {seq}, {w})
  BY <1>2, AcksOne, EarlyAbortAcks
<1> HIDE DEF ack
<1>4. Acks(pre, {seq}, {w})
  BY <1>3, EarlyAbortAcks, AcksJoin
<1>5. Without(m, "SegmentACK")
  BY WithoutOne DEF Indication
<1>6. Without(post, "SegmentACK")
  <2>1. "SegmentACK" \notin {"ComplexACK", "Segment", "Abort"}
    OBVIOUS
  <2>. QED  BY <2>1, ServiceOut
<1> HIDE DEF pre, m, post
<1>7. Acks(out', {seq}, {w})
  BY <1>1, <1>4, <1>5, <1>6, AcksNone, AcksJoin
<1>. QED  BY <1>7 DEF w

(* Acknowledgements fit into their octets.                                 *)
LEMMA HandledAcks ==
    ASSUME WellFormed(tsm), NEW n, Handles(n)
    PROVE  Acks(out', SeqNumbers, Bytes)
<1> DEFINE src == Client
           id == ClientInvokeID
           more == n < Total - 1
           g == tsm_get_peer_id(tsm, src, id)
           t == g.t
           i == tsm_find_invokeID_index(t, g.id)
<1>1. WellFormed(t)
  BY RequestValues, GetPeerWellFormed
<1>2. n \in SeqNumbers /\ more \in BOOLEAN
  BY RequestValues DEF Handles
<1>3. \/ \E reason : out' = <<Abort(src, id, reason)>>
      \/ out' = <<>>
      \/ FirstSegment(t, i, src, id, n, ProposedWindow)
      \/ /\ i \in Slots
         /\ LaterSegment(t, i, src, id, n, more, Handling)
  BY DEF Handles, apdu_handler_confirmed_service_segment
<1> HIDE DEF g, i, more
<1>4. CASE (\E reason : out' = <<Abort(src, id, reason)>>) \/ out' = <<>>
  BY <1>4, EarlyAbortAcks
<1>5. CASE FirstSegment(t, i, src, id, n, ProposedWindow)
  <2>1. \/ \E reason : out' = <<Abort(src, id, reason)>>
        \/ out' = <<SegmentACK(src, id, FALSE, 0, ProposedWindow)>>
    BY <1>5 DEF FirstSegment
  <2>2. Acks(<<SegmentACK(src, id, FALSE, 0, ProposedWindow)>>,
             {0}, {ProposedWindow})
    BY AcksOne
  <2>3. {0} \subseteq SeqNumbers /\ {ProposedWindow} \subseteq Bytes
    BY SmallValues, RequestValues
  <2>. QED  BY <2>1, <2>2, <2>3, EarlyAbortAcks, AcksMore
<1>6. CASE /\ i \in Slots
           /\ LaterSegment(t, i, src, id, n, more, Handling)
  <2> DEFINE s == t.list[i]
  <2>1. /\ s \in SlotType /\ s.LastSequenceNumber \in SeqNumbers
        /\ s.ActualWindowSize \in Bytes
    BY <1>1, <1>6 DEF WellFormed, TableType, SlotType
  <2>2. \/ Acks(out', {s.LastSequenceNumber}, {s.ActualWindowSize})
        \/ Acks(out', {n}, {s.ActualWindowSize})
    <3>1. \/ DuplicateSegment(t, i, src, id)
          \/ OutOfOrderSegment(t, i, src, id)
          \/ TooManySegments(t, i, src, id)
          \/ NewSegment(t, i, src, id, n, more, Handling)
      BY <1>6 DEF LaterSegment
    <3> HIDE DEF t
    <3>. QED  BY <1>2, <2>1, <3>1, UnstoredAcks, NewSegmentAcks
  <2> HIDE DEF s
  <2>3. /\ {s.LastSequenceNumber} \subseteq SeqNumbers
        /\ {s.ActualWindowSize} \subseteq Bytes /\ {n} \subseteq SeqNumbers
    BY <1>2, <2>1
  <2>. QED  BY <2>2, <2>3, AcksMore
<1>. QED  BY <1>3, <1>4, <1>5, <1>6

Octets(ms) ==
    \A m \in ms : m.type = "SegmentACK" => m.seq \in SeqNumbers /\ m.window \in Bytes

(* What every step of the composition keeps.                               *)
RequestTables ==
    /\ Paired(tsm, 0) /\ Consistent(tsm) /\ Duplicate_Count \in Bytes
    /\ Segments(net) /\ Octets(net) /\ acked \in Nat /\ window \in Nat

LEMMA MovedOn ==
    ASSUME NEW a \in Nat, NEW seq \in Nat, NEW s \in Nat \ {0}
    PROVE  a + (((seq - a) % s) + 1) \in Nat
<1>1. (seq - a) % s \in Nat
  OBVIOUS
<1>. QED  BY <1>1

LEMMA ClientKeeps ==
    ASSUME RequestTables, NEW m \in net,
           ClientAcked(m) \/ ClientAborted(m) \/ Lose(m)
    PROVE  /\ UNCHANGED vars /\ UNCHANGED served
           /\ net' = net \ {m} /\ Segments(net') /\ Octets(net')
           /\ acked' \in Nat /\ window' \in Nat
<1>1. Segments(net) /\ Octets(net) /\ acked \in Nat /\ window \in Nat
  BY DEF RequestTables
<1>2. /\ net' = net \ {m} /\ UNCHANGED vars /\ UNCHANGED served
      /\ \/ acked' = acked /\ window' = window
         \/ /\ m.type = "SegmentACK" /\ window' = m.window
            /\ acked' = acked + (((m.seq - acked) % SEQ) + 1)
  BY DEF ClientAcked, ClientAborted, Lose
<1>3. Segments(net') /\ Octets(net')
  BY <1>1, <1>2 DEF Segments, Octets
<1>4. CASE acked' = acked /\ window' = window
  BY <1>1, <1>2, <1>3, <1>4
<1>5. CASE /\ m.type = "SegmentACK" /\ window' = m.window
           /\ acked' = acked + (((m.seq - acked) % SEQ) + 1)
  <2>1. m.seq \in Nat /\ m.window \in Nat /\ SEQ \in Nat \ {0}
    BY <1>1, <1>5, TsmConstants DEF Octets, SeqNumbers, Bytes
  <2>2. acked' \in Nat
    BY <1>1, <1>5, <2>1, MovedOn
  <2>. QED  BY <1>2, <1>3, <1>5, <2>1, <2>2
<1>. QED  BY <1>2, <1>4, <1>5

LEMMA SendsSegment ==
    ASSUME RequestTables, ClientSends
    PROVE  /\ UNCHANGED vars /\ UNCHANGED <<acked, window, gaveUp, served>>
           /\ \E n \in 0 .. Total - 1 : net' = net \cup {RequestSegment(n)}
<1>1. PICK n \in acked .. MinOf(acked + window, Total) - 1 :
         net' = net \cup {RequestSegment(n)}
  BY DEF ClientSends
<1>2. n \in 0 .. Total - 1
  BY RequestValues DEF RequestTables, MinOf
<1>. QED  BY <1>1, <1>2 DEF ClientSends

LEMMA TablesKept ==
    ASSUME RequestTables, [NextRequest]_allvars
    PROVE  /\ Paired(tsm', 0) /\ Consistent(tsm') /\ Duplicate_Count' \in Bytes
           /\ RequestTables'
           /\ Whole(out) => Whole(out')
<1> DEFINE Same == /\ Paired(tsm', 0) /\ Consistent(tsm')
                   /\ Duplicate_Count' \in Bytes
                   /\ Whole(out) => Whole(out')
           Sender == Segments(net') /\ Octets(net') /\ acked' \in Nat /\ window' \in Nat
<1>1. /\ Paired(tsm, 0) /\ WellFormed(tsm) /\ Consistent(tsm)
      /\ Duplicate_Count \in Bytes /\ Segments(net) /\ Octets(net)
      /\ acked \in Nat /\ window \in Nat
  BY DEF RequestTables, Paired
<1> SUFFICES Same /\ Sender
  BY DEF Same, RequestTables, Paired, WellFormed, EntriesBound,
         EntriesDistinct, OwnedExcept, UniqueIDs, Consistent, Receiving, Answering,
         TotalSegments, Segments, Octets
<1> HIDE DEF Same
<1>2. ASSUME UNCHANGED vars PROVE Same
  <2>1. tsm' = tsm /\ out' = out /\ Duplicate_Count' = Duplicate_Count
    BY <1>2 DEF vars
  <2>. QED  BY <1>1, <2>1 DEF Same
<1>3. CASE ClientSends
  <2>1. UNCHANGED vars /\ UNCHANGED <<acked, window>>
    BY <1>3, SendsSegment
  <2>2. PICK n \in 0 .. Total - 1 : net' = net \cup {RequestSegment(n)}
    BY <1>3, SendsSegment
  <2>3. RequestSegment(n).type # "SegmentACK"
    BY DEF RequestSegment
  <2>4. Segments(net') /\ Octets(net')
    BY <1>1, <2>2, <2>3, SegmentsOnly DEF Octets
  <2>. QED  BY <1>1, <1>2, <2>1, <2>4
<1>4. CASE ServerTimer
  <2>1. tsm_timer_milliseconds /\ net' = net /\ acked' = acked /\ window' = window
    BY <1>4 DEF ServerTimer, cvars
  <2>2. Duplicate_Count' = Duplicate_Count
    BY <2>1 DEF tsm_timer_milliseconds
  <2>3. Whole(out')
    <3>1. "Indication" \notin {"Request", "Segment", "Abort"}
      OBVIOUS
    <3>. QED  BY <1>1, <2>1, <3>1, TimerOut, NothingIndicated
  <2>. QED  BY <1>1, <2>1, <2>2, <2>3, TimerPaired, TimerKeeps DEF Same
<1>5. ASSUME NEW m \in net, ClientAcked(m) \/ ClientAborted(m) \/ Lose(m)
      PROVE  Same /\ Sender
  BY <1>2, <1>5, ClientKeeps
<1>6. ASSUME NEW m \in net, ServerReceives(m)
      PROVE  Same /\ Sender
  <2>1. PICK n \in 0 .. Total - 1 : Handles(n)
    BY <1>1, <1>6, ReceivesHandles
  <2> DEFINE more == n < Total - 1
  <2>2. /\ n \in SeqNumbers /\ more \in BOOLEAN
        /\ apdu_handler_confirmed_service_segment(
             Client, ClientInvokeID, n, more, ProposedWindow, Handling)
    BY <2>1, RequestValues DEF Handles
  <2> HIDE DEF more
  <2>3. Paired(tsm', 0) /\ Consistent(tsm') /\ Duplicate_Count' \in Bytes
    BY <1>1, <2>2, RequestValues, SegmentPaired, SegmentKeeps, SegmentWellFormed
  <2>4. Whole(out')
    BY <1>1, <2>1, HandledWhole
  <2>5. \A x \in Sent(out') :
           x.type = "SegmentACK" => x.seq \in SeqNumbers /\ x.window \in Bytes
    BY <1>1, <2>1, HandledAcks, AcksSay
  <2>6. /\ net' = net \cup Sent(out') \/ net' = (net \ {m}) \cup Sent(out')
        /\ acked' = acked /\ window' = window
    BY <1>6 DEF ServerReceives
  <2>7. Segments(net') /\ Octets(net')
    BY <1>1, <2>1, <2>5, <2>6, SegmentsOnly DEF Octets
  <2>. QED  BY <1>1, <2>3, <2>4, <2>6, <2>7 DEF Same
<1>7. CASE UNCHANGED allvars
  <2>1. UNCHANGED vars /\ net' = net /\ acked' = acked /\ window' = window
    BY <1>7 DEF allvars, cvars
  <2>. QED  BY <1>1, <1>2, <2>1
<1>. QED  BY <1>3, <1>4, <1>5, <1>6, <1>7 DEF NextRequest

LEMMA InitialTables == InitRequest => RequestTables
<1> SUFFICES ASSUME InitRequest PROVE RequestTables
  OBVIOUS
<1>1. Init /\ net = {} /\ acked = 0 /\ window = 1
  BY DEF InitRequest
<1>2. Paired(tsm, 0) /\ Consistent(tsm)
  BY <1>1, InitiallyInStep, InitiallyConsistent DEF InStep, ConsistentInv
<1>3. Duplicate_Count \in Bytes /\ Segments(net) /\ Octets(net)
  BY <1>1, SmallValues DEF Init, Segments, Octets
<1>. QED  BY <1>1, <1>2, <1>3 DEF RequestTables

(* The handler is called with every segment of the request, for every      *)
(* number of segments, window and timeout, whatever the network loses,     *)
(* repeats or reorders.                                                    *)
THEOREM ServedWholeTheorem == RequestSpec => []ServedWhole
<1>1. InitRequest => RequestTables /\ Whole(out)
  BY InitialTables DEF InitRequest, Init, Whole
<1>2. RequestTables /\ Whole(out) /\ [NextRequest]_allvars
        => RequestTables' /\ Whole(out)'
  <2> SUFFICES ASSUME RequestTables, Whole(out), [NextRequest]_allvars
               PROVE  RequestTables' /\ Whole(out')
    BY DEF Whole
  <2>. QED  BY TablesKept
<1>3. Whole(out) => ServedWhole
  BY DEF Whole, ServedWhole
<1>. QED  BY <1>1, <1>2, <1>3, PTL DEF RequestSpec

-----------------------------------------------------------------------------
(* What the server holds of the request.                                   *)

SlotOfExchange(t, i) ==
    \E p \in PeerEntries :
        /\ PeerMatches(t, p, Client, ClientInvokeID)
        /\ t.peers[p].InternalInvokeID = t.list[i].InvokeID

(* Held, for any table.                                                    *)
HeldIn(t) ==
    LET p == FindPeer(t, Client, ClientInvokeID)
        i == tsm_find_invokeID_index(t, t.peers[p].InternalInvokeID)
    IN IF p \in PeerEntries THEN t.list[i].blob ELSE <<>>

(* Only a slot that receives the request holds data.                       *)
Clean(t) ==
    \A i \in Slots :
        \/ t.list[i].blob = <<>>
        \/ t.list[i].state = SEGMENTED_REQUEST_SERVER /\ t.list[i].InvokeID # 0

(* Every slot that receives does so for this request, and wants more.      *)
Ours(t) ==
    \A i \in Slots :
        t.list[i].state = SEGMENTED_REQUEST_SERVER =>
            /\ t.list[i].ActualWindowSize = ProposedWindow
            /\ Len(t.list[i].blob) < Total

LEMMA HeldFound ==
    ASSUME NEW t, Paired(t, 0)
    PROVE  /\ \A i \in Slots : SlotOfExchange(t, i) => HeldIn(t) = t.list[i].blob
           /\ (\A i \in Slots : ~ SlotOfExchange(t, i)) => HeldIn(t) = <<>>
<1> DEFINE p == FindPeer(t, Client, ClientInvokeID)
           x == t.peers[p].InternalInvokeID
           k == tsm_find_invokeID_index(t, x)
<1>1. /\ UniqueIDs(t) /\ EntriesBound(t) /\ EntriesDistinct(t)
  BY DEF Paired, WellFormed
<1>2. CASE p \in PeerEntries
  <2>1. PeerMatches(t, p, Client, ClientInvokeID) /\ x # 0
    BY <1>2, FindPeerFound DEF PeerMatches
  <2>2. Uses(t, x)
    BY <1>1, <1>2, <2>1 DEF EntriesBound, Uses
  <2>3. k \in Slots /\ t.list[k].InvokeID = x
    BY <2>2, FindIndexFound
  <2>4. HeldIn(t) = t.list[k].blob
    BY <1>2 DEF HeldIn
  <2> HIDE DEF p, k
  <2>5. \A q \in PeerEntries :
           PeerMatches(t, q, Client, ClientInvokeID) => q = p
    BY <1>1, <1>2, <2>1 DEF EntriesDistinct, PeerMatches
  <2>6. ASSUME NEW i \in Slots, SlotOfExchange(t, i) PROVE i = k
    BY <1>1, <2>1, <2>3, <2>5, <2>6 DEF SlotOfExchange, UniqueIDs
  <2>7. SlotOfExchange(t, k)
    BY <1>2, <2>1, <2>3 DEF SlotOfExchange
  <2>. QED  BY <2>3, <2>4, <2>6, <2>7
<1>3. CASE p \notin PeerEntries
  <2>1. \A q \in PeerEntries : ~ PeerMatches(t, q, Client, ClientInvokeID)
    BY <1>3, FindPeerNone
  <2>2. HeldIn(t) = <<>>
    BY <1>3 DEF HeldIn
  <2>. QED  BY <2>1, <2>2 DEF SlotOfExchange
<1>. QED  BY <1>2, <1>3

LEMMA HeldShort ==
    ASSUME NEW t, Paired(t, 0), Clean(t), Ours(t)
    PROVE  Len(HeldIn(t)) \in Nat /\ Len(HeldIn(t)) < Total
<1>1. Len(<<>>) = 0 /\ 0 < Total
  BY RequestValues
<1>2. ASSUME NEW i \in Slots
      PROVE  Len(t.list[i].blob) \in Nat /\ Len(t.list[i].blob) < Total
  <2>1. t.list[i].blob \in Seq(Payloads)
    BY DEF Paired, WellFormed, TableType, SlotType
  <2>. QED  BY <1>1, <2>1 DEF Clean, Ours
<1>. QED  BY <1>1, <1>2, HeldFound

(* Writing the slot of the exchange, and freeing it.                       *)
LEMMA Rewritten ==
    ASSUME NEW t, Paired(t, 0), NEW i \in Slots, SlotOfExchange(t, i),
           NEW slot \in SlotType, slot.InvokeID = t.list[i].InvokeID,
           slot.dest = t.list[i].dest
    PROVE  LET u == SetSlot(t, i, slot)
           IN /\ Paired(u, 0) /\ HeldIn(u) = slot.blob
              /\ HeldIn(t) = t.list[i].blob /\ slot.InvokeID # 0
              /\ /\ Ours(t)
                 /\ slot.state = SEGMENTED_REQUEST_SERVER
                      => /\ slot.ActualWindowSize = ProposedWindow
                         /\ Len(slot.blob) < Total
                 => Ours(u)
              /\ /\ Clean(t)
                 /\ slot.blob = <<>> \/ slot.state = SEGMENTED_REQUEST_SERVER
                 => Clean(u)
<1> DEFINE u == SetSlot(t, i, slot)
<1>1. t \in TableType
  BY DEF Paired, WellFormed
<1>2. /\ u \in TableType /\ u.list[i] = slot /\ u.peers = t.peers
      /\ \A j \in Slots : j # i => u.list[j] = t.list[j]
  BY <1>1, SetSlotEffect
<1>3. Kept(t, u)
  BY <1>1, SetSlotKept
<1> HIDE DEF u
<1>4. Paired(u, 0)
  BY <1>2, <1>3, KeptPaired
<1>5. slot.InvokeID # 0 /\ SlotOfExchange(u, i)
  BY <1>2 DEF SlotOfExchange, PeerMatches
<1>6. HeldIn(u) = slot.blob /\ HeldIn(t) = t.list[i].blob
  BY <1>2, <1>4, <1>5, HeldFound
<1>7. /\ Ours(t)
      /\ slot.state = SEGMENTED_REQUEST_SERVER
           => slot.ActualWindowSize = ProposedWindow /\ Len(slot.blob) < Total
      => Ours(u)
  BY <1>2 DEF Ours
<1>8. /\ Clean(t)
      /\ slot.blob = <<>> \/ slot.state = SEGMENTED_REQUEST_SERVER
      => Clean(u)
  BY <1>2, <1>5 DEF Clean
<1>. QED  BY <1>4, <1>5, <1>6, <1>7, <1>8 DEF u

LEMMA RewrittenAndFreed ==
    ASSUME NEW t, Paired(t, 0), NEW i \in Slots, SlotOfExchange(t, i),
           NEW slot \in SlotType, slot.InvokeID = t.list[i].InvokeID,
           slot.dest = t.list[i].dest
    PROVE  LET u == tsm_free_invoke_id_check(SetSlot(t, i, slot),
                                             slot.InvokeID, NoAddress)
           IN /\ HeldIn(u) = <<>>
              /\ Ours(t) => Ours(u)
              /\ Clean(t) => Clean(u)
<1> DEFINE v == SetSlot(t, i, slot)
           x == slot.InvokeID
           u == tsm_free_invoke_id_check(v, x, NoAddress)
<1>1. t \in TableType
  BY DEF Paired, WellFormed
<1>2. /\ v \in TableType /\ v.list[i] = slot /\ v.peers = t.peers
      /\ \A j \in Slots : j # i => v.list[j] = t.list[j]
  BY <1>1, SetSlotEffect
<1>3. Paired(v, 0) /\ x # 0
  BY Rewritten
<1> HIDE DEF v
<1>4. Paired(u, 0)
  BY <1>3, FreeCheckPaired
<1>5. u # v
  <2>1. Uses(v, x)
    BY <1>2 DEF Uses
  <2> DEFINE k == tsm_find_invokeID_index(v, x)
  <2>2. k \in Slots /\ v.list[k].InvokeID = x
    BY <2>1, FindIndexFound
  <2>3. u = SetSlot(tsm_clear_peer_id(v, x), k, free_blob(FreeSlot(v.list[k])))
    BY <2>2 DEF tsm_free_invoke_id_check
  <2>4. tsm_clear_peer_id(v, x) \in TableType /\ v.list[k] \in SlotType
    BY <1>2, <2>2, ClearPeerEffect DEF TableType
  <2>5. u.list[k].InvokeID = 0
    <3> DEFINE freed == free_blob(FreeSlot(v.list[k]))
               w == tsm_clear_peer_id(v, x)
    <3>1. freed \in SlotType /\ freed.InvokeID = 0
      BY <2>4, FreedSlotType
    <3>2. w \in TableType /\ u = SetSlot(w, k, freed)
      BY <2>3, <2>4
    <3> HIDE DEF freed, w, u, k
    <3>. QED  BY <2>2, <3>1, <3>2, SetSlotEffect
  <2>. QED  BY <1>3, <2>2, <2>5
<1>6. PICK k \in Slots :
         /\ v.list[k].InvokeID = x /\ u.list[k].InvokeID = 0
         /\ u.list[k].state = IDLE /\ u.list[k].blob = <<>>
         /\ \A j \in Slots : j # k => u.list[j] = v.list[j]
         /\ \A p \in PeerEntries :
              u.peers[p] = IF v.peers[p].InternalInvokeID = x
                           THEN ZeroPeer ELSE v.peers[p]
  BY <1>2, <1>5, FreeCheckEffect
<1> HIDE DEF u
<1>7. k = i
  BY <1>2, <1>3, <1>6 DEF Paired, WellFormed, UniqueIDs
<1>8. \A p \in PeerEntries : ~ PeerMatches(u, p, Client, ClientInvokeID)
  <2>1. \A p \in PeerEntries : PeerMatches(t, p, Client, ClientInvokeID)
           => t.peers[p].InternalInvokeID = x
    BY <1>3 DEF SlotOfExchange, Paired, EntriesDistinct, PeerMatches
  <2>2. ZeroPeer.InternalInvokeID = 0
    BY DEF ZeroPeer
  <2>. QED  BY <1>2, <1>6, <2>1, <2>2 DEF PeerMatches
<1>9. HeldIn(u) = <<>>
  BY <1>4, <1>8, HeldFound DEF SlotOfExchange
<1>10. /\ Ours(t) => Ours(u)
       /\ Clean(t) => Clean(u)
  BY <1>2, <1>6, <1>7 DEF Ours, Clean, IDLE, SEGMENTED_REQUEST_SERVER
<1>. QED  BY <1>9, <1>10 DEF u, v

LEMMA CalmOurs ==
    ASSUME NEW t, NEW u, Calm(t, u), Ours(t)
    PROVE  Ours(u)
BY DEF Calm, Ours

(* Finding the exchange, or taking an empty slot for it.                   *)
LEMMA GetPeerHeld ==
    ASSUME NEW t, Paired(t, 0)
    PROVE  LET g == tsm_get_peer_id(t, Client, ClientInvokeID)
           IN /\ Paired(g.t, 0)
              /\ Ours(t) => Ours(g.t)
              /\ Clean(t) => Clean(g.t) /\ HeldIn(g.t) = HeldIn(t)
              /\ g.id # 0 => \A i \in Slots : g.t.list[i].InvokeID = g.id
                                                => SlotOfExchange(g.t, i)
<1> DEFINE g == tsm_get_peer_id(t, Client, ClientInvokeID)
           p == FindPeer(t, Client, ClientInvokeID)
           free == FirstFreePeer(t)
           c == CreatePeer(t, free, Client, ClientInvokeID)
<1>1. Paired(g.t, 0) /\ WellFormed(t)
  BY RequestValues, GetPeerPaired DEF Paired
<1>2. Ours(t) => Ours(g.t)
  BY <1>1, RequestValues, GetPeerCalm, CalmOurs
<1>3. ASSUME g.id # 0, NEW i \in Slots, g.t.list[i].InvokeID = g.id
      PROVE  SlotOfExchange(g.t, i)
  <2>1. PICK q \in PeerEntries :
           g.t.peers[q] = [PeerAddress |-> Client, PeerInvokeID |-> ClientInvokeID,
                           InternalInvokeID |-> g.id]
    BY <1>1, <1>3, RequestValues, GetPeerEntry
  <2> HIDE DEF g
  <2>. QED  BY <1>3, <2>1 DEF SlotOfExchange, PeerMatches
<1>4. g.t = t \/ (p \notin PeerEntries /\ free \in PeerEntries /\ g = c /\ c.id # 0)
  BY DEF tsm_get_peer_id, CreatePeer
<1>5. ASSUME p \notin PeerEntries, free \in PeerEntries, g = c, c.id # 0, Clean(t)
      PROVE  Clean(g.t) /\ HeldIn(g.t) = HeldIn(t)
  <2>1. HeldIn(t) = <<>>
    BY <1>5 DEF HeldIn
  <2>2. PICK k \in Slots :
           /\ t.list[k].InvokeID = 0
           /\ c.t.list[k].InvokeID = c.id
           /\ c.t.list[k].blob = t.list[k].blob
           /\ \A j \in Slots : j # k => c.t.list[j] = t.list[j]
    <3> HIDE DEF free
    <3>1. /\ ClientInvokeID \in AnyInvokeID /\ Client \in Address
          /\ free \in PeerEntries
          /\ CreatePeer(t, free, Client, ClientInvokeID).id # 0
      BY <1>5, RequestValues
    <3>2. /\ ~ Uses(t, c.id)
          /\ c.t.peers[free] = [PeerAddress |-> Client,
                                PeerInvokeID |-> ClientInvokeID,
                                InternalInvokeID |-> c.id]
          /\ \A q \in PeerEntries : q # free => c.t.peers[q] = t.peers[q]
          /\ \E i \in Slots :
               /\ t.list[i].InvokeID = 0
               /\ c.t.list[i].InvokeID = c.id
               /\ c.t.list[i].dest = Client /\ c.t.list[i].state = IDLE
               /\ c.t.list[i].blob = t.list[i].blob
               /\ \A j \in Slots : j # i => c.t.list[j] = t.list[j]
      BY <1>1, <3>1, CreatePeerEffect
    <3> HIDE DEF c
    <3>. QED  BY <3>2
  <2>3. SlotOfExchange(g.t, k)
    BY <1>3, <1>5, <2>2
  <2> HIDE DEF g, c, p
  <2>4. g.t.list[k].blob = <<>>
    BY <1>5, <2>2 DEF Clean
  <2>5. HeldIn(g.t) = <<>>
    BY <1>1, <2>3, <2>4, HeldFound
  <2>6. Clean(g.t)
    BY <1>5, <2>2, <2>4 DEF Clean
  <2>. QED  BY <2>1, <2>5, <2>6
<1>. QED  BY <1>1, <1>2, <1>3, <1>4, <1>5

-----------------------------------------------------------------------------
(* What one segment does to the exchange.                                  *)

Grows(a, b) == b = 0 \/ b = a \/ b = a + 1

(* The server takes table t to u and sends o.  Either this completes the   *)
(* request, or the last segment is not acknowledged.                       *)
Took(t, u, o) ==
    /\ Ours(u)
    /\ \/ /\ Served(o) /\ Len(HeldIn(t)) = Total - 1
          /\ Acks(o, 0 .. Total - 1, {ProposedWindow})
       \/ /\ ~ Served(o) /\ Acks(o, 0 .. Total - 2, {ProposedWindow})
          /\ Clean(t) => Clean(u) /\ Grows(Len(HeldIn(t)), Len(HeldIn(u)))

LEMMA FirstTakes ==
    ASSUME NEW t, Paired(t, 0), Ours(t), NEW i \in Slots, SlotOfExchange(t, i),
           t.list[i].state = IDLE, NEW n \in SeqNumbers,
           FirstSegment(t, i, Client, ClientInvokeID, n, ProposedWindow)
    PROVE  Took(t, tsm', out')
<1> DEFINE empty == <<>>
           m == Payload(Client, ClientInvokeID, n)
           slot == [t.list[i] EXCEPT
                      !.state = SEGMENTED_REQUEST_SERVER,
                      !.ActualWindowSize = ProposedWindow,
                      !.InitialSequenceNumber = 0, !.LastSequenceNumber = 0,
                      !.RetryCount = 0, !.SegmentRetryCount = 0,
                      !.ReceivedSegmentsCount = 1, !.RequestTimer = 0,
                      !.SegmentTimer = RequestSegmentTimer, !.blob = empty]
           idle == [slot EXCEPT !.state = IDLE]
           data == <<m>>
           stored == [slot EXCEPT !.blob = data]
           none == free_blob(slot)
<1>1. t.list[i] \in SlotType
  BY DEF Paired, WellFormed, TableType
<1>2. /\ slot \in SlotType /\ slot.InvokeID = t.list[i].InvokeID
      /\ slot.dest = t.list[i].dest /\ slot.blob = <<>>
      /\ slot.state = SEGMENTED_REQUEST_SERVER
      /\ slot.ActualWindowSize = ProposedWindow
  <2>1. empty \in Seq(Payloads) /\ empty = <<>>
    OBVIOUS
  <2>2. 1 \in Nat /\ ProposedWindow \in Bytes
    BY RequestValues
  <2> HIDE DEF empty
  <2>. QED  BY <1>1, <2>1, <2>2, SmallValues, RequestSegmentTimerType DEF SlotType
<1>3. data \in Seq(Payloads) /\ Len(data) = 1
  BY RequestValues DEF Payload, Payloads
<1>4. \/ /\ tsm' = SetSlot(t, i, idle)
         /\ \E r : out' = <<Abort(Client, ClientInvokeID, r)>>
      \/ /\ tsm' = tsm_free_invoke_id_check(SetSlot(t, i, none),
                                            slot.InvokeID, NoAddress)
         /\ \E r : out' = <<Abort(Client, ClientInvokeID, r)>>
      \/ /\ tsm' = SetSlot(t, i, stored)
         /\ out' = <<SegmentACK(Client, ClientInvokeID, FALSE, 0, ProposedWindow)>>
  BY DEF FirstSegment
<1> HIDE DEF slot, data
<1>5. /\ idle \in SlotType /\ idle.InvokeID = t.list[i].InvokeID
      /\ idle.dest = t.list[i].dest /\ idle.state = IDLE /\ idle.blob = <<>>
  BY <1>2, SmallValues DEF SlotType
<1>6. /\ stored \in SlotType /\ stored.InvokeID = t.list[i].InvokeID
      /\ stored.dest = t.list[i].dest /\ stored.blob = data
      /\ stored.state = SEGMENTED_REQUEST_SERVER
      /\ stored.ActualWindowSize = ProposedWindow
  BY <1>2, <1>3 DEF SlotType
<1>7. /\ none \in SlotType /\ none.InvokeID = slot.InvokeID
      /\ none.dest = t.list[i].dest
  BY <1>2, SmallValues DEF SlotType, free_blob
<1> HIDE DEF idle, stored, none
<1>8. Clean(t) => HeldIn(t) = <<>>
  BY HeldFound DEF Clean, IDLE, SEGMENTED_REQUEST_SERVER
<1>9. /\ Len(<<>>) = 0 /\ 1 < Total /\ {0} \subseteq 0 .. Total - 2
      /\ IDLE # SEGMENTED_REQUEST_SERVER
  BY RequestValues DEF IDLE, SEGMENTED_REQUEST_SERVER
<1>10. ASSUME \E r : out' = <<Abort(Client, ClientInvokeID, r)>>
       PROVE  ~ Served(out') /\ Acks(out', 0 .. Total - 2, {ProposedWindow})
  <2>1. Without(out', "Indication")
    BY <1>10, WithoutOne, MessageTypes
  <2>. QED  BY <1>10, <2>1, EarlyAbortAcks, NothingIndicated
<1>11. CASE /\ tsm' = SetSlot(t, i, idle)
            /\ \E r : out' = <<Abort(Client, ClientInvokeID, r)>>
  <2>1. HeldIn(tsm') = <<>> /\ Ours(tsm') /\ (Clean(t) => Clean(tsm'))
    BY <1>5, <1>9, <1>11, Rewritten
  <2>. QED  BY <1>8, <1>9, <1>10, <1>11, <2>1 DEF Took, Grows
<1>12. CASE /\ tsm' = tsm_free_invoke_id_check(SetSlot(t, i, none),
                                               slot.InvokeID, NoAddress)
            /\ \E r : out' = <<Abort(Client, ClientInvokeID, r)>>
  <2>1. tsm' = tsm_free_invoke_id_check(SetSlot(t, i, none),
                                        none.InvokeID, NoAddress)
    BY <1>7, <1>12
  <2>2. HeldIn(tsm') = <<>> /\ Ours(tsm') /\ (Clean(t) => Clean(tsm'))
    BY <1>2, <1>7, <2>1, RewrittenAndFreed
  <2>. QED  BY <1>8, <1>9, <1>10, <1>12, <2>2 DEF Took, Grows
<1>13. CASE /\ tsm' = SetSlot(t, i, stored)
            /\ out' = <<SegmentACK(Client, ClientInvokeID, FALSE, 0, ProposedWindow)>>
  <2>1. /\ HeldIn(tsm') = data /\ Ours(tsm') /\ (Clean(t) => Clean(tsm'))
    BY <1>3, <1>6, <1>9, <1>13, Rewritten
  <2>2. Acks(out', {0}, {ProposedWindow})
    BY <1>13, AcksOne
  <2>3. Acks(out', 0 .. Total - 2, {ProposedWindow})
    BY <1>9, <2>2, AcksMore
  <2>4. ~ Served(out')
    <3>1. Without(out', "Indication")
      BY <1>13, WithoutOne, MessageTypes
    <3>. QED  BY <3>1, NothingIndicated
  <2>5. Clean(t) => Len(HeldIn(tsm')) = Len(HeldIn(t)) + 1
    BY <1>3, <1>8, <1>9, <2>1
  <2>. QED  BY <2>1, <2>3, <2>4, <2>5 DEF Took, Grows
<1>. QED  BY <1>4, <1>11, <1>12, <1>13

(* A slot that receives the request has acknowledged no last segment.      *)
LEMMA NotYetLast ==
    ASSUME NEW t, Paired(t, 0), Consistent(t), Ours(t), NEW i \in Slots,
           t.list[i].state = SEGMENTED_REQUEST_SERVER
    PROVE  /\ t.list[i] \in SlotType /\ Receiving(t.list[i])
           /\ t.list[i].ActualWindowSize = ProposedWindow
           /\ t.list[i].LastSequenceNumber \in 0 .. Total - 2
           /\ Len(t.list[i].blob) < Total
<1> DEFINE len == Len(t.list[i].blob)
           seq == t.list[i].LastSequenceNumber
<1>1. t.list[i] \in SlotType /\ Receiving(t.list[i])
  BY DEF Paired, WellFormed, TableType, Consistent
<1>2. t.list[i].ActualWindowSize = ProposedWindow /\ len < Total
  BY DEF Ours
<1>3. len \in 1 .. MAX_SEGMENTS_ACCEPTED /\ seq = (len - 1) % SEQ
  BY <1>1 DEF Receiving
<1> HIDE DEF len, seq
<1>4. len \in Nat /\ len >= 1
  BY <1>3, SegmentSizes
<1>5. len - 1 \in 0 .. SEQ - 1
  BY <1>2, <1>4, RequestValues
<1>6. (len - 1) % SEQ = len - 1
  BY <1>5, RequestValues
<1>7. seq \in 0 .. Total - 2
  BY <1>2, <1>3, <1>4, <1>6, RequestValues
<1>. QED  BY <1>1, <1>2, <1>7 DEF len, seq

LEMMA UnstoredTakes ==
    ASSUME ~ TimerTooLong, NEW t, Paired(t, 0), Consistent(t), Ours(t),
           NEW i \in Slots, SlotOfExchange(t, i),
           t.list[i].state = SEGMENTED_REQUEST_SERVER,
           \/ DuplicateSegment(t, i, Client, ClientInvokeID)
           \/ OutOfOrderSegment(t, i, Client, ClientInvokeID)
           \/ TooManySegments(t, i, Client, ClientInvokeID)
    PROVE  Took(t, tsm', out')
<1> DEFINE old == t.list[i]
           slot == Restarted(old)
           kept == [slot EXCEPT !.SegmentTimer = SegTimeout]
           moved == [slot EXCEPT !.SegmentTimer = SegTimeout,
                                 !.InitialSequenceNumber = slot.LastSequenceNumber]
<1>1. /\ old \in SlotType /\ old.ActualWindowSize = ProposedWindow
      /\ old.LastSequenceNumber \in 0 .. Total - 2 /\ Len(old.blob) < Total
  BY NotYetLast
<1>2. /\ slot \in SlotType /\ slot.state = SEGMENTED_REQUEST_SERVER
      /\ slot.InvokeID = old.InvokeID /\ slot.dest = old.dest
      /\ slot.blob = old.blob /\ slot.ActualWindowSize = old.ActualWindowSize
  <2>1. slot.state = SEGMENTED_REQUEST_SERVER
    BY <1>1 DEF Restarted, SlotType
  <2>. QED  BY <1>1, <2>1, RestartedFields
<1>3. \/ tsm' = SetSlot(t, i, kept)
      \/ tsm' = SetSlot(t, i, moved)
      \/ tsm' = SetSlot(t, i, slot)
      \/ tsm' = tsm_free_invoke_id_check(SetSlot(t, i, slot), slot.InvokeID,
                                         NoAddress)
  BY <1>2 DEF DuplicateSegment, OutOfOrderSegment, TooManySegments
<1>4. ~ Served(out') /\ Acks(out', 0 .. Total - 2, {ProposedWindow})
  <2>1. /\ Acks(out', {old.LastSequenceNumber}, {old.ActualWindowSize})
        /\ Without(out', "Indication")
    BY <1>1, UnstoredAcks
  <2>2. {old.LastSequenceNumber} \subseteq 0 .. Total - 2
    BY <1>1
  <2> HIDE DEF old
  <2>3. Acks(out', {old.LastSequenceNumber}, {ProposedWindow})
    BY <1>1, <2>1
  <2>. QED  BY <2>1, <2>2, <2>3, AcksMore, NothingIndicated
<1> HIDE DEF slot
<1>5. ASSUME NEW s \in {kept, moved, slot}
      PROVE  /\ s \in SlotType /\ s.state = SEGMENTED_REQUEST_SERVER
             /\ s.InvokeID = old.InvokeID /\ s.dest = old.dest
             /\ s.blob = old.blob /\ s.ActualWindowSize = ProposedWindow
  BY <1>1, <1>2, SmallValues DEF SlotType
<1> HIDE DEF kept, moved
<1>6. ASSUME NEW s \in {kept, moved, slot}, tsm' = SetSlot(t, i, s)
      PROVE  Took(t, tsm', out')
  <2>1. /\ s \in SlotType /\ s.state = SEGMENTED_REQUEST_SERVER
        /\ s.InvokeID = old.InvokeID /\ s.dest = old.dest
        /\ s.blob = old.blob /\ s.ActualWindowSize = ProposedWindow
    BY <1>5
  <2>2. /\ HeldIn(tsm') = s.blob /\ HeldIn(t) = old.blob
        /\ Ours(tsm') /\ (Clean(t) => Clean(tsm'))
    BY <1>1, <1>6, <2>1, Rewritten
  <2>. QED  BY <1>4, <2>1, <2>2 DEF Took, Grows
<1>7. CASE tsm' = tsm_free_invoke_id_check(SetSlot(t, i, slot), slot.InvokeID,
                                           NoAddress)
  <2>1. HeldIn(tsm') = <<>> /\ Ours(tsm') /\ (Clean(t) => Clean(tsm'))
    BY <1>2, <1>7, RewrittenAndFreed
  <2>. QED  BY <1>4, <2>1 DEF Took, Grows
<1>. QED  BY <1>3, <1>6, <1>7

(* The next segment in order: the last one completes the request.          *)
LEMMA NewTakes ==
    ASSUME ~ TimerTooLong, NEW t, Paired(t, 0), Consistent(t), Ours(t),
           NEW i \in Slots, SlotOfExchange(t, i),
           t.list[i].state = SEGMENTED_REQUEST_SERVER, NEW n \in 0 .. Total - 1,
           n = (t.list[i].LastSequenceNumber + 1) % SEQ,
           t.list[i].ReceivedSegmentsCount + 1 <= MAX_SEGMENTS_ACCEPTED,
           NEW more \in BOOLEAN, more <=> n < Total - 1,
           NewSegment(t, i, Client, ClientInvokeID, n, more, Handling)
    PROVE  Took(t, tsm', out')
<1> DEFINE old == t.list[i]
           slot == NextSlot(old, Client, ClientInvokeID, n)
           stored == SetSlot(t, i, slot)
           x == slot.InvokeID
           cleared == tsm_clear_peer_id(stored, x)
           service == invoke_confirmed_service(cleared, Client, ClientInvokeID,
                                               Handling)
<1>1. old \in SlotType /\ Receiving(old) /\ old.ActualWindowSize = ProposedWindow
  BY NotYetLast
<1>2. IF more THEN tsm' = stored
      ELSE tsm' = tsm_free_invoke_id_check(service.t, x, NoAddress)
  <2>1. Restarted(old) \in SlotType
    BY <1>1, RestartedFields
  <2>. QED  BY <2>1 DEF NewSegment, NextSlot, SlotType
<1>3. /\ slot \in SlotType /\ slot.InvokeID = old.InvokeID /\ slot.dest = old.dest
      /\ slot.ActualWindowSize = ProposedWindow
      /\ Len(old.blob) = n /\ Len(slot.blob) = n + 1
  BY <1>1, LastIsWhole
<1>4. slot.state = SEGMENTED_REQUEST_SERVER
  BY <1>1 DEF NextSlot, Restarted, SlotType
<1>5. IF more THEN Without(out', "Indication")
      ELSE Indicates(out', Client, ClientInvokeID, slot.blob)
  BY <1>1, NewSegmentOut
<1>6. Acks(out', {n}, {ProposedWindow})
  <2>1. Acks(out', {n}, {old.ActualWindowSize})
    BY <1>1, NewSegmentAcks
  <2>. QED  BY <1>1, <2>1
<1> HIDE DEF slot
<1>7. /\ Paired(stored, 0) /\ HeldIn(stored) = slot.blob /\ HeldIn(t) = old.blob
      /\ x # 0
      /\ Ours(t) /\ Len(slot.blob) < Total => Ours(stored)
      /\ Clean(t) => Clean(stored)
  BY <1>1, <1>3, <1>4, Rewritten
<1>8. CASE more
  <2>1. n + 1 < Total /\ {n} \subseteq 0 .. Total - 2
    BY <1>8, RequestValues
  <2>2. ~ Served(out') /\ Acks(out', 0 .. Total - 2, {ProposedWindow})
    BY <1>5, <1>6, <1>8, <2>1, AcksMore, NothingIndicated
  <2> HIDE DEF stored, old
  <2>. QED  BY <1>2, <1>3, <1>7, <1>8, <2>1, <2>2 DEF Took, Grows
<1>9. CASE ~ more
  <2>1. n = Total - 1 /\ Len(slot.blob) = Total /\ {n} \subseteq 0 .. Total - 1
    BY <1>3, <1>9, RequestValues
  <2>2. Served(out') /\ Acks(out', 0 .. Total - 1, {ProposedWindow})
    BY <1>5, <1>6, <1>9, <2>1, AcksMore, IndicatedWhole
  <2>3. /\ t \in TableType /\ stored.list[i] = slot
        /\ \A j \in Slots : j # i => stored.list[j] = t.list[j]
    BY <1>3, SetSlotEffect DEF Paired, WellFormed
  <2> HIDE DEF stored
  <2>4. Paired(cleared, x) /\ cleared.list = stored.list
    BY <1>7, ClearPeerPaired, ClearPeerEffect DEF Paired, WellFormed
  <2> HIDE DEF cleared
  <2>5. /\ Paired(service.t, x)
        /\ \A j \in Slots : service.t.list[j].state = SEGMENTED_REQUEST_SERVER
                              => service.t.list[j] = cleared.list[j]
    BY <2>4, RequestValues, ServicePaired, ServiceKeeps DEF Paired
  <2> HIDE DEF service
  <2>6. /\ Calm(service.t, tsm')
        /\ \A j \in Slots : tsm'.list[j].InvokeID # x
    BY <1>2, <1>7, <1>9, <2>5, FreeCheckCalm, FreeCheckRepairs DEF Paired, WellFormed
  <2>7. ASSUME NEW j \in Slots, tsm'.list[j].state = SEGMENTED_REQUEST_SERVER
        PROVE  tsm'.list[j] = t.list[j]
    <3>1. tsm'.list[j] = stored.list[j]
      BY <2>4, <2>5, <2>6, <2>7 DEF Calm
    <3>. QED  BY <2>3, <2>6, <3>1
  <2>8. Ours(tsm')
    BY <2>7 DEF Ours
  <2>. QED  BY <1>3, <1>7, <2>1, <2>2, <2>8 DEF Took
<1>. QED  BY <1>8, <1>9

(* A segment of the request reaches the server.                            *)
LEMMA SegmentTakes ==
    ASSUME ~ TimerTooLong, Paired(tsm, 0), Consistent(tsm), Ours(tsm),
           NEW n, Handles(n)
    PROVE  /\ Ours(tsm')
           /\ \/ /\ Served(out') /\ Acks(out', 0 .. Total - 1, {ProposedWindow})
                 /\ Clean(tsm) => Len(HeldIn(tsm)) = Total - 1
              \/ /\ ~ Served(out') /\ Acks(out', 0 .. Total - 2, {ProposedWindow})
                 /\ Clean(tsm) => /\ Clean(tsm')
                                  /\ Grows(Len(HeldIn(tsm)), Len(HeldIn(tsm')))
<1> DEFINE src == Client
           id == ClientInvokeID
           more == n < Total - 1
           g == tsm_get_peer_id(tsm, src, id)
           t == g.t
           i == tsm_find_invokeID_index(t, g.id)
<1>1. /\ n \in 0 .. Total - 1 /\ n \in SeqNumbers /\ more \in BOOLEAN
      /\ more <=> n < Total - 1
  BY RequestValues DEF Handles
<1>2. /\ Paired(t, 0) /\ Ours(t)
      /\ Clean(tsm) => Clean(t) /\ HeldIn(t) = HeldIn(tsm)
      /\ g.id # 0 => \A j \in Slots : t.list[j].InvokeID = g.id
                                        => SlotOfExchange(t, j)
  BY GetPeerHeld
<1>3. Consistent(t)
  BY RequestValues, GetPeerCalm, CalmConsistent DEF Paired
<1>4. g.id # 0 /\ i \in Slots => SlotOfExchange(t, i)
  BY <1>2, FindIndexFound, FindIndexNone
<1>5. \/ /\ tsm' = t
         /\ \/ \E reason : out' = <<Abort(src, id, reason)>>
            \/ out' = <<>>
      \/ /\ g.id # 0 /\ i \in Slots /\ t.list[i].state = IDLE
         /\ FirstSegment(t, i, src, id, n, ProposedWindow)
      \/ /\ g.id # 0 /\ i \in Slots
         /\ t.list[i].state = SEGMENTED_REQUEST_SERVER
         /\ LaterSegment(t, i, src, id, n, more, Handling)
  BY DEF Handles, apdu_handler_confirmed_service_segment
<1> HIDE DEF g, i, more, t
<1>6. CASE /\ tsm' = t
           /\ \/ \E reason : out' = <<Abort(src, id, reason)>>
              \/ out' = <<>>
  <2>1. Without(out', "Indication") /\ Acks(out', 0 .. Total - 2, {ProposedWindow})
    BY <1>6, WithoutOne, WithoutNone, MessageTypes, EarlyAbortAcks
  <2>. QED  BY <1>2, <1>6, <2>1, NothingIndicated DEF Grows
<1>7. CASE /\ g.id # 0 /\ i \in Slots /\ t.list[i].state = IDLE
           /\ FirstSegment(t, i, src, id, n, ProposedWindow)
  <2>1. Took(t, tsm', out')
    BY <1>1, <1>2, <1>4, <1>7, FirstTakes
  <2>. QED  BY <1>2, <2>1 DEF Took
<1>8. CASE /\ g.id # 0 /\ i \in Slots
           /\ t.list[i].state = SEGMENTED_REQUEST_SERVER
           /\ LaterSegment(t, i, src, id, n, more, Handling)
  <2>1. Took(t, tsm', out')
    <3>1. \/ DuplicateSegment(t, i, src, id)
          \/ OutOfOrderSegment(t, i, src, id)
          \/ TooManySegments(t, i, src, id)
          \/ /\ n = (t.list[i].LastSequenceNumber + 1) % SEQ
             /\ t.list[i].ReceivedSegmentsCount + 1 <= MAX_SEGMENTS_ACCEPTED
             /\ NewSegment(t, i, src, id, n, more, Handling)
      BY <1>8 DEF LaterSegment
    <3>. QED  BY <1>1, <1>2, <1>3, <1>4, <1>8, <3>1, UnstoredTakes, NewTakes
  <2>. QED  BY <1>2, <2>1 DEF Took
<1>. QED  BY <1>5, <1>6, <1>7, <1>8

(* A tick of the timer keeps what is held or drops it.                     *)
LEMMA TickedBlob ==
    ASSUME NEW slot \in SlotType
    PROVE  LET new == Ticked(slot)
           IN \/ /\ slot.state = SEGMENTED_REQUEST_SERVER /\ Expires(slot)
                 /\ new.InvokeID = 0 /\ new.state = IDLE /\ new.blob = <<>>
              \/ /\ new.InvokeID = slot.InvokeID /\ new.blob = slot.blob
                 /\ slot.state = SEGMENTED_REQUEST_SERVER
                      <=> new.state = SEGMENTED_REQUEST_SERVER
                 /\ new.ActualWindowSize = slot.ActualWindowSize
                 /\ ~ (slot.state = SEGMENTED_REQUEST_SERVER /\ Expires(slot))
<1> USE DEF Ticked, SlotType, IDLE, AWAIT_CONFIRMATION,
            SEGMENTED_RESPONSE_SERVER, SEGMENTED_REQUEST_SERVER
<1>1. CASE slot.state = AWAIT_CONFIRMATION /\ ~ Expires(slot)
  BY <1>1
<1>2. CASE slot.state = AWAIT_CONFIRMATION /\ Expires(slot)
  BY <1>2
<1>3. CASE slot.state = SEGMENTED_RESPONSE_SERVER /\ Expires(slot)
  BY <1>3
<1>4. CASE slot.state = SEGMENTED_REQUEST_SERVER /\ Expires(slot)
  <2>1. Ticked(slot) = free_blob(FreeSlot(slot))
    BY <1>4
  <2>. QED  BY <1>4, <2>1, FreedSlotType
<1>5. CASE /\ slot.state \in {SEGMENTED_RESPONSE_SERVER, SEGMENTED_REQUEST_SERVER}
           /\ ~ Expires(slot)
  BY <1>5
<1>6. CASE slot.state = IDLE
  BY <1>6
<1>. QED  BY <1>1, <1>2, <1>3, <1>4, <1>5, <1>6 DEF TsmStates

LEMMA TimerHeld ==
    ASSUME Paired(tsm, 0), tsm_timer_milliseconds
    PROVE  /\ Ours(tsm) => Ours(tsm')
           /\ Clean(tsm) => Clean(tsm')
           /\ HeldIn(tsm') = HeldIn(tsm) \/ HeldIn(tsm') = <<>>
<1> DEFINE Gone(i) == /\ tsm.list[i].state = SEGMENTED_REQUEST_SERVER
                      /\ Expires(tsm.list[i])
<1>1. tsm \in TableType /\ UniqueIDs(tsm) /\ Paired(tsm', 0)
  BY TimerPaired DEF Paired, WellFormed
<1>2. tsm' = [tsm EXCEPT
                !.list = [i \in Slots |-> Ticked(tsm.list[i])],
                !.peers = [p \in PeerEntries |->
                    IF ForgottenPeer(tsm.peers[p]) THEN ZeroPeer ELSE tsm.peers[p]]]
  BY DEF tsm_timer_milliseconds
<1>3. ASSUME NEW i \in Slots
      PROVE  LET old == tsm.list[i]
                 new == tsm'.list[i]
             IN \/ /\ Gone(i)
                   /\ new.InvokeID = 0 /\ new.state = IDLE /\ new.blob = <<>>
                \/ /\ new.InvokeID = old.InvokeID /\ new.blob = old.blob
                   /\ old.state = SEGMENTED_REQUEST_SERVER
                        <=> new.state = SEGMENTED_REQUEST_SERVER
                   /\ new.ActualWindowSize = old.ActualWindowSize
                   /\ ~ Gone(i)
  <2>1. tsm.list[i] \in SlotType /\ tsm'.list[i] = Ticked(tsm.list[i])
    BY <1>1, <1>2 DEF TableType
  <2>. QED  BY <2>1, TickedBlob
<1>4. \A p \in PeerEntries :
         \/ tsm'.peers[p] = ZeroPeer
         \/ /\ tsm'.peers[p] = tsm.peers[p]
            /\ \A i \in Slots : Gone(i) =>
                 tsm.list[i].InvokeID # tsm.peers[p].InternalInvokeID
  BY <1>1, <1>2 DEF TableType, ForgottenPeer
<1>5. ZeroPeer.InternalInvokeID = 0
  BY DEF ZeroPeer
<1> HIDE DEF Gone
<1>6. (Ours(tsm) => Ours(tsm')) /\ (Clean(tsm) => Clean(tsm'))
  BY <1>3 DEF Ours, Clean, IDLE, SEGMENTED_REQUEST_SERVER
<1>7. ASSUME NEW i \in Slots, SlotOfExchange(tsm', i)
      PROVE  HeldIn(tsm') = HeldIn(tsm)
  <2>1. PICK p \in PeerEntries :
           /\ PeerMatches(tsm', p, Client, ClientInvokeID)
           /\ tsm'.peers[p].InternalInvokeID = tsm'.list[i].InvokeID
    BY <1>7 DEF SlotOfExchange
  <2>2. tsm'.peers[p] = tsm.peers[p] /\ tsm'.list[i].InvokeID # 0
    BY <1>4, <1>5, <2>1 DEF PeerMatches
  <2>3. tsm'.list[i].InvokeID = tsm.list[i].InvokeID
        /\ tsm'.list[i].blob = tsm.list[i].blob
    BY <1>3, <2>2
  <2>4. SlotOfExchange(tsm, i)
    BY <2>1, <2>2, <2>3 DEF SlotOfExchange, PeerMatches
  <2>. QED  BY <1>1, <1>7, <2>3, <2>4, HeldFound
<1>8. (\A i \in Slots : ~ SlotOfExchange(tsm', i)) => HeldIn(tsm') = <<>>
  BY <1>1, HeldFound
<1>. QED  BY <1>6, <1>7, <1>8

-----------------------------------------------------------------------------
(* What the client knows, and the steps of SegmentTransfer.                *)

(* The last segment is acknowledged only when the handler has been called. *)
Known(ms, a, w, sv) ==
    /\ \A m \in ms : m.type = "SegmentACK" =>
         /\ m.seq \in 0 .. Total - 1 /\ m.window = ProposedWindow
         /\ m.seq = Total - 1 => sv
    /\ a \in 0 .. Total /\ (a = Total => sv)
    /\ w \in {1, ProposedWindow}

(* Until the handler is called, only the slot of the exchange holds data.  *)
Progress(t, ms, a, w, gave, sv) ==
    /\ Ours(t) /\ (~ sv => Clean(t))
    /\ Known(ms, a, w, sv)
    /\ gave \in BOOLEAN /\ sv \in BOOLEAN

RequestInv == RequestTables /\ Progress(tsm, net, acked, window, gaveUp, served)

ReceivedIn(t, sv) == IF sv THEN Total ELSE Len(HeldIn(t))

OutcomeOf(a, gave) == IF a >= Total THEN "done"
                      ELSE IF gave THEN "failed" ELSE "open"

(* A step of SegmentTransfer, or none.                                     *)
Moves(r, o, r2, o2) ==
    \/ r2 = r /\ o2 = o
    \/ o2 = o /\ r < Total /\ (r2 = 0 \/ r2 = r + 1)
    \/ /\ r2 = r /\ o = "open"
       /\ o2 = "failed" \/ (o2 = "done" /\ r = Total)

(* An acknowledgement within the window is of the segment it names.        *)
LEMMA AckCounts ==
    ASSUME NEW total \in Nat, NEW s \in Nat, total < s, NEW a \in 0 .. total - 1,
           NEW seq \in 0 .. total - 1, NEW w \in Nat, w + total <= s + 1,
           ((seq - a) % s) + 1 <= w
    PROVE  a + (((seq - a) % s) + 1) = seq + 1
<1>1. CASE seq >= a
  <2>1. seq - a \in 0 .. s - 1
    BY <1>1
  <2>2. (seq - a) % s = seq - a
    BY <2>1
  <2>. QED  BY <2>2
<1>2. CASE seq < a
  <2>1. seq - a + s \in 0 .. s - 1
    BY <1>2
  <2>2. (seq - a) % s = seq - a + s
    BY <2>1
  <2>. QED  BY <1>2, <2>2
<1>. QED  BY <1>1, <1>2

LEMMA ClientMoves ==
    ASSUME WindowFits, Progress(tsm, net, acked, window, gaveUp, served),
           tsm' = tsm, served' = served, NEW m \in net, net' = net \ {m},
           ClientAcked(m) \/ ClientAborted(m) \/ Lose(m)
    PROVE  /\ Progress(tsm', net', acked', window', gaveUp', served')
           /\ Moves(ReceivedIn(tsm, served), OutcomeOf(acked, gaveUp),
                    ReceivedIn(tsm', served'), OutcomeOf(acked', gaveUp'))
<1>1. /\ Known(net, acked, window, served) /\ gaveUp \in BOOLEAN
      /\ acked \in 0 .. Total /\ (acked = Total => served)
      /\ served \in BOOLEAN
  BY DEF Progress, Known
<1>2. Known(net', acked, window, served)
  BY <1>1 DEF Known
<1>3. CASE ClientAborted(m)
  <2>1. acked' = acked /\ window' = window /\ gaveUp' = (gaveUp \/ acked < Total)
    BY <1>3 DEF ClientAborted
  <2>2. gaveUp' \in BOOLEAN
    BY <2>1
  <2>3. Progress(tsm', net', acked', window', gaveUp', served')
    BY <1>2, <2>1, <2>2 DEF Progress
  <2>4. CASE acked < Total
    <3>1. gaveUp' = TRUE
      BY <2>1, <2>4
    <3>2. OutcomeOf(acked', gaveUp') = "failed"
      BY <1>1, <2>1, <2>4, <3>1, RequestValues DEF OutcomeOf
    <3>3. OutcomeOf(acked, gaveUp) \in {"open", "failed"}
      BY <1>1, <2>4, RequestValues DEF OutcomeOf
    <3>. QED  BY <2>3, <3>2, <3>3 DEF Moves
  <2>5. CASE acked = Total
    <3>1. OutcomeOf(acked', gaveUp') = "done" /\ OutcomeOf(acked, gaveUp) = "done"
      BY <2>1, <2>5, RequestValues DEF OutcomeOf
    <3>. QED  BY <2>3, <3>1 DEF Moves
  <2>. QED  BY <1>1, <2>3, <2>4, <2>5, RequestValues
<1>4. CASE acked' = acked /\ window' = window /\ gaveUp' = gaveUp
  <2>1. Progress(tsm', net', acked', window', gaveUp', served')
    BY <1>2, <1>4 DEF Progress
  <2>. QED  BY <1>4, <2>1 DEF Moves
<1>5. CASE /\ m.type = "SegmentACK" /\ window' = m.window /\ gaveUp' = gaveUp
           /\ ((m.seq - acked) % SEQ) + 1 <= window /\ ~ gaveUp /\ acked < Total
           /\ acked' = acked + (((m.seq - acked) % SEQ) + 1)
  <2>1. /\ m.seq \in 0 .. Total - 1 /\ m.window = ProposedWindow
        /\ m.seq = Total - 1 => served
    BY <1>1, <1>5 DEF Known
  <2>2. window \in Nat /\ window + Total <= SEQ + 1
    BY <1>1, RequestValues DEF Known, WindowFits
  <2>3. acked \in 0 .. Total - 1
    BY <1>1, <1>5, RequestValues
  <2>4. acked' = m.seq + 1
    BY <1>5, <2>1, <2>2, <2>3, RequestValues, AckCounts
  <2>5. acked' \in 0 .. Total /\ (acked' = Total => served)
    BY <2>1, <2>4, RequestValues
  <2>6. Known(net', acked', window', served)
    BY <1>2, <1>5, <2>1, <2>5 DEF Known
  <2>7. Progress(tsm', net', acked', window', gaveUp', served')
    BY <1>5, <2>6 DEF Progress
  <2>8. OutcomeOf(acked, gaveUp) = "open"
    BY <1>5, <2>3, RequestValues DEF OutcomeOf
  <2>9. CASE acked' = Total
    BY <1>5, <2>5, <2>7, <2>8, <2>9, RequestValues DEF Moves, OutcomeOf, ReceivedIn
  <2>10. CASE acked' # Total
    <3>1. OutcomeOf(acked', gaveUp') = "open"
      BY <1>5, <2>5, <2>10, RequestValues DEF OutcomeOf
    <3>. QED  BY <2>7, <2>8, <3>1 DEF Moves
  <2>. QED  BY <2>9, <2>10
<1>. QED  BY <1>3, <1>4, <1>5 DEF ClientAcked, Lose

LEMMA ReceiveMoves ==
    ASSUME ~ TimerTooLong, Paired(tsm, 0), Consistent(tsm), Segments(net),
           Progress(tsm, net, acked, window, gaveUp, served),
           NEW m \in net, ServerReceives(m)
    PROVE  /\ Progress(tsm', net', acked', window', gaveUp', served')
           /\ Moves(ReceivedIn(tsm, served), OutcomeOf(acked, gaveUp),
                    ReceivedIn(tsm', served'), OutcomeOf(acked', gaveUp'))
<1>1. PICK n \in 0 .. Total - 1 : Handles(n)
  BY ReceivesHandles
<1>2. /\ acked' = acked /\ window' = window /\ gaveUp' = gaveUp
      /\ net' = net \cup Sent(out') \/ net' = (net \ {m}) \cup Sent(out')
      /\ served' = (served \/ Served(out'))
  BY DEF ServerReceives
<1>3. /\ Known(net, acked, window, served) /\ Ours(tsm)
      /\ ~ served => Clean(tsm)
      /\ gaveUp \in BOOLEAN /\ served \in BOOLEAN
  BY DEF Progress
<1>4. Served(out') \in BOOLEAN /\ served' \in BOOLEAN
  BY <1>2 DEF Served
<1>5. CASE Served(out')
  <2>1. /\ Ours(tsm') /\ Acks(out', 0 .. Total - 1, {ProposedWindow})
        /\ Clean(tsm) => Len(HeldIn(tsm)) = Total - 1
    BY <1>1, <1>3, <1>5, SegmentTakes
  <2>2. served' = TRUE
    BY <1>2, <1>3, <1>5
  <2>3. \A x \in Sent(out') : x.type = "SegmentACK" =>
           x.seq \in 0 .. Total - 1 /\ x.window \in {ProposedWindow}
    BY <2>1, AcksSay
  <2>4. Known(net', acked', window', served')
    BY <1>2, <1>3, <2>2, <2>3 DEF Known
  <2>5. Progress(tsm', net', acked', window', gaveUp', served')
    BY <1>2, <1>3, <2>1, <2>2, <2>4 DEF Progress
  <2>6. CASE served
    BY <1>2, <2>2, <2>5, <2>6 DEF Moves, ReceivedIn
  <2>7. CASE ~ served
    BY <1>2, <1>3, <2>1, <2>2, <2>5, <2>7, RequestValues DEF Moves, ReceivedIn
  <2>. QED  BY <2>6, <2>7
<1>6. CASE ~ Served(out')
  <2>1. /\ Ours(tsm') /\ Acks(out', 0 .. Total - 2, {ProposedWindow})
        /\ Clean(tsm) => /\ Clean(tsm')
                         /\ Grows(Len(HeldIn(tsm)), Len(HeldIn(tsm')))
    BY <1>1, <1>3, <1>6, SegmentTakes
  <2>2. served' = served
    BY <1>2, <1>3, <1>4, <1>6
  <2>3. \A x \in Sent(out') : x.type = "SegmentACK" =>
           x.seq \in 0 .. Total - 2 /\ x.window \in {ProposedWindow}
    BY <2>1, AcksSay
  <2>4. \A x \in Sent(out') : x.type = "SegmentACK" =>
           /\ x.seq \in 0 .. Total - 1 /\ x.seq # Total - 1
           /\ x.window = ProposedWindow
    BY <2>3, RequestValues
  <2>5. Known(net', acked', window', served')
    BY <1>2, <1>3, <2>2, <2>4 DEF Known
  <2>6. Progress(tsm', net', acked', window', gaveUp', served')
    BY <1>2, <1>3, <2>1, <2>2, <2>5 DEF Progress
  <2>7. CASE served
    BY <1>2, <2>2, <2>6, <2>7 DEF Moves, ReceivedIn
  <2>8. CASE ~ served
    <3>1. Len(HeldIn(tsm)) < Total
      BY <1>3, <2>8, HeldShort
    <3>. QED  BY <1>2, <1>3, <2>1, <2>2, <2>6, <2>8, <3>1
              DEF Moves, ReceivedIn, Grows
  <2>. QED  BY <2>7, <2>8
<1>. QED  BY <1>5, <1>6

LEMMA TimerMoves ==
    ASSUME Paired(tsm, 0), Progress(tsm, net, acked, window, gaveUp, served),
           ServerTimer
    PROVE  /\ Progress(tsm', net', acked', window', gaveUp', served')
           /\ Moves(ReceivedIn(tsm, served), OutcomeOf(acked, gaveUp),
                    ReceivedIn(tsm', served'), OutcomeOf(acked', gaveUp'))
<1>1. /\ tsm_timer_milliseconds
      /\ net' = net /\ acked' = acked /\ window' = window /\ gaveUp' = gaveUp
      /\ served' = served
  BY DEF ServerTimer, cvars
<1>2. /\ Ours(tsm) => Ours(tsm')
      /\ Clean(tsm) => Clean(tsm')
      /\ HeldIn(tsm') = HeldIn(tsm) \/ HeldIn(tsm') = <<>>
  BY <1>1, TimerHeld
<1>3. Progress(tsm', net', acked', window', gaveUp', served')
  BY <1>1, <1>2 DEF Progress
<1>4. CASE served
  BY <1>1, <1>3, <1>4 DEF Moves, ReceivedIn
<1>5. CASE ~ served
  <2>1. Len(HeldIn(tsm)) < Total
    BY <1>5, HeldShort DEF Progress
  <2>2. Len(<<>>) = 0
    OBVIOUS
  <2>. QED  BY <1>1, <1>2, <1>3, <1>5, <2>1, <2>2 DEF Moves, ReceivedIn
<1>. QED  BY <1>4, <1>5

LEMMA RequestStep ==
    ASSUME WindowFits, ~ TimerTooLong, RequestInv, [NextRequest]_allvars
    PROVE  RequestInv' /\ [Transfer!Next]_<<Received, Outcome>>
<1>1. /\ RequestTables /\ Paired(tsm, 0) /\ Consistent(tsm) /\ Segments(net)
      /\ Progress(tsm, net, acked, window, gaveUp, served)
  BY DEF RequestInv, RequestTables
<1>2. RequestTables'
  BY <1>1, TablesKept
<1> DEFINE Goal == /\ Progress(tsm', net', acked', window', gaveUp', served')
                   /\ Moves(ReceivedIn(tsm, served), OutcomeOf(acked, gaveUp),
                            ReceivedIn(tsm', served'), OutcomeOf(acked', gaveUp'))
<1>3. Goal
  <2>1. CASE ClientSends
    <3>1. tsm' = tsm /\ acked' = acked /\ window' = window /\ gaveUp' = gaveUp
          /\ served' = served
      BY <1>1, <2>1, SendsSegment DEF vars
    <3>2. PICK n \in 0 .. Total - 1 : net' = net \cup {RequestSegment(n)}
      BY <1>1, <2>1, SendsSegment
    <3>3. RequestSegment(n).type # "SegmentACK"
      BY DEF RequestSegment
    <3>4. Known(net', acked', window', served')
      BY <1>1, <3>1, <3>2, <3>3 DEF Progress, Known
    <3>. QED  BY <1>1, <3>1, <3>4 DEF Progress, Moves
  <2>2. CASE ServerTimer
    BY <1>1, <2>2, TimerMoves
  <2>3. ASSUME NEW m \in net, ClientAcked(m) \/ ClientAborted(m) \/ Lose(m)
        PROVE  Goal
    <3>1. tsm' = tsm /\ served' = served /\ net' = net \ {m}
      BY <1>1, <2>3, ClientKeeps DEF vars
    <3>. QED  BY <1>1, <2>3, <3>1, ClientMoves
  <2>4. ASSUME NEW m \in net, ServerReceives(m)
        PROVE  Goal
    BY <1>1, <2>4, ReceiveMoves
  <2>5. CASE UNCHANGED allvars
    BY <1>1, <2>5 DEF Moves, allvars, vars, cvars
  <2> HIDE DEF Goal
  <2>. QED  BY <2>1, <2>2, <2>3, <2>4, <2>5 DEF NextRequest
<1>4. RequestInv'
  BY <1>2, <1>3 DEF RequestInv, Progress, Known, Ours, Clean
<1>5. Held = HeldIn(tsm) /\ Held' = HeldIn(tsm')
  BY DEF Held, HeldIn, FindPeer, tsm_find_invokeID_index, PeerMatches
<1>6. Received = ReceivedIn(tsm, served) /\ Received' = ReceivedIn(tsm', served')
  BY <1>5 DEF Received, ReceivedIn
<1>7. /\ acked \in Nat /\ gaveUp \in BOOLEAN /\ acked' \in Nat /\ gaveUp' \in BOOLEAN
  BY <1>1, <1>2, <1>3 DEF RequestTables, Progress
<1>8. Outcome = OutcomeOf(acked, gaveUp) /\ Outcome' = OutcomeOf(acked', gaveUp')
  BY <1>7, RequestValues DEF Outcome, OutcomeOf
<1>9. Moves(Received, Outcome, Received', Outcome')
  BY <1>3, <1>6, <1>8
<1>10. [Transfer!Next]_<<Received, Outcome>>
  BY <1>9 DEF Moves, Transfer!Next, Transfer!Receive, Transfer!Forget,
              Transfer!Finish, Transfer!Fail
<1>. QED  BY <1>4, <1>10

LEMMA InitiallyRequesting == InitRequest => RequestInv /\ Transfer!Init
<1> SUFFICES ASSUME InitRequest PROVE RequestInv /\ Transfer!Init
  OBVIOUS
<1>1. /\ RequestTables /\ net = {} /\ acked = 0 /\ window = 1
      /\ gaveUp = FALSE /\ served = FALSE
  BY InitialTables DEF InitRequest
<1>2. /\ \A p \in PeerEntries : tsm.peers[p].InternalInvokeID = 0
      /\ \A i \in Slots : tsm.list[i].blob = <<>> /\ tsm.list[i].state = IDLE
  BY DEF InitRequest, Init, InitTable, ZeroSlot, tsm_invokeID_set, ZeroPeer
<1>3. Ours(tsm) /\ Clean(tsm)
  BY <1>2 DEF Ours, Clean, IDLE, SEGMENTED_REQUEST_SERVER
<1>4. Progress(tsm, net, acked, window, gaveUp, served)
  <2>1. Known(net, acked, window, served)
    BY <1>1, RequestValues DEF Known
  <2>. QED  BY <1>1, <1>3, <2>1 DEF Progress
<1>5. Held = <<>>
  <2>1. FindPeer(tsm, Client, ClientInvokeID) \notin PeerEntries
    BY <1>2, FindPeerFound DEF PeerMatches
  <2>. QED  BY <2>1 DEF Held
<1>6. Received = 0 /\ Outcome = "open"
  BY <1>1, <1>5, RequestValues DEF Received, Outcome
<1>. QED  BY <1>1, <1>4, <1>6 DEF RequestInv, Transfer!Init

(* A request in segments is a SegmentTransfer, for every number of         *)
(* segments and whatever the network loses, repeats or reorders: the       *)
(* server acknowledges the last segment only in the call that hands the    *)
(* whole request to the service handler.                                   *)
THEOREM RequestImplementsTransfer ==
    ASSUME WindowFits, ~ TimerTooLong
    PROVE  RequestSpec => ImplementsTransfer
<1>1. InitRequest => RequestInv /\ Transfer!Init
  BY InitiallyRequesting
<1>2. RequestInv /\ [NextRequest]_allvars
        => RequestInv' /\ [Transfer!Next]_<<Received, Outcome>>
  BY RequestStep
<1>. QED  BY <1>1, <1>2, PTL
          DEF RequestSpec, ImplementsTransfer, Transfer!Spec, Transfer!vars
=============================================================================
