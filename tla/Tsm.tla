-------------------------------- MODULE Tsm ---------------------------------
(***************************************************************************)
(* The transaction state machine of the stack, with the dispatch of        *)
(* h_apdu.c that drives it.  One action is one call made by the main loop: *)
(* apdu_handler with one received APDU, tsm_timer_milliseconds, a request  *)
(* sent by the application, or the application's poll of that request.     *)
(* The loop is single threaded, so a call runs to its end before the next. *)
(* Local variables of a call are bound with \E x \in {e}: TLC evaluates e  *)
(* once.                                                                   *)
(***************************************************************************)
EXTENDS TsmTable

CONSTANTS
    Windows,        \* window sizes found in received APDUs
    MaxWindow,      \* 127: largest window size a segmented request may ask
    MaxPending,     \* bound: requests the application waits for at once
    Service         \* what the service handlers may do with a request:
                    \* len octets of answer (0: none), to a request that
                    \* announced max_resp, max_segs and accepts (segmented
                    \* response accepted); sent: the data link takes it

VARIABLES
    tsm,             \* TSM_List, TSM_Peer_Ids and Current_Invoke_ID
    Duplicate_Count, \* the counter tsm.c shares between all transactions
    nullbuf,         \* what was last stored through a null apdu pointer
    pending,         \* requests the application polls: <<dest, invoke ID>>
    refused,         \* of these, the ones answered with an Error or Abort
    asked,           \* requests we put on the wire: <<dest, invoke ID>>
    out              \* what the last call sent or indicated, in order

ASSUME WindowSizes == Windows \subseteq Bytes /\ MaxWindow \in Nat
ASSUME PendingBound == MaxPending \in Nat
ASSUME ServiceType ==
    Service \subseteq [len : Nat, max_resp : Nat, max_segs : Nat,
                      accepts : BOOLEAN, sent : BOOLEAN]

(* decode_max_apdu gives 0 or at least 50: no peer announces APDUs of just *)
(* a header, for which get_apdu_max_segments would divide by zero.         *)
ASSUME AnswerSizes ==
    \A sv \in Service : bacnet_calc_apdu_max(sv.max_resp) # HeaderSegmented

vars == <<tsm, Duplicate_Count, nullbuf, pending, refused, asked, out>>

(* What a call may send or indicate.                                       *)
Abort(dest, id, reason) ==
    [type |-> "Abort", dest |-> dest, id |-> id, reason |-> reason]
SegmentACK(dest, id, nak, seq, window) ==
    [type |-> "SegmentACK", dest |-> dest, id |-> id, nak |-> nak,
     seq |-> seq, window |-> window]
Segment(slot, n) ==
    [type |-> "Segment", dest |-> slot.dest, id |-> slot.apdu.id,
     seq |-> n % SEQ, more |-> MoreFollows(n, slot.apdu.len, slot.apdu.max)]
ComplexACK(dest, id, len) ==
    [type |-> "ComplexACK", dest |-> dest, id |-> id, len |-> len]
Request(dest, id) == [type |-> "Request", dest |-> dest, id |-> id]
Indication(src, id, data) ==
    [type |-> "Indication", dest |-> src, id |-> id, data |-> data]
Answered(src, id, answer) ==
    [type |-> "Answered", dest |-> src, id |-> id, answer |-> answer]

(* A call leaves a table and emits a sequence of PDUs and indications.     *)
Result(t, pdus) == [t |-> t, out |-> pdus]

Init ==
    /\ \E id \in AnyInvokeID : tsm = tsm_invokeID_set(InitTable, id)
    /\ Duplicate_Count = 0
    /\ nullbuf = NULL
    /\ pending = {}
    /\ refused = {}
    /\ asked = {}
    /\ out = <<>>

-----------------------------------------------------------------------------
(* Sending a ComplexACK, in segments when it does not fit.                 *)

TotalSegments(slot) == get_apdu_max_segments(slot.apdu.len, slot.apdu.max)

(* Segments n, n + 1, ... until the window is full or all have been sent.  *)
FillWindow(slot, n) ==
    LET count == MaxOf(0, MinOf(slot.ActualWindowSize, TotalSegments(slot) - n))
    IN [k \in 1 .. count |-> Segment(slot, n + k - 1)]

(* The answer sv.len to a request that announced sv.max_resp and so on.    *)
tsm_set_complexack_transaction(t, dest, id, sv) ==
    LET g == tsm_get_peer_id(t, dest, id)
        i == tsm_find_invokeID_index(g.t, g.id)
        apdu_max == bacnet_calc_apdu_max(sv.max_resp)
        total_max == bacnet_calc_transmittable_length(
                        sv.max_resp, sv.max_segs, sv.accepts)
        segments == get_apdu_max_segments(sv.len, apdu_max)
        slot == [g.t.list[i] EXCEPT
                    !.apdu = [len |-> sv.len, max |-> apdu_max, id |-> id],
                    !.dest = dest, !.RetryCount = Retries,
                    !.ActualWindowSize = 1, !.InitialSequenceNumber = 0]
        started == [slot EXCEPT
                    !.state = SEGMENTED_RESPONSE_SERVER,
                    !.SegmentRetryCount = Retries,
                    !.RequestTimer = 0, !.SegmentTimer = SegTimeout]
        freed == tsm_free_invoke_id_check(SetSlot(g.t, i, slot), g.id, dest)
    IN CASE g.id = 0 ->
              Result(g.t, <<Abort(dest, id, "PREEMPTED")>>)
         [] g.id # 0 /\ i \notin Slots ->
              Result(g.t, <<Abort(dest, id, "OTHER")>>)
         [] g.id # 0 /\ i \in Slots /\ segments = 1 ->
              Result(freed, IF sv.sent
                  THEN <<ComplexACK(dest, id,
                             SegmentLength(0, sv.len, apdu_max, FALSE))>>
                  ELSE <<>>)
         [] /\ g.id # 0 /\ i \in Slots /\ segments # 1
            /\ TooMuchData(sv.len, apdu_max, total_max) ->
              Result(freed, <<Abort(dest, id, "BUFFER_OVERFLOW")>>)
         [] OTHER ->
              IF sv.sent
              THEN Result(SetSlot(g.t, i, started), <<Segment(started, 0)>>)
              ELSE Result(freed, <<>>)

(* The service handlers that answer with data (h_rp.c, h_rpm.c).  A len of *)
(* 0 stands for every handler that leaves the tables alone, and for a      *)
(* request that DeviceCommunicationControl makes the stack ignore.         *)
invoke_confirmed_service(t, src, id, sv) ==
    CASE sv.len = 0 -> Result(t, <<>>)
      [] /\ sv.len # 0
         /\ HeaderUnsegmented + sv.len <= bacnet_calc_apdu_max(sv.max_resp) ->
           Result(t, <<ComplexACK(src, id, sv.len)>>)
      [] /\ sv.len # 0
         /\ HeaderUnsegmented + sv.len > bacnet_calc_apdu_max(sv.max_resp)
         /\ ~ sv.accepts ->
           Result(t, <<Abort(src, id, "SEGMENTATION_NOT_SUPPORTED")>>)
      [] OTHER -> tsm_set_complexack_transaction(t, src, id, sv)

-----------------------------------------------------------------------------
(* Receiving the segments of a request.                                    *)

(* Four segment timeouts, in a uint16_t.                                   *)
RequestSegmentTimer == (SegTimeout * 4) % TIMER

DuplicateInWindow(window, seqA, first, last) ==
    LET received == (last - first) % SEQ
    IN /\ received <= window
       /\ \/ (seqA - first) % SEQ <= received
          \/ received = 0 /\ (first - seqA) % SEQ <= window

(* Slot i of table t is IDLE: this must be the first segment.              *)
FirstSegment(t, i, src, id, seq, window) ==
    LET slot == [t.list[i] EXCEPT
                    !.state = SEGMENTED_REQUEST_SERVER,
                    !.ActualWindowSize = window,
                    !.InitialSequenceNumber = 0, !.LastSequenceNumber = 0,
                    !.RetryCount = 0, !.SegmentRetryCount = 0,
                    !.ReceivedSegmentsCount = 1, !.RequestTimer = 0,
                    !.SegmentTimer = RequestSegmentTimer, !.blob = <<>>]
    IN /\ UNCHANGED Duplicate_Count
       /\ \/ /\ seq = 0 /\ (window = 0 \/ window > MaxWindow)
             /\ tsm' = SetSlot(t, i, [slot EXCEPT !.state = IDLE])
             /\ out' = <<Abort(src, id, "WINDOW_SIZE_OUT_OF_RANGE")>>
          \/ /\ seq # 0
             /\ tsm' = tsm_free_invoke_id_check(SetSlot(t, i, free_blob(slot)),
                                                slot.InvokeID, NoAddress)
             /\ out' = <<Abort(src, id, "INVALID_APDU_IN_THIS_STATE")>>
          \/ /\ seq = 0 /\ window # 0 /\ window <= MaxWindow
             /\ tsm' = SetSlot(t, i,
                         [slot EXCEPT !.blob = <<Payload(src, id, seq)>>])
             /\ out' = <<SegmentACK(src, id, FALSE, 0, window)>>

(* Any later segment restarts the timer.  When four segment timeouts are   *)
(* longer than the APDU timeout the code also aborts and marks the slot    *)
(* IDLE, and then goes on to treat the segment as usual.                   *)
TimerTooLong == RequestSegmentTimer > ApduTimeout

Restarted(slot) ==
    [slot EXCEPT !.RequestTimer = 0, !.SegmentTimer = RequestSegmentTimer,
                 !.state = IF TimerTooLong THEN IDLE ELSE @]

EarlyAbort(src, id) ==
    IF TimerTooLong
    THEN <<Abort(src, id, "APPLICATION_EXCEEDED_REPLY_TIME")>>
    ELSE <<>>

(* Mutant: a duplicate counts as a received segment.                       *)
DuplicateCounted(t, i, src, id) ==
    /\ tsm' = SetSlot(t, i, [Restarted(t.list[i]) EXCEPT
                               !.ReceivedSegmentsCount = @ + 1])
    /\ out' = EarlyAbort(src, id)
    /\ UNCHANGED Duplicate_Count

(* A segment received before: counted in Duplicate_Count, which all        *)
(* transactions share.                                                     *)
DuplicateSegment(t, i, src, id) ==
    LET slot == Restarted(t.list[i])
    IN \/ /\ Duplicate_Count < slot.ActualWindowSize
          /\ tsm' = SetSlot(t, i, [slot EXCEPT !.SegmentTimer = SegTimeout])
          /\ Duplicate_Count' = Duplicate_Count + 1
          /\ out' = EarlyAbort(src, id)
       \/ /\ Duplicate_Count = slot.ActualWindowSize
          /\ tsm' = SetSlot(t, i, [slot EXCEPT
                        !.SegmentTimer = SegTimeout,
                        !.InitialSequenceNumber = slot.LastSequenceNumber])
          /\ Duplicate_Count' = 0
          /\ out' = Append(EarlyAbort(src, id),
                           SegmentACK(src, id, TRUE, slot.LastSequenceNumber,
                                      slot.ActualWindowSize))
       \/ /\ Duplicate_Count > slot.ActualWindowSize
          /\ tsm' = SetSlot(t, i, slot)
          /\ UNCHANGED Duplicate_Count
          /\ out' = EarlyAbort(src, id)

(* Mutant: the end of the window is acknowledged, not the last received.   *)
OutOfOrderAcksWindow(t, i, src, id) ==
    LET slot == Restarted(t.list[i])
    IN /\ tsm' = SetSlot(t, i, slot)
       /\ Duplicate_Count' = 0
       /\ out' = <<SegmentACK(src, id, TRUE,
                              (slot.LastSequenceNumber + slot.ActualWindowSize) % SEQ,
                              slot.ActualWindowSize)>>

OutOfOrderSegment(t, i, src, id) ==
    LET slot == Restarted(t.list[i])
    IN /\ tsm' = SetSlot(t, i, slot)
       /\ Duplicate_Count' = 0
       /\ out' = Append(EarlyAbort(src, id),
                        SegmentACK(src, id, TRUE, slot.LastSequenceNumber,
                                   slot.ActualWindowSize))

TooManySegments(t, i, src, id) ==
    /\ tsm' = tsm_free_invoke_id_check(SetSlot(t, i, Restarted(t.list[i])),
                                       t.list[i].InvokeID, NoAddress)
    /\ UNCHANGED Duplicate_Count
    /\ out' = Append(EarlyAbort(src, id), Abort(src, id, "BUFFER_OVERFLOW"))

(* The next segment in order.  After the last one the peer entry is        *)
(* cleared, the service handler runs on the reassembled data and the slot  *)
(* of the request is freed, all in the same call.                          *)
NewSegment(t, i, src, id, seq, more, sv) ==
    LET old == t.list[i]
        last == seq = (old.InitialSequenceNumber + old.ActualWindowSize) % SEQ
        slot == [Restarted(old) EXCEPT
                    !.ReceivedSegmentsCount = @ + 1,
                    !.LastSequenceNumber = seq,
                    !.blob = Append(@, Payload(src, id, seq)),
                    !.InitialSequenceNumber = IF last THEN seq ELSE @]
        stored == SetSlot(t, i, slot)
        ack == IF last \/ ~ more
               THEN <<SegmentACK(src, id, FALSE, seq, slot.ActualWindowSize)>>
               ELSE <<>>
        service == invoke_confirmed_service(
                     tsm_clear_peer_id(stored, slot.InvokeID), src, id, sv)
    IN /\ UNCHANGED Duplicate_Count
       /\ \/ /\ more
             /\ tsm' = stored
             /\ out' = EarlyAbort(src, id) \o ack
          \/ /\ ~ more
             /\ tsm' = tsm_free_invoke_id_check(service.t, slot.InvokeID,
                                                NoAddress)
             /\ out' = EarlyAbort(src, id) \o ack
                         \o <<Indication(src, id, slot.blob)>> \o service.out

(* Mutant: any segment that is no duplicate is taken for the next one.     *)
AnyLaterSegment(t, i, src, id, seq, more, sv) ==
    /\ t.list[i].ReceivedSegmentsCount < MAX_SEGMENTS_ACCEPTED
    /\ ~ DuplicateInWindow(t.list[i].ActualWindowSize, seq,
                           t.list[i].InitialSequenceNumber,
                           t.list[i].LastSequenceNumber)
    /\ NewSegment(t, i, src, id, seq, more, sv)

LaterSegment(t, i, src, id, seq, more, sv) ==
    LET slot == t.list[i]
        expected == (slot.LastSequenceNumber + 1) % SEQ
        duplicate == DuplicateInWindow(slot.ActualWindowSize, seq,
                        slot.InitialSequenceNumber, slot.LastSequenceNumber)
    IN \/ /\ seq # expected /\ duplicate
          /\ DuplicateSegment(t, i, src, id)
       \/ /\ seq # expected /\ ~ duplicate
          /\ OutOfOrderSegment(t, i, src, id)
       \/ /\ seq = expected
          /\ slot.ReceivedSegmentsCount + 1 > MAX_SEGMENTS_ACCEPTED
          /\ TooManySegments(t, i, src, id)
       \/ /\ seq = expected
          /\ slot.ReceivedSegmentsCount + 1 <= MAX_SEGMENTS_ACCEPTED
          /\ NewSegment(t, i, src, id, seq, more, sv)

(* A Confirmed-Request APDU with the segmented bit.                        *)
apdu_handler_confirmed_service_segment(src, id, seq, more, window, sv) ==
    \E g \in {tsm_get_peer_id(tsm, src, id)} :
    \E i \in {tsm_find_invokeID_index(g.t, g.id)} :
       /\ UNCHANGED <<nullbuf, pending, refused, asked>>
       /\ \/ /\ g.id = 0
             /\ tsm' = g.t
             /\ out' = <<Abort(src, id, "PREEMPTED")>>
             /\ UNCHANGED Duplicate_Count
          \/ /\ g.id # 0 /\ i \notin Slots
             /\ tsm' = g.t
             /\ out' = <<Abort(src, id, "OTHER")>>
             /\ UNCHANGED Duplicate_Count
          \/ /\ g.id # 0 /\ i \in Slots
             /\ g.t.list[i].state = IDLE
             /\ FirstSegment(g.t, i, src, id, seq, window)
          \/ /\ g.id # 0 /\ i \in Slots
             /\ g.t.list[i].state = SEGMENTED_REQUEST_SERVER
             /\ LaterSegment(g.t, i, src, id, seq, more, sv)
          \/ /\ g.id # 0 /\ i \in Slots
             /\ g.t.list[i].state \notin {IDLE, SEGMENTED_REQUEST_SERVER}
             /\ tsm' = g.t
             /\ out' = <<>>
             /\ UNCHANGED Duplicate_Count

(* A Confirmed-Request APDU in one piece.  It is unexpected while a        *)
(* segmented exchange with the same peer and invoke ID is under way.       *)
apdu_handler_confirmed_service(src, id, sv) ==
    LET p == FindPeer(tsm, src, id)
        i == IF p \in PeerEntries
             THEN tsm_find_invokeID_index(tsm, tsm.peers[p].InternalInvokeID)
             ELSE MAX_TSM_TRANSACTIONS
        unexpected == /\ i \in Slots
                      /\ tsm.list[i].state \in {SEGMENTED_RESPONSE_SERVER,
                                                SEGMENTED_REQUEST_SERVER}
        service == invoke_confirmed_service(tsm, src, id, sv)
    IN /\ UNCHANGED <<Duplicate_Count, nullbuf, pending, refused, asked>>
       /\ \/ /\ unexpected
             /\ tsm' = tsm_free_invoke_id_check(tsm, tsm.list[i].InvokeID, src)
             /\ out' = <<Abort(src, id, "INVALID_APDU_IN_THIS_STATE")>>
          \/ /\ ~ unexpected
             /\ tsm' = service.t
             /\ out' = <<Indication(src, id, <<>>)>> \o service.out

-----------------------------------------------------------------------------
(* A SegmentACK APDU.  server is the bit that says that the sender acts as *)
(* the server: then the invoke ID is one of ours, otherwise the peer's.    *)

(* Mutant: every acknowledgement is taken for a new one.                   *)
AlwaysInWindow(slot, seqA, seqB) == TRUE

InWindow(slot, seqA, seqB) == (seqA - seqB) % SEQ < slot.ActualWindowSize

(* Mutant: the segment after the next one.                                 *)
NextButOne(slot, seq) ==
    slot.InitialSequenceNumber + ((seq - slot.InitialSequenceNumber) % SEQ) + 2

(* The segment after the acknowledged one, counted from the first (the     *)
(* code's big_segment_number + 1).                                         *)
NextToSend(slot, seq) ==
    slot.InitialSequenceNumber + ((seq - slot.InitialSequenceNumber) % SEQ) + 1

(* Mutant: off by one, the last segment is not seen as the last.           *)
AckedButGoesOn(i, seq, window) ==
    LET slot == tsm.list[i]
        next == NextToSend(slot, seq)
    IN \/ /\ next <= TotalSegments(slot)
          /\ tsm' = SetSlot(tsm, i, [slot EXCEPT
                        !.InitialSequenceNumber = next % SEQ,
                        !.ActualWindowSize = window])
          /\ out' = FillWindow(slot, next)
       \/ /\ next > TotalSegments(slot)
          /\ out' = <<>>
          /\ UNCHANGED tsm

ResponseAcked(i, seq, window) ==
    LET slot == tsm.list[i]
        next == NextToSend(slot, seq)
        slid == [slot EXCEPT
                    !.InitialSequenceNumber = next % SEQ,
                    !.ActualWindowSize = window,
                    !.SegmentRetryCount = Retries,
                    !.SegmentTimer = SegTimeout]
    IN \/ /\ ~ InWindow(slot, seq, slot.InitialSequenceNumber)
          /\ tsm' = SetSlot(tsm, i, [slot EXCEPT !.SegmentTimer = SegTimeout])
          /\ out' = <<>>
       \/ /\ InWindow(slot, seq, slot.InitialSequenceNumber)
          /\ next < TotalSegments(slot)
          /\ tsm' = SetSlot(tsm, i, slid)
          /\ out' = FillWindow(slid, slid.InitialSequenceNumber)
       \/ /\ InWindow(slot, seq, slot.InitialSequenceNumber)
          /\ next >= TotalSegments(slot)
          /\ tsm' = tsm_free_invoke_id_check(
                      SetSlot(tsm, i, [slot EXCEPT !.SegmentTimer = 0]),
                      slot.InvokeID, NoAddress)
          /\ out' = <<>>

tsm_segmentack_received(src, id, seq, window, server) ==
    \E p \in {FindPeer(tsm, src, id)} :
    \E internal \in {IF server THEN id
                     ELSE IF p \in PeerEntries THEN tsm.peers[p].InternalInvokeID
                     ELSE 0} :
    \E i \in {IF internal # 0 THEN tsm_find_invokeID_index(tsm, internal)
              ELSE MAX_TSM_TRANSACTIONS} :
       /\ UNCHANGED <<Duplicate_Count, nullbuf, pending, refused, asked>>
       /\ \/ /\ i \notin Slots
             /\ out' = <<>>
             /\ UNCHANGED tsm
          \/ /\ i \in Slots /\ ~ server
             /\ tsm.list[i].state = SEGMENTED_RESPONSE_SERVER
             /\ ResponseAcked(i, seq, window)
          \/ /\ i \in Slots
             /\ server \/ tsm.list[i].state # SEGMENTED_RESPONSE_SERVER
             /\ tsm' = tsm_free_invoke_id_check(tsm, internal, NoAddress)
             /\ out' = <<Abort(src, internal, "INVALID_APDU_IN_THIS_STATE")>>

-----------------------------------------------------------------------------
(* Requests of our own: Send_..._Request and the application that polls.   *)

(* tsm_set_confirmed_unsegmented_transaction stores the APDU through the   *)
(* slot's pointer, which only tsm_set_complexack_transaction ever points   *)
(* at a buffer.  With a null pointer the octets land at address 0, which   *)
(* all such slots share; where that access traps, the program stops there, *)
(* which is a behaviour that takes no further step.                        *)
ClientApdu(id) == [len |-> 1, max |-> 0, id |-> id]

SendRequest(dest, fits) ==
    LET r == tsm_next_free_invokeID(tsm)
        i == tsm_find_invokeID_index(r.t, r.id)
        slot == [r.t.list[i] EXCEPT
                    !.state = AWAIT_CONFIRMATION, !.RetryCount = 0,
                    !.RequestTimer = ApduTimeout, !.dest = dest,
                    !.apdu = IF @ = NULL THEN NULL ELSE ClientApdu(r.id)]
    IN /\ Cardinality(pending) < MaxPending
       /\ r.id # 0
       /\ UNCHANGED <<Duplicate_Count, refused>>
       /\ \/ /\ fits
             /\ tsm' = SetSlot(r.t, i, slot)
             /\ nullbuf' = IF slot.apdu = NULL THEN ClientApdu(r.id) ELSE nullbuf
             /\ pending' = pending \cup {<<dest, r.id>>}
             /\ asked' = asked \cup {<<dest, r.id>>}
             /\ out' = <<Request(dest, r.id)>>
          \/ /\ ~ fits
             /\ tsm' = tsm_free_invoke_id(r.t, r.id)
             /\ out' = <<>>
             /\ UNCHANGED <<nullbuf, pending, asked>>

tsm_invoke_id_free(id) == ~ Uses(tsm, id)

tsm_invoke_id_failed(id) ==
    LET i == tsm_find_invokeID_index(tsm, id)
    IN i \in Slots /\ tsm.list[i].state = IDLE

(* The application stops waiting: the request was refused, or answered, or *)
(* it failed.  A slot that was refused is not freed.                       *)
Poll(request) ==
    LET id == request[2]
    IN /\ \/ /\ request \in refused
             /\ UNCHANGED tsm
          \/ /\ request \notin refused /\ tsm_invoke_id_free(id)
             /\ UNCHANGED tsm
          \/ /\ request \notin refused /\ tsm_invoke_id_failed(id)
             /\ tsm' = tsm_free_invoke_id(tsm, id)
       /\ pending' = pending \ {request}
       /\ refused' = refused \ {request}
       /\ out' = <<>>
       /\ UNCHANGED <<Duplicate_Count, nullbuf, asked>>

(* SimpleACK and ComplexACK: the application's handler is called and the   *)
(* slot of that invoke ID is freed, whoever the sender is.                 *)
AckReceived(src, id) ==
    /\ tsm' = tsm_free_invoke_id(tsm, id)
    /\ out' = <<Answered(src, id, "ACK")>>
    /\ UNCHANGED <<Duplicate_Count, nullbuf, pending, refused, asked>>

(* Error, Reject and Abort: the application's handler is called and the    *)
(* exchange that (src, id) names in the peer table ends.  An Abort from a  *)
(* server is sent back instead of being handed to the application.         *)
ErrorReceived(src, id) ==
    /\ tsm' = tsm_free_invoke_id_segmentation(tsm, src, id)
    /\ refused' = refused \cup ({<<src, id>>} \cap pending)
    /\ out' = <<Answered(src, id, "ERROR")>>
    /\ UNCHANGED <<Duplicate_Count, nullbuf, pending, asked>>

AbortReceived(src, id, server) ==
    /\ tsm' = tsm_free_invoke_id_segmentation(tsm, src, id)
    /\ refused' = IF server THEN refused ELSE refused \cup ({<<src, id>>} \cap pending)
    /\ out' = IF server THEN <<Abort(src, id, "AS_RECEIVED")>>
                        ELSE <<Answered(src, id, "ABORT")>>
    /\ UNCHANGED <<Duplicate_Count, nullbuf, pending, asked>>

-----------------------------------------------------------------------------
(* tsm_timer_milliseconds: one tick for every slot.                        *)

(* Mutant: a timer at 1 is left alone.                                     *)
NeverElapsed(timer) == IF timer > 1 THEN timer - 1 ELSE timer

Elapsed(timer) == IF timer > 1 THEN timer - 1 ELSE 0

(* Mutant: a resent window does not cost a retry.                          *)
RetriesKept(slot) == slot.SegmentRetryCount

(* SegmentRetryCount--, in a uint8_t.                                      *)
RetriesLeft(slot) == (slot.SegmentRetryCount - 1) % BYTE

Expires(slot) ==
    \/ slot.state = AWAIT_CONFIRMATION /\ Elapsed(slot.RequestTimer) = 0
    \/ /\ slot.state \in {SEGMENTED_RESPONSE_SERVER, SEGMENTED_REQUEST_SERVER}
       /\ Elapsed(slot.SegmentTimer) = 0

Ticked(slot) ==
    CASE slot.state = AWAIT_CONFIRMATION /\ ~ Expires(slot) ->
           [slot EXCEPT !.RequestTimer = Elapsed(@)]
      [] slot.state = AWAIT_CONFIRMATION /\ Expires(slot) ->
           IF slot.RetryCount < Retries
           THEN [slot EXCEPT !.RequestTimer = ApduTimeout, !.RetryCount = @ + 1]
           ELSE [slot EXCEPT !.RequestTimer = 0, !.state = IDLE]
      [] slot.state = SEGMENTED_RESPONSE_SERVER /\ Expires(slot) ->
           [slot EXCEPT !.SegmentRetryCount = RetriesLeft(slot),
                        !.SegmentTimer = SegTimeout,
                        !.state = IF RetriesLeft(slot) = 0 THEN IDLE ELSE @]
      [] slot.state = SEGMENTED_REQUEST_SERVER /\ Expires(slot) ->
           free_blob(FreeSlot(slot))
      [] /\ slot.state \in {SEGMENTED_RESPONSE_SERVER, SEGMENTED_REQUEST_SERVER}
         /\ ~ Expires(slot) ->
           [slot EXCEPT !.SegmentTimer = Elapsed(@)]
      [] OTHER -> slot

(* What a slot sends when its timer expires.                               *)
Resent(slot) ==
    CASE /\ slot.state = AWAIT_CONFIRMATION /\ Expires(slot)
         /\ slot.RetryCount < Retries ->
           LET apdu == IF slot.apdu = NULL THEN nullbuf ELSE slot.apdu
           IN <<Request(slot.dest, apdu.id)>>
      [] /\ slot.state = SEGMENTED_RESPONSE_SERVER /\ Expires(slot)
         /\ Ticked(slot).state = SEGMENTED_RESPONSE_SERVER ->
           FillWindow(slot, slot.InitialSequenceNumber)
      [] OTHER -> <<>>

(* The peer entries of the requests whose segments stopped coming.         *)
ForgottenPeer(entry) ==
    \E i \in Slots :
        /\ tsm.list[i].state = SEGMENTED_REQUEST_SERVER
        /\ Expires(tsm.list[i])
        /\ tsm.list[i].InvokeID = entry.InternalInvokeID

(* What slots 0 to i send, in the order of the loop.                       *)
resent[i \in Slots] ==
    IF i = 0 THEN Resent(tsm.list[0]) ELSE resent[i - 1] \o Resent(tsm.list[i])

tsm_timer_milliseconds ==
    /\ tsm' = [tsm EXCEPT
                 !.list = [i \in Slots |-> Ticked(tsm.list[i])],
                 !.peers = [p \in PeerEntries |->
                     IF ForgottenPeer(tsm.peers[p])
                     THEN ZeroPeer
                     ELSE tsm.peers[p]]]
    /\ out' = resent[MAX_TSM_TRANSACTIONS - 1]
    /\ UNCHANGED <<Duplicate_Count, nullbuf, pending, refused, asked>>

-----------------------------------------------------------------------------
(* What the other devices may send.  Only the first segment's window size  *)
(* and only the last segment's service request are looked at.              *)

SegmentArrives ==
    \E src \in Address, id \in PeerInvokeID :
        \/ \E window \in Windows, sv \in Service :
              /\ sv.len = 0
              /\ apdu_handler_confirmed_service_segment(
                    src, id, 0, TRUE, window, sv)
        \/ \E seq \in SeqNumbers \ {0}, sv \in Service, more \in BOOLEAN :
              /\ more => sv.len = 0
              /\ apdu_handler_confirmed_service_segment(
                    src, id, seq, more, 1, sv)

RequestArrives ==
    \E src \in Address, id \in PeerInvokeID, sv \in Service :
        apdu_handler_confirmed_service(src, id, sv)

SegmentACKArrives ==
    \E src \in Address, id \in PeerInvokeID, seq \in SeqNumbers,
       window \in Windows, server \in BOOLEAN :
        tsm_segmentack_received(src, id, seq, window, server)

(* A client aborts its own exchange.                                       *)
ClientAbortArrives ==
    \E src \in Address, id \in PeerInvokeID : AbortReceived(src, id, FALSE)

(* Answers to our requests, possibly late or repeated.                     *)
AnswerArrives ==
    \E a \in asked :
        \/ AckReceived(a[1], a[2])
        \/ ErrorReceived(a[1], a[2])
        \/ AbortReceived(a[1], a[2], TRUE)

ServerNext ==
    \/ SegmentArrives
    \/ RequestArrives
    \/ SegmentACKArrives
    \/ ClientAbortArrives
    \/ tsm_timer_milliseconds

ClientNext ==
    \/ \E dest \in Address, fits \in BOOLEAN : SendRequest(dest, fits)
    \/ \E request \in pending : Poll(request)
    \/ AnswerArrives

(* A device that only answers requests, and one that also sends them.      *)
ServerSpec == Init /\ [][ServerNext]_vars /\ WF_vars(tsm_timer_milliseconds)
Next == ServerNext \/ ClientNext
Spec == Init /\ [][Next]_vars /\ WF_vars(tsm_timer_milliseconds)

-----------------------------------------------------------------------------
(* Properties.                                                             *)

(* Every field keeps the width it has in tsm.h and Current_Invoke_ID is    *)
(* never the reserved 0.                                                   *)
TypeOK ==
    /\ tsm \in TableType
    /\ Duplicate_Count \in Bytes
    /\ nullbuf \in ApduType
    /\ refused \subseteq pending
    /\ pending \subseteq asked
    /\ asked \subseteq Address \X InvokeIDs

(* tsm_next_free_invokeID never hands out an ID that is in use: no two     *)
(* slots in use have the same invoke ID.                                   *)
UniqueInvokeIDs == UniqueIDs(tsm)

(* The branches that tsm.c marks "shall not fail": the internal invoke ID  *)
(* of a peer entry in use belongs to a slot, and to one that talks to the  *)
(* same device.                                                            *)
PeerEntriesBound == EntriesBound(tsm)

(* Two exchanges never share a slot, and one exchange never has two: the   *)
(* peer table is one-to-one in both directions.                            *)
PeerEntriesDistinct == EntriesDistinct(tsm)

(* Every slot in use can be reached through the peer table (a device that  *)
(* sends no requests of its own): no call leaves a slot that nothing will  *)
(* ever find and free.                                                     *)
NoOrphanSlot == SlotsOwned(tsm)

(* The data a service handler is given is the data of consecutive segments *)
(* from the first one on, all of the same peer and invoke ID.              *)
ReassembledInOrder ==
    \A k \in DOMAIN out :
        out[k].type = "Indication" =>
            \A n \in DOMAIN out[k].data :
                out[k].data[n] = Payload(out[k].dest, out[k].id, (n - 1) % SEQ)

(* While segments are received, the last sequence number, the count that   *)
(* limits memory and the stored data agree, and the current window still   *)
(* has a segment to come, so that its acknowledgement is never skipped.    *)
ReassemblyConsistent ==
    \A i \in Slots :
        LET s == tsm.list[i]
        IN s.state = SEGMENTED_REQUEST_SERVER =>
            /\ s.ReceivedSegmentsCount = Len(s.blob)
            /\ Len(s.blob) \in 1 .. MAX_SEGMENTS_ACCEPTED
            /\ s.LastSequenceNumber = (Len(s.blob) - 1) % SEQ
            /\ (s.LastSequenceNumber - s.InitialSequenceNumber) % SEQ
                  < s.ActualWindowSize

(* A response under way has something left to send, in few enough segments *)
(* for the sequence numbers not to wrap.                                   *)
ResponseInProgress ==
    \A i \in Slots :
        LET s == tsm.list[i]
        IN s.state = SEGMENTED_RESPONSE_SERVER =>
            /\ s.apdu # NULL
            /\ s.InitialSequenceNumber < TotalSegments(s)
            /\ TotalSegments(s) \in 2 .. MAX_SEGMENTS_ACCEPTED

(* "the unique id to use within our internal states" (tsm.h): no PDU that  *)
(* answers a peer carries anything but an invoke ID the peer chose.        *)
InternalIDsStayInternal ==
    \A k \in DOMAIN out :
        out[k].type \in {"Abort", "SegmentACK", "Segment", "ComplexACK"}
            => out[k].id \in PeerInvokeID

(* "We never stay in IDLE state" (tsm.c): a slot that serves a peer is     *)
(* IDLE only within a call.                                                *)
NeverStayIdle ==
    \A i \in Slots : tsm.list[i].InvokeID # 0 => tsm.list[i].state # IDLE

(* A request that the same call aborted is not carried out: "If            *)
(* SegmentTimer becomes greater than Tseg times four, [...] enter IDLE     *)
(* state" (tsm.c), where the call sends the Abort and goes on.             *)
AbortedIsNotServed ==
    \A j, k \in DOMAIN out :
        out[j].type = "Abort" /\ out[k].type = "Indication" => k < j

(* "free the invoke ID when the reply comes back" (tsm.h): once the        *)
(* application has been told of an answer, no slot still waits for it.     *)
AnswerEndsTransaction ==
    \A k \in DOMAIN out :
        out[k].type = "Answered" =>
            ~ \E i \in Slots :
                /\ tsm.list[i].state = AWAIT_CONFIRMATION
                /\ tsm.list[i].InvokeID = out[k].id
                /\ tsm.list[i].dest = out[k].dest

(* "copy of the APDU, should we need to send it again" (tsm.h): a slot     *)
(* that waits for a confirmation holds the request it may have to repeat.  *)
KeepsTheCopy ==
    \A i \in Slots :
        tsm.list[i].state = AWAIT_CONFIRMATION =>
            tsm.list[i].apdu = ClientApdu(tsm.list[i].InvokeID)

(* Liveness: once the peers and the application are silent, every          *)
(* exchange ends; retries and timeouts do not go on for ever.              *)
SilenceEndsExchanges ==
    <>[][tsm_timer_milliseconds]_vars
        => <>[](\A i \in Slots : tsm.list[i].state = IDLE)
=============================================================================
