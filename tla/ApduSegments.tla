---------------------------- MODULE ApduSegments ----------------------------
(***************************************************************************)
(* How tsm.c cuts one ComplexACK into segments: the number of segments,    *)
(* the bytes each one carries, and how much a client is willing to take.   *)
(*                                                                         *)
(* Lengths are numbers of octets.  Nothing here depends on the contents.   *)
(***************************************************************************)
EXTENDS Integers

CONSTANTS
    HeaderSegmented,        \* 5: header of a segmented ComplexACK
    HeaderUnsegmented,      \* 3: header of an unsegmented ComplexACK
    MAX_APDU,               \* config.h: largest APDU this build sends
    MAX_SEGMENTS_ACCEPTED,  \* config.h: 25
    WORD                    \* 2^32: uint32_t lengths wrap at this value

(* "No more than 64 segments" is the largest count a client can announce.  *)
CONSTANT MaxSegsSpecified   \* 64; decode_max_segs gives 65 for "more"

ASSUME SegmentSizes ==
    /\ HeaderUnsegmented \in Nat
    /\ HeaderSegmented \in Nat
    /\ HeaderUnsegmented < HeaderSegmented
    /\ MAX_APDU \in Nat
    /\ HeaderSegmented < MAX_APDU
    /\ MAX_APDU < WORD
    /\ WORD \in Nat
    /\ MAX_SEGMENTS_ACCEPTED \in Nat \ {0}
    /\ MaxSegsSpecified \in Nat

MinOf(a, b) == IF a <= b THEN a ELSE b
MaxOf(a, b) == IF a <= b THEN b ELSE a

(* A difference of two uint32_t values, each below WORD. *)
Minus32(a, b) == IF a >= b THEN a - b ELSE (a - b) + WORD

get_apdu_header_typical_size(segmented) ==
    IF segmented THEN HeaderSegmented ELSE HeaderUnsegmented

(* The number of segments that carry len octets to a peer that accepts     *)
(* APDUs of apdu_max octets; 1 means that no segmentation is needed.       *)
get_apdu_max_segments(len, apdu_max) ==
    IF get_apdu_header_typical_size(FALSE) + len <= apdu_max
    THEN 1
    ELSE (Minus32(len, 1)
            \div Minus32(apdu_max, get_apdu_header_typical_size(TRUE))) + 1

(* The largest APDU and the largest message we may send in answer to a     *)
(* request that announced max_resp, max_segs and segmented_response.       *)
bacnet_calc_apdu_max(max_resp) == MinOf(max_resp, MAX_APDU)

bacnet_calc_max_segments(max_segs) ==
    IF max_segs = 0 \/ max_segs > MaxSegsSpecified
    THEN MAX_SEGMENTS_ACCEPTED
    ELSE MinOf(max_segs, MAX_SEGMENTS_ACCEPTED)

bacnet_calc_transmittable_length(max_resp, max_segs, segmented_accepted) ==
    IF segmented_accepted
    THEN bacnet_calc_max_segments(max_segs) * bacnet_calc_apdu_max(max_resp)
    ELSE bacnet_calc_apdu_max(max_resp)

(* Mutant: the repeated headers are not counted.                           *)
TooMuchWithoutHeaders(len, apdu_max, total_max) == len > total_max

(* A segmented answer is refused when its octets and one header for each   *)
(* segment exceed what the client takes.                                   *)
TooMuchData(len, apdu_max, total_max) ==
    len + get_apdu_max_segments(len, apdu_max)
            * get_apdu_header_typical_size(TRUE) > total_max

(* Mutant: room for the short header of an unsegmented answer only.        *)
BlockWithShortHeader(apdu_max, segmented) == apdu_max - HeaderUnsegmented

(* The octets of the n-th packet: where they start and how many they are.  *)
BlockSize(apdu_max, segmented) ==
    apdu_max - get_apdu_header_typical_size(segmented)

SegmentPosition(n, apdu_max, segmented) == n * BlockSize(apdu_max, segmented)

SegmentLength(n, len, apdu_max, segmented) ==
    MaxOf(0, MinOf(len - SegmentPosition(n, apdu_max, segmented),
                   BlockSize(apdu_max, segmented)))

(* What tsm_pdu_send puts in a packet: nothing for an index out of bounds. *)
PduSendable(n, len, apdu_max) == n < get_apdu_max_segments(len, apdu_max)
MoreFollows(n, len, apdu_max) == n < get_apdu_max_segments(len, apdu_max) - 1
=============================================================================
