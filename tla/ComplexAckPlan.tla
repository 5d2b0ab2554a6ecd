--------------------------- MODULE ComplexAckPlan ---------------------------
(***************************************************************************)
(* How one answer travels: tsm_set_complexack_transaction decides how to   *)
(* send it and tsm_pdu_send cuts it, packet after packet.  The arithmetic  *)
(* is that of ApduSegments; losses are the subject of SegmentedResponse.   *)
(***************************************************************************)
EXTENDS ApduSegments

CONSTANTS
    Lengths,        \* octets of service data
    MaxResponses,   \* what decode_max_apdu gives for the client's request
    MaxSegs         \* what decode_max_segs gives for it

VARIABLES
    answer,         \* the length of the answer and the client's limits
    verdict,        \* how it is sent
    next,           \* index of the next packet
    carried         \* octets in the packets sent so far

(* An answer is not empty and leaves room for its headers in a uint32_t.   *)
(* decode_max_apdu gives 0 or at least 50: no client announces APDUs of    *)
(* just a header, for which get_apdu_max_segments would divide by zero.    *)
ASSUME PlanConstants ==
    /\ Lengths \subseteq 1 .. WORD - HeaderSegmented
    /\ MaxResponses \subseteq Nat /\ MaxSegs \subseteq Nat
    /\ \A max_resp \in MaxResponses :
         bacnet_calc_apdu_max(max_resp) # HeaderSegmented

planVars == <<answer, verdict, next, carried>>

ApduMax == bacnet_calc_apdu_max(answer.max_resp)
TotalMax == bacnet_calc_transmittable_length(answer.max_resp, answer.max_segs, TRUE)
Packets == get_apdu_max_segments(answer.len, ApduMax)

InitPlan ==
    /\ answer \in [len : Lengths, max_resp : MaxResponses, max_segs : MaxSegs]
    /\ verdict = "undecided"
    /\ next = 0
    /\ carried = 0

(* An answer that fits is not handed to the TSM at all (h_rp.c).           *)
Decide ==
    /\ verdict = "undecided"
    /\ verdict' =
         CASE HeaderUnsegmented + answer.len <= ApduMax -> "direct"
           [] HeaderUnsegmented + answer.len > ApduMax /\ Packets = 1 ->
                "unsegmented"
           [] /\ HeaderUnsegmented + answer.len > ApduMax /\ Packets # 1
              /\ TooMuchData(answer.len, ApduMax, TotalMax) -> "abort"
           [] OTHER -> "segmented"
    /\ carried' = IF verdict' = "direct" THEN answer.len ELSE 0
    /\ UNCHANGED <<answer, next>>

tsm_pdu_send ==
    /\ verdict \in {"unsegmented", "segmented"}
    /\ PduSendable(next, answer.len, ApduMax)
    /\ carried' = carried
         + SegmentLength(next, answer.len, ApduMax, verdict = "segmented")
    /\ next' = next + 1
    /\ UNCHANGED <<answer, verdict>>

NextPlan == Decide \/ tsm_pdu_send

PlanSpec == InitPlan /\ [][NextPlan]_planVars

-----------------------------------------------------------------------------
(* The packets tile the answer: each starts where the one before ended,    *)
(* only the last may be short, and together they carry all of it.          *)
PacketsTile ==
    verdict = "segmented" =>
        /\ next < Packets => carried = SegmentPosition(next, ApduMax, TRUE)
        /\ next = Packets => carried = answer.len
        /\ \A n \in 0 .. Packets - 1 :
             /\ SegmentLength(n, answer.len, ApduMax, TRUE) \in 1 .. ApduMax
             /\ MoreFollows(n, answer.len, ApduMax) =>
                  SegmentLength(n, answer.len, ApduMax, TRUE)
                    = BlockSize(ApduMax, TRUE)

(* A client never gets more packets than it announced, nor more than the   *)
(* receiving side of the stack itself would take, nor a longer APDU.       *)
WithinClientLimits ==
    verdict = "segmented" =>
        /\ Packets <= bacnet_calc_max_segments(answer.max_segs)
        /\ \A n \in 0 .. Packets - 1 :
             HeaderSegmented + SegmentLength(n, answer.len, ApduMax, TRUE)
                <= MinOf(answer.max_resp, MAX_APDU)
=============================================================================
