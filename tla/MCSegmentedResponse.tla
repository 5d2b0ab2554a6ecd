------------------------ MODULE MCSegmentedResponse -------------------------
(* One client and an answer of three segments of one octet each.           *)
EXTENDS SegmentedResponse

MCAsk == [len |-> 3, max_resp |-> 3, max_segs |-> 0, accepts |-> TRUE,
          sent |-> TRUE]
MCService == {MCAsk}
=============================================================================
