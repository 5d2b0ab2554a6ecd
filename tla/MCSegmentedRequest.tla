------------------------- MODULE MCSegmentedRequest -------------------------
(* One client whose request takes Total segments; no answer is sent.       *)
EXTENDS SegmentedRequest

MCHandling == [len |-> 0, max_resp |-> 3, max_segs |-> 0, accepts |-> TRUE,
               sent |-> TRUE]
MCService == {MCHandling}
=============================================================================
