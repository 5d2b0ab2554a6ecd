------------------------------- MODULE MCTsm --------------------------------
(* Small instances of Tsm for TLC.                                         *)
EXTENDS Tsm, TLC

(* One octet of data in each segment: headers of 2 and 1, APDUs of 3.      *)
Answer(len, max_resp, max_segs, accepts, sent) ==
    [len |-> len, max_resp |-> max_resp, max_segs |-> max_segs,
     accepts |-> accepts, sent |-> sent]

(* No answer; three segments, sent or not; more than the client takes.     *)
MCService ==
    {Answer(0, 3, 0, TRUE, TRUE), Answer(3, 3, 0, TRUE, TRUE),
     Answer(3, 3, 0, TRUE, FALSE), Answer(3, 3, 2, TRUE, TRUE)}

(* No answer, and an answer of two segments.                               *)
MCServiceTwo == {Answer(0, 3, 0, TRUE, TRUE), Answer(2, 3, 0, TRUE, TRUE)}

MCSymmetry == Permutations(Address)
=============================================================================
