-------------------------- MODULE SegmentTransfer ---------------------------
(***************************************************************************)
(* What a segmented exchange promises, whichever way the data flows: the   *)
(* receiver collects the segments of one message in order, and the sender  *)
(* believes that the exchange is done only when the receiver has them all. *)
(***************************************************************************)
EXTENDS Naturals

CONSTANT Total              \* segments of the message

VARIABLES
    received,               \* segments the receiver holds, in order
    outcome                 \* what the sender knows

vars == <<received, outcome>>

Init == received = 0 /\ outcome = "open"

Receive ==
    /\ received < Total
    /\ received' = received + 1
    /\ UNCHANGED outcome

(* The receiver gives up on an incomplete message.                         *)
Forget ==
    /\ received < Total
    /\ received' = 0
    /\ UNCHANGED outcome

Finish ==
    /\ outcome = "open" /\ received = Total
    /\ outcome' = "done"
    /\ UNCHANGED received

Fail ==
    /\ outcome = "open"
    /\ outcome' = "failed"
    /\ UNCHANGED received

Next == Receive \/ Forget \/ Finish \/ Fail

Spec == Init /\ [][Next]_vars
=============================================================================
