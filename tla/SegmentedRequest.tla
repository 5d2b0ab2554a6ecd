-------------------------- MODULE SegmentedRequest --------------------------
(***************************************************************************)
(* One request too long for one APDU, sent by a client over a network that *)
(* loses, repeats and reorders, and reassembled by Tsm.  The server is Tsm *)
(* itself; the client and the network are not in the repository.  The      *)
(* client sends any segment of its current window, at any time and as      *)
(* often as it likes, and moves the window on a SegmentACK within it,      *)
(* which is what tsm_set_segmented_confirmed_service_received expects.     *)
(***************************************************************************)
EXTENDS Tsm

CONSTANTS
    Client,         \* the client's address
    ClientInvokeID, \* the invoke ID of its request
    Total,          \* segments of the request
    ProposedWindow, \* the window size the client asks for
    Handling        \* the element of Service: what the handler answers

VARIABLES
    net,            \* messages under way
    acked,          \* segments the server has acknowledged to the client
    window,         \* the window size the server granted
    gaveUp,         \* the client has been told that the exchange is over
    served          \* the service handler has been called

cvars == <<net, acked, window, gaveUp, served>>
allvars == <<vars, cvars>>

ASSUME RequestConstants ==
    /\ Client \in Address
    /\ ClientInvokeID \in PeerInvokeID
    /\ Total \in 2 .. SEQ - 1
    /\ ProposedWindow \in Windows
    /\ Handling \in Service

(* The windows that leave no doubt: counted from a segment of the request, *)
(* they do not reach around the sequence numbers to an earlier segment.    *)
WindowFits == ProposedWindow + Total <= SEQ + 1

RequestSegment(n) ==
    [type |-> "RequestSegment", seq |-> n, more |-> n < Total - 1]

InitRequest ==
    /\ Init
    /\ net = {}
    /\ acked = 0
    /\ window = 1
    /\ gaveUp = FALSE
    /\ served = FALSE

ClientSends ==
    /\ ~ gaveUp
    /\ \E n \in acked .. MinOf(acked + window, Total) - 1 :
         net' = net \cup {RequestSegment(n)}
    /\ UNCHANGED <<vars, acked, window, gaveUp, served>>

ClientAcked(m) ==
    /\ m.type = "SegmentACK"
    /\ LET moved == ((m.seq - acked) % SEQ) + 1
       IN IF moved <= window /\ ~ gaveUp /\ acked < Total
          THEN acked' = acked + moved /\ window' = m.window
          ELSE UNCHANGED <<acked, window>>
    /\ net' = net \ {m}
    /\ UNCHANGED <<vars, gaveUp, served>>

(* An Abort ends the request, unless every segment was acknowledged.       *)
ClientAborted(m) ==
    /\ m.type = "Abort"
    /\ gaveUp' = (gaveUp \/ acked < Total)
    /\ net' = net \ {m}
    /\ UNCHANGED <<vars, acked, window, served>>

Sent(pdus) ==
    {m \in {pdus[k] : k \in DOMAIN pdus} : m.type \in {"SegmentACK", "Abort"}}

Served(pdus) == \E k \in DOMAIN pdus : pdus[k].type = "Indication"

(* A segment reaches the server; a copy of it may stay in the network.     *)
ServerReceives(m) ==
    /\ m.type = "RequestSegment"
    /\ apdu_handler_confirmed_service_segment(
         Client, ClientInvokeID, m.seq, m.more, ProposedWindow, Handling)
    /\ net' \in {net \cup Sent(out'), (net \ {m}) \cup Sent(out')}
    /\ served' = (served \/ Served(out'))
    /\ UNCHANGED <<acked, window, gaveUp>>

ServerTimer ==
    /\ tsm_timer_milliseconds
    /\ UNCHANGED cvars

Lose(m) ==
    /\ net' = net \ {m}
    /\ UNCHANGED <<vars, acked, window, gaveUp, served>>

NextRequest ==
    \/ ClientSends
    \/ ServerTimer
    \/ \E m \in net : ClientAcked(m) \/ ClientAborted(m)
                        \/ ServerReceives(m) \/ Lose(m)

RequestSpec == InitRequest /\ [][NextRequest]_allvars

-----------------------------------------------------------------------------
(* What the server holds of the request.                                   *)
Held ==
    LET p == FindPeer(tsm, Client, ClientInvokeID)
        i == tsm_find_invokeID_index(tsm, tsm.peers[p].InternalInvokeID)
    IN IF p \in PeerEntries THEN tsm.list[i].blob ELSE <<>>

Received == IF served THEN Total ELSE Len(Held)

Outcome == CASE acked >= Total -> "done"
             [] acked < Total /\ gaveUp -> "failed"
             [] OTHER -> "open"

Transfer == INSTANCE SegmentTransfer
                WITH received <- Received, outcome <- Outcome

(* The server implements SegmentTransfer: the client sees its last segment *)
(* acknowledged only when the server has reassembled the whole request and *)
(* called the handler, whatever the network did.                           *)
ImplementsTransfer == Transfer!Spec

(* The handler is never called with part of a request, and never with more *)
(* than the client sent.                                                   *)
ServedWhole ==
    \A k \in DOMAIN out :
        out[k].type = "Indication" => Len(out[k].data) = Total
=============================================================================
