------------------------- MODULE SegmentedResponse --------------------------
(***************************************************************************)
(* One answer too long for one APDU, sent by Tsm over a network that       *)
(* loses, repeats and reorders, to a client that reassembles it.  The      *)
(* server is Tsm itself; the client and the network are not in the         *)
(* repository and do what tsm_segmentack_received expects of a client: a   *)
(* SegmentACK names the last segment received in order.                    *)
(***************************************************************************)
EXTENDS Tsm

CONSTANTS
    Client,         \* the client's address
    ClientInvokeID, \* the invoke ID of its request
    Ask,            \* its request: the element of Service the server handles
    ClientWindows,  \* window sizes it may put in a SegmentACK
    MaxCopies       \* bound: deliveries that leave the message in the network

VARIABLES
    net,            \* messages under way
    got,            \* segments the client has received in order
    asking,         \* the client has sent its request
    gaveUp,         \* who has given up on the exchange
    copies          \* deliveries that left the message in the network

cvars == <<net, got, asking, gaveUp, copies>>
allvars == <<vars, cvars>>

ASSUME ResponseConstants ==
    /\ Client \in Address
    /\ ClientInvokeID \in PeerInvokeID
    /\ ClientWindows \subseteq Windows
    /\ MaxCopies \in Nat

AskMax == bacnet_calc_apdu_max(Ask.max_resp)

Total == get_apdu_max_segments(Ask.len, AskMax)

(* The answer to Ask goes out in segments: it fits neither in one APDU nor *)
(* is it more than the client takes.                                       *)
ASSUME AnswerIsSegmented ==
    /\ Ask \in Service
    /\ Ask.len # 0 /\ Ask.accepts /\ Ask.sent
    /\ HeaderUnsegmented + Ask.len > AskMax
    /\ Total # 1
    /\ ~ TooMuchData(Ask.len, AskMax,
            bacnet_calc_transmittable_length(Ask.max_resp, Ask.max_segs, TRUE))

(* No window the client asks for reaches back, around the sequence         *)
(* numbers, to a segment before the first one of the window.  The code     *)
(* takes the window of a SegmentACK as it comes; the protocol's windows,   *)
(* of at most 127, and the 25 segments of a response are far from 256.     *)
WindowsFit == \A w \in ClientWindows : w + Total <= SEQ + 1

ToServer(type, seq, window) == [type |-> type, seq |-> seq, window |-> window]

Sent(pdus) == {pdus[k] : k \in DOMAIN pdus}

(* The slot of the exchange, MAX_TSM_TRANSACTIONS when there is none.      *)
ExchangeSlot ==
    LET p == FindPeer(tsm, Client, ClientInvokeID)
    IN IF p \in PeerEntries
       THEN tsm_find_invokeID_index(tsm, tsm.peers[p].InternalInvokeID)
       ELSE MAX_TSM_TRANSACTIONS

InitResponse ==
    /\ Init
    /\ net = {}
    /\ got = 0
    /\ asking = FALSE
    /\ gaveUp = {}
    /\ copies = 0

(* A delivered message leaves the network, or a copy of it stays.          *)
Taken(m) ==
    \/ copies' = copies /\ net' = net \ {m}
    \/ copies < MaxCopies /\ copies' = copies + 1 /\ net' = net

(* The same for a delivery to the server, whose answers join the network.  *)
TakenByServer(m) ==
    \/ copies' = copies /\ net' = (net \ {m}) \cup Sent(out')
    \/ /\ copies < MaxCopies
       /\ copies' = copies + 1
       /\ net' = net \cup Sent(out')

ServerAsked ==
    /\ ~ asking
    /\ asking' = TRUE
    /\ apdu_handler_confirmed_service(Client, ClientInvokeID, Ask)
    /\ net' = net \cup {m \in Sent(out') : m.type = "Segment"}
    /\ UNCHANGED <<got, gaveUp, copies>>

ServerAcked(m) ==
    /\ m.type = "ClientACK"
    /\ tsm_segmentack_received(Client, ClientInvokeID, m.seq, m.window, FALSE)
    /\ TakenByServer(m)
    /\ UNCHANGED <<got, asking, gaveUp>>

ServerAborted(m) ==
    /\ m.type = "ClientAbort"
    /\ AbortReceived(Client, ClientInvokeID, FALSE)
    /\ Taken(m)
    /\ UNCHANGED <<got, asking, gaveUp>>

ServerTimer ==
    /\ tsm_timer_milliseconds
    /\ net' = net \cup Sent(out')
    /\ gaveUp' = IF ExchangeSlot \in Slots
                    /\ tsm'.list[ExchangeSlot].state = IDLE
                 THEN gaveUp \cup {"server"} ELSE gaveUp
    /\ UNCHANGED <<got, asking, copies>>

(* The client takes the segment it expects and may acknowledge it; it      *)
(* repeats its last acknowledgement when it gets any other segment.        *)
ClientReceives(m) ==
    /\ m.type = "Segment"
    /\ got' = IF m.seq = got % SEQ /\ got < Total THEN got + 1 ELSE got
    /\ \/ Taken(m)
       \/ \E window \in ClientWindows :
            /\ got' > 0
            /\ net' = (net \ {m})
                        \cup {ToServer("ClientACK", (got' - 1) % SEQ, window)}
            /\ UNCHANGED copies
    /\ UNCHANGED <<vars, asking, gaveUp>>

(* A client that is tired of waiting aborts.                               *)
ClientGivesUp ==
    /\ asking /\ "client" \notin gaveUp /\ got < Total
    /\ gaveUp' = gaveUp \cup {"client"}
    /\ net' = net \cup {ToServer("ClientAbort", 0, 0)}
    /\ UNCHANGED <<vars, got, asking, copies>>

Lose(m) ==
    /\ net' = net \ {m}
    /\ UNCHANGED <<vars, got, asking, gaveUp, copies>>

NextResponse ==
    \/ ServerAsked
    \/ ServerTimer
    \/ ClientGivesUp
    \/ \E m \in net : ServerAcked(m) \/ ServerAborted(m)
                        \/ ClientReceives(m) \/ Lose(m)

(* The main loop calls the timer for ever; the network promises nothing.   *)
ResponseSpec ==
    InitResponse /\ [][NextResponse]_allvars /\ WF_allvars(ServerTimer)

-----------------------------------------------------------------------------
Outcome ==
    CASE ~ asking -> "open"
      [] asking /\ gaveUp # {} -> "failed"
      [] asking /\ gaveUp = {} /\ ExchangeSlot \in Slots -> "open"
      [] OTHER -> "done"

Transfer == INSTANCE SegmentTransfer
                WITH Total <- Total, received <- got, outcome <- Outcome

(* The server implements SegmentTransfer: it frees the slot of a response  *)
(* on a final acknowledgement only when the client holds every segment,    *)
(* whatever the network did to segments and acknowledgements.              *)
ImplementsTransfer == Transfer!Spec

(* The window of the server never runs ahead of the client: the first      *)
(* segment of the current window is at most the one the client expects.    *)
WindowBehindClient ==
    /\ Outcome = "open" /\ asking
    => tsm.list[ExchangeSlot].InitialSequenceNumber <= got

(* Every exchange ends: the retry counter stops a server that hears        *)
(* nothing, and acknowledgements cannot keep it waiting for ever.          *)
ResponseEnds == asking ~> (Outcome # "open")
=============================================================================
