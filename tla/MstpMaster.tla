---------------------------- MODULE MstpMaster ----------------------------
(* The MS/TP master nodes that share one RS-485 line: the Master Node state   *)
(* machine of datalink/mstp.c run by dlmstp_receive of datalink/dlmstp.c, one *)
(* instance per station, and the line between them.                           *)
(*                                                                            *)
(* Time is a sequence of ticks.  A tick is the time of one frame on the line  *)
(* and its turnaround: the frames sent in a tick are heard at the next one.   *)
(* In a tick every station that is on makes one call of dlmstp_receive, which *)
(* reads at most one frame and then calls MSTP_Master_Node_FSM for as long as *)
(* it returns TRUE; every such call is one step here.  Stations touch each    *)
(* other through the line only, so they run lowest address first.             *)
(*                                                                            *)
(* The octets of a frame are abstracted: a frame is heard whole, or as an     *)
(* invalid frame, or as noise that completes no frame.  EventCount counts     *)
(* octets and is only ever compared with Nmin_octets: heard is the result of  *)
(* that comparison (EventCount > Nmin_octets).                                *)
EXTENDS Integers, FiniteSets, Sequences

CONSTANTS
    Stations,           \* the addresses of the masters on the line
    Nmax_master,        \* the highest address polled
    Nmax_info_frames,   \* data frames sent in one hold of the token
    Npoll,              \* token holds between two polls for new masters
    Nretry_token,       \* repetitions of a token nobody takes up
    Tno_token,          \* silence, in ticks, after which the token is lost
    Tslot,              \* width of the slot in which a station makes a token
    Tusage_timeout,     \* silence after which a token or a poll is unanswered
    Treply_timeout,     \* silence after which a request is unanswered
    Treply_delay,       \* silence after which a reply is postponed
    MaxFaults,          \* bound: faults of the line and of the stations
    MaxData             \* bound: data frames that the applications send

ASSUME AddressAssumption ==
    /\ Nmax_master \in Nat \ {0}
    /\ Stations \subseteq 0..Nmax_master /\ Stations # {}
ASSUME CountAssumption ==
    /\ {Npoll, Nmax_info_frames} \subseteq Nat \ {0}
    /\ {Nretry_token, MaxFaults, MaxData} \subseteq Nat
ASSUME TimeAssumption ==
    /\ {Tslot, Tusage_timeout, Treply_delay} \subseteq Nat \ {0}
    /\ {Treply_timeout, Tno_token} \subseteq Nat
    /\ Tusage_timeout < Treply_timeout /\ Treply_delay + 1 < Treply_timeout
    /\ Treply_timeout < Tno_token

VARIABLES
    port,       \* struct mstp_port_struct_t of every station
    wire,       \* the frames sent in this tick
    todo,       \* the stations whose call of this tick has not returned
    on,         \* the stations that are powered
    faults,     \* faults so far
    data,       \* data frames sent so far, replies not counted
    answered    \* the stations that heard the line since they sent a token

vars == <<port, wire, todo, on, faults, data, answered>>

MSTP_BROADCAST_ADDRESS == Nmax_master + 1

FrameTypes == {"TOKEN", "POLL_FOR_MASTER", "REPLY_TO_POLL_FOR_MASTER",
               "DATA_EXPECTING_REPLY", "DATA_NOT_EXPECTING_REPLY",
               "REPLY_POSTPONED"}

\* DestinationAddress, SourceAddress and FrameType of a frame on the line.
Frame == [type : FrameTypes, dst : 0..MSTP_BROADCAST_ADDRESS, src : Stations]

\* What else a station can find in its UART: octets that the receive state
\* machine turns into an invalid frame (more than Nmin_octets, or fewer), or
\* octets that it eats.
Damage == {"invalid", "short", "noise"}

MasterStates == {"INITIALIZE", "IDLE", "USE_TOKEN", "WAIT_FOR_REPLY",
                 "DONE_WITH_TOKEN", "PASS_TOKEN", "NO_TOKEN",
                 "POLL_FOR_MASTER", "ANSWER_DATA_REQUEST"}

\* The frame that is flagged ReceivedValidFrame, or which other of the flags is
\* set.  At most one is: the receive state machine runs only while none is.
Flags == {"none", "ValidFrameNotForUs", "InvalidFrame"}

\* Something that is no frame for this station, in the shape of one.
Other(type) == [type |-> type, dst |-> 0, src |-> 0]

MSTP_Init(s) ==
    [master_state |-> "INITIALIZE", Next_Station |-> s, Poll_Station |-> s,
     TokenCount |-> 0, FrameCount |-> 0, RetryCount |-> 0, SoleMaster |-> FALSE,
     heard |-> FALSE, SilenceTimer |-> 0, received |-> Other("none"),
     uart |-> << >>]

\* The silence after which even a station that missed its slot makes a token.
mm_timeout == Tno_token + Tslot * (Nmax_master + 1)

Init ==
    /\ port = [s \in Stations |-> MSTP_Init(s)]
    /\ wire = {} /\ faults = 0 /\ data = 0 /\ answered = {}
    /\ on \in SUBSET Stations \ {{}}
    /\ todo = on

-----------------------------------------------------------------------------
(* One call of MSTP_Master_Node_FSM by station s.                             *)

NextAddress(a) == (a + 1) % (Nmax_master + 1)

\* It is the turn of station s, in master state ms.
In(s, ms) ==
    /\ s \in todo /\ \A t \in todo : s <= t
    /\ port[s].master_state = ms

\* The call returns TRUE: the state machine is called again at once.
Transition(s, p) ==
    /\ port' = [port EXCEPT ![s] = p]
    /\ UNCHANGED <<wire, todo, on, faults, data, answered>>

\* The call returns FALSE and nothing was sent.
Return(s, p) ==
    /\ port' = [port EXCEPT ![s] = p]
    /\ todo' = todo \ {s}
    /\ UNCHANGED <<wire, on, faults, data, answered>>

\* The call sends a frame and returns FALSE.
MSTP_Create_And_Send_Frame(s, p, type, dst) ==
    /\ port' = [port EXCEPT ![s] = p]
    /\ todo' = todo \ {s}
    /\ wire' = wire \cup {[type |-> type, dst |-> dst, src |-> s]}
    /\ answered' = IF type = "TOKEN" THEN answered \ {s} ELSE answered
    /\ UNCHANGED <<on, faults>>

SendFrame(s, p, type, dst) ==
    MSTP_Create_And_Send_Frame(s, p, type, dst) /\ UNCHANGED data

Is(s, type) == port[s].received.type = type
Valid(s) == port[s].received.type \in FrameTypes
Spoiled(s) == Is(s, "InvalidFrame") \/ Is(s, "ValidFrameNotForUs")

-----------------------------------------------------------------------------
(* INITIALIZE and IDLE                                                        *)

DoneInitializing(s) ==
    /\ In(s, "INITIALIZE")
    /\ Transition(s, [port[s] EXCEPT !.Next_Station = s, !.Poll_Station = s,
           !.TokenCount = Npoll, !.SoleMaster = FALSE, !.master_state = "IDLE"])

\* An invalid frame, a frame for another station, or one that asks for nothing.
IdleIgnore(s) ==
    /\ In(s, "IDLE")
    /\ \/ Spoiled(s)
       \/ Is(s, "DATA_NOT_EXPECTING_REPLY")
       \/ Is(s, "REPLY_POSTPONED")
       \/ Is(s, "REPLY_TO_POLL_FOR_MASTER")
       \/ /\ Is(s, "DATA_EXPECTING_REPLY")
          /\ port[s].received.dst = MSTP_BROADCAST_ADDRESS
    /\ Return(s, [port[s] EXCEPT !.received = Other("none")])

ReceivedToken(s) ==
    /\ In(s, "IDLE") /\ Is(s, "TOKEN")
    /\ Transition(s, [port[s] EXCEPT !.received = Other("none"), !.FrameCount = 0,
           !.SoleMaster = FALSE, !.master_state = "USE_TOKEN"])

ReceivedPFM(s) ==
    /\ In(s, "IDLE") /\ Is(s, "POLL_FOR_MASTER")
    /\ SendFrame(s, [port[s] EXCEPT !.received = Other("none")],
                 "REPLY_TO_POLL_FOR_MASTER", port[s].received.src)

\* The frame stays flagged, to compare a reply with it.
ReceivedDataNeedingReply(s) ==
    /\ In(s, "IDLE") /\ Is(s, "DATA_EXPECTING_REPLY")
    /\ port[s].received.dst # MSTP_BROADCAST_ADDRESS
    /\ Return(s, [port[s] EXCEPT !.master_state = "ANSWER_DATA_REQUEST"])

\* Mutant: what was heard before the silence still counts.
LostTokenKeepsEvents(s) ==
    /\ In(s, "IDLE") /\ Is(s, "none")
    /\ port[s].SilenceTimer >= Tno_token
    /\ Transition(s, [port[s] EXCEPT !.master_state = "NO_TOKEN"])

LostToken(s) ==
    /\ In(s, "IDLE") /\ Is(s, "none")
    /\ port[s].SilenceTimer >= Tno_token
    /\ Transition(s, [port[s] EXCEPT !.heard = FALSE,
                                     !.master_state = "NO_TOKEN"])

IdleWait(s) ==
    /\ In(s, "IDLE") /\ Is(s, "none")
    /\ port[s].SilenceTimer < Tno_token
    /\ Return(s, port[s])

-----------------------------------------------------------------------------
(* USE_TOKEN and WAIT_FOR_REPLY                                               *)

\* MSTP_Get_Send finds the queue of PDUs empty.
NothingToSend(s) ==
    /\ In(s, "USE_TOKEN")
    /\ Transition(s, [port[s] EXCEPT !.FrameCount = Nmax_info_frames,
                                     !.master_state = "DONE_WITH_TOKEN"])

\* MSTP_Get_Send takes a PDU for dst off the queue.
SendNoWait(s, dst) ==
    /\ In(s, "USE_TOKEN")
    /\ data < MaxData /\ data' = data + 1
    /\ MSTP_Create_And_Send_Frame(s,
           [port[s] EXCEPT !.FrameCount = @ + 1,
                           !.master_state = "DONE_WITH_TOKEN"],
           "DATA_NOT_EXPECTING_REPLY", dst)

SendAndWait(s, dst) ==
    /\ In(s, "USE_TOKEN")
    /\ data < MaxData /\ data' = data + 1
    /\ MSTP_Create_And_Send_Frame(s,
           [port[s] EXCEPT !.FrameCount = @ + 1,
               !.master_state = IF dst = MSTP_BROADCAST_ADDRESS
                                  THEN "DONE_WITH_TOKEN" ELSE "WAIT_FOR_REPLY"],
           "DATA_EXPECTING_REPLY", dst)

ReplyTimeout(s) ==
    /\ In(s, "WAIT_FOR_REPLY")
    /\ port[s].SilenceTimer >= Treply_timeout
    /\ Transition(s, [port[s] EXCEPT !.FrameCount = Nmax_info_frames,
                                     !.master_state = "DONE_WITH_TOKEN"])

\* A reply, or a frame the station cannot use: the hold of the token goes on.
ReplyOrInvalid(s) ==
    /\ In(s, "WAIT_FOR_REPLY")
    /\ port[s].SilenceTimer < Treply_timeout
    /\ \/ Spoiled(s)
       \/ /\ Valid(s) /\ port[s].received.dst = s
          /\ port[s].received.type \in {"REPLY_POSTPONED", "DATA_EXPECTING_REPLY",
                                     "DATA_NOT_EXPECTING_REPLY"}
    /\ Transition(s, [port[s] EXCEPT !.received = Other("none"),
                                     !.master_state = "DONE_WITH_TOKEN"])

\* A frame that only a holder of the token sends: this one is dropped.
WaitUnexpectedFrame(s) ==
    /\ In(s, "WAIT_FOR_REPLY")
    /\ port[s].SilenceTimer < Treply_timeout
    /\ Valid(s)
    /\ \/ port[s].received.dst # s
       \/ port[s].received.type \in {"TOKEN", "POLL_FOR_MASTER",
                                  "REPLY_TO_POLL_FOR_MASTER"}
    /\ Transition(s, [port[s] EXCEPT !.received = Other("none"),
                                     !.master_state = "IDLE"])

WaitForReply(s) ==
    /\ In(s, "WAIT_FOR_REPLY")
    /\ port[s].SilenceTimer < Treply_timeout /\ Is(s, "none")
    /\ Return(s, port[s])

-----------------------------------------------------------------------------
(* DONE_WITH_TOKEN                                                            *)

Done(s) == In(s, "DONE_WITH_TOKEN") /\ port[s].FrameCount >= Nmax_info_frames

NextUnknown(s) == ~port[s].SoleMaster /\ port[s].Next_Station = s

SendAnotherFrame(s) ==
    /\ In(s, "DONE_WITH_TOKEN") /\ port[s].FrameCount < Nmax_info_frames
    /\ Transition(s, [port[s] EXCEPT !.master_state = "USE_TOKEN"])

NextStationUnknown(s) ==
    /\ Done(s) /\ NextUnknown(s)
    /\ SendFrame(s, [port[s] EXCEPT !.Poll_Station = NextAddress(s), !.RetryCount = 0,
                                    !.master_state = "POLL_FOR_MASTER"],
                 "POLL_FOR_MASTER", NextAddress(s))

SoleMasterUsesTokenAgain(s) ==
    /\ Done(s) /\ ~NextUnknown(s) /\ port[s].TokenCount < Npoll - 1
    /\ port[s].SoleMaster /\ port[s].Next_Station # NextAddress(s)
    /\ Transition(s, [port[s] EXCEPT !.FrameCount = 0, !.TokenCount = @ + 1,
                                     !.master_state = "USE_TOKEN"])

\* EventCount is left as it is: its reset is commented out.
SendToken(s) ==
    /\ Done(s) /\ ~NextUnknown(s) /\ port[s].TokenCount < Npoll - 1
    /\ ~(port[s].SoleMaster /\ port[s].Next_Station # NextAddress(s))
    /\ SendFrame(s, [port[s] EXCEPT !.TokenCount = @ + 1, !.RetryCount = 0,
                                    !.master_state = "PASS_TOKEN"],
                 "TOKEN", port[s].Next_Station)

PollDue(s) == Done(s) /\ ~NextUnknown(s) /\ port[s].TokenCount >= Npoll - 1

SoleMasterRestartMaintenancePFM(s) ==
    LET ps == NextAddress(port[s].Next_Station) IN
    /\ PollDue(s) /\ NextAddress(port[s].Poll_Station) = port[s].Next_Station
    /\ port[s].SoleMaster
    /\ SendFrame(s, [port[s] EXCEPT !.Poll_Station = ps, !.Next_Station = s,
                                    !.RetryCount = 0, !.TokenCount = 1,
                                    !.master_state = "POLL_FOR_MASTER"],
                 "POLL_FOR_MASTER", ps)

ResetMaintenancePFM(s) ==
    /\ PollDue(s) /\ NextAddress(port[s].Poll_Station) = port[s].Next_Station
    /\ ~port[s].SoleMaster
    /\ SendFrame(s, [port[s] EXCEPT !.Poll_Station = s, !.RetryCount = 0,
                                    !.TokenCount = 1, !.heard = FALSE,
                                    !.master_state = "PASS_TOKEN"],
                 "TOKEN", port[s].Next_Station)

SendMaintenancePFM(s) ==
    LET ps == NextAddress(port[s].Poll_Station) IN
    /\ PollDue(s) /\ ps # port[s].Next_Station
    /\ SendFrame(s, [port[s] EXCEPT !.Poll_Station = ps, !.RetryCount = 0,
                                    !.master_state = "POLL_FOR_MASTER"],
                 "POLL_FOR_MASTER", ps)

-----------------------------------------------------------------------------
(* PASS_TOKEN and NO_TOKEN                                                    *)

\* Mutant: The frame that was heard in PASS_TOKEN is dropped, not processed in IDLE.
SawTokenUserDropsFrame(s) ==
    /\ In(s, "PASS_TOKEN") /\ port[s].SilenceTimer <= Tusage_timeout
    /\ port[s].heard
    /\ Transition(s, [port[s] EXCEPT !.master_state = "IDLE",
                                     !.received = Other("none")])

SawTokenUser(s) ==
    /\ In(s, "PASS_TOKEN") /\ port[s].SilenceTimer <= Tusage_timeout
    /\ port[s].heard
    /\ Transition(s, [port[s] EXCEPT !.master_state = "IDLE"])

PassTokenWait(s) ==
    /\ In(s, "PASS_TOKEN") /\ port[s].SilenceTimer <= Tusage_timeout
    /\ ~port[s].heard
    /\ Return(s, port[s])

\* Mutant: the repetitions are not limited.
RetrySendTokenAlways(s) ==
    /\ In(s, "PASS_TOKEN") /\ port[s].SilenceTimer > Tusage_timeout
    /\ SendFrame(s, [port[s] EXCEPT !.RetryCount = @ + 1, !.heard = FALSE],
                 "TOKEN", port[s].Next_Station)

RetrySendToken(s) ==
    /\ In(s, "PASS_TOKEN") /\ port[s].SilenceTimer > Tusage_timeout
    /\ port[s].RetryCount < Nretry_token
    /\ SendFrame(s, [port[s] EXCEPT !.RetryCount = @ + 1, !.heard = FALSE],
                 "TOKEN", port[s].Next_Station)

FindNewSuccessor(s) ==
    LET ps == NextAddress(port[s].Next_Station) IN
    /\ In(s, "PASS_TOKEN") /\ port[s].SilenceTimer > Tusage_timeout
    /\ port[s].RetryCount >= Nretry_token
    /\ SendFrame(s, [port[s] EXCEPT !.Poll_Station = ps, !.Next_Station = s,
                                    !.RetryCount = 0, !.TokenCount = 0,
                                    !.master_state = "POLL_FOR_MASTER"],
                 "POLL_FOR_MASTER", ps)

\* Mutant: No slots: every station makes a token as soon as it misses one.
InSlotForAll(s) == port[s].SilenceTimer >= Tno_token

\* The slot of s has begun, and it is still running or all slots are over.
InSlot(s) ==
    LET t == port[s].SilenceTimer IN
    /\ t >= Tno_token + Tslot * s
    /\ t < Tno_token + Tslot * (s + 1) \/ t > mm_timeout

SawFrame(s) ==
    /\ In(s, "NO_TOKEN") /\ ~InSlot(s) /\ port[s].heard
    /\ Transition(s, [port[s] EXCEPT !.master_state = "IDLE"])

\* Before the slot, or after it was missed.
NoTokenWait(s) ==
    /\ In(s, "NO_TOKEN") /\ ~InSlot(s) /\ ~port[s].heard
    /\ Return(s, port[s])

GenerateToken(s) ==
    /\ In(s, "NO_TOKEN") /\ InSlot(s)
    /\ SendFrame(s, [port[s] EXCEPT !.Poll_Station = NextAddress(s),
                                    !.Next_Station = s, !.RetryCount = 0,
                                    !.TokenCount = 0,
                                    !.master_state = "POLL_FOR_MASTER"],
                 "POLL_FOR_MASTER", NextAddress(s))

-----------------------------------------------------------------------------
(* POLL_FOR_MASTER and ANSWER_DATA_REQUEST                                    *)

PollAnswer(s) == Is(s, "REPLY_TO_POLL_FOR_MASTER") /\ port[s].received.dst = s

ReceivedReplyToPFM(s) ==
    LET ns == port[s].received.src IN
    /\ In(s, "POLL_FOR_MASTER") /\ PollAnswer(s)
    /\ SendFrame(s, [port[s] EXCEPT !.SoleMaster = FALSE, !.Next_Station = ns,
                                    !.heard = FALSE, !.Poll_Station = s,
                                    !.TokenCount = 0, !.RetryCount = 0,
                                    !.received = Other("none"),
                                    !.master_state = "PASS_TOKEN"],
                 "TOKEN", ns)

PollUnexpectedFrame(s) ==
    /\ In(s, "POLL_FOR_MASTER")
    /\ Valid(s) /\ ~PollAnswer(s)
    /\ Transition(s, [port[s] EXCEPT !.received = Other("none"),
                                     !.master_state = "IDLE"])

PollOver(s) ==
    /\ In(s, "POLL_FOR_MASTER") /\ ~Valid(s)
    /\ port[s].SilenceTimer > Tusage_timeout \/ Spoiled(s)

PollWait(s) ==
    /\ In(s, "POLL_FOR_MASTER") /\ Is(s, "none")
    /\ port[s].SilenceTimer <= Tusage_timeout
    /\ Return(s, port[s])

SoleMasterPolled(s) ==
    /\ PollOver(s) /\ port[s].SoleMaster
    /\ Transition(s, [port[s] EXCEPT !.FrameCount = 0, !.received = Other("none"),
                                     !.master_state = "USE_TOKEN"])

DoneWithPFM(s) ==
    /\ PollOver(s) /\ ~port[s].SoleMaster /\ port[s].Next_Station # s
    /\ SendFrame(s, [port[s] EXCEPT !.heard = FALSE, !.RetryCount = 0,
                                    !.received = Other("none"),
                                    !.master_state = "PASS_TOKEN"],
                 "TOKEN", port[s].Next_Station)

SendNextPFM(s) ==
    LET ps == NextAddress(port[s].Poll_Station) IN
    /\ PollOver(s) /\ NextUnknown(s) /\ ps # s
    /\ SendFrame(s, [port[s] EXCEPT !.Poll_Station = ps, !.RetryCount = 0,
                                    !.received = Other("none")],
                 "POLL_FOR_MASTER", ps)

DeclareSoleMaster(s) ==
    /\ PollOver(s) /\ NextUnknown(s) /\ NextAddress(port[s].Poll_Station) = s
    /\ Transition(s, [port[s] EXCEPT !.SoleMaster = TRUE, !.FrameCount = 0,
                                     !.received = Other("none"),
                                     !.master_state = "USE_TOKEN"])

\* MSTP_Get_Reply finds the reply at the head of the queue of PDUs.
Reply(s) ==
    /\ In(s, "ANSWER_DATA_REQUEST")
    /\ SendFrame(s, [port[s] EXCEPT !.TokenCount = 0, !.received = Other("none"),
                                    !.master_state = "IDLE"],
                 "DATA_NOT_EXPECTING_REPLY", port[s].received.src)

DeferredReply(s) ==
    /\ In(s, "ANSWER_DATA_REQUEST") /\ port[s].SilenceTimer > Treply_delay
    /\ SendFrame(s, [port[s] EXCEPT !.TokenCount = 0, !.received = Other("none"),
                                    !.master_state = "IDLE"],
                 "REPLY_POSTPONED", port[s].received.src)

\* Mutant: The request is answered whenever the reply is ready, however late.
AnswerWaitForEver(s) ==
    /\ In(s, "ANSWER_DATA_REQUEST")
    /\ Return(s, [port[s] EXCEPT !.TokenCount = 0])

AnswerWait(s) ==
    /\ In(s, "ANSWER_DATA_REQUEST") /\ port[s].SilenceTimer <= Treply_delay
    /\ Return(s, [port[s] EXCEPT !.TokenCount = 0])

MSTP_Master_Node_FSM(s) ==
    \/ DoneInitializing(s)
    \/ IdleIgnore(s) \/ ReceivedToken(s) \/ ReceivedPFM(s)
    \/ ReceivedDataNeedingReply(s) \/ LostToken(s) \/ IdleWait(s)
    \/ NothingToSend(s)
    \/ \E dst \in (Stations \cup {MSTP_BROADCAST_ADDRESS}) \ {s} :
          SendNoWait(s, dst) \/ SendAndWait(s, dst)
    \/ ReplyTimeout(s) \/ ReplyOrInvalid(s) \/ WaitUnexpectedFrame(s)
    \/ WaitForReply(s)
    \/ SendAnotherFrame(s) \/ NextStationUnknown(s)
    \/ SoleMasterUsesTokenAgain(s) \/ SendToken(s)
    \/ SoleMasterRestartMaintenancePFM(s) \/ ResetMaintenancePFM(s)
    \/ SendMaintenancePFM(s)
    \/ SawTokenUser(s) \/ PassTokenWait(s) \/ RetrySendToken(s)
    \/ FindNewSuccessor(s)
    \/ SawFrame(s) \/ NoTokenWait(s) \/ GenerateToken(s)
    \/ ReceivedReplyToPFM(s) \/ PollUnexpectedFrame(s) \/ PollWait(s)
    \/ SoleMasterPolled(s) \/ DoneWithPFM(s) \/ SendNextPFM(s)
    \/ DeclareSoleMaster(s)
    \/ Reply(s) \/ DeferredReply(s) \/ AnswerWait(s)
-----------------------------------------------------------------------------
(* The line and dlmstp_receive.                                               *)

MSTP_Frame_For_Us(s, f) == f.dst \in {s, MSTP_BROADCAST_ADDRESS}

\* MSTP_Receive_Frame_FSM on what the UART of s holds; it runs only while no
\* frame is flagged, and every octet resets the silence timer.
MSTP_Receive_Frame_FSM(s, p) ==
    IF p.received.type # "none" \/ p.uart = << >> THEN p
    ELSE LET x == Head(p.uart)
             q == [p EXCEPT !.uart = Tail(@), !.SilenceTimer = 0]
         IN CASE x.type = "noise"   -> [q EXCEPT !.heard = TRUE]
              [] x.type = "short"   -> [q EXCEPT !.received = Other("InvalidFrame")]
              [] x.type = "invalid" -> [q EXCEPT !.received = Other("InvalidFrame"),
                                                 !.heard = TRUE]
              [] OTHER -> [q EXCEPT !.heard = TRUE,
                             !.received = IF MSTP_Frame_For_Us(s, x) THEN x
                                          ELSE Other("ValidFrameNotForUs")]

Senders == {f.src : f \in wire}

\* What the line gives the UART of s: nothing of its own frame, the frame of
\* the one sender, and, when several send at once, the octets c.
OnLine(s, c) ==
    IF s \in Senders \/ wire = {} THEN << >>
    ELSE IF Cardinality(wire) = 1 THEN <<CHOOSE f \in wire : TRUE>>
    ELSE <<Other(c)>>

\* The next tick: arriving[s] comes to the UART of s, the silence of a sender
\* starts with the end of its frame, and every station that is on begins a
\* call of dlmstp_receive, the busy ones excepted.
dlmstp_receive(busy, arriving) ==
    LET elapsed(s) == IF s \in Senders THEN 0
                      ELSE IF port[s].SilenceTimer > mm_timeout
                        THEN port[s].SilenceTimer
                        ELSE port[s].SilenceTimer + 1
        p(s) == [port[s] EXCEPT !.SilenceTimer = elapsed(s),
                                !.uart = @ \o arriving[s]]
    IN /\ port' = [s \in Stations |->
                     IF s \notin on THEN port[s]
                     ELSE IF s \in busy THEN p(s)
                     ELSE MSTP_Receive_Frame_FSM(s, p(s))]
       /\ answered' = answered \cup {s \in on : arriving[s] # << >>}
       /\ wire' = {}
       /\ todo' = on \ busy

Quiet == [s \in Stations |-> OnLine(s, "invalid")]

Tick ==
    /\ todo = {}
    /\ \E c \in {"invalid", "noise"} :
          dlmstp_receive({}, [s \in Stations |-> OnLine(s, c)])
    /\ UNCHANGED <<on, faults, data>>

-----------------------------------------------------------------------------
(* Faults.  Each counts against MaxFaults.                                    *)

Fault == todo = {} /\ faults < MaxFaults /\ faults' = faults + 1
         /\ UNCHANGED data

\* Station s does not hear the frame on the line, or hears the octets x.
Damaged(s, x) ==
    /\ Fault
    /\ s \in on \ Senders
    /\ x = << >> => Cardinality(wire) = 1
    /\ dlmstp_receive({}, [Quiet EXCEPT ![s] = x])
    /\ UNCHANGED on

\* Station s is late for its call ("OS timer resolution is poor or we were
\* busy").
Busy(s) ==
    /\ Fault /\ s \in on
    /\ dlmstp_receive({s}, Quiet)
    /\ UNCHANGED on

PowerOff(s) ==
    /\ Fault /\ s \in on /\ on # {s}
    /\ on' = on \ {s}
    /\ port' = [port EXCEPT ![s] = MSTP_Init(s)]
    /\ answered' = answered \ {s}
    /\ UNCHANGED <<wire, todo>>

\* Some station has the right to send, or a token is on its way to one.
Holding(s) ==
    /\ s \in on
    /\ \/ port[s].master_state \in {"USE_TOKEN", "WAIT_FOR_REPLY",
                                    "DONE_WITH_TOKEN", "POLL_FOR_MASTER"}
       \/ port[s].master_state \in {"IDLE", "PASS_TOKEN"} /\ Is(s, "TOKEN")
Tokens == Cardinality({s \in Stations : Holding(s)})
          + Cardinality({f \in wire : f.type = "TOKEN"})

\* A station that joins while a token goes round is no fault; one that starts
\* on a line without a token is, as its timer and the others' then disagree.
PowerOn(s) ==
    /\ todo = {} /\ s \notin on
    /\ \/ Tokens # 0 /\ UNCHANGED faults
       \/ Tokens = 0 /\ faults < MaxFaults /\ faults' = faults + 1
    /\ on' = on \cup {s}
    /\ UNCHANGED <<port, wire, todo, data, answered>>

Run == Tick \/ \E s \in Stations : MSTP_Master_Node_FSM(s)

Next ==
    \/ Run
    \/ \E s \in Stations :
          \/ \E x \in {<< >>} \cup {<<Other(d)>> : d \in Damage} : Damaged(s, x)
          \/ Busy(s) \/ PowerOff(s) \/ PowerOn(s)

\* Every powered station keeps calling dlmstp_receive.
Spec == Init /\ [][Next]_vars /\ WF_vars(Run)

-----------------------------------------------------------------------------
PortType ==
    [master_state : MasterStates, Next_Station : 0..Nmax_master,
     Poll_Station : 0..Nmax_master, TokenCount : 0..Npoll,
     FrameCount : 0..Nmax_info_frames, RetryCount : 0..Nretry_token,
     SoleMaster : BOOLEAN, heard : BOOLEAN, SilenceTimer : 0..(mm_timeout + 1),
     received : Frame \cup {Other(f) : f \in Flags},
     uart : Seq(Frame \cup {Other(d) : d \in Damage})]

TypeOK ==
    /\ port \in [Stations -> PortType]
    /\ wire \subseteq Frame /\ on \subseteq Stations /\ todo \subseteq on
    /\ faults \in 0..MaxFaults /\ data \in 0..MaxData
    /\ answered \subseteq Stations

\* While the line and the stations work, at most one station has the right to
\* send: it holds the token, or the one token is on its way.  Stations that
\* join, polls, requests and replies never make a second one; the slots of
\* NO_TOKEN let only the lowest address make the first.
OneToken == faults = 0 => Tokens <= 1

\* Then also at most one station sends at a time: replies to polls and to
\* requests, which are sent without the token, never collide with a frame of
\* its holder, as a postponed reply is out before the requester gives up.
OneTalker == faults = 0 => Cardinality(wire) <= 1

\* Once there is a token it never gets lost without a fault: whoever lets go of
\* it has sent it to a station that is there and takes it.
NeverLost == [][faults' = 0 /\ Tokens # 0 => Tokens' # 0]_vars

\* Stations that keep time differently do not send at once for ever.
NoEndlessCollision == <>[](Cardinality(wire) <= 1)

\* After the last fault (a frame lost or damaged, noise, a late call, a station
\* that fails or restarts) the ring repairs itself: duplicate tokens disappear
\* and every station that stays on gets the token again and again.  The stale
\* EventCount of SendToken only delays this.
RingRecovers ==
    NoEndlessCollision =>
       /\ <>[](Tokens <= 1)
       /\ \A s \in Stations :
             <>[](s \in on) => []<>(port[s].master_state = "USE_TOKEN")

\* What the comments of PASS_TOKEN say of SawTokenUser: the station goes back to
\* IDLE because it heard the line after it sent the token.
PasserHeardSuccessor ==
    [][ \A s \in Stations :
          (port[s].master_state = "PASS_TOKEN" /\ port'[s].master_state = "IDLE")
             => s \in answered ]_vars

=============================================================================
