-------------------------- MODULE MstpMasterProofs --------------------------
(* The token of an MS/TP line, for every set of stations, every Nmax_master,  *)
(* every limit and all timeouts that keep the order of TimeAssumption.        *)
(*                                                                            *)
(* The argument is an inductive invariant, RingInv: without a fault the line  *)
(* is either Silent, all timers agreeing and no slot past, or in one of eight *)
(* phases of the exchange between the one station that has the token and the  *)
(* one that it asks or passes it to, all others being bystanders.             *)
EXTENDS MstpMaster, FiniteSetTheorems, TLAPS

\* The record of one station has its type, and a station that may send has a
\* frame of its allowance left.
GoodPort(p) ==
    /\ p \in PortType
    /\ p.master_state = "USE_TOKEN" => p.FrameCount < Nmax_info_frames

\* The type invariant is inductive together with the second conjunct, without which
\* SendNoWait could count past Nmax_info_frames.
TypeInv ==
    /\ TypeOK
    /\ \A s \in Stations : GoodPort(port[s])

\* What one call of MSTP_Master_Node_FSM by s does to the rest of the system.
Stepped(s) ==
    /\ s \in todo
    /\ \A t \in Stations \ {s} : port'[t] = port[t]
    /\ todo' \in {todo, todo \ {s}}
    /\ wire \subseteq wire'
    /\ on' = on /\ faults' = faults
    /\ port'[s].uart = port[s].uart
    /\ port'[s].SilenceTimer = port[s].SilenceTimer
    /\ port'[s].master_state # "INITIALIZE"

\* What the assumptions say of each constant.
LEMMA Numbers ==
    /\ Nmax_master \in Nat /\ Nmax_master >= 1
    /\ Npoll \in Nat /\ Npoll >= 1
    /\ Nmax_info_frames \in Nat /\ Nmax_info_frames >= 1
    /\ Nretry_token \in Nat /\ MaxFaults \in Nat /\ MaxData \in Nat
    /\ Tslot \in Int /\ Tslot >= 1 /\ Tusage_timeout \in Int /\ Tusage_timeout >= 1
    /\ Treply_delay \in Int /\ Treply_delay >= 1
    /\ Treply_timeout \in Int /\ Tno_token \in Int
    /\ Tusage_timeout < Treply_timeout /\ Treply_delay + 1 < Treply_timeout
    /\ Treply_timeout < Tno_token
    /\ Stations \subseteq 0..Nmax_master
    /\ \A s \in Stations : s \in Int /\ s >= 0 /\ s <= Nmax_master
BY AddressAssumption, CountAssumption, TimeAssumption, SMT

\* The slots: each begins after the ones of lower addresses, and all end before
\* mm_timeout.
LEMMA Slots ==
    /\ mm_timeout \in Int /\ mm_timeout >= Tno_token + Tslot
    /\ \A s \in Stations :
          /\ Tslot * s \in Int /\ Tslot * s >= 0
          /\ Tslot * (s + 1) = Tslot * s + Tslot
          /\ Tno_token + Tslot * s < mm_timeout
    /\ \A s, t \in Stations : Tslot * s = Tslot * t => s = t
<1>1. \A a, b, t \in Int : a < b /\ t >= 1 => t * a < t * b
  BY SMT
<1>2. \A a, t \in Int : t * (a + 1) = t * a + t
  BY SMT
<1>3. \A a, t \in Int : t * a \in Int /\ (a >= 0 /\ t >= 1 => t * a >= 0)
  BY SMT
<1>4. Tslot * (Nmax_master + 1) \in Int /\ Tslot * (Nmax_master + 1) >= Tslot
  <2>1. Tslot * (Nmax_master + 1) = Tslot * Nmax_master + Tslot
    BY <1>2, Numbers
  <2>2. Tslot * Nmax_master \in Int /\ Tslot * Nmax_master >= 0
    BY <1>3, Numbers
  <2>3. QED BY <2>1, <2>2, Numbers
<1>5. ASSUME NEW s \in Stations
      PROVE  /\ Tslot * s \in Int /\ Tslot * s >= 0
             /\ Tslot * (s + 1) = Tslot * s + Tslot
             /\ Tslot * s < Tslot * (Nmax_master + 1)
  BY <1>1, <1>2, <1>3, Numbers
<1>6. ASSUME NEW s \in Stations, NEW t \in Stations, Tslot * s = Tslot * t
      PROVE  s = t
  <2>1. ~ (s < t) /\ ~ (t < s)
    BY <1>1, <1>5, <1>6, Numbers
  <2>2. QED BY <2>1, Numbers
<1>7. QED BY <1>4, <1>5, <1>6, Numbers DEF mm_timeout

\* Addresses and the broadcast address.
LEMMA AddressType ==
    /\ \A a \in 0..Nmax_master : NextAddress(a) \in 0..Nmax_master
    /\ \A a \in Stations : NextAddress(a) # a
    /\ 0..Nmax_master \subseteq 0..MSTP_BROADCAST_ADDRESS
    /\ Stations \subseteq 0..MSTP_BROADCAST_ADDRESS
    /\ MSTP_BROADCAST_ADDRESS \in 0..MSTP_BROADCAST_ADDRESS
    /\ MSTP_BROADCAST_ADDRESS \notin 0..Nmax_master
BY Numbers, SMT DEF NextAddress, MSTP_BROADCAST_ADDRESS

LEMMA NoneType == Other("none") \in Frame \cup {Other(f) : f \in Flags}
BY DEF Flags

\* The source of what was received.
LEMMA SrcType ==
    ASSUME NEW f \in Frame \cup {Other(g) : g \in Flags}
    PROVE  /\ f.src \in 0..Nmax_master
           /\ f.type \in FrameTypes => f \in Frame /\ f.src \in Stations
<1>1. CASE f \in Frame
  BY <1>1, Numbers DEF Frame
<1>2. CASE f \in {Other(g) : g \in Flags}
  <2>1. PICK g \in Flags : f = Other(g)
    BY <1>2
  <2>2. f.src = 0 /\ f.type = g
    BY <2>1 DEF Other
  <2>3. g \notin FrameTypes
    BY DEF Flags, FrameTypes
  <2>4. QED BY <2>2, <2>3, Numbers
<1>3. QED BY <1>1, <1>2


LEMMA Members ==
    /\ "IDLE" \in MasterStates /\ "USE_TOKEN" \in MasterStates
    /\ "WAIT_FOR_REPLY" \in MasterStates /\ "DONE_WITH_TOKEN" \in MasterStates
    /\ "PASS_TOKEN" \in MasterStates /\ "NO_TOKEN" \in MasterStates
    /\ "POLL_FOR_MASTER" \in MasterStates
    /\ "ANSWER_DATA_REQUEST" \in MasterStates /\ "INITIALIZE" \in MasterStates
    /\ Npoll \in 0..Npoll /\ 0 \in 0..Npoll /\ 1 \in 0..Npoll
    /\ 0 \in 0..Nmax_info_frames /\ Nmax_info_frames \in 0..Nmax_info_frames
    /\ 0 < Nmax_info_frames /\ ~ (Nmax_info_frames < Nmax_info_frames)
    /\ 0 \in 0..Nretry_token
    /\ \A s \in Stations : s \in 0..Nmax_master
BY Numbers DEF MasterStates

LEMMA FrameMembers ==
    /\ "TOKEN" \in FrameTypes /\ "POLL_FOR_MASTER" \in FrameTypes
    /\ "REPLY_TO_POLL_FOR_MASTER" \in FrameTypes
    /\ "DATA_EXPECTING_REPLY" \in FrameTypes
    /\ "DATA_NOT_EXPECTING_REPLY" \in FrameTypes
    /\ "REPLY_POSTPONED" \in FrameTypes
BY DEF FrameTypes

\* A record that a call of the state machine may leave behind: SilenceTimer and
\* uart belong to the receiver.
Keeps(s, p) ==
    /\ GoodPort(p)
    /\ p.uart = port[s].uart /\ p.SilenceTimer = port[s].SilenceTimer
    /\ p.master_state # "INITIALIZE"

Moves(s) ==
    /\ s \in todo
    /\ port' = [port EXCEPT ![s] = port'[s]]
    /\ Keeps(s, port'[s])
    /\ todo' \in {todo, todo \ {s}}
    /\ wire \subseteq wire' /\ wire' \subseteq Frame
    /\ on' = on /\ faults' = faults /\ data' \in 0..MaxData
    /\ answered' \subseteq Stations

LEMMA MovesType ==
    ASSUME TypeInv, NEW s \in Stations, Moves(s)
    PROVE  TypeInv' /\ Stepped(s)
<1>1. TypeOK'
  BY DEF TypeInv, TypeOK, Moves, Keeps, GoodPort
<1>2. \A t \in Stations : GoodPort(port[t])'
  BY DEF TypeInv, TypeOK, Moves, Keeps, GoodPort
<1>3. Stepped(s)
  BY DEF TypeInv, TypeOK, Moves, Keeps, Stepped
<1>4. QED BY <1>1, <1>2, <1>3 DEF TypeInv

LEMMA SendMoves ==
    ASSUME TypeInv, NEW s \in Stations, s \in todo, NEW p,
           NEW type \in FrameTypes, NEW dst \in 0..MSTP_BROADCAST_ADDRESS,
           MSTP_Create_And_Send_Frame(s, p, type, dst), data' \in 0..MaxData,
           Keeps(s, port'[s])
    PROVE  Moves(s)
<1>1. [type |-> type, dst |-> dst, src |-> s] \in Frame
  BY DEF Frame
<1>2. QED BY <1>1 DEF TypeInv, TypeOK, MSTP_Create_And_Send_Frame, Moves

LEMMA Counted ==
    ASSUME TypeInv, NEW s \in Stations
    PROVE  /\ port[s].TokenCount < Npoll - 1 => port[s].TokenCount + 1 \in 0..Npoll
           /\ port[s].RetryCount < Nretry_token =>
                port[s].RetryCount + 1 \in 0..Nretry_token
           /\ port[s].master_state = "USE_TOKEN" =>
                port[s].FrameCount + 1 \in 0..Nmax_info_frames
           /\ data < MaxData => data + 1 \in 0..MaxData
<1>1. /\ port[s].TokenCount \in 0..Npoll /\ port[s].RetryCount \in 0..Nretry_token
      /\ port[s].FrameCount \in 0..Nmax_info_frames /\ data \in 0..MaxData
      /\ port[s].master_state = "USE_TOKEN" => port[s].FrameCount < Nmax_info_frames
  BY DEF TypeInv, TypeOK, GoodPort, PortType
<1>2. QED BY <1>1, Numbers, SMT

-----------------------------------------------------------------------------
(* Types.                                                                     *)

\* Every transition of the master node state machine.
LEMMA NodeMoves ==
    ASSUME TypeInv, NEW s \in Stations
    PROVE  MSTP_Master_Node_FSM(s) => Moves(s)
<1> USE Members, NoneType, FrameMembers, AddressType
    DEF TypeInv, TypeOK, GoodPort, PortType, In, Keeps
<1>0. port[s].received.src \in 0..Nmax_master
  BY SrcType
<1>1. CASE DoneInitializing(s)
  <2>1. /\ port'[s] \in PortType /\ port'[s].uart = port[s].uart
        /\ port'[s].SilenceTimer = port[s].SilenceTimer
BY <1>1 DEF DoneInitializing, Transition
<2>2. QED BY <1>1, <2>1 DEF DoneInitializing, Transition, Moves
<1>2. CASE IdleIgnore(s)
  <2>1. /\ port'[s] \in PortType /\ port'[s].uart = port[s].uart
        /\ port'[s].SilenceTimer = port[s].SilenceTimer
BY <1>2 DEF IdleIgnore, Return
<2>2. QED BY <1>2, <2>1 DEF IdleIgnore, Return, Moves
<1>3. CASE ReceivedToken(s)
  <2>1. /\ port'[s] \in PortType /\ port'[s].uart = port[s].uart
        /\ port'[s].SilenceTimer = port[s].SilenceTimer
BY <1>3 DEF ReceivedToken, Transition
<2>2. QED BY <1>3, <2>1 DEF ReceivedToken, Transition, Moves
<1>4. CASE ReceivedPFM(s)
  <2>1. Keeps(s, port'[s])
BY <1>0, <1>4 DEF ReceivedPFM, SendFrame, MSTP_Create_And_Send_Frame
<2>2. QED BY <1>0, <1>4, <2>1, SendMoves DEF ReceivedPFM, SendFrame
<1>5. CASE ReceivedDataNeedingReply(s)
  <2>1. /\ port'[s] \in PortType /\ port'[s].uart = port[s].uart
        /\ port'[s].SilenceTimer = port[s].SilenceTimer
BY <1>5 DEF ReceivedDataNeedingReply, Return
<2>2. QED BY <1>5, <2>1 DEF ReceivedDataNeedingReply, Return, Moves
<1>6. CASE LostToken(s)
  <2>1. /\ port'[s] \in PortType /\ port'[s].uart = port[s].uart
        /\ port'[s].SilenceTimer = port[s].SilenceTimer
BY <1>6 DEF LostToken, Transition
<2>2. QED BY <1>6, <2>1 DEF LostToken, Transition, Moves
<1>7. CASE IdleWait(s)
  <2>1. /\ port'[s] \in PortType /\ port'[s].uart = port[s].uart
        /\ port'[s].SilenceTimer = port[s].SilenceTimer
BY <1>7 DEF IdleWait, Return
<2>2. QED BY <1>7, <2>1 DEF IdleWait, Return, Moves
<1>8. CASE NothingToSend(s)
  <2>1. /\ port'[s] \in PortType /\ port'[s].uart = port[s].uart
        /\ port'[s].SilenceTimer = port[s].SilenceTimer
BY <1>8 DEF NothingToSend, Transition
<2>2. QED BY <1>8, <2>1 DEF NothingToSend, Transition, Moves
<1>9. CASE ReplyTimeout(s)
  <2>1. /\ port'[s] \in PortType /\ port'[s].uart = port[s].uart
        /\ port'[s].SilenceTimer = port[s].SilenceTimer
BY <1>9 DEF ReplyTimeout, Transition
<2>2. QED BY <1>9, <2>1 DEF ReplyTimeout, Transition, Moves
<1>10. CASE ReplyOrInvalid(s)
  <2>1. /\ port'[s] \in PortType /\ port'[s].uart = port[s].uart
        /\ port'[s].SilenceTimer = port[s].SilenceTimer
BY <1>10 DEF ReplyOrInvalid, Transition
<2>2. QED BY <1>10, <2>1 DEF ReplyOrInvalid, Transition, Moves
<1>11. CASE WaitUnexpectedFrame(s)
  <2>1. /\ port'[s] \in PortType /\ port'[s].uart = port[s].uart
        /\ port'[s].SilenceTimer = port[s].SilenceTimer
BY <1>11 DEF WaitUnexpectedFrame, Transition
<2>2. QED BY <1>11, <2>1 DEF WaitUnexpectedFrame, Transition, Moves
<1>12. CASE WaitForReply(s)
  <2>1. /\ port'[s] \in PortType /\ port'[s].uart = port[s].uart
        /\ port'[s].SilenceTimer = port[s].SilenceTimer
BY <1>12 DEF WaitForReply, Return
<2>2. QED BY <1>12, <2>1 DEF WaitForReply, Return, Moves
<1>13. CASE SendAnotherFrame(s)
  <2>1. /\ port'[s] \in PortType /\ port'[s].uart = port[s].uart
        /\ port'[s].SilenceTimer = port[s].SilenceTimer
BY <1>13 DEF SendAnotherFrame, Transition
<2>2. QED BY <1>13, <2>1 DEF SendAnotherFrame, Transition, Moves
<1>14. CASE NextStationUnknown(s)
  <2>1. Keeps(s, port'[s])
BY <1>0, <1>14 DEF NextStationUnknown, Done, SendFrame,
         MSTP_Create_And_Send_Frame
<2>2. QED BY <1>0, <1>14, <2>1, SendMoves DEF NextStationUnknown, Done,
           SendFrame
<1>15. CASE SoleMasterUsesTokenAgain(s)
  <2>0. port[s].TokenCount + 1 \in 0..Npoll
    BY <1>15, Counted DEF SoleMasterUsesTokenAgain
  <2>1. /\ port'[s] \in PortType /\ port'[s].uart = port[s].uart
        /\ port'[s].SilenceTimer = port[s].SilenceTimer
BY <1>15, <2>0 DEF SoleMasterUsesTokenAgain, Transition, Done
<2>2. QED BY <1>15, <2>1 DEF SoleMasterUsesTokenAgain, Transition, Done,
           Moves
<1>16. CASE SendToken(s)
  <2>0. port[s].TokenCount + 1 \in 0..Npoll
    BY <1>16, Counted DEF SendToken
  <2>1. Keeps(s, port'[s])
BY <1>0, <1>16, <2>0 DEF SendToken, Done, SendFrame,
         MSTP_Create_And_Send_Frame
<2>2. QED BY <1>0, <1>16, <2>1, SendMoves DEF SendToken, Done, SendFrame
<1>17. CASE SoleMasterRestartMaintenancePFM(s)
  <2>1. Keeps(s, port'[s])
BY <1>0, <1>17 DEF SoleMasterRestartMaintenancePFM, Done, PollDue,
         SendFrame, MSTP_Create_And_Send_Frame
<2>2. QED BY <1>0, <1>17, <2>1, SendMoves DEF
           SoleMasterRestartMaintenancePFM, Done, PollDue, SendFrame
<1>18. CASE ResetMaintenancePFM(s)
  <2>1. Keeps(s, port'[s])
BY <1>0, <1>18 DEF ResetMaintenancePFM, Done, PollDue, SendFrame,
         MSTP_Create_And_Send_Frame
<2>2. QED BY <1>0, <1>18, <2>1, SendMoves DEF ResetMaintenancePFM, Done,
           PollDue, SendFrame
<1>19. CASE SendMaintenancePFM(s)
  <2>1. Keeps(s, port'[s])
BY <1>0, <1>19 DEF SendMaintenancePFM, Done, PollDue, SendFrame,
         MSTP_Create_And_Send_Frame
<2>2. QED BY <1>0, <1>19, <2>1, SendMoves DEF SendMaintenancePFM, Done,
           PollDue, SendFrame
<1>20. CASE SawTokenUser(s)
  <2>1. /\ port'[s] \in PortType /\ port'[s].uart = port[s].uart
        /\ port'[s].SilenceTimer = port[s].SilenceTimer
BY <1>20 DEF SawTokenUser, Transition
<2>2. QED BY <1>20, <2>1 DEF SawTokenUser, Transition, Moves
<1>21. CASE PassTokenWait(s)
  <2>1. /\ port'[s] \in PortType /\ port'[s].uart = port[s].uart
        /\ port'[s].SilenceTimer = port[s].SilenceTimer
BY <1>21 DEF PassTokenWait, Return
<2>2. QED BY <1>21, <2>1 DEF PassTokenWait, Return, Moves
<1>22. CASE RetrySendToken(s)
  <2>0. port[s].RetryCount + 1 \in 0..Nretry_token
    BY <1>22, Counted DEF RetrySendToken
  <2>1. Keeps(s, port'[s])
BY <1>0, <1>22, <2>0 DEF RetrySendToken, SendFrame,
         MSTP_Create_And_Send_Frame
<2>2. QED BY <1>0, <1>22, <2>1, SendMoves DEF RetrySendToken, SendFrame
<1>23. CASE FindNewSuccessor(s)
  <2>1. Keeps(s, port'[s])
BY <1>0, <1>23 DEF FindNewSuccessor, SendFrame, MSTP_Create_And_Send_Frame
<2>2. QED BY <1>0, <1>23, <2>1, SendMoves DEF FindNewSuccessor, SendFrame
<1>24. CASE SawFrame(s)
  <2>1. /\ port'[s] \in PortType /\ port'[s].uart = port[s].uart
        /\ port'[s].SilenceTimer = port[s].SilenceTimer
BY <1>24 DEF SawFrame, Transition
<2>2. QED BY <1>24, <2>1 DEF SawFrame, Transition, Moves
<1>25. CASE NoTokenWait(s)
  <2>1. /\ port'[s] \in PortType /\ port'[s].uart = port[s].uart
        /\ port'[s].SilenceTimer = port[s].SilenceTimer
BY <1>25 DEF NoTokenWait, Return
<2>2. QED BY <1>25, <2>1 DEF NoTokenWait, Return, Moves
<1>26. CASE GenerateToken(s)
  <2>1. Keeps(s, port'[s])
BY <1>0, <1>26 DEF GenerateToken, SendFrame, MSTP_Create_And_Send_Frame
<2>2. QED BY <1>0, <1>26, <2>1, SendMoves DEF GenerateToken, SendFrame
<1>27. CASE ReceivedReplyToPFM(s)
  <2>1. Keeps(s, port'[s])
BY <1>0, <1>27 DEF ReceivedReplyToPFM, SendFrame,
         MSTP_Create_And_Send_Frame
<2>2. QED BY <1>0, <1>27, <2>1, SendMoves DEF ReceivedReplyToPFM, SendFrame
<1>28. CASE PollUnexpectedFrame(s)
  <2>1. /\ port'[s] \in PortType /\ port'[s].uart = port[s].uart
        /\ port'[s].SilenceTimer = port[s].SilenceTimer
BY <1>28 DEF PollUnexpectedFrame, Transition
<2>2. QED BY <1>28, <2>1 DEF PollUnexpectedFrame, Transition, Moves
<1>29. CASE PollWait(s)
  <2>1. /\ port'[s] \in PortType /\ port'[s].uart = port[s].uart
        /\ port'[s].SilenceTimer = port[s].SilenceTimer
BY <1>29 DEF PollWait, Return
<2>2. QED BY <1>29, <2>1 DEF PollWait, Return, Moves
<1>30. CASE SoleMasterPolled(s)
  <2>1. /\ port'[s] \in PortType /\ port'[s].uart = port[s].uart
        /\ port'[s].SilenceTimer = port[s].SilenceTimer
BY <1>30 DEF SoleMasterPolled, Transition, PollOver
<2>2. QED BY <1>30, <2>1 DEF SoleMasterPolled, Transition, PollOver, Moves
<1>31. CASE DoneWithPFM(s)
  <2>1. Keeps(s, port'[s])
BY <1>0, <1>31 DEF DoneWithPFM, PollOver, SendFrame,
         MSTP_Create_And_Send_Frame
<2>2. QED BY <1>0, <1>31, <2>1, SendMoves DEF DoneWithPFM, PollOver,
           SendFrame
<1>32. CASE SendNextPFM(s)
  <2>1. Keeps(s, port'[s])
BY <1>0, <1>32 DEF SendNextPFM, PollOver, SendFrame,
         MSTP_Create_And_Send_Frame
<2>2. QED BY <1>0, <1>32, <2>1, SendMoves DEF SendNextPFM, PollOver,
           SendFrame
<1>33. CASE DeclareSoleMaster(s)
  <2>1. /\ port'[s] \in PortType /\ port'[s].uart = port[s].uart
        /\ port'[s].SilenceTimer = port[s].SilenceTimer
BY <1>33 DEF DeclareSoleMaster, Transition, PollOver
<2>2. QED BY <1>33, <2>1 DEF DeclareSoleMaster, Transition, PollOver, Moves
<1>34. CASE Reply(s)
  <2>1. Keeps(s, port'[s])
BY <1>0, <1>34 DEF Reply, SendFrame, MSTP_Create_And_Send_Frame
<2>2. QED BY <1>0, <1>34, <2>1, SendMoves DEF Reply, SendFrame
<1>35. CASE DeferredReply(s)
  <2>1. Keeps(s, port'[s])
BY <1>0, <1>35 DEF DeferredReply, SendFrame, MSTP_Create_And_Send_Frame
<2>2. QED BY <1>0, <1>35, <2>1, SendMoves DEF DeferredReply, SendFrame
<1>36. CASE AnswerWait(s)
  <2>1. /\ port'[s] \in PortType /\ port'[s].uart = port[s].uart
        /\ port'[s].SilenceTimer = port[s].SilenceTimer
BY <1>36 DEF AnswerWait, Return
<2>2. QED BY <1>36, <2>1 DEF AnswerWait, Return, Moves
<1>37. CASE \E dst \in (Stations \cup {MSTP_BROADCAST_ADDRESS}) \ {s} : SendNoWait(s, dst)
  <2>1. PICK dst \in (Stations \cup {MSTP_BROADCAST_ADDRESS}) \ {s} : SendNoWait(s, dst)
    BY <1>37
  <2>2. /\ port[s].FrameCount + 1 \in 0..Nmax_info_frames
        /\ data' \in 0..MaxData /\ dst \in 0..MSTP_BROADCAST_ADDRESS
    BY <2>1, Counted DEF SendNoWait
  <2>3. Keeps(s, port'[s])
    BY <2>1, <2>2 DEF SendNoWait, MSTP_Create_And_Send_Frame
  <2>4. QED BY <2>1, <2>2, <2>3, SendMoves DEF SendNoWait
<1>38. CASE \E dst \in (Stations \cup {MSTP_BROADCAST_ADDRESS}) \ {s} : SendAndWait(s, dst)
  <2>1. PICK dst \in (Stations \cup {MSTP_BROADCAST_ADDRESS}) \ {s} : SendAndWait(s, dst)
    BY <1>38
  <2>2. /\ port[s].FrameCount + 1 \in 0..Nmax_info_frames
        /\ data' \in 0..MaxData /\ dst \in 0..MSTP_BROADCAST_ADDRESS
    BY <2>1, Counted DEF SendAndWait
  <2>3. Keeps(s, port'[s])
    BY <2>1, <2>2 DEF SendAndWait, MSTP_Create_And_Send_Frame
  <2>4. QED BY <2>1, <2>2, <2>3, SendMoves DEF SendAndWait
<1>39. QED
BY <1>1, <1>2, <1>3, <1>4, <1>5, <1>6, <1>7, <1>8, <1>9, <1>10, <1>11,
     <1>12, <1>13, <1>14, <1>15, <1>16, <1>17, <1>18, <1>19, <1>20, <1>21,
     <1>22, <1>23, <1>24, <1>25, <1>26, <1>27, <1>28, <1>29, <1>30, <1>31,
     <1>32, <1>33, <1>34, <1>35, <1>36, <1>37, <1>38 DEF
     MSTP_Master_Node_FSM

LEMMA NodeStep ==
    ASSUME TypeInv, NEW s \in Stations, MSTP_Master_Node_FSM(s)
    PROVE  TypeInv' /\ Stepped(s)
BY NodeMoves, MovesType

\* What a UART can hold.
Octets == Frame \cup {Other(d) : d \in Damage}

\* The receive state machine.
LEMMA ReceiveType ==
    ASSUME NEW s \in Stations, NEW p, GoodPort(p)
    PROVE  GoodPort(MSTP_Receive_Frame_FSM(s, p))
<1>1. CASE p.received.type # "none" \/ p.uart = << >>
  BY <1>1 DEF MSTP_Receive_Frame_FSM
<1>2. CASE ~ (p.received.type # "none" \/ p.uart = << >>)
  <2> DEFINE x == Head(p.uart)
             q == [p EXCEPT !.uart = Tail(@), !.SilenceTimer = 0]
  <2>1. p.uart \in Seq(Octets) /\ p.uart # << >>
    BY <1>2 DEF GoodPort, PortType, Octets
  <2>2. x \in Octets /\ Tail(p.uart) \in Seq(Octets)
    BY <2>1
  <2>3. 0 \in 0..(mm_timeout + 1)
    BY Numbers, Slots
  <2>4. GoodPort(q)
    BY <2>2, <2>3 DEF GoodPort, PortType, Octets
  <2>5. /\ Other("InvalidFrame") \in Frame \cup {Other(f) : f \in Flags}
        /\ Other("ValidFrameNotForUs") \in Frame \cup {Other(f) : f \in Flags}
    BY DEF Flags
  <2>6. x.type \notin {"noise", "short", "invalid"} => x \in Frame
    <3>1. SUFFICES ASSUME NEW d \in Damage, x = Other(d)
                   PROVE  x.type \in {"noise", "short", "invalid"}
      BY <2>2 DEF Octets
    <3>2. QED BY <3>1 DEF Other, Damage
  <2> HIDE DEF x, q
  <2>7. GoodPort([q EXCEPT !.heard = TRUE])
    BY <2>4 DEF GoodPort, PortType
  <2>8. \A r \in Frame \cup {Other(f) : f \in Flags} :
           /\ GoodPort([q EXCEPT !.received = r])
           /\ GoodPort([q EXCEPT !.received = r, !.heard = TRUE])
           /\ GoodPort([q EXCEPT !.heard = TRUE, !.received = r])
    BY <2>4 DEF GoodPort, PortType
  <2>9. x \in Frame => (IF MSTP_Frame_For_Us(s, x) THEN x
                        ELSE Other("ValidFrameNotForUs"))
                           \in Frame \cup {Other(f) : f \in Flags}
    BY <2>5
  <2>10. MSTP_Receive_Frame_FSM(s, p) =
            CASE x.type = "noise"   -> [q EXCEPT !.heard = TRUE]
              [] x.type = "short"   -> [q EXCEPT !.received = Other("InvalidFrame")]
              [] x.type = "invalid" -> [q EXCEPT !.received = Other("InvalidFrame"),
                                                 !.heard = TRUE]
              [] OTHER -> [q EXCEPT !.heard = TRUE,
                             !.received = IF MSTP_Frame_For_Us(s, x) THEN x
                                          ELSE Other("ValidFrameNotForUs")]
    BY <1>2 DEF MSTP_Receive_Frame_FSM, x, q
  <2>11. CASE x.type = "noise"
    BY <2>7, <2>10, <2>11
  <2>12. CASE x.type = "short"
    BY <2>5, <2>8, <2>10, <2>12
  <2>13. CASE x.type = "invalid"
    BY <2>5, <2>8, <2>10, <2>13
  <2>14. CASE x.type \notin {"noise", "short", "invalid"}
    BY <2>6, <2>8, <2>9, <2>10, <2>14
  <2>15. QED BY <2>11, <2>12, <2>13, <2>14
<1>3. QED BY <1>1, <1>2

LEMMA OnLineType ==
    ASSUME TypeInv, NEW s \in Stations, NEW c \in Damage
    PROVE  OnLine(s, c) \in Seq(Octets)
<1>1. wire # {} => (CHOOSE f \in wire : TRUE) \in Octets
  BY DEF TypeInv, TypeOK, Octets
<1>2. Other(c) \in Octets
  BY DEF Octets
<1>3. QED BY <1>1, <1>2 DEF OnLine

\* The silence timer of s after a tick.
Elapsed(s) == IF s \in Senders THEN 0
              ELSE IF port[s].SilenceTimer > mm_timeout
                THEN port[s].SilenceTimer
                ELSE port[s].SilenceTimer + 1

\* The record of s as the receiver finds it.
Ticked(s, octets) ==
    [port[s] EXCEPT !.SilenceTimer = Elapsed(s), !.uart = @ \o octets]

LEMMA TickedType ==
    ASSUME TypeInv, NEW s \in Stations, NEW octets \in Seq(Octets)
    PROVE  GoodPort(Ticked(s, octets))
<1>1. port[s].SilenceTimer \in 0..(mm_timeout + 1) /\ port[s].uart \in Seq(Octets)
  BY DEF TypeInv, GoodPort, PortType, Octets
<1>2. Elapsed(s) \in 0..(mm_timeout + 1)
  BY <1>1, Slots, Numbers DEF Elapsed
<1>3. port[s].uart \o octets \in Seq(Octets)
  BY <1>1
<1>4. QED BY <1>2, <1>3 DEF TypeInv, GoodPort, PortType, Octets, Ticked

\* A tick, with whatever reaches the UARTs.
LEMMA ReceiverType ==
    ASSUME TypeInv, NEW busy, NEW arriving, 
           \A s \in Stations : arriving[s] \in Seq(Octets),
           dlmstp_receive(busy, arriving), on' = on,
           faults' \in 0..MaxFaults, data' = data
    PROVE  TypeInv'
<1>1. port' = [s \in Stations |->
                 IF s \notin on THEN port[s]
                 ELSE IF s \in busy THEN Ticked(s, arriving[s])
                 ELSE MSTP_Receive_Frame_FSM(s, Ticked(s, arriving[s]))]
  BY DEF dlmstp_receive, Ticked, Elapsed
<1>2. \A s \in Stations : GoodPort(port'[s])
  BY <1>1, TickedType, ReceiveType DEF TypeInv
<1>3. port' \in [Stations -> PortType]
  <2>1. \A s \in Stations : port'[s] \in PortType
    BY <1>2 DEF GoodPort
  <2>2. QED BY <1>1, <2>1
<1>4. wire' = {} /\ answered' \subseteq Stations /\ todo' \subseteq on
  BY DEF dlmstp_receive, TypeInv, TypeOK
<1>5. QED BY <1>2, <1>3, <1>4 DEF TypeInv, TypeOK

LEMMA TypeInit == Init => TypeInv
<1> SUFFICES ASSUME Init PROVE TypeInv
  OBVIOUS
<1>1. \A s \in Stations : GoodPort(MSTP_Init(s))
  BY Members, NoneType, Slots, Numbers DEF GoodPort, PortType, MSTP_Init
<1>2. QED BY <1>1, Numbers DEF Init, TypeInv, TypeOK, GoodPort

LEMMA TypeNext ==
    ASSUME TypeInv, [Next]_vars
    PROVE  TypeInv'
<1>1. CASE UNCHANGED vars
  BY <1>1 DEF vars, TypeInv, TypeOK, GoodPort
<1>2. CASE Tick
  <2>1. PICK c \in {"invalid", "noise"} :
           dlmstp_receive({}, [s \in Stations |-> OnLine(s, c)])
    BY <1>2 DEF Tick
  <2>2. \A s \in Stations : [t \in Stations |-> OnLine(t, c)][s] \in Seq(Octets)
    BY OnLineType DEF Damage
  <2>3. on' = on /\ data' = data /\ faults' \in 0..MaxFaults
    BY <1>2 DEF Tick, TypeInv, TypeOK
  <2>4. QED BY <2>1, <2>2, <2>3, ReceiverType
<1>3. ASSUME NEW s \in Stations, MSTP_Master_Node_FSM(s)
      PROVE  TypeInv'
  BY <1>3, NodeStep
<1>4. Fault => faults' \in 0..MaxFaults /\ data' = data
  BY Numbers DEF Fault, TypeInv, TypeOK
<1>5. \A s \in Stations : Quiet[s] \in Seq(Octets)
  BY OnLineType DEF Quiet, Damage
<1>6. ASSUME NEW s \in Stations,
             NEW x \in {<< >>} \cup {<<Other(d)>> : d \in Damage}, Damaged(s, x)
      PROVE  TypeInv'
  <2>1. x \in Seq(Octets)
    <3>1. \A d \in Damage : <<Other(d)>> \in Seq(Octets)
      BY DEF Octets
    <3>2. << >> \in Seq(Octets)
      OBVIOUS
    <3>3. QED BY <3>1, <3>2
  <2>2. \A t \in Stations : [Quiet EXCEPT ![s] = x][t] \in Seq(Octets)
    BY <1>5, <2>1 DEF Quiet
  <2>3. QED BY <1>4, <1>6, <2>2, ReceiverType DEF Damaged
<1>7. ASSUME NEW s \in Stations, Busy(s)
      PROVE  TypeInv'
  BY <1>4, <1>5, <1>7, ReceiverType DEF Busy
<1>8. ASSUME NEW s \in Stations, PowerOff(s)
      PROVE  TypeInv'
  <2>1. GoodPort(MSTP_Init(s))
    BY Members, NoneType, Slots, Numbers DEF GoodPort, PortType, MSTP_Init
  <2>2. \A t \in Stations : GoodPort(port'[t])
    BY <1>8, <2>1 DEF PowerOff, TypeInv, TypeOK
  <2>3. port' \in [Stations -> PortType]
    BY <1>8, <2>1 DEF PowerOff, TypeInv, TypeOK, GoodPort
  <2>4. todo' = {}
    BY <1>8 DEF PowerOff, Fault
  <2>5. QED BY <1>4, <1>8, <2>2, <2>3, <2>4 DEF PowerOff, TypeInv, TypeOK
<1>9. ASSUME NEW s \in Stations, PowerOn(s)
      PROVE  TypeInv'
  <2>1. faults' \in 0..MaxFaults
    BY <1>9, Numbers DEF PowerOn, TypeInv, TypeOK
  <2>2. QED BY <1>9, <2>1 DEF PowerOn, TypeInv, TypeOK, GoodPort
<1>10. QED BY <1>1, <1>2, <1>3, <1>6, <1>7, <1>8, <1>9 DEF Next, Run

\* TypeOK holds in every state of the line, with faults and without: no counter of
\* mstp_port_struct_t leaves its range (TokenCount Npoll, FrameCount
\* Nmax_info_frames, RetryCount Nretry_token, SilenceTimer mm_timeout + 1), and
\* what is on the line and in the UARTs stays well formed.
THEOREM TypeInvariant == Spec => []TypeOK
<1>1. TypeInv => TypeOK
  BY DEF TypeInv
<1>2. QED BY TypeInit, TypeNext, <1>1, PTL DEF Spec

-----------------------------------------------------------------------------
(* The phases of the ring while there is no fault.                            *)

State(s) == port[s].master_state
Timer(s) == port[s].SilenceTimer
Got(s) == port[s].received

\* What every station keeps while there is no fault: its link to a successor
\* leads to a station that is on and has left INITIALIZE.
Sane(s) ==
    /\ s \notin on => port[s] = MSTP_Init(s)
    /\ port[s].uart = << >>
    /\ port[s].SoleMaster => port[s].Next_Station = s
    /\ port[s].Next_Station # s =>
         /\ port[s].Next_Station \in on
         /\ port[port[s].Next_Station].master_state # "INITIALIZE"

AllSane == \A s \in Stations : Sane(s)

\* The states in which a station neither holds the token nor replies.
Passive == {"INITIALIZE", "IDLE", "NO_TOKEN", "PASS_TOKEN"}

\* A poll is on the line, sent in this tick.
Polled == \E f \in wire : f.type = "POLL_FOR_MASTER"

\* Received, and asking for nothing.
Harmless(f) ==
    \/ f.type \in {"none", "ValidFrameNotForUs", "DATA_NOT_EXPECTING_REPLY"}
    \/ f.type = "DATA_EXPECTING_REPLY" /\ f.dst = MSTP_BROADCAST_ADDRESS

\* The line was heard at the beginning of this tick, and s has yet to act on it.
Heard(s) == s \in todo /\ port[s].heard /\ Timer(s) = 0

\* A station that will send nothing of its own accord: it has not missed a token
\* long enough to enter its slot, or a poll is about to reset its timer.  After it
\* passed the token it is in PASS_TOKEN only until it hears the one it passed it
\* to, in the tick in which something is sent (sending) or has been heard.
Bystander(s, sending) ==
    /\ State(s) \in Passive
    /\ Harmless(Got(s)) /\ (Got(s).type # "none" => Heard(s))
    /\ Timer(s) < Tno_token + Tslot * s
    /\ ~ Polled => Timer(s) < Tno_token
    /\ State(s) = "NO_TOKEN" => Polled \/ Heard(s)
    /\ State(s) = "PASS_TOKEN" => Timer(s) = 0 /\ (sending \/ Heard(s))

Others(S, sending) == \A s \in on \ S : Bystander(s, sending)

\* The transitions of each master state.
LEMMA NodeByState ==
    ASSUME NEW s, MSTP_Master_Node_FSM(s)
    PROVE  /\ State(s) = "INITIALIZE" => DoneInitializing(s)
           /\ State(s) = "IDLE" =>
                \/ IdleIgnore(s) \/ ReceivedToken(s) \/ ReceivedPFM(s)
                \/ ReceivedDataNeedingReply(s) \/ LostToken(s) \/ IdleWait(s)
           /\ State(s) = "USE_TOKEN" =>
                \/ NothingToSend(s)
                \/ \E dst \in (Stations \cup {MSTP_BROADCAST_ADDRESS}) \ {s} :
                      SendNoWait(s, dst) \/ SendAndWait(s, dst)
           /\ State(s) = "WAIT_FOR_REPLY" =>
                \/ ReplyTimeout(s) \/ ReplyOrInvalid(s)
                \/ WaitUnexpectedFrame(s) \/ WaitForReply(s)
           /\ State(s) = "DONE_WITH_TOKEN" =>
                \/ SendAnotherFrame(s) \/ NextStationUnknown(s)
                \/ SoleMasterUsesTokenAgain(s) \/ SendToken(s)
                \/ SoleMasterRestartMaintenancePFM(s) \/ ResetMaintenancePFM(s)
                \/ SendMaintenancePFM(s)
           /\ State(s) = "PASS_TOKEN" =>
                \/ SawTokenUser(s) \/ PassTokenWait(s) \/ RetrySendToken(s)
                \/ FindNewSuccessor(s)
           /\ State(s) = "NO_TOKEN" =>
                SawFrame(s) \/ NoTokenWait(s) \/ GenerateToken(s)
           /\ State(s) = "POLL_FOR_MASTER" =>
                \/ ReceivedReplyToPFM(s) \/ PollUnexpectedFrame(s) \/ PollWait(s)
                \/ SoleMasterPolled(s) \/ DoneWithPFM(s) \/ SendNextPFM(s)
                \/ DeclareSoleMaster(s)
           /\ State(s) = "ANSWER_DATA_REQUEST" =>
                Reply(s) \/ DeferredReply(s) \/ AnswerWait(s)
<1>1. DoneInitializing(s) => State(s) = "INITIALIZE"
  BY DEF DoneInitializing, In, State
<1>2. \/ IdleIgnore(s) \/ ReceivedToken(s) \/ ReceivedPFM(s)
      \/ ReceivedDataNeedingReply(s) \/ LostToken(s) \/ IdleWait(s)
      => State(s) = "IDLE"
  BY DEF IdleIgnore, ReceivedToken, ReceivedPFM, ReceivedDataNeedingReply,
         LostToken, IdleWait, In, State
<1>3. \/ NothingToSend(s)
      \/ \E dst \in (Stations \cup {MSTP_BROADCAST_ADDRESS}) \ {s} :
            SendNoWait(s, dst) \/ SendAndWait(s, dst)
      => State(s) = "USE_TOKEN"
  BY DEF NothingToSend, SendNoWait, SendAndWait, In, State
<1>4. \/ ReplyTimeout(s) \/ ReplyOrInvalid(s)
      \/ WaitUnexpectedFrame(s) \/ WaitForReply(s)
      => State(s) = "WAIT_FOR_REPLY"
  BY DEF ReplyTimeout, ReplyOrInvalid, WaitUnexpectedFrame, WaitForReply, In,
         State
<1>5. \/ SendAnotherFrame(s) \/ NextStationUnknown(s)
      \/ SoleMasterUsesTokenAgain(s) \/ SendToken(s)
      \/ SoleMasterRestartMaintenancePFM(s) \/ ResetMaintenancePFM(s)
      \/ SendMaintenancePFM(s)
      => State(s) = "DONE_WITH_TOKEN"
  BY DEF SendAnotherFrame, NextStationUnknown, SoleMasterUsesTokenAgain,
         SendToken, SoleMasterRestartMaintenancePFM, ResetMaintenancePFM,
         SendMaintenancePFM, PollDue, Done, In, State
<1>6. \/ SawTokenUser(s) \/ PassTokenWait(s) \/ RetrySendToken(s)
      \/ FindNewSuccessor(s)
      => State(s) = "PASS_TOKEN"
  BY DEF SawTokenUser, PassTokenWait, RetrySendToken, FindNewSuccessor, In, State
<1>7. SawFrame(s) \/ NoTokenWait(s) \/ GenerateToken(s) => State(s) = "NO_TOKEN"
  BY DEF SawFrame, NoTokenWait, GenerateToken, In, State
<1>8. \/ ReceivedReplyToPFM(s) \/ PollUnexpectedFrame(s) \/ PollWait(s)
      \/ SoleMasterPolled(s) \/ DoneWithPFM(s) \/ SendNextPFM(s)
      \/ DeclareSoleMaster(s)
      => State(s) = "POLL_FOR_MASTER"
  BY DEF ReceivedReplyToPFM, PollUnexpectedFrame, PollWait, SoleMasterPolled,
         DoneWithPFM, SendNextPFM, DeclareSoleMaster, PollOver, In, State
<1>9. Reply(s) \/ DeferredReply(s) \/ AnswerWait(s)
      => State(s) = "ANSWER_DATA_REQUEST"
  BY DEF Reply, DeferredReply, AnswerWait, In, State
<1>10. QED
  BY <1>1, <1>2, <1>3, <1>4, <1>5, <1>6, <1>7, <1>8, <1>9
     DEF MSTP_Master_Node_FSM

\* The link to a successor stays sane when s keeps it, gives it up, or sets it to
\* a station that is on and has left INITIALIZE.
Linked(s) ==
    /\ port'[s].SoleMaster => port'[s].Next_Station = s
    /\ port'[s].Next_Station \in {s, port[s].Next_Station}

LEMMA SaneStep ==
    ASSUME TypeInv, AllSane, NEW s \in Stations, Stepped(s), Linked(s)
    PROVE  AllSane'
<1>1. s \in on /\ on' = on /\ on \subseteq Stations
  BY DEF Stepped, TypeInv, TypeOK
<1>2. Sane(s)'
  BY <1>1 DEF AllSane, Sane, Stepped, Linked
<1>3. ASSUME NEW t \in Stations, t # s
      PROVE  Sane(t)'
  BY <1>1, <1>3 DEF AllSane, Sane, Stepped
<1>4. QED BY <1>2, <1>3 DEF AllSane

LEMMA Typed ==
    ASSUME TypeInv, NEW s \in Stations
    PROVE  /\ port[s] \in PortType /\ Timer(s) \in Int /\ Timer(s) >= 0
           /\ s \in Int /\ Tno_token \in Int /\ Tno_token > 0
           /\ Tslot * s \in Int /\ Tslot * s >= 0
           /\ port[s].Next_Station \in 0..Nmax_master
           /\ Got(s) \in Frame \cup {Other(f) : f \in Flags}
<1>1. port[s] \in PortType
  BY DEF TypeInv, GoodPort
<1>2. /\ port[s].SilenceTimer \in 0..(mm_timeout + 1)
      /\ port[s].received \in Frame \cup {Other(f) : f \in Flags}
      /\ port[s].Next_Station \in 0..Nmax_master
  BY <1>1 DEF PortType
<1>3. QED BY <1>1, <1>2, Slots, Numbers DEF Timer, Got

\* Whatever a bystander does, it sends nothing and remains one.
LEMMA BystanderStep ==
    ASSUME TypeInv, AllSane, NEW s \in Stations, MSTP_Master_Node_FSM(s),
           NEW sending \in BOOLEAN, Bystander(s, sending)
    PROVE  wire' = wire /\ Linked(s) /\ Bystander(s, sending)'
<1>1. /\ Stepped(s) /\ port[s] \in PortType /\ port \in [Stations -> PortType]
      /\ Timer(s) \in Int /\ Sane(s) /\ s \in on
  BY NodeStep, Typed DEF TypeInv, TypeOK, AllSane, Stepped
<1>2. Tno_token \in Int /\ Tno_token > 0 /\ Tslot * s \in Int /\ Tslot * s >= 0
  BY Typed
<1>3. CASE State(s) = "INITIALIZE"
  <2>1. DoneInitializing(s)
    BY <1>3, NodeByState
  <2>2. /\ wire' = wire /\ todo' = todo /\ port'[s].heard = port[s].heard
        /\ port'[s].received = port[s].received /\ port'[s].master_state = "IDLE"
        /\ port'[s].Next_Station = s
    BY <1>1, <2>1 DEF DoneInitializing, Transition, PortType
  <2>3. QED
    BY <1>1, <2>2 DEF Bystander, Polled, State, Timer, Got, Passive, Harmless,
       Heard, Linked, Stepped
<1>4. CASE State(s) = "IDLE"
  <2>1. ~ ReceivedToken(s) /\ ~ ReceivedPFM(s) /\ ~ ReceivedDataNeedingReply(s)
    BY DEF ReceivedToken, ReceivedPFM, ReceivedDataNeedingReply, Is, Bystander,
           Harmless, Got
  <2>2. \/ IdleIgnore(s) \/ LostToken(s) \/ IdleWait(s)
    BY <1>4, <2>1, NodeByState
  <2>3. CASE IdleIgnore(s)
    <3>1. /\ wire' = wire /\ port'[s].master_state = "IDLE"
          /\ port'[s].received.type = "none"
          /\ port'[s].Next_Station = port[s].Next_Station
          /\ port'[s].SoleMaster = port[s].SoleMaster
      BY <1>1, <2>3 DEF IdleIgnore, Return, PortType, Other, In
    <3>2. QED
      BY <1>1, <3>1 DEF Bystander, Polled, State, Timer, Got, Passive, Harmless,
         Heard, Linked, Stepped, Sane
  <2>4. CASE LostToken(s)
    <3>1. /\ wire' = wire /\ port'[s].master_state = "NO_TOKEN"
          /\ port'[s].received = port[s].received
          /\ port'[s].received.type = "none"
          /\ port'[s].Next_Station = port[s].Next_Station
          /\ port'[s].SoleMaster = port[s].SoleMaster
          /\ Timer(s) >= Tno_token
      BY <1>1, <2>4 DEF LostToken, Transition, PortType, Is, In, Timer
    <3>2. Polled
      BY <1>1, <1>2, <3>1 DEF Bystander
    <3>3. QED
      BY <1>1, <3>1, <3>2 DEF Bystander, Polled, State, Timer, Got, Passive,
         Harmless, Heard, Linked, Stepped, Sane
  <2>5. CASE IdleWait(s)
    <3>1. /\ wire' = wire /\ port'[s] = port[s] /\ port'[s].received.type = "none"
      BY <1>1, <2>5 DEF IdleWait, Return, Is
    <3>2. QED
      BY <1>1, <1>4, <3>1 DEF Bystander, Polled, State, Timer, Got, Passive,
         Harmless, Heard, Linked, Stepped, Sane
  <2>6. QED BY <2>2, <2>3, <2>4, <2>5
<1>5. CASE State(s) = "PASS_TOKEN"
  <2>0. Timer(s) = 0 /\ (sending \/ Heard(s)) /\ (Got(s).type # "none" => Heard(s))
    BY <1>5 DEF Bystander
  <2>1. ~ RetrySendToken(s) /\ ~ FindNewSuccessor(s)
    BY <2>0, Numbers DEF RetrySendToken, FindNewSuccessor, Timer
  <2>2. SawTokenUser(s) \/ PassTokenWait(s)
    BY <1>5, <2>1, NodeByState
  <2>3. CASE SawTokenUser(s)
    <3>1. /\ wire' = wire /\ todo' = todo /\ port'[s].master_state = "IDLE"
          /\ port'[s].received = port[s].received
          /\ port'[s].heard = port[s].heard
          /\ port'[s].Next_Station = port[s].Next_Station
          /\ port'[s].SoleMaster = port[s].SoleMaster
      BY <1>1, <2>3 DEF SawTokenUser, Transition, PortType, In, Timer
    <3>2. QED
      BY <1>1, <3>1 DEF Bystander, Polled, State, Timer, Got, Passive,
         Harmless, Heard, Linked, Stepped, Sane
  <2>4. CASE PassTokenWait(s)
    <3>1. wire' = wire /\ port'[s] = port[s] /\ ~ port[s].heard
      BY <1>1, <2>4 DEF PassTokenWait, Return
    <3>2. sending /\ Got(s).type = "none"
      BY <2>0, <3>1 DEF Heard
    <3>3. QED
      BY <1>1, <3>1, <3>2, <2>0, <1>5 DEF Bystander, Polled, State, Timer, Got,
         Passive, Harmless, Heard, Linked, Stepped, Sane
  <2>5. QED BY <2>2, <2>3, <2>4
<1>6. CASE State(s) = "NO_TOKEN"
  <2>0. (Polled \/ Heard(s)) /\ (Got(s).type # "none" => Heard(s))
    BY <1>6 DEF Bystander
  <2>1. ~ InSlot(s)
    BY <1>1, <1>2 DEF InSlot, Bystander, Timer
  <2>2. SawFrame(s) \/ NoTokenWait(s)
    BY <1>6, <2>1, NodeByState DEF GenerateToken
  <2>3. CASE SawFrame(s)
    <3>1. /\ wire' = wire /\ todo' = todo /\ port'[s].master_state = "IDLE"
          /\ port'[s].received = port[s].received
          /\ port'[s].heard = port[s].heard
          /\ port'[s].Next_Station = port[s].Next_Station
          /\ port'[s].SoleMaster = port[s].SoleMaster
      BY <1>1, <2>3 DEF SawFrame, Transition, PortType, In, Timer
    <3>2. QED
      BY <1>1, <3>1 DEF Bystander, Polled, State, Timer, Got, Passive,
         Harmless, Heard, Linked, Stepped, Sane
  <2>4. CASE NoTokenWait(s)
    <3>1. wire' = wire /\ port'[s] = port[s] /\ ~ port[s].heard
      BY <1>1, <2>4 DEF NoTokenWait, Return
    <3>2. Polled /\ Got(s).type = "none"
      BY <2>0, <3>1 DEF Heard
    <3>3. QED
      BY <1>1, <3>1, <3>2, <1>6 DEF Bystander, Polled, State, Timer, Got,
         Passive, Harmless, Heard, Linked, Stepped, Sane
  <2>5. QED BY <2>2, <2>3, <2>4
<1>7. QED
  BY <1>3, <1>4, <1>5, <1>6 DEF Bystander, Passive

\* Nobody has heard silence for longer than h has.
Later(h) == \A s \in on : Timer(s) <= Timer(h)

\* s has a frame addressed to it that it has yet to act on.
Receiver(s) == State(s) \in Passive /\ Heard(s) /\ Got(s).dst = s

\* h may send.
Owner(h) ==
    /\ wire = {} /\ h \in todo /\ State(h) \in {"USE_TOKEN", "DONE_WITH_TOKEN"}
    /\ Got(h).type = "none"
    /\ Others({h}, TRUE)

\* What h waits for after it has sent f.
SentBy(h, f) ==
    \/ /\ State(h) = "POLL_FOR_MASTER" /\ f.type = "POLL_FOR_MASTER"
       /\ f.dst # MSTP_BROADCAST_ADDRESS
    \/ /\ State(h) = "WAIT_FOR_REPLY" /\ f.type = "DATA_EXPECTING_REPLY"
       /\ f.dst # MSTP_BROADCAST_ADDRESS
    \/ /\ State(h) = "DONE_WITH_TOKEN"
       /\ \/ f.type = "DATA_NOT_EXPECTING_REPLY"
          \/ f.type = "DATA_EXPECTING_REPLY" /\ f.dst = MSTP_BROADCAST_ADDRESS
    \/ /\ State(h) = "PASS_TOKEN" /\ f.type = "TOKEN"
       /\ f.dst = port[h].Next_Station /\ f.dst # h

\* h has sent f in this tick.
Sent(h, f) ==
    /\ wire = {f} /\ h \notin todo /\ f.src = h /\ Got(h).type = "none"
    /\ SentBy(h, f)
    /\ Others({h}, TRUE)

\* x has heard the poll or the request of h.
Asked(h, x) ==
    /\ wire = {} /\ x # h /\ Receiver(x) /\ Got(x).src = h
    /\ Got(h).type = "none" /\ Timer(h) = 0 /\ Later(h)
    /\ \/ State(h) = "POLL_FOR_MASTER" /\ Got(x).type = "POLL_FOR_MASTER"
       \/ State(h) = "WAIT_FOR_REPLY" /\ Got(x).type = "DATA_EXPECTING_REPLY"
    /\ Others({h, x}, FALSE)

\* h has heard the token.
Passed(h) ==
    /\ wire = {} /\ Receiver(h) /\ Got(h).type = "TOKEN"
    /\ State(h) \in {"IDLE", "PASS_TOKEN"}
    /\ Others({h}, TRUE)

\* x looks for its reply to the request of h.
Answering(h, x) ==
    /\ wire = {} /\ x # h
    /\ State(h) = "WAIT_FOR_REPLY" /\ Got(h).type = "none"
    /\ State(x) = "ANSWER_DATA_REQUEST" /\ Got(x).type = "DATA_EXPECTING_REPLY"
    /\ Got(x).src = h
    /\ Timer(x) = Timer(h) /\ Timer(h) <= Treply_delay + 1
    /\ Timer(h) = Treply_delay + 1 => x \in todo
    /\ Later(h)
    /\ Others({h, x}, FALSE)

\* x has replied to h with f in this tick.
Replied(h, x, f) ==
    /\ wire = {f} /\ x # h /\ f.src = x /\ f.dst = h /\ x \notin todo
    /\ State(x) = "IDLE" /\ Got(x).type = "none" /\ Got(h).type = "none"
    /\ \/ /\ State(h) = "POLL_FOR_MASTER" /\ f.type = "REPLY_TO_POLL_FOR_MASTER"
          /\ Timer(h) = 0
       \/ /\ State(h) = "WAIT_FOR_REPLY"
          /\ f.type \in {"DATA_NOT_EXPECTING_REPLY", "REPLY_POSTPONED"}
          /\ Timer(h) <= Treply_delay + 1
    /\ Others({h}, TRUE)

\* h has heard the reply.
Answered(h) ==
    /\ wire = {} /\ Heard(h) /\ Got(h).dst = h /\ Got(h).src \in on \ {h}
    /\ State(Got(h).src) # "INITIALIZE"
    /\ \/ State(h) = "POLL_FOR_MASTER" /\ Got(h).type = "REPLY_TO_POLL_FOR_MASTER"
       \/ /\ State(h) = "WAIT_FOR_REPLY"
          /\ Got(h).type \in {"DATA_NOT_EXPECTING_REPLY", "REPLY_POSTPONED"}
    /\ Others({h}, FALSE)

\* Nobody answers h.
Waiting(h) ==
    /\ wire = {} /\ Got(h).type = "none" /\ Later(h)
    /\ \/ /\ State(h) = "POLL_FOR_MASTER"
          /\ \/ Timer(h) <= Tusage_timeout
             \/ Timer(h) = Tusage_timeout + 1 /\ h \in todo
       \/ /\ State(h) = "WAIT_FOR_REPLY"
          /\ \/ Timer(h) < Treply_timeout
             \/ Timer(h) = Treply_timeout /\ h \in todo
    /\ Others({h}, FALSE)

\* There is no token yet: all timers agree, and no slot has gone by.
Silent ==
    /\ wire = {}
    /\ \A s \in on : /\ State(s) \in {"INITIALIZE", "IDLE", "NO_TOKEN"}
                     /\ Got(s).type = "none" /\ ~ port[s].heard
                     /\ \A u \in on : Timer(s) = Timer(u)
                     /\ \/ Timer(s) < Tno_token + Tslot * s
                        \/ Timer(s) = Tno_token + Tslot * s /\ s \in todo

\* There is one token, and h has it, has sent it on or has been passed it.
HasToken ==
    \E h \in on :
       \/ Owner(h) \/ Passed(h) \/ Answered(h) \/ Waiting(h)
       \/ \E f \in wire : Sent(h, f)
       \/ \E x \in on : \/ Asked(h, x) \/ Answering(h, x)
                        \/ \E f \in wire : Replied(h, x, f)

\* The inductive invariant.
RingInv ==
    /\ TypeInv
    /\ faults = 0 => AllSane /\ (Silent \/ HasToken)

-----------------------------------------------------------------------------

(* Calls of the state machine, phase by phase.                                *)

\* A step of s leaves the bystanders other than s what they are.
LEMMA OthersKept ==
    ASSUME TypeInv, NEW s \in Stations, Stepped(s), NEW S, s \in S,
           NEW sending \in BOOLEAN, Others(S, sending)
    PROVE  Others(S, sending)' /\ Others(S, TRUE)'
<1>1. ASSUME NEW t \in on \ S
      PROVE  Bystander(t, sending)' /\ Bystander(t, TRUE)'
  <2>1. t \in Stations /\ t # s /\ Bystander(t, sending)
    BY DEF TypeInv, TypeOK, Others
  <2>2. port'[t] = port[t] /\ (t \in todo' <=> t \in todo) /\ (Polled => Polled')
    BY <2>1 DEF Stepped, Polled
  <2>3. QED
    BY <2>1, <2>2 DEF Bystander, State, Timer, Got, Heard
<1>2. on' = on
  BY DEF Stepped
<1>3. QED BY <1>1, <1>2 DEF Others

LEMMA LaterKept ==
    ASSUME TypeInv, NEW s \in Stations, Stepped(s), NEW h \in on, Later(h)
    PROVE  Later(h)'
BY DEF TypeInv, TypeOK, Stepped, Later, Timer

\* A step of a station that is no part of the exchange.
LEMMA Watch ==
    ASSUME TypeInv, AllSane, NEW s \in Stations, MSTP_Master_Node_FSM(s), NEW S,
           s \notin S, NEW sending \in BOOLEAN, Others(S, sending)
    PROVE  /\ AllSane' /\ Stepped(s) /\ Others(S, sending)' /\ wire' = wire
<1>1. Stepped(s) /\ s \in on
  BY NodeStep DEF Stepped, TypeInv, TypeOK
<1>2. wire' = wire /\ Linked(s) /\ Bystander(s, sending)'
  BY <1>1, BystanderStep DEF Others
<1>3. AllSane'
  BY <1>1, <1>2, SaneStep
<1>4. Others(S \cup {s}, sending)'
  BY <1>1, OthersKept DEF Others
<1>5. QED BY <1>1, <1>2, <1>3, <1>4 DEF Others

\* A bystander's step in the phases of one station, and of two.
LEMMA OwnerWatched ==
    ASSUME TypeInv, AllSane, NEW s \in Stations, MSTP_Master_Node_FSM(s),
           NEW h \in on, h # s
    PROVE  /\ Owner(h) => AllSane' /\ Owner(h)'
           /\ Passed(h) => AllSane' /\ Passed(h)'
           /\ Answered(h) => AllSane' /\ Answered(h)'
           /\ Waiting(h) => AllSane' /\ Waiting(h)'
           /\ \A f : Sent(h, f) => AllSane' /\ Sent(h, f)'
<1>1. Stepped(s) /\ h \in Stations
  BY NodeStep DEF TypeInv, TypeOK
<1>2. /\ port'[h] = port[h] /\ (h \in todo' <=> h \in todo) /\ on' = on
      /\ Later(h) => Later(h)'
  BY <1>1, LaterKept DEF Stepped
<1>3. \A sending \in BOOLEAN : Others({h}, sending) =>
         AllSane' /\ Others({h}, sending)' /\ wire' = wire
  BY Watch
<1>4. Owner(h) => AllSane' /\ Owner(h)'
  BY <1>2, <1>3 DEF Owner, State, Got
<1>5. Passed(h) => AllSane' /\ Passed(h)'
  BY <1>2, <1>3 DEF Passed, Receiver, Heard, State, Got, Timer
<1>6. Answered(h) => AllSane' /\ Answered(h)'
  <2> SUFFICES ASSUME Answered(h) PROVE AllSane' /\ Answered(h)'
    OBVIOUS
  <2>1. State(Got(h).src)' # "INITIALIZE" /\ Got(h).src \in Stations
    BY <1>1, <1>2 DEF Answered, State, Stepped, Got, TypeInv, TypeOK
  <2>2. QED BY <1>2, <1>3, <2>1 DEF Answered, Heard, State, Got, Timer
<1>7. Waiting(h) => AllSane' /\ Waiting(h)'
  BY <1>2, <1>3 DEF Waiting, State, Got, Timer
<1>8. ASSUME NEW f, Sent(h, f) PROVE AllSane' /\ Sent(h, f)'
  BY <1>2, <1>3, <1>8 DEF Sent, SentBy, State, Got
<1>9. QED BY <1>4, <1>5, <1>6, <1>7, <1>8

LEMMA PairWatched ==
    ASSUME TypeInv, AllSane, NEW s \in Stations, MSTP_Master_Node_FSM(s),
           NEW h \in on, NEW x \in on, h # s, x # s
    PROVE  /\ Asked(h, x) => AllSane' /\ Asked(h, x)'
           /\ Answering(h, x) => AllSane' /\ Answering(h, x)'
           /\ \A f : Replied(h, x, f) => AllSane' /\ Replied(h, x, f)'
<1>1. Stepped(s) /\ h \in Stations /\ x \in Stations
  BY NodeStep DEF TypeInv, TypeOK
<1>2. /\ port'[h] = port[h] /\ (h \in todo' <=> h \in todo) /\ on' = on
      /\ port'[x] = port[x] /\ (x \in todo' <=> x \in todo)
      /\ Later(h) => Later(h)'
  BY <1>1, LaterKept DEF Stepped
<1>3. \A sending \in BOOLEAN : Others({h, x}, sending) =>
         AllSane' /\ Others({h, x}, sending)' /\ wire' = wire
  BY Watch
<1>4. Others({h}, TRUE) => AllSane' /\ Others({h}, TRUE)' /\ wire' = wire
  BY Watch
<1>5. Asked(h, x) => AllSane' /\ Asked(h, x)'
  BY <1>2, <1>3 DEF Asked, Receiver, Heard, State, Got, Timer
<1>6. Answering(h, x) => AllSane' /\ Answering(h, x)'
  BY <1>2, <1>3 DEF Answering, State, Got, Timer
<1>7. ASSUME NEW f, Replied(h, x, f) PROVE AllSane' /\ Replied(h, x, f)'
  BY <1>2, <1>4, <1>7 DEF Replied, State, Got, Timer
<1>8. QED BY <1>5, <1>6, <1>7

\* A station that waits for an answer and has heard nothing goes on waiting, up
\* to its timeout.
LEMMA WaitStep ==
    ASSUME TypeInv, AllSane, NEW h \in Stations, MSTP_Master_Node_FSM(h),
           Got(h).type = "none",
           \/ State(h) = "POLL_FOR_MASTER" /\ Timer(h) <= Tusage_timeout
           \/ State(h) = "WAIT_FOR_REPLY" /\ Timer(h) < Treply_timeout
    PROVE  port'[h] = port[h] /\ wire' = wire /\ AllSane'
<1>1. /\ Stepped(h) /\ port[h] \in PortType /\ port \in [Stations -> PortType]
      /\ Timer(h) \in Int /\ Sane(h) 
  BY NodeStep, Typed DEF TypeInv, TypeOK, AllSane
<1>2. Got(h).type \notin FrameTypes /\ ~ Spoiled(h)
  BY DEF FrameTypes, Got, Spoiled, Is
<1>3. PollWait(h) \/ WaitForReply(h)
  <2>1. CASE State(h) = "POLL_FOR_MASTER" /\ Timer(h) <= Tusage_timeout
    <3>1. ~ ReceivedReplyToPFM(h) /\ ~ PollUnexpectedFrame(h) /\ ~ PollOver(h)
      BY <1>1, <1>2, <2>1, FrameMembers, Numbers
         DEF ReceivedReplyToPFM, PollUnexpectedFrame, PollOver, PollAnswer, Is,
             Valid, Got, Timer
    <3>2. QED
      BY <2>1, <3>1, NodeByState
         DEF SoleMasterPolled, DoneWithPFM, SendNextPFM, DeclareSoleMaster
  <2>2. CASE State(h) = "WAIT_FOR_REPLY" /\ Timer(h) < Treply_timeout
    <3>1. ~ ReplyTimeout(h) /\ ~ ReplyOrInvalid(h) /\ ~ WaitUnexpectedFrame(h)
      BY <1>1, <1>2, <2>2, Numbers
         DEF ReplyTimeout, ReplyOrInvalid, WaitUnexpectedFrame, Valid, Got, Timer
    <3>2. QED BY <2>2, <3>1, NodeByState
  <2>3. QED BY <2>1, <2>2
<1>4. port'[h] = port[h] /\ wire' = wire
  BY <1>1, <1>3 DEF PollWait, WaitForReply, Return
<1>5. AllSane'
  BY <1>1, <1>4, SaneStep DEF Linked, Sane
<1>6. QED BY <1>4, <1>5

\* The one that asks, while the other one has yet to answer.
LEMMA AskerSteps ==
    ASSUME TypeInv, AllSane, NEW h \in on, MSTP_Master_Node_FSM(h), NEW x \in on
    PROVE  /\ Asked(h, x) => AllSane' /\ Asked(h, x)'
           /\ Answering(h, x) => AllSane' /\ Answering(h, x)'
           /\ \A f : Replied(h, x, f) => AllSane' /\ Replied(h, x, f)'
<1>1. /\ Stepped(h) /\ h \in Stations /\ x \in Stations /\ Timer(h) \in Int
  BY NodeStep, Typed DEF TypeInv, TypeOK
<1>2. /\ on' = on
      /\ Later(h) => Later(h)'
      /\ x # h => port'[x] = port[x] /\ (x \in todo' <=> x \in todo)
  BY <1>1, LaterKept DEF Stepped
<1>3. /\ Others({h, x}, FALSE) => Others({h, x}, FALSE)'
      /\ Others({h}, TRUE) => Others({h}, TRUE)'
  BY <1>1, OthersKept
<1>4. Asked(h, x) => AllSane' /\ Asked(h, x)'
  <2> SUFFICES ASSUME Asked(h, x) PROVE AllSane' /\ Asked(h, x)'
    OBVIOUS
  <2>1. port'[h] = port[h] /\ wire' = wire /\ AllSane'
    BY <1>1, WaitStep, Numbers DEF Asked
  <2>2. QED
    BY <1>2, <1>3, <2>1 DEF Asked, Receiver, Heard, State, Got, Timer
<1>5. Answering(h, x) => AllSane' /\ Answering(h, x)'
  <2> SUFFICES ASSUME Answering(h, x) PROVE AllSane' /\ Answering(h, x)'
    OBVIOUS
  <2>1. port'[h] = port[h] /\ wire' = wire /\ AllSane'
    BY <1>1, WaitStep, Numbers DEF Answering
  <2>2. QED BY <1>2, <1>3, <2>1 DEF Answering, State, Got, Timer
<1>6. ASSUME NEW f, Replied(h, x, f) PROVE AllSane' /\ Replied(h, x, f)'
  <2>1. port'[h] = port[h] /\ wire' = wire /\ AllSane'
    BY <1>1, <1>6, WaitStep, Numbers DEF Replied
  <2>2. QED BY <1>2, <1>3, <1>6, <2>1 DEF Replied, State, Got, Timer
<1>7. QED BY <1>4, <1>5, <1>6

\* The station that is asked wakes up in IDLE and replies to a poll at once; it
\* looks for its reply to a request first.
LEMMA AskedSteps ==
    ASSUME TypeInv, AllSane, NEW h \in on, NEW x \in on, MSTP_Master_Node_FSM(x),
           Asked(h, x)
    PROVE  AllSane' /\ HasToken'
<1>1. /\ Stepped(x) /\ h \in Stations /\ x \in Stations /\ Timer(h) \in Int
      /\ Timer(x) \in Int /\ Sane(x) /\ port[x] \in PortType
      /\ port \in [Stations -> PortType]
  BY NodeStep, Typed DEF TypeInv, TypeOK, AllSane
<1>2. /\ on' = on /\ Later(h)' /\ port'[h] = port[h] /\ x # h /\ x \in todo
  BY <1>1, LaterKept DEF Stepped, Asked
<1>3. Others({h, x}, FALSE)' /\ Others({h, x}, TRUE)'
  BY <1>1, OthersKept DEF Asked
<1>4. /\ State(x) \in Passive /\ Timer(x) = 0 /\ port[x].heard /\ Got(x).dst = x
      /\ Got(x).type \in {"POLL_FOR_MASTER", "DATA_EXPECTING_REPLY"}
      /\ Got(x).src = h
  BY DEF Asked, Receiver, Heard
<1>5. CASE State(x) # "IDLE"
  <2>1. ~ RetrySendToken(x) /\ ~ FindNewSuccessor(x) /\ ~ PassTokenWait(x)
    BY <1>4, Numbers DEF RetrySendToken, FindNewSuccessor, PassTokenWait, Timer
  <2>2. ~ InSlot(x)
    BY <1>1, <1>4, Slots, Numbers DEF InSlot, Timer
  <2>3. ~ GenerateToken(x) /\ ~ NoTokenWait(x)
    BY <1>4, <2>2 DEF GenerateToken, NoTokenWait
  <2>4. DoneInitializing(x) \/ SawTokenUser(x) \/ SawFrame(x)
    BY <1>4, <1>5, <2>1, <2>3, NodeByState DEF Passive
  <2>5. /\ wire' = wire /\ todo' = todo /\ port'[x].master_state = "IDLE"
        /\ port'[x].received = port[x].received
        /\ port'[x].heard = port[x].heard
    <3>1. CASE DoneInitializing(x)
      BY <1>1, <3>1 DEF DoneInitializing, Transition, PortType
    <3>2. CASE SawTokenUser(x)
      BY <1>1, <3>2 DEF SawTokenUser, Transition, PortType
    <3>3. CASE SawFrame(x)
      BY <1>1, <3>3 DEF SawFrame, Transition, PortType
    <3>4. QED BY <2>4, <3>1, <3>2, <3>3
  <2>6. Linked(x)
    BY <1>1, <2>4
       DEF DoneInitializing, SawTokenUser, SawFrame, Transition, PortType, Sane, Linked
  <2>7. Asked(h, x)'
    BY <1>1, <1>2, <1>3, <1>4, <2>5
       DEF Asked, Receiver, Heard, State, Got, Timer, Passive, Stepped
  <2>8. QED BY <1>1, <1>2, <2>6, <2>7, SaneStep DEF HasToken
<1>6. CASE State(x) = "IDLE"
  <2>1. ~ IdleIgnore(x) /\ ~ ReceivedToken(x) /\ ~ LostToken(x) /\ ~ IdleWait(x)
    BY <1>1, <1>4, AddressType, Numbers
       DEF IdleIgnore, ReceivedToken, LostToken, IdleWait, Spoiled, Is, Got
  <2>2. ReceivedPFM(x) \/ ReceivedDataNeedingReply(x)
    BY <1>6, <2>1, NodeByState
  <2>3. CASE ReceivedPFM(x)
    <3> DEFINE f == [type |-> "REPLY_TO_POLL_FOR_MASTER", dst |-> h, src |-> x]
    <3>1. /\ wire' = {f} /\ todo' = todo \ {x} /\ port'[x].master_state = "IDLE"
          /\ port'[x].received.type = "none" /\ Linked(x)
          /\ Got(x).type = "POLL_FOR_MASTER"
      BY <1>1, <1>4, <2>3
         DEF ReceivedPFM, SendFrame, MSTP_Create_And_Send_Frame, Asked, PortType,
             Other, Linked, Sane, Got, In, Is
    <3>2. Bystander(x, TRUE)'
      BY <1>1, <1>4, <3>1, Typed
         DEF Bystander, State, Timer, Got, Passive, Harmless, Heard, Stepped
    <3>3. Others({h}, TRUE)'
      BY <1>3, <3>2 DEF Others
    <3>4. Replied(h, x, f)'
      BY <1>2, <1>4, <3>1, <3>3 DEF Replied, Asked, State, Timer, Got
    <3>5. QED BY <1>1, <1>2, <3>1, <3>4, SaneStep DEF HasToken
  <2>4. CASE ReceivedDataNeedingReply(x)
    <3>1. /\ wire' = {} /\ port'[x].master_state = "ANSWER_DATA_REQUEST"
          /\ port'[x].received = port[x].received /\ Linked(x)
          /\ Got(x).type = "DATA_EXPECTING_REPLY"
      BY <1>1, <1>4, <2>4
         DEF ReceivedDataNeedingReply, Return, Asked, PortType, Linked, Sane,
             Got, Is
    <3>2. /\ port'[x].SilenceTimer = 0 /\ port'[h].SilenceTimer = 0
          /\ port'[h].master_state = "WAIT_FOR_REPLY"
          /\ port'[h].received.type = "none"
      BY <1>1, <1>2, <1>4, <3>1 DEF Asked, Stepped, Timer, State, Got
    <3>3. 0 <= Treply_delay + 1 /\ 0 # Treply_delay + 1
      BY Numbers
    <3>4. Timer(x)' = Timer(h)' /\ Timer(h)' = 0
      BY <3>2 DEF Timer
    <3>5. Answering(h, x)'
      BY <1>2, <1>3, <1>4, <3>1, <3>2, <3>3, <3>4 DEF Answering, State, Got
    <3>6. QED BY <1>1, <1>2, <3>1, <3>5, SaneStep DEF HasToken
  <2>5. QED BY <2>2, <2>3, <2>4
<1>7. QED BY <1>5, <1>6

\* From having the right to send to having sent, and to having it still.
LEMMA SentNow ==
    ASSUME TypeInv, NEW h \in on, Stepped(h), wire = {},
           NEW type, NEW dst, NEW p, SendFrame(h, p, type, dst),
           port'[h].received.type = "none",
           SentBy(h, [type |-> type, dst |-> dst, src |-> h])',
           NEW sending \in BOOLEAN, Others({h}, sending)
    PROVE  HasToken'
<1> DEFINE f == [type |-> type, dst |-> dst, src |-> h]
<1>1. wire' = {f} /\ h \notin todo' /\ on' = on /\ f.src = h
  BY DEF SendFrame, MSTP_Create_And_Send_Frame
<1>2. Others({h}, TRUE)'
  BY OthersKept DEF TypeInv, TypeOK
<1>3. SentBy(h, f)'
  OBVIOUS
<1> HIDE DEF f
<1>4. Sent(h, f)'
  BY <1>1, <1>2, <1>3 DEF Sent, Got
<1>5. QED BY <1>1, <1>4 DEF HasToken

LEMMA OwnerNow ==
    ASSUME TypeInv, NEW h \in on, Stepped(h), wire = {}, wire' = wire,
           todo' = todo, port'[h].received.type = "none",
           port'[h].master_state \in {"USE_TOKEN", "DONE_WITH_TOKEN"},
           NEW sending \in BOOLEAN, Others({h}, sending)
    PROVE  HasToken'
<1>1. Others({h}, TRUE)'
  BY OthersKept DEF TypeInv, TypeOK
<1>2. Owner(h)' /\ on' = on
  BY <1>1 DEF Owner, State, Got, Stepped
<1>3. QED BY <1>2 DEF HasToken

\* The frames that the holder of the token sends, as SentBy sees them.
LEMMA SendsPoll ==
    ASSUME NEW h, NEW dst \in 0..Nmax_master,
           port'[h].master_state = "POLL_FOR_MASTER"
    PROVE  SentBy(h, [type |-> "POLL_FOR_MASTER", dst |-> dst, src |-> h])'
BY AddressType DEF SentBy, State

LEMMA SendsToken ==
    ASSUME NEW h, NEW dst, dst # h, port'[h].Next_Station = dst,
           port'[h].master_state = "PASS_TOKEN"
    PROVE  SentBy(h, [type |-> "TOKEN", dst |-> dst, src |-> h])'
BY DEF SentBy, State

\* The holder of the token, in USE_TOKEN and in DONE_WITH_TOKEN.
LEMMA UseTokenSteps ==
    ASSUME TypeInv, AllSane, NEW h \in on, MSTP_Master_Node_FSM(h), Owner(h),
           State(h) = "USE_TOKEN"
    PROVE  AllSane' /\ HasToken'
<1>1. /\ Stepped(h) /\ h \in Stations /\ Sane(h) /\ port[h] \in PortType
      /\ port \in [Stations -> PortType]
      /\ wire = {} /\ Others({h}, TRUE) /\ port[h].received.type = "none"
  BY NodeStep, Typed DEF TypeInv, TypeOK, AllSane, Owner, Got
<1>2. CASE NothingToSend(h)
  <2>1. /\ wire' = wire /\ todo' = todo /\ port'[h].received.type = "none"
        /\ port'[h].master_state = "DONE_WITH_TOKEN" /\ Linked(h)
    BY <1>1, <1>2 DEF NothingToSend, Transition, PortType, Linked, Sane
  <2>2. QED BY <1>1, <2>1, OwnerNow, SaneStep
<1>3. ASSUME NEW dst \in (Stations \cup {MSTP_BROADCAST_ADDRESS}) \ {h},
             SendNoWait(h, dst) \/ SendAndWait(h, dst)
      PROVE  AllSane' /\ HasToken'
  <2> DEFINE f(type) == [type |-> type, dst |-> dst, src |-> h]
  <2>1. CASE SendNoWait(h, dst)
    <3>1. /\ wire' = {f("DATA_NOT_EXPECTING_REPLY")} /\ h \notin todo'
          /\ port'[h].received.type = "none"
          /\ port'[h].master_state = "DONE_WITH_TOKEN" /\ Linked(h)
      BY <1>1, <2>1
         DEF SendNoWait, MSTP_Create_And_Send_Frame, PortType, Linked, Sane
    <3>2. Sent(h, f("DATA_NOT_EXPECTING_REPLY"))'
      BY <1>1, <3>1, OthersKept DEF Sent, SentBy, State, Got
    <3>3. QED BY <1>1, <3>1, <3>2, SaneStep DEF HasToken, Stepped
  <2>2. CASE SendAndWait(h, dst)
    <3>1. /\ wire' = {f("DATA_EXPECTING_REPLY")} /\ h \notin todo'
          /\ port'[h].received.type = "none"
          /\ dst = MSTP_BROADCAST_ADDRESS =>
               port'[h].master_state = "DONE_WITH_TOKEN"
          /\ dst # MSTP_BROADCAST_ADDRESS =>
               port'[h].master_state = "WAIT_FOR_REPLY"
          /\ Linked(h)
      BY <1>1, <2>2
         DEF SendAndWait, MSTP_Create_And_Send_Frame, PortType, Linked, Sane
    <3>2. Sent(h, f("DATA_EXPECTING_REPLY"))'
      BY <1>1, <3>1, OthersKept DEF Sent, SentBy, State, Got
    <3>3. QED BY <1>1, <3>1, <3>2, SaneStep DEF HasToken, Stepped
  <2>3. QED BY <1>3, <2>1, <2>2
<1>4. QED BY <1>2, <1>3, NodeByState

LEMMA DoneSteps ==
    ASSUME TypeInv, AllSane, NEW h \in on, MSTP_Master_Node_FSM(h), Owner(h),
           State(h) = "DONE_WITH_TOKEN"
    PROVE  AllSane' /\ HasToken'
<1>1. /\ Stepped(h) /\ h \in Stations /\ Sane(h) /\ port[h] \in PortType
      /\ port \in [Stations -> PortType]
      /\ wire = {} /\ Others({h}, TRUE) /\ port[h].received.type = "none"
  BY NodeStep, Typed DEF TypeInv, TypeOK, AllSane, Owner, Got
<1>2. /\ port[h].Next_Station \in 0..Nmax_master
      /\ port[h].Poll_Station \in 0..Nmax_master
      /\ h \in 0..Nmax_master
      /\ NextAddress(h) \in 0..Nmax_master /\ NextAddress(h) # h
  BY <1>1, AddressType, Members DEF PortType
<1>3. CASE SendAnotherFrame(h) \/ SoleMasterUsesTokenAgain(h)
  <2>1. /\ wire' = wire /\ todo' = todo /\ port'[h].received.type = "none"
        /\ port'[h].master_state = "USE_TOKEN" /\ Linked(h)
    <3>1. CASE SendAnotherFrame(h)
      BY <1>1, <3>1 DEF SendAnotherFrame, Transition, PortType, Linked, Sane
    <3>2. CASE SoleMasterUsesTokenAgain(h)
      BY <1>1, <3>2
         DEF SoleMasterUsesTokenAgain, Transition, PortType, Linked, Sane
    <3>3. QED BY <1>3, <3>1, <3>2
  <2>2. QED BY <1>1, <2>1, OwnerNow, SaneStep
<1>4. CASE NextStationUnknown(h)
  <2>1. /\ port'[h].received.type = "none"
        /\ port'[h].master_state = "POLL_FOR_MASTER" /\ Linked(h)
    BY <1>1, <1>4
       DEF NextStationUnknown, SendFrame, MSTP_Create_And_Send_Frame, PortType,
           Linked, Sane
  <2>2. HasToken'
    BY <1>1, <1>2, <1>4, <2>1, SentNow, SendsPoll DEF NextStationUnknown
  <2>3. QED BY <1>1, <2>1, <2>2, SaneStep
<1>5. CASE SendToken(h)
  <2>1. /\ port'[h].received.type = "none"
        /\ port'[h].master_state = "PASS_TOKEN" /\ Linked(h)
        /\ port'[h].Next_Station = port[h].Next_Station
    BY <1>1, <1>5
       DEF SendToken, SendFrame, MSTP_Create_And_Send_Frame, PortType, Linked, Sane
  <2>2. port[h].Next_Station # h
    BY <1>1, <1>2, <1>5 DEF SendToken, Sane, NextUnknown
  <2>3. HasToken'
    BY <1>1, <1>5, <2>1, <2>2, SentNow, SendsToken DEF SendToken
  <2>4. QED BY <1>1, <2>1, <2>3, SaneStep
<1>6. CASE SoleMasterRestartMaintenancePFM(h)
  <2>1. /\ port'[h].received.type = "none" /\ port'[h].Next_Station = h
        /\ port'[h].master_state = "POLL_FOR_MASTER"
    BY <1>1, <1>6
       DEF SoleMasterRestartMaintenancePFM, SendFrame,
           MSTP_Create_And_Send_Frame, PortType
  <2>2. NextAddress(port[h].Next_Station) \in 0..Nmax_master
    BY <1>2, AddressType
  <2>3. HasToken'
    BY <1>1, <1>6, <2>1, <2>2, SentNow, SendsPoll
       DEF SoleMasterRestartMaintenancePFM
  <2>4. QED BY <1>1, <2>1, <2>3, SaneStep DEF Linked
<1>7. CASE ResetMaintenancePFM(h)
  <2>1. /\ port'[h].received.type = "none"
        /\ port'[h].master_state = "PASS_TOKEN" /\ Linked(h)
        /\ port'[h].Next_Station = port[h].Next_Station
    BY <1>1, <1>7
       DEF ResetMaintenancePFM, SendFrame, MSTP_Create_And_Send_Frame, PortType,
           Linked, Sane
  <2>2. port[h].Next_Station # h
    BY <1>1, <1>2, <1>7 DEF ResetMaintenancePFM, PollDue, NextUnknown
  <2>3. HasToken'
    BY <1>1, <1>7, <2>1, <2>2, SentNow, SendsToken DEF ResetMaintenancePFM
  <2>4. QED BY <1>1, <2>1, <2>3, SaneStep
<1>8. CASE SendMaintenancePFM(h)
  <2>1. /\ port'[h].received.type = "none"
        /\ port'[h].master_state = "POLL_FOR_MASTER" /\ Linked(h)
    BY <1>1, <1>8
       DEF SendMaintenancePFM, SendFrame, MSTP_Create_And_Send_Frame, PortType,
           Linked, Sane
  <2>2. NextAddress(port[h].Poll_Station) \in 0..Nmax_master
    BY <1>2, AddressType
  <2>3. HasToken'
    BY <1>1, <1>8, <2>1, <2>2, SentNow, SendsPoll DEF SendMaintenancePFM
  <2>4. QED BY <1>1, <2>1, <2>3, SaneStep
<1>9. QED
  BY <1>3, <1>4, <1>5, <1>6, <1>7, <1>8, NodeByState

\* The one that hears the token takes it.
LEMMA PassedSteps ==
    ASSUME TypeInv, AllSane, NEW h \in on, MSTP_Master_Node_FSM(h), Passed(h)
    PROVE  AllSane' /\ HasToken'
<1>1. /\ Stepped(h) /\ h \in Stations /\ Sane(h) /\ port[h] \in PortType
      /\ port \in [Stations -> PortType]
      /\ wire = {} /\ Others({h}, TRUE) /\ Others({h}, TRUE)'
      /\ Timer(h) = 0 /\ port[h].heard /\ Got(h).type = "TOKEN" /\ h \in todo
  BY NodeStep, Typed, OthersKept
     DEF TypeInv, TypeOK, AllSane, Passed, Receiver, Heard
<1>2. CASE State(h) = "IDLE"
  <2>1. ReceivedToken(h)
    BY <1>1, <1>2, NodeByState
       DEF IdleIgnore, ReceivedPFM, ReceivedDataNeedingReply, LostToken,
           IdleWait, Spoiled, Is, Got
  <2>2. /\ wire' = wire /\ todo' = todo /\ port'[h].received.type = "none"
        /\ port'[h].master_state = "USE_TOKEN" /\ Linked(h)
    BY <1>1, <2>1 DEF ReceivedToken, Transition, PortType, Linked, Sane, Other
  <2>3. QED BY <1>1, <2>2, OwnerNow, SaneStep
<1>3. CASE State(h) = "PASS_TOKEN"
  <2>0. ~ PassTokenWait(h) /\ ~ RetrySendToken(h) /\ ~ FindNewSuccessor(h)
    BY <1>1, Numbers DEF PassTokenWait, RetrySendToken, FindNewSuccessor, Timer
  <2>1. SawTokenUser(h)
    BY <1>3, <2>0, NodeByState
  <2>2. /\ wire' = wire /\ todo' = todo /\ port'[h].master_state = "IDLE"
        /\ port'[h].received = port[h].received
        /\ port'[h].heard = port[h].heard /\ Linked(h)
    BY <1>1, <2>1 DEF SawTokenUser, Transition, PortType, Linked, Sane
  <2>3. Passed(h)' /\ on' = on
    BY <1>1, <2>2
       DEF Passed, Receiver, Heard, State, Got, Timer, Passive, Stepped
  <2>4. QED BY <1>1, <2>2, <2>3, SaneStep DEF HasToken
<1>4. QED BY <1>2, <1>3 DEF Passed

\* A reply, or its postponement, is out before Treply_timeout.
LEMMA AnsweringSteps ==
    ASSUME TypeInv, AllSane, NEW h \in on, NEW x \in on, MSTP_Master_Node_FSM(x),
           Answering(h, x)
    PROVE  AllSane' /\ HasToken'
<1>1. /\ Stepped(x) /\ h \in Stations /\ x \in Stations /\ Timer(h) \in Int
      /\ Timer(x) \in Int /\ Sane(x) /\ port[x] \in PortType
      /\ port \in [Stations -> PortType]
  BY NodeStep, Typed DEF TypeInv, TypeOK, AllSane
<1>2. /\ on' = on /\ Later(h)' /\ port'[h] = port[h] /\ x # h /\ x \in todo
      /\ port'[x].SilenceTimer = port[x].SilenceTimer
  BY <1>1, LaterKept DEF Stepped, Answering
<1>3. Others({h, x}, FALSE)' /\ Others({h, x}, TRUE)'
  BY <1>1, OthersKept DEF Answering
<1>4. Timer(x) <= Treply_delay + 1 /\ Timer(x) = Timer(h) /\ Got(x).src = h
  BY DEF Answering
<1>5. Reply(x) \/ DeferredReply(x) \/ AnswerWait(x)
  BY NodeByState DEF Answering
<1>6. ASSUME NEW type \in {"DATA_NOT_EXPECTING_REPLY", "REPLY_POSTPONED"},
             NEW p, p = [port[x] EXCEPT !.TokenCount = 0,
                            !.received = Other("none"), !.master_state = "IDLE"],
             SendFrame(x, p, type, h)
      PROVE  AllSane' /\ HasToken'
  <2> DEFINE f == [type |-> type, dst |-> h, src |-> x]
  <2>1. /\ wire' = {f} /\ todo' = todo \ {x} /\ port'[x].master_state = "IDLE"
        /\ port'[x].received.type = "none" /\ Linked(x)
    BY <1>1, <1>6
       DEF SendFrame, MSTP_Create_And_Send_Frame, Answering, PortType, Other,
           Linked, Sane
  <2>2. Timer(x) < Tno_token /\ Timer(x) < Tno_token + Tslot * x
    BY <1>1, <1>4, Numbers, Slots
  <2>3. Bystander(x, TRUE)'
    BY <1>2, <2>1, <2>2
       DEF Bystander, State, Timer, Got, Passive, Harmless, Heard
  <2>4. Others({h}, TRUE)'
    BY <1>3, <2>3 DEF Others
  <2>5. /\ State(h)' = "WAIT_FOR_REPLY" /\ Got(h)'.type = "none"
        /\ Timer(h)' <= Treply_delay + 1 /\ State(x)' = "IDLE"
        /\ Got(x)'.type = "none" /\ x \notin todo'
        /\ f.src = x /\ f.dst = h /\ f.type = type
    BY <1>2, <2>1 DEF Answering, State, Timer, Got
  <2> HIDE DEF f
  <2>6. Replied(h, x, f)'
    BY <1>2, <2>1, <2>4, <2>5 DEF Replied
  <2>7. QED BY <1>1, <1>2, <2>1, <2>6, SaneStep DEF HasToken
<1>7. CASE Reply(x)
  BY <1>4, <1>6, <1>7 DEF Reply, Got
<1>8. CASE DeferredReply(x)
  BY <1>4, <1>6, <1>8 DEF DeferredReply, Got
<1>9. CASE AnswerWait(x)
  <2>1. /\ wire' = {} /\ Timer(x) <= Treply_delay
        /\ port'[x].master_state = port[x].master_state
        /\ port'[x].received = port[x].received /\ Linked(x)
    BY <1>1, <1>9
       DEF AnswerWait, Return, Answering, PortType, Linked, Sane, Timer
  <2>2. Timer(h)' = Timer(h) /\ Timer(x)' = Timer(h) /\ Timer(h) # Treply_delay + 1
    BY <1>1, <1>2, <1>4, <2>1, Numbers DEF Timer
  <2>3. Answering(h, x)'
    BY <1>2, <1>3, <2>1, <2>2 DEF Answering, State, Got
  <2>4. QED BY <1>1, <1>2, <2>1, <2>3, SaneStep DEF HasToken
<1>10. QED BY <1>5, <1>7, <1>8, <1>9

\* The holder that gets its answer.
LEMMA AnsweredSteps ==
    ASSUME TypeInv, AllSane, NEW h \in on, MSTP_Master_Node_FSM(h), Answered(h)
    PROVE  AllSane' /\ HasToken'
<1>1. /\ Stepped(h) /\ h \in Stations /\ Sane(h) /\ port[h] \in PortType
      /\ port \in [Stations -> PortType]
      /\ wire = {} /\ Others({h}, FALSE)
      /\ Timer(h) = 0 /\ port[h].received.dst = h
  BY NodeStep, Typed, OthersKept
     DEF TypeInv, TypeOK, AllSane, Answered, Heard, Got
<1>2. CASE State(h) = "POLL_FOR_MASTER"
  <2> DEFINE ns == port[h].received.src
  <2>1. /\ port[h].received.type = "REPLY_TO_POLL_FOR_MASTER"
        /\ ns \in on /\ ns # h /\ port[ns].master_state # "INITIALIZE"
    BY <1>2 DEF Answered, Got, State
  <2>2. PollAnswer(h) /\ Valid(h)
    BY <1>1, <2>1, FrameMembers DEF PollAnswer, Is, Valid
  <2>3. ReceivedReplyToPFM(h)
    BY <1>2, <2>1, <2>2, NodeByState
       DEF PollUnexpectedFrame, PollWait, PollOver, SoleMasterPolled, DoneWithPFM,
           SendNextPFM, DeclareSoleMaster, Is
  <2>4. /\ port'[h].received.type = "none" /\ port'[h].Next_Station = ns
        /\ port'[h].master_state = "PASS_TOKEN" /\ ~ port'[h].SoleMaster
    BY <1>1, <2>3
       DEF ReceivedReplyToPFM, SendFrame, MSTP_Create_And_Send_Frame, PortType,
           Other
  <2>5. HasToken'
    BY <1>1, <2>1, <2>3, <2>4, SentNow, SendsToken DEF ReceivedReplyToPFM
  <2> HIDE DEF ns
  <2>6. on' = on /\ port'[ns] = port[ns] /\ on \subseteq Stations
    BY <1>1, <2>1 DEF Stepped, TypeInv, TypeOK
  <2>7. Sane(h)'
    BY <1>1, <2>1, <2>4, <2>6 DEF Sane, Stepped
  <2>8. ASSUME NEW t \in Stations, t # h
        PROVE  Sane(t)'
    BY <1>1, <2>6, <2>8 DEF AllSane, Sane, Stepped
  <2>9. QED BY <2>5, <2>7, <2>8 DEF AllSane
<1>3. CASE State(h) = "WAIT_FOR_REPLY"
  <2>1. port[h].received.type \in {"DATA_NOT_EXPECTING_REPLY", "REPLY_POSTPONED"}
    BY <1>3 DEF Answered, Got
  <2>0. ~ ReplyTimeout(h) /\ ~ WaitUnexpectedFrame(h) /\ ~ WaitForReply(h)
    BY <1>1, <2>1, Numbers
       DEF ReplyTimeout, WaitUnexpectedFrame, WaitForReply, Is, Timer
  <2>2. ReplyOrInvalid(h)
    BY <1>3, <2>0, NodeByState
  <2>3. /\ wire' = wire /\ todo' = todo /\ port'[h].received.type = "none"
        /\ port'[h].master_state = "DONE_WITH_TOKEN" /\ Linked(h)
    BY <1>1, <2>2 DEF ReplyOrInvalid, Transition, PortType, Linked, Sane, Other
  <2>4. QED BY <1>1, <2>3, OwnerNow, SaneStep
<1>4. QED BY <1>2, <1>3 DEF Answered

\* The holder that gets none.
LEMMA WaitingSteps ==
    ASSUME TypeInv, AllSane, NEW h \in on, MSTP_Master_Node_FSM(h), Waiting(h)
    PROVE  AllSane' /\ HasToken'
<1>1. /\ Stepped(h) /\ h \in Stations /\ Sane(h) /\ port[h] \in PortType
      /\ port \in [Stations -> PortType] /\ Timer(h) \in Int
      /\ wire = {} /\ Others({h}, FALSE) /\ port[h].received.type = "none"
      /\ on' = on /\ Later(h)' /\ Others({h}, FALSE)'
      /\ port[h].Poll_Station \in 0..Nmax_master
  <2>1. Stepped(h) /\ h \in Stations /\ port[h] \in PortType
    BY NodeStep, Typed DEF TypeInv, TypeOK
  <2>2. Later(h)' /\ Others({h}, FALSE)'
    BY <2>1, LaterKept, OthersKept DEF Waiting
  <2>3. QED
    BY <2>1, <2>2, Typed DEF TypeInv, TypeOK, AllSane, Waiting, Got, Stepped,
       PortType
<1>2. CASE \/ State(h) = "POLL_FOR_MASTER" /\ Timer(h) <= Tusage_timeout
           \/ State(h) = "WAIT_FOR_REPLY" /\ Timer(h) < Treply_timeout
  <2>1. port'[h] = port[h] /\ wire' = wire /\ AllSane'
    BY <1>1, <1>2, WaitStep DEF Got
  <2>2. Waiting(h)'
    BY <1>1, <1>2, <2>1 DEF Waiting, State, Got, Timer
  <2>3. QED BY <1>1, <2>1, <2>2 DEF HasToken
<1>3. CASE State(h) = "WAIT_FOR_REPLY" /\ Timer(h) = Treply_timeout
  <2>0. ~ ReplyOrInvalid(h) /\ ~ WaitUnexpectedFrame(h) /\ ~ WaitForReply(h)
    BY <1>1, <1>3, Numbers
       DEF ReplyOrInvalid, WaitUnexpectedFrame, WaitForReply, Timer
  <2>1. ReplyTimeout(h)
    BY <1>3, <2>0, NodeByState
  <2>2. /\ wire' = wire /\ todo' = todo /\ port'[h].received.type = "none"
        /\ port'[h].master_state = "DONE_WITH_TOKEN" /\ Linked(h)
    BY <1>1, <2>1 DEF ReplyTimeout, Transition, PortType, Linked, Sane
  <2>3. QED BY <1>1, <2>2, OwnerNow, SaneStep
<1>4. CASE State(h) = "POLL_FOR_MASTER" /\ Timer(h) = Tusage_timeout + 1
  <2>1. \/ SoleMasterPolled(h) \/ DoneWithPFM(h) \/ SendNextPFM(h)
        \/ DeclareSoleMaster(h)
    <3>1. ~ ReceivedReplyToPFM(h) /\ ~ PollUnexpectedFrame(h)
      BY <1>1 DEF ReceivedReplyToPFM, PollUnexpectedFrame, PollAnswer, Is,
                  Valid, FrameTypes
    <3>2. ~ PollWait(h)
      BY <1>1, <1>4, Numbers DEF PollWait, Timer
    <3>3. QED BY <1>4, <3>1, <3>2, NodeByState
  <2>2. CASE SoleMasterPolled(h)
    <3>1. /\ wire' = wire /\ todo' = todo /\ port'[h].received.type = "none"
          /\ port'[h].master_state = "USE_TOKEN" /\ Linked(h)
      BY <1>1, <2>2
         DEF SoleMasterPolled, Transition, PortType, Linked, Sane, Other
    <3>2. QED BY <1>1, <3>1, OwnerNow, SaneStep
  <2>3. CASE DeclareSoleMaster(h)
    <3>1. /\ wire' = wire /\ todo' = todo /\ port'[h].received.type = "none"
          /\ port'[h].master_state = "USE_TOKEN" /\ Linked(h)
      BY <1>1, <2>3
         DEF DeclareSoleMaster, NextUnknown, Transition, PortType, Linked, Sane,
             Other
    <3>2. QED BY <1>1, <3>1, OwnerNow, SaneStep
  <2>4. CASE DoneWithPFM(h)
    <3>1. /\ port'[h].received.type = "none" /\ port[h].Next_Station # h
          /\ port'[h].Next_Station = port[h].Next_Station
          /\ port'[h].master_state = "PASS_TOKEN" /\ Linked(h)
      BY <1>1, <2>4
         DEF DoneWithPFM, SendFrame, MSTP_Create_And_Send_Frame, PortType, Linked,
             Sane, Other
    <3>2. HasToken'
      BY <1>1, <2>4, <3>1, SentNow, SendsToken DEF DoneWithPFM
    <3>3. QED BY <1>1, <3>1, <3>2, SaneStep
  <2>5. CASE SendNextPFM(h)
    <3>1. /\ port'[h].received.type = "none" /\ Linked(h)
          /\ port'[h].master_state = "POLL_FOR_MASTER"
      BY <1>1, <1>4, <2>5
         DEF SendNextPFM, SendFrame, MSTP_Create_And_Send_Frame, PortType, Linked,
             Sane, Other, State
    <3>2. NextAddress(port[h].Poll_Station) \in 0..Nmax_master
      BY <1>1, AddressType
    <3>3. HasToken'
      BY <1>1, <2>5, <3>1, <3>2, SentNow, SendsPoll DEF SendNextPFM
    <3>4. QED BY <1>1, <3>1, <3>3, SaneStep
  <2>6. QED BY <2>1, <2>2, <2>3, <2>4, <2>5
<1>5. QED BY <1>2, <1>3, <1>4 DEF Waiting

\* The slots: only the lowest address that is on makes the first token.
LEMMA SilentSteps ==
    ASSUME TypeInv, AllSane, NEW s \in Stations, MSTP_Master_Node_FSM(s), Silent
    PROVE  AllSane' /\ (Silent' \/ HasToken')
<1>1. /\ Stepped(s) /\ Sane(s) /\ port[s] \in PortType /\ s \in on /\ s \in todo
      /\ port \in [Stations -> PortType] /\ on \subseteq Stations
      /\ Timer(s) \in Int /\ wire = {} /\ on' = on
      /\ Tno_token \in Int /\ Tno_token > 0 /\ Tslot * s \in Int
      /\ Tslot * s >= 0
  BY NodeStep, Typed DEF TypeInv, TypeOK, AllSane, Stepped, Silent
<1>2. /\ State(s) \in {"INITIALIZE", "IDLE", "NO_TOKEN"}
      /\ Got(s).type = "none" /\ ~ port[s].heard
      /\ \A u \in on : Timer(s) = Timer(u)
      /\ Timer(s) <= Tno_token + Tslot * s
  BY <1>1 DEF Silent
<1>3. ASSUME wire' = {}, Linked(s), todo' \in {todo, todo \ {s}},
             port'[s].master_state \in {"INITIALIZE", "IDLE", "NO_TOKEN"},
             port'[s].received.type = "none", ~ port'[s].heard,
             s \in todo' \/ Timer(s) < Tno_token + Tslot * s
      PROVE  AllSane' /\ Silent'
  <2>1. AllSane'
    BY <1>1, <1>3, SaneStep
  <2>2. \A u \in on : Timer(u)' = Timer(u)
    BY <1>1 DEF Stepped, Timer
  <2>3. ASSUME NEW u \in on
        PROVE  /\ State(u)' \in {"INITIALIZE", "IDLE", "NO_TOKEN"}
               /\ Got(u)'.type = "none" /\ ~ port'[u].heard
               /\ \/ Timer(u)' < Tno_token + Tslot * u
                  \/ Timer(u)' = Tno_token + Tslot * u /\ u \in todo'
    <3>1. CASE u = s
      BY <1>1, <1>2, <1>3, <2>2, <3>1 DEF State, Got, Silent
    <3>2. CASE u # s
      <4>1. port'[u] = port[u] /\ (u \in todo' <=> u \in todo)
        BY <1>1, <1>3, <3>2 DEF Stepped
      <4>2. QED BY <2>2, <4>1 DEF State, Got, Silent
    <3>3. QED BY <3>1, <3>2
  <2>4. \A u, v \in on : Timer(u)' = Timer(v)'
    BY <2>2 DEF Silent
  <2>5. QED BY <1>1, <1>3, <2>1, <2>3, <2>4 DEF Silent
<1>4. CASE State(s) = "INITIALIZE"
  <2>1. DoneInitializing(s)
    BY <1>4, NodeByState
  <2>2. /\ wire' = wire /\ todo' = todo /\ port'[s].heard = port[s].heard
        /\ port'[s].received = port[s].received /\ port'[s].master_state = "IDLE"
        /\ Linked(s)
    BY <1>1, <2>1 DEF DoneInitializing, Transition, PortType, Linked
  <2>3. QED BY <1>1, <1>2, <1>3, <2>2 DEF Got
<1>5. CASE State(s) = "IDLE"
  <2>1. LostToken(s) \/ IdleWait(s)
    BY <1>2, <1>5, NodeByState
       DEF IdleIgnore, ReceivedToken, ReceivedPFM, ReceivedDataNeedingReply,
           Spoiled, Is, Got
  <2>2. CASE LostToken(s)
    <3>1. /\ wire' = wire /\ todo' = todo /\ ~ port'[s].heard /\ Linked(s)
          /\ port'[s].received = port[s].received
          /\ port'[s].master_state = "NO_TOKEN"
      BY <1>1, <2>2 DEF LostToken, Transition, PortType, Linked, Sane
    <3>2. QED BY <1>1, <1>2, <1>3, <3>1 DEF Got
  <2>3. CASE IdleWait(s)
    <3>1. wire' = wire /\ port'[s] = port[s] /\ todo' = todo \ {s} /\ Linked(s)
      BY <1>1, <2>3 DEF IdleWait, Return, Linked, Sane
    <3>2. Timer(s) < Tno_token + Tslot * s
      BY <1>1, <2>3 DEF IdleWait, Timer
    <3>3. QED BY <1>1, <1>2, <1>3, <1>5, <3>1, <3>2 DEF Got, State
  <2>4. QED BY <2>1, <2>2, <2>3
<1>6. CASE State(s) = "NO_TOKEN"
  <2>1. NoTokenWait(s) \/ GenerateToken(s)
    BY <1>2, <1>6, NodeByState DEF SawFrame
  <2>2. CASE NoTokenWait(s)
    <3>1. /\ wire' = wire /\ port'[s] = port[s] /\ todo' = todo \ {s} /\ Linked(s)
          /\ ~ InSlot(s)
      BY <1>1, <2>2 DEF NoTokenWait, Return, Linked, Sane
    <3>2. Timer(s) < Tno_token + Tslot * s
      BY <1>1, <1>2, <3>1, Slots, Numbers DEF InSlot, Timer
    <3>3. QED BY <1>1, <1>2, <1>3, <1>6, <3>1, <3>2 DEF Got, State
  <2>3. CASE GenerateToken(s)
    <3>1. /\ port'[s].received.type = "none" /\ port'[s].Next_Station = s
          /\ port'[s].master_state = "POLL_FOR_MASTER"
          /\ wire' = {[type |-> "POLL_FOR_MASTER", dst |-> NextAddress(s),
                       src |-> s]}
          /\ todo' = todo \ {s} /\ InSlot(s)
      BY <1>1, <1>2, <2>3
         DEF GenerateToken, SendFrame, MSTP_Create_And_Send_Frame, PortType, Got
    <3> DEFINE f == [type |-> "POLL_FOR_MASTER", dst |-> NextAddress(s), src |-> s]
    <3>2. Timer(s) = Tno_token + Tslot * s
      BY <1>1, <1>2, <3>1 DEF InSlot, Timer
    <3>3. ASSUME NEW u \in on, u # s
          PROVE  Bystander(u, TRUE)'
      <4>1. u \in Stations /\ Timer(u) = Timer(s) /\ Tslot * u \in Int
        BY <1>1, <1>2, Slots
      <4>2. Timer(u) < Tno_token + Tslot * u
        BY <1>1, <3>2, <3>3, <4>1, Slots DEF Silent
      <4>3. port'[u] = port[u] /\ Polled'
        BY <1>1, <3>1, <3>3, <4>1 DEF Stepped, Polled
      <4>4. State(u) \in {"INITIALIZE", "IDLE", "NO_TOKEN"} /\ Got(u).type = "none"
        BY DEF Silent
      <4>5. QED
        BY <4>2, <4>3, <4>4 DEF Bystander, State, Got, Timer, Passive, Harmless
    <3>4. SentBy(s, f)'
      BY <3>1, SendsPoll, AddressType, Members
    <3>5. Sent(s, f)'
      BY <1>1, <3>1, <3>3, <3>4 DEF Sent, Others, Got
    <3>6. QED BY <1>1, <3>1, <3>5, SaneStep DEF HasToken, Linked
  <2>4. QED BY <2>1, <2>2, <2>3
<1>7. QED BY <1>2, <1>4, <1>5, <1>6

\* Every call of the state machine.
LEMMA RingStep ==
    ASSUME TypeInv, AllSane, NEW s \in Stations, MSTP_Master_Node_FSM(s)
    PROVE  /\ HasToken => AllSane' /\ HasToken'
           /\ Silent => AllSane' /\ (Silent' \/ HasToken')
<1> SUFFICES ASSUME HasToken PROVE AllSane' /\ HasToken'
  BY SilentSteps
<1>1. s \in on /\ on' = on
  BY NodeStep DEF Stepped, TypeInv, TypeOK
<1>2. PICK h \in on :
         \/ Owner(h) \/ Passed(h) \/ Answered(h) \/ Waiting(h)
         \/ \E f \in wire : Sent(h, f)
         \/ \E x \in on : \/ Asked(h, x) \/ Answering(h, x)
                          \/ \E f \in wire : Replied(h, x, f)
  BY DEF HasToken
<1>3. CASE Owner(h)
  <2>1. State(h) \in {"USE_TOKEN", "DONE_WITH_TOKEN"}
    BY <1>3 DEF Owner
  <2>2. QED
    BY <1>1, <1>3, <2>1, OwnerWatched, UseTokenSteps, DoneSteps DEF HasToken
<1>4. CASE Passed(h)
  BY <1>1, <1>4, OwnerWatched, PassedSteps DEF HasToken
<1>5. CASE Answered(h)
  BY <1>1, <1>5, OwnerWatched, AnsweredSteps DEF HasToken
<1>6. CASE Waiting(h)
  BY <1>1, <1>6, OwnerWatched, WaitingSteps DEF HasToken
<1>7. ASSUME NEW f \in wire, Sent(h, f)
      PROVE  AllSane' /\ HasToken'
  <2>1. h # s
    BY <1>7, NodeStep DEF Sent, Stepped
  <2>2. AllSane' /\ Sent(h, f)'
    BY <1>7, <2>1, OwnerWatched
  <2>3. f \in wire'
    BY <2>2 DEF Sent
  <2>4. QED BY <1>1, <2>2, <2>3 DEF HasToken
<1>8. ASSUME NEW x \in on, Asked(h, x)
      PROVE  AllSane' /\ HasToken'
  BY <1>1, <1>8, PairWatched, AskerSteps, AskedSteps DEF HasToken
<1>9. ASSUME NEW x \in on, Answering(h, x)
      PROVE  AllSane' /\ HasToken'
  BY <1>1, <1>9, PairWatched, AskerSteps, AnsweringSteps DEF HasToken
<1>10. ASSUME NEW x \in on, NEW f \in wire, Replied(h, x, f)
       PROVE  AllSane' /\ HasToken'
  <2>1. x # s
    BY <1>10, NodeStep DEF Replied, Stepped
  <2>2. AllSane' /\ Replied(h, x, f)'
    BY <1>1, <1>10, <2>1, PairWatched, AskerSteps
  <2>3. f \in wire'
    BY <2>2 DEF Replied
  <2>4. QED BY <1>1, <2>2, <2>3 DEF HasToken
<1>11. QED BY <1>2, <1>3, <1>4, <1>5, <1>6, <1>7, <1>8, <1>9, <1>10

-----------------------------------------------------------------------------
(* Ticks, phase by phase.                                                     *)

\* What a tick leaves alone, whatever is heard.
Aged(s) ==
    /\ port'[s].master_state = port[s].master_state
    /\ port'[s].Next_Station = port[s].Next_Station
    /\ port'[s].SoleMaster = port[s].SoleMaster
    /\ port'[s].uart = << >>

LEMMA TickFrame ==
    ASSUME Tick
    PROVE  /\ todo = {} /\ wire' = {} /\ todo' = on /\ on' = on
           /\ faults' = faults
BY DEF Tick, dlmstp_receive

LEMMA TickPort ==
    ASSUME Tick
    PROVE  \E c \in {"invalid", "noise"} :
              port' = [s \in Stations |->
                         IF s \notin on THEN port[s]
                         ELSE MSTP_Receive_Frame_FSM(s, Ticked(s, OnLine(s, c)))]
BY DEF Tick, dlmstp_receive, Ticked, Elapsed

\* A tick of a silent line.
LEMMA QuietTick ==
    ASSUME TypeInv, AllSane, Tick, wire = {}, NEW s \in on
    PROVE  /\ Aged(s) /\ port'[s].received = port[s].received
           /\ port'[s].heard = port[s].heard
           /\ Timer(s)' = IF Timer(s) > mm_timeout THEN Timer(s) ELSE Timer(s) + 1
<1>1. PICK c \in {"invalid", "noise"} :
         port' = [t \in Stations |->
                    IF t \notin on THEN port[t]
                    ELSE MSTP_Receive_Frame_FSM(t, Ticked(t, OnLine(t, c)))]
  BY TickPort
<1>2. s \in Stations /\ port[s] \in PortType /\ port[s].uart = << >>
  BY Typed DEF TypeInv, TypeOK, AllSane, Sane
<1>3. OnLine(s, c) = << >> /\ s \notin Senders
  BY DEF OnLine, Senders
<1> DEFINE p == Ticked(s, << >>)
<1>4. << >> \o << >> = << >>
  OBVIOUS
<1>5. /\ p.uart = << >> /\ p.received = port[s].received
      /\ p.heard = port[s].heard /\ p.master_state = port[s].master_state
      /\ p.Next_Station = port[s].Next_Station
      /\ p.SoleMaster = port[s].SoleMaster
      /\ p.SilenceTimer = IF Timer(s) > mm_timeout THEN Timer(s) ELSE Timer(s) + 1
  BY <1>2, <1>3, <1>4 DEF Ticked, PortType, Elapsed, Timer
<1> HIDE DEF p
<1>6. port'[s] = p
  BY <1>1, <1>2, <1>3, <1>5 DEF MSTP_Receive_Frame_FSM, p
<1>7. QED BY <1>5, <1>6 DEF Aged, Timer

\* A tick in which one frame is heard.
LEMMA FrameTick ==
    ASSUME TypeInv, AllSane, Tick, NEW f, wire = {f}, NEW s \in on,
           Got(s).type = "none"
    PROVE  /\ Aged(s) /\ Timer(s)' = 0
           /\ s = f.src => port'[s].received = port[s].received
           /\ s # f.src =>
                /\ port'[s].heard
                /\ Got(s)' = IF MSTP_Frame_For_Us(s, f) THEN f
                             ELSE Other("ValidFrameNotForUs")
<1>1. PICK c \in {"invalid", "noise"} :
         port' = [t \in Stations |->
                    IF t \notin on THEN port[t]
                    ELSE MSTP_Receive_Frame_FSM(t, Ticked(t, OnLine(t, c)))]
  BY TickPort
<1>2. s \in Stations /\ port[s] \in PortType /\ port[s].uart = << >>
  BY Typed DEF TypeInv, TypeOK, AllSane, Sane
<1>3. f \in Frame /\ f.type \notin {"noise", "short", "invalid"}
  BY DEF TypeInv, TypeOK, Frame, FrameTypes
<1>4. Senders = {f.src} /\ Cardinality(wire) = 1 /\ (CHOOSE g \in wire : TRUE) = f
  BY FS_Singleton DEF Senders
<1>6. CASE s = f.src
  <2> DEFINE p == Ticked(s, << >>)
  <2>1. OnLine(s, c) = << >> /\ Elapsed(s) = 0
    BY <1>4, <1>6 DEF OnLine, Elapsed
  <2>2. << >> \o << >> = << >>
    OBVIOUS
  <2>3. /\ p.uart = << >> /\ p.received = port[s].received
        /\ p.master_state = port[s].master_state
        /\ p.Next_Station = port[s].Next_Station
        /\ p.SoleMaster = port[s].SoleMaster /\ p.SilenceTimer = 0
    BY <1>2, <2>1, <2>2 DEF Ticked, PortType
  <2> HIDE DEF p
  <2>4. port'[s] = p
    BY <1>1, <1>2, <2>1, <2>3 DEF MSTP_Receive_Frame_FSM, p
  <2>5. QED BY <1>6, <2>3, <2>4 DEF Aged, Timer
<1>7. CASE s # f.src
  <2> DEFINE p == Ticked(s, <<f>>)
             q == [p EXCEPT !.uart = Tail(@), !.SilenceTimer = 0]
             r == IF MSTP_Frame_For_Us(s, f) THEN f ELSE Other("ValidFrameNotForUs")
  <2>1. OnLine(s, c) = <<f>>
    BY <1>4, <1>7 DEF OnLine
  <2>2. << >> \o <<f>> = <<f>> /\ Head(<<f>>) = f /\ Tail(<<f>>) = << >>
        /\ <<f>> # << >>
    OBVIOUS
  <2>3. GoodPort(p)
    <3>1. <<f>> \in Seq(Octets)
      BY <1>3 DEF Octets
    <3>2. QED BY <1>2, <3>1, TickedType
  <2>4. /\ p.uart = <<f>> /\ p.received = port[s].received
        /\ p.master_state = port[s].master_state
        /\ p.Next_Station = port[s].Next_Station
        /\ p.SoleMaster = port[s].SoleMaster
    BY <1>2, <2>2 DEF Ticked, PortType
  <2>5. port'[s] = MSTP_Receive_Frame_FSM(s, p)
    BY <1>1, <1>2, <2>1
  <2> HIDE DEF p
  <2>6. p.received.type = "none" /\ p.uart # << >> /\ Head(p.uart) = f
    BY <2>2, <2>4 DEF Got
  <2>7. port'[s] = [q EXCEPT !.heard = TRUE, !.received = r]
    BY <1>3, <2>5, <2>6 DEF MSTP_Receive_Frame_FSM
  <2>8. QED
    BY <1>7, <2>2, <2>3, <2>4, <2>7 DEF GoodPort, PortType, Aged, Timer, Got
<1>8. QED BY <1>6, <1>7

LEMMA TickSane ==
    ASSUME TypeInv, AllSane, Tick, \A s \in on : Aged(s)
    PROVE  AllSane'
<1>1. \A s \in Stations \ on : port'[s] = port[s]
  BY TickPort
<1>2. on' = on /\ on \subseteq Stations
  BY TickFrame DEF TypeInv, TypeOK
<1>3. ASSUME NEW s \in Stations
      PROVE  Sane(s)'
  <2>1. CASE s \in on
    BY <1>2, <2>1 DEF AllSane, Sane, Aged
  <2>2. CASE s \notin on
    BY <1>1, <1>2, <2>2 DEF AllSane, Sane, MSTP_Init
  <2>3. QED BY <2>1, <2>2
<1>4. QED BY <1>3 DEF AllSane

\* Between two ticks no bystander has anything left to act on.
LEMMA Settled ==
    ASSUME todo = {}, NEW s, NEW sending, Bystander(s, sending)
    PROVE  Got(s).type = "none"
BY DEF Bystander, Heard

\* A station that hears something that asks for nothing.
LEMMA Watched ==
    ASSUME TypeInv, NEW s \in on, NEW sending \in BOOLEAN,
           State(s)' \in Passive, Timer(s)' = 0, s \in todo', port'[s].heard,
           Harmless(Got(s)')
    PROVE  Bystander(s, sending)'
<1>1. s \in Stations
  BY DEF TypeInv, TypeOK
<1>2. 0 < Tno_token + Tslot * s /\ 0 < Tno_token
  BY <1>1, Typed
<1>3. QED BY <1>2 DEF Bystander, Heard

\* The frame of the holder arrives: at the one it is for, or at nobody.
LEMMA SentTick ==
    ASSUME TypeInv, AllSane, Tick, NEW h \in on, NEW f, Sent(h, f)
    PROVE  AllSane' /\ HasToken'
<1>1. /\ todo = {} /\ wire' = {} /\ todo' = on /\ on' = on /\ wire = {f}
      /\ on \subseteq Stations /\ h \in Stations
      /\ f.src = h /\ f \in Frame /\ Got(h).type = "none"
      /\ Others({h}, TRUE) /\ SentBy(h, f)
  BY TickFrame DEF TypeInv, TypeOK, Sent
<1>2. \A s \in on : Got(s).type = "none"
  BY <1>1, Settled DEF Others
<1>3. \A s \in on : Aged(s) /\ Timer(s)' = 0
  BY <1>1, <1>2, FrameTick
<1>4. AllSane'
  BY <1>3, TickSane
<1>5. Got(h)'.type = "none" /\ State(h)' = State(h)
  BY <1>1, <1>2, <1>3, FrameTick DEF Got, Aged, State
<1>6. \A s \in on \ {h} :
         /\ State(s)' = State(s) /\ State(s) \in Passive /\ Heard(s)'
         /\ MSTP_Frame_For_Us(s, f) => Got(s)' = f
         /\ ~ MSTP_Frame_For_Us(s, f) => Got(s)' = Other("ValidFrameNotForUs")
  BY <1>1, <1>2, <1>3, FrameTick DEF Aged, State, Heard, Others, Bystander
<1>7. Later(h)'
  BY <1>1, <1>3 DEF Later
<1>8. ASSUME NEW s \in on \ {h}, NEW sending \in BOOLEAN,
             ~ MSTP_Frame_For_Us(s, f) \/ Harmless(f)
      PROVE  Bystander(s, sending)'
  <2>1. Harmless(Got(s)')
    BY <1>6, <1>8 DEF Harmless, Other
  <2>2. QED BY <1>1, <1>3, <1>6, <2>1, Watched DEF Heard
<1>9. f.dst # MSTP_BROADCAST_ADDRESS =>
         \A s \in on : MSTP_Frame_For_Us(s, f) <=> s = f.dst
  BY DEF MSTP_Frame_For_Us
<1>10. CASE \/ State(h) = "POLL_FOR_MASTER" /\ f.type = "POLL_FOR_MASTER"
            \/ State(h) = "WAIT_FOR_REPLY" /\ f.type = "DATA_EXPECTING_REPLY"
  <2>1. f.dst # MSTP_BROADCAST_ADDRESS
    BY <1>1, <1>10 DEF SentBy
  <2>2. CASE f.dst \in on \ {h}
    <3> DEFINE x == f.dst
    <3>1. Others({h, x}, FALSE)'
      BY <1>1, <1>8, <1>9, <2>1 DEF Others
    <3>2. Receiver(x)' /\ Got(x)' = f /\ Timer(h)' = 0
      BY <1>3, <1>6, <1>9, <2>1, <2>2 DEF Receiver
    <3>3. Asked(h, x)'
      BY <1>1, <1>5, <1>7, <1>10, <2>2, <3>1, <3>2 DEF Asked
    <3>4. QED BY <1>1, <1>4, <2>2, <3>3 DEF HasToken
  <2>3. CASE f.dst \notin on \ {h}
    <3>1. Others({h}, FALSE)'
      BY <1>1, <1>8, <1>9, <2>1, <2>3 DEF Others
    <3>2. Timer(h)' = 0 /\ 0 <= Tusage_timeout /\ 0 < Treply_timeout
      BY <1>3, Numbers
    <3>3. Waiting(h)'
      BY <1>1, <1>5, <1>7, <1>10, <3>1, <3>2 DEF Waiting
    <3>4. QED BY <1>1, <1>4, <3>3 DEF HasToken
  <2>4. QED BY <2>2, <2>3
<1>11. CASE State(h) = "DONE_WITH_TOKEN"
  <2>1. Harmless(f)
    BY <1>1, <1>11 DEF SentBy, Harmless
  <2>2. Others({h}, TRUE)'
    BY <1>1, <1>8, <2>1 DEF Others
  <2>3. Owner(h)'
    BY <1>1, <1>5, <1>11, <2>2 DEF Owner
  <2>4. QED BY <1>1, <1>4, <2>3 DEF HasToken
<1>12. CASE State(h) = "PASS_TOKEN"
  <2> DEFINE x == f.dst
  <2>1. f.type = "TOKEN" /\ x = port[h].Next_Station /\ x # h
    BY <1>1, <1>12 DEF SentBy
  <2>2. x \in on /\ port[x].master_state # "INITIALIZE"
    BY <1>1, <2>1 DEF AllSane, Sane
  <2>3. x # MSTP_BROADCAST_ADDRESS
    BY <1>1, <2>2, AddressType, Members
  <2>4. State(x) \in {"IDLE", "PASS_TOKEN"}
    <3>1. Bystander(x, TRUE) /\ ~ Polled /\ ~ Heard(x)
      BY <1>1, <2>1, <2>2 DEF Others, Polled, Heard
    <3>2. QED BY <2>2, <3>1 DEF Bystander, Passive, State
  <2>5. Receiver(x)' /\ Got(x)' = f
    BY <1>6, <1>9, <2>1, <2>2, <2>3 DEF Receiver
  <2>6. Bystander(h, TRUE)'
    <3>1. 0 < Tno_token /\ 0 < Tno_token + Tslot * h
      BY <1>1, Typed
    <3>2. QED
      BY <1>1, <1>3, <1>5, <1>12, <3>1 DEF Bystander, Passive, Harmless
  <2>7. Others({x}, TRUE)'
    BY <1>1, <1>8, <1>9, <2>3, <2>6 DEF Others
  <2>8. Passed(x)'
    BY <1>1, <1>6, <2>1, <2>2, <2>4, <2>5, <2>7 DEF Passed
  <2>9. QED BY <1>1, <1>4, <2>2, <2>8 DEF HasToken
<1>13. QED BY <1>1, <1>10, <1>11, <1>12 DEF SentBy

\* The reply arrives.
LEMMA RepliedTick ==
    ASSUME TypeInv, AllSane, Tick, NEW h \in on, NEW x \in on, NEW f,
           Replied(h, x, f)
    PROVE  AllSane' /\ HasToken'
<1>1. /\ todo = {} /\ wire' = {} /\ todo' = on /\ on' = on /\ wire = {f}
      /\ on \subseteq Stations /\ h \in Stations /\ x # h
      /\ f.src = x /\ f.dst = h /\ Got(h).type = "none" /\ Got(x).type = "none"
      /\ Others({h}, TRUE) /\ State(x) = "IDLE"
  BY TickFrame DEF TypeInv, TypeOK, Replied
<1>2. \A s \in on : Got(s).type = "none"
  BY <1>1, Settled DEF Others
<1>3. \A s \in on : Aged(s) /\ Timer(s)' = 0 /\ State(s)' = State(s)
  BY <1>1, <1>2, FrameTick DEF Aged, State
<1>4. AllSane'
  BY <1>3, TickSane
<1>5. h # MSTP_BROADCAST_ADDRESS
  BY <1>1, AddressType, Members
<1>6. Heard(h)' /\ Got(h)' = f
  BY <1>1, <1>2, <1>3, FrameTick DEF MSTP_Frame_For_Us, Heard
<1>7. Bystander(x, FALSE)'
  <2>1. 0 < Tno_token /\ 0 < Tno_token + Tslot * x
    BY <1>1, Typed
  <2>2. Got(x)'.type = "none"
    BY <1>1, <1>2, FrameTick DEF Got
  <2>3. QED BY <1>1, <1>3, <2>1, <2>2 DEF Bystander, Passive, Harmless
<1>8. ASSUME NEW s \in on, s # h, s # x
      PROVE  Bystander(s, FALSE)'
  <2>1. port'[s].heard /\ Got(s)' = Other("ValidFrameNotForUs")
    BY <1>1, <1>2, <1>5, <1>8, FrameTick DEF MSTP_Frame_For_Us
  <2>2. Harmless(Got(s)') /\ State(s) \in Passive
    BY <1>1, <1>8, <2>1 DEF Harmless, Other, Others, Bystander
  <2>3. QED BY <1>1, <1>3, <2>1, <2>2, Watched
<1>9. Others({h}, FALSE)'
  BY <1>1, <1>7, <1>8 DEF Others
<1>10. State(Got(h).src)' = "IDLE"
  BY <1>1, <1>3, <1>6 DEF State, Got
<1>11. Answered(h)'
  BY <1>1, <1>3, <1>6, <1>9, <1>10 DEF Answered, Replied
<1>12. QED BY <1>1, <1>4, <1>11 DEF HasToken

\* A silent line while one station waits for another: nobody's timer is ahead of
\* the timer of the one that waits.
LEMMA QuietOthers ==
    ASSUME TypeInv, AllSane, Tick, wire = {}, NEW S, Others(S, FALSE), NEW h \in on,
           Later(h), Timer(h) + 1 < Tno_token
    PROVE  AllSane' /\ Others(S, FALSE)' /\ Later(h)' /\ Timer(h)' = Timer(h) + 1
<1>1. todo = {} /\ wire' = {} /\ todo' = on /\ on' = on /\ on \subseteq Stations
  BY TickFrame DEF TypeInv, TypeOK
<1>2. ASSUME NEW s \in on
      PROVE  /\ Aged(s) /\ State(s)' = State(s) /\ Got(s)' = Got(s)
             /\ Timer(s)' = Timer(s) + 1 /\ Timer(s)' <= Timer(h) + 1
             /\ Timer(s)' < Tno_token /\ Timer(s)' < Tno_token + Tslot * s
  <2>1. /\ Timer(s) \in Int /\ Timer(h) \in Int /\ Tno_token \in Int
        /\ Tslot * s \in Int /\ Tslot * s >= 0 /\ Timer(s) <= Timer(h)
    BY <1>1, Typed DEF Later
  <2>2. mm_timeout \in Int /\ mm_timeout >= Tno_token + Tslot /\ Tslot \in Int
        /\ Tslot >= 1
    BY Slots, Numbers
  <2>3. Timer(s)' = Timer(s) + 1
    BY <2>1, <2>2, QuietTick
  <2>4. Aged(s) /\ State(s)' = State(s) /\ Got(s)' = Got(s)
    BY QuietTick DEF Aged, State, Got
  <2>5. QED BY <2>1, <2>3, <2>4
<1>3. AllSane'
  BY <1>2, TickSane
<1>4. Later(h)' /\ Timer(h)' = Timer(h) + 1
  BY <1>1, <1>2 DEF Later
<1>5. ASSUME NEW s \in on \ S
      PROVE  Bystander(s, FALSE)'
  <2>1. Bystander(s, FALSE) /\ ~ Polled /\ ~ Heard(s)
    BY <1>1 DEF Others, Polled, Heard
  <2>2. /\ State(s) \in {"INITIALIZE", "IDLE"} /\ Got(s).type = "none"
    BY <2>1 DEF Bystander, Passive
  <2>3. QED BY <1>2, <2>2 DEF Bystander, Passive, Harmless
<1>6. QED BY <1>1, <1>3, <1>4, <1>5 DEF Others

LEMMA QuietSame ==
    ASSUME TypeInv, AllSane, Tick, wire = {}, NEW s \in on
    PROVE  State(s)' = State(s) /\ Got(s)' = Got(s)
BY QuietTick DEF Aged, State, Got

LEMMA WaitingTick ==
    ASSUME TypeInv, AllSane, Tick, NEW h \in on, Waiting(h)
    PROVE  AllSane' /\ HasToken'
<1>1. /\ todo = {} /\ wire' = {} /\ todo' = on /\ on' = on /\ wire = {}
      /\ h \in Stations /\ Others({h}, FALSE) /\ Later(h) /\ Timer(h) \in Int
      /\ Got(h).type = "none"
  BY TickFrame, Typed DEF TypeInv, TypeOK, Waiting
<1>2. \/ State(h) = "POLL_FOR_MASTER" /\ Timer(h) <= Tusage_timeout
      \/ State(h) = "WAIT_FOR_REPLY" /\ Timer(h) < Treply_timeout
  BY <1>1 DEF Waiting
<1>3. Timer(h) + 1 < Tno_token
  BY <1>1, <1>2, Numbers
<1>4. AllSane' /\ Others({h}, FALSE)' /\ Later(h)' /\ Timer(h)' = Timer(h) + 1
  BY <1>1, <1>3, QuietOthers
<1>5. State(h)' = State(h) /\ Got(h)'.type = "none"
  BY <1>1, QuietSame
<1>6. \/ /\ State(h) = "POLL_FOR_MASTER"
         /\ Timer(h)' <= Tusage_timeout \/ Timer(h)' = Tusage_timeout + 1
      \/ /\ State(h) = "WAIT_FOR_REPLY"
         /\ Timer(h)' < Treply_timeout \/ Timer(h)' = Treply_timeout
  BY <1>1, <1>2, <1>4, Numbers
<1>7. Waiting(h)'
  BY <1>1, <1>4, <1>5, <1>6 DEF Waiting
<1>8. QED BY <1>1, <1>4, <1>7 DEF HasToken

LEMMA AnsweringTick ==
    ASSUME TypeInv, AllSane, Tick, NEW h \in on, NEW x \in on, Answering(h, x)
    PROVE  AllSane' /\ HasToken'
<1>1. /\ todo = {} /\ wire' = {} /\ todo' = on /\ on' = on /\ wire = {}
      /\ h \in Stations /\ x \in Stations
      /\ Others({h, x}, FALSE) /\ Later(h) /\ Timer(h) \in Int
  BY TickFrame, Typed DEF TypeInv, TypeOK, Answering
<1>2. Timer(h) <= Treply_delay /\ Timer(x) = Timer(h)
  BY <1>1, Numbers DEF Answering
<1>3. Timer(h) + 1 < Tno_token
  BY <1>1, <1>2, Numbers
<1>4. AllSane' /\ Others({h, x}, FALSE)' /\ Later(h)' /\ Timer(h)' = Timer(h) + 1
  BY <1>1, <1>3, QuietOthers
<1>5. Timer(x)' = Timer(h)'
  BY <1>1, <1>2, QuietTick
<1>6. /\ State(h)' = State(h) /\ Got(h)' = Got(h)
      /\ State(x)' = State(x) /\ Got(x)' = Got(x)
  BY <1>1, QuietSame
<1>7. Timer(h)' <= Treply_delay + 1
  BY <1>1, <1>2, <1>4, Numbers
<1>8. Answering(h, x)'
  BY <1>1, <1>4, <1>5, <1>6, <1>7 DEF Answering
<1>9. QED BY <1>1, <1>4, <1>8 DEF HasToken

\* No slot goes by unnoticed.
LEMMA SilentTick ==
    ASSUME TypeInv, AllSane, Tick, Silent
    PROVE  AllSane' /\ Silent'
<1>1. /\ todo = {} /\ wire' = {} /\ todo' = on /\ on' = on /\ wire = {}
      /\ on \subseteq Stations
  BY TickFrame DEF TypeInv, TypeOK, Silent
<1>2. ASSUME NEW s \in on
      PROVE  /\ Aged(s) /\ State(s)' = State(s) /\ Got(s)' = Got(s)
             /\ port'[s].heard = port[s].heard
             /\ Timer(s)' = Timer(s) + 1 /\ Timer(s) < Tno_token + Tslot * s
             /\ \/ Timer(s)' < Tno_token + Tslot * s
                \/ Timer(s)' = Tno_token + Tslot * s
  <2>1. /\ Timer(s) \in Int /\ Tno_token \in Int /\ Tslot * s \in Int
        /\ Timer(s) < Tno_token + Tslot * s
    BY <1>1, Typed DEF Silent
  <2>2. mm_timeout \in Int /\ Tno_token + Tslot * s < mm_timeout
    BY <1>1, Slots
  <2>3. Timer(s)' = Timer(s) + 1
    BY <1>1, <2>1, <2>2, QuietTick
  <2>4. /\ Aged(s) /\ State(s)' = State(s) /\ Got(s)' = Got(s)
        /\ port'[s].heard = port[s].heard
    BY <1>1, QuietTick DEF Aged, State, Got
  <2>5. QED BY <2>1, <2>3, <2>4
<1>3. AllSane'
  BY <1>2, TickSane
<1>4. \A s, u \in on : Timer(s)' = Timer(u)'
  BY <1>2 DEF Silent
<1>5. QED BY <1>1, <1>2, <1>3, <1>4 DEF Silent

LEMMA RingTick ==
    ASSUME TypeInv, AllSane, Tick
    PROVE  /\ HasToken => AllSane' /\ HasToken'
           /\ Silent => AllSane' /\ Silent'
<1> SUFFICES ASSUME HasToken PROVE AllSane' /\ HasToken'
  BY SilentTick
<1>1. todo = {}
  BY TickFrame
<1>2. \A h : ~ Owner(h) /\ ~ Passed(h) /\ ~ Answered(h)
  BY <1>1 DEF Owner, Passed, Answered, Receiver, Heard
<1>3. \A h, x : ~ Asked(h, x)
  BY <1>1 DEF Asked, Receiver, Heard
<1>4. QED
  BY <1>2, <1>3, SentTick, RepliedTick, WaitingTick, AnsweringTick DEF HasToken

-----------------------------------------------------------------------------
(* Stations that join, and the invariant.                                     *)

\* A station that joins is a bystander.
LEMMA JoinOthers ==
    ASSUME TypeInv, AllSane, NEW s \in Stations, PowerOn(s)
    PROVE  /\ on' = on \cup {s} /\ port' = port /\ wire' = wire /\ todo' = todo
           /\ s \notin on
           /\ \A S, sending : Others(S, sending) => Others(S, sending)'
           /\ \A h \in on : Later(h) => Later(h)'
           /\ AllSane'
<1>1. /\ on' = on \cup {s} /\ port' = port /\ wire' = wire /\ todo' = todo
      /\ s \notin on /\ on \subseteq Stations
  BY DEF PowerOn, TypeInv, TypeOK
<1>2. port[s] = MSTP_Init(s)
  BY <1>1 DEF AllSane, Sane
<1>3. /\ State(s) = "INITIALIZE" /\ Got(s).type = "none" /\ Timer(s) = 0
  BY <1>2 DEF State, Got, Timer, MSTP_Init, Other
<1>4. \A sending : Bystander(s, sending)'
  <2>1. 0 < Tno_token /\ 0 < Tno_token + Tslot * s
    BY Typed
  <2>2. State(s)' = State(s) /\ Got(s)' = Got(s) /\ Timer(s)' = Timer(s)
    BY <1>1 DEF State, Got, Timer
  <2>3. QED BY <1>3, <2>1, <2>2 DEF Bystander, Passive, Harmless
<1>5. ASSUME NEW S, NEW sending, Others(S, sending)
      PROVE  Others(S, sending)'
  <2>1. ASSUME NEW t, Bystander(t, sending)
        PROVE  Bystander(t, sending)'
    BY <1>1, <2>1 DEF Bystander, State, Got, Timer, Heard, Polled
  <2>2. QED BY <1>1, <1>4, <1>5, <2>1 DEF Others
<1>6. ASSUME NEW h \in on, Later(h)
      PROVE  Later(h)'
  <2>1. \A t \in Stations : Timer(t)' = Timer(t)
    BY <1>1 DEF Timer
  <2>2. Timer(h) \in Int /\ Timer(h) >= 0
    BY <1>1, Typed
  <2>3. QED BY <1>1, <1>3, <1>6, <2>1, <2>2 DEF Later
<1>7. AllSane'
  BY <1>1, <1>2 DEF AllSane, Sane, MSTP_Init
<1>8. QED BY <1>1, <1>5, <1>6, <1>7

\* The phases see only what the ports, the line and the bystanders are.
LEMMA PhasesKept ==
    ASSUME on \subseteq on', port' = port, wire' = wire, todo' = todo,
           \A S, sending : Others(S, sending) => Others(S, sending)',
           \A h \in on : Later(h) => Later(h)',
           HasToken
    PROVE  HasToken'
<1>1. \A t : /\ State(t)' = State(t) /\ Got(t)' = Got(t) /\ Timer(t)' = Timer(t)
             /\ Heard(t) => Heard(t)'
             /\ Receiver(t) => Receiver(t)'
  BY DEF State, Got, Timer, Heard, Receiver
<1>2. ASSUME NEW h \in on
      PROVE  /\ Owner(h) => Owner(h)'
             /\ Passed(h) => Passed(h)'
             /\ Waiting(h) => Waiting(h)'
             /\ \A f : Sent(h, f) => Sent(h, f)'
  BY <1>1 DEF Owner, Passed, Waiting, Sent, SentBy
<1>3. ASSUME NEW h \in on, Answered(h)
      PROVE  Answered(h)'
  <2>1. State(Got(h).src)' = State(Got(h).src)
    BY DEF State, Got
  <2>2. QED BY <1>1, <1>3, <2>1 DEF Answered
<1>4. ASSUME NEW h \in on, NEW x \in on
      PROVE  /\ Asked(h, x) => Asked(h, x)'
             /\ Answering(h, x) => Answering(h, x)'
             /\ \A f : Replied(h, x, f) => Replied(h, x, f)'
  BY <1>1 DEF Asked, Answering, Replied
<1>5. QED BY <1>2, <1>3, <1>4 DEF HasToken

LEMMA RingJoin ==
    ASSUME TypeInv, AllSane, HasToken, NEW s \in Stations, PowerOn(s)
    PROVE  AllSane' /\ HasToken'
BY JoinOthers, PhasesKept

LEMMA BystanderHoldsNothing ==
    ASSUME NEW s, NEW sending, Bystander(s, sending)
    PROVE  ~ Holding(s)
BY DEF Bystander, Holding, Passive, Harmless, State, Got, Is

LEMMA OneHolder ==
    ASSUME TypeInv, NEW h \in on, Holding(h), \A s \in on \ {h} : ~ Holding(s),
           \A f \in wire : f.type # "TOKEN"
    PROVE  Tokens = 1
<1>1. {s \in Stations : Holding(s)} = {h}
  BY DEF TypeInv, TypeOK, Holding
<1>2. {f \in wire : f.type = "TOKEN"} = {}
  OBVIOUS
<1>3. Cardinality({h}) = 1 /\ Cardinality({}) = 0
  BY FS_Singleton, FS_EmptySet
<1>4. QED BY <1>1, <1>2, <1>3 DEF Tokens

\* The phases of the exchange are all there is to a token: one, or none.
LEMMA TokenCounted ==
    TypeInv => (HasToken => Tokens = 1) /\ (Silent => Tokens = 0)
<1> SUFFICES ASSUME TypeInv
             PROVE  (HasToken => Tokens = 1) /\ (Silent => Tokens = 0)
  OBVIOUS
<1>1. Silent => Tokens = 0
  <2> SUFFICES ASSUME Silent PROVE Tokens = 0
    OBVIOUS
  <2>1. \A s \in Stations : ~ Holding(s)
    BY DEF Silent, Holding, State, Got, Is
  <2>2. {s \in Stations : Holding(s)} = {} /\ {f \in wire : f.type = "TOKEN"} = {}
    BY <2>1 DEF Silent
  <2>3. QED BY <2>2, FS_EmptySet DEF Tokens
<1>2. ASSUME NEW h \in on, Owner(h) \/ Passed(h) \/ Answered(h) \/ Waiting(h)
      PROVE  Tokens = 1
  <2>1. Holding(h) /\ wire = {}
    BY <1>2 DEF Owner, Passed, Answered, Waiting, Holding, State, Got, Is
  <2>2. \A s \in on \ {h} : ~ Holding(s)
    BY <1>2, BystanderHoldsNothing DEF Owner, Passed, Answered, Waiting, Others
  <2>3. QED BY <2>1, <2>2, OneHolder
<1>3. ASSUME NEW h \in on, NEW f \in wire, Sent(h, f)
      PROVE  Tokens = 1
  <2>1. wire = {f} /\ SentBy(h, f) /\ Got(h).type = "none"
    BY <1>3 DEF Sent
  <2>2. \A s \in on \ {h} : ~ Holding(s)
    BY <1>3, BystanderHoldsNothing DEF Sent, Others
  <2>3. CASE State(h) = "PASS_TOKEN"
    <3>1. f.type = "TOKEN" /\ ~ Holding(h)
      BY <2>1, <2>3 DEF SentBy, Holding, State, Got, Is
    <3>2. {s \in Stations : Holding(s)} = {} /\ {g \in wire : g.type = "TOKEN"} = {f}
      BY <2>1, <2>2, <3>1 DEF Holding
    <3>3. Cardinality({f}) = 1 /\ Cardinality({}) = 0
      BY FS_Singleton, FS_EmptySet
    <3>4. QED BY <3>2, <3>3 DEF Tokens
  <2>4. CASE State(h) # "PASS_TOKEN"
    <3>1. f.type # "TOKEN" /\ Holding(h)
      BY <2>1, <2>4 DEF SentBy, Holding, State
    <3>2. QED BY <2>1, <2>2, <3>1, OneHolder
  <2>5. QED BY <2>3, <2>4
<1>4. ASSUME NEW h \in on, NEW x \in on, Asked(h, x) \/ Answering(h, x)
      PROVE  Tokens = 1
  <2>1. Holding(h) /\ wire = {} /\ ~ Holding(x)
    BY <1>4 DEF Asked, Answering, Receiver, Passive, Holding, State, Got, Is
  <2>2. \A s \in on \ {h} : ~ Holding(s)
    BY <1>4, <2>1, BystanderHoldsNothing DEF Asked, Answering, Others
  <2>3. QED BY <2>1, <2>2, OneHolder
<1>5. ASSUME NEW h \in on, NEW x \in on, NEW f \in wire, Replied(h, x, f)
      PROVE  Tokens = 1
  <2>1. Holding(h) /\ wire = {f} /\ f.type # "TOKEN"
    BY <1>5 DEF Replied, Holding, State
  <2>2. \A s \in on \ {h} : ~ Holding(s)
    BY <1>5, BystanderHoldsNothing DEF Replied, Others
  <2>3. QED BY <2>1, <2>2, OneHolder
<1>6. QED BY <1>1, <1>2, <1>3, <1>4, <1>5 DEF HasToken

LEMMA TalkerCounted == (Silent \/ HasToken) => Cardinality(wire) <= 1
<1>1. (Silent \/ HasToken) => wire = {} \/ \E f : wire = {f}
  BY DEF Silent, HasToken, Owner, Passed, Answered, Waiting, Sent, Asked,
         Answering, Replied
<1>2. wire = {} => Cardinality(wire) = 0
  BY FS_EmptySet
<1>3. \A f : wire = {f} => Cardinality(wire) = 1
  BY FS_Singleton
<1>4. 0 <= 1 /\ 1 <= 1
  OBVIOUS
<1>5. QED BY <1>1, <1>2, <1>3, <1>4

LEMMA RingInit == Init => RingInv
<1> SUFFICES ASSUME Init PROVE RingInv
  OBVIOUS
<1>1. TypeInv
  BY TypeInit
<1>2. \A s \in Stations : port[s] = MSTP_Init(s)
  BY DEF Init
<1>3. AllSane
  BY <1>2 DEF AllSane, Sane, MSTP_Init
<1>4. Silent
  <2>1. \A s \in on : /\ State(s) = "INITIALIZE" /\ Got(s).type = "none"
                      /\ ~ port[s].heard /\ Timer(s) = 0
    BY <1>1, <1>2 DEF TypeInv, TypeOK, State, Got, Timer, MSTP_Init, Other
  <2>2. \A s \in on : 0 < Tno_token + Tslot * s
    BY <1>1, Typed DEF TypeInv, TypeOK
  <2>3. QED BY <2>1, <2>2 DEF Silent, Init
<1>5. QED BY <1>1, <1>3, <1>4 DEF RingInv

\* Without a fault a token that is there stays.
LEMMA RingKept ==
    ASSUME RingInv, [Next]_vars, faults' = 0
    PROVE  /\ faults = 0 /\ AllSane'
           /\ HasToken => HasToken'
           /\ Silent => Silent' \/ HasToken'
<1>1. TypeInv /\ faults \in Nat
  BY Numbers DEF RingInv, TypeInv, TypeOK
<1>2. ~ Fault
  BY <1>1 DEF Fault
<1>3. CASE UNCHANGED vars
  <2>1. faults = 0 /\ AllSane
    BY <1>3 DEF vars, RingInv
  <2>2. AllSane' /\ (HasToken => HasToken') /\ (Silent => Silent')
    <3>1. port' = port /\ wire' = wire /\ todo' = todo /\ on' = on
      BY <1>3 DEF vars
    <3>2. AllSane' /\ (Silent => Silent')
      BY <2>1, <3>1 DEF AllSane, Sane, Silent, State, Timer, Got
    <3>3. \A S, sending : Others(S, sending) => Others(S, sending)'
      BY <3>1 DEF Others, Bystander, Heard, Polled, State, Timer, Got
    <3>4. \A h \in on : Later(h) => Later(h)'
      BY <3>1 DEF Later, Timer
    <3>5. QED BY <3>1, <3>2, <3>3, <3>4, PhasesKept
  <2>3. QED BY <2>1, <2>2
<1>4. CASE Tick
  <2>1. faults = 0
    BY <1>4, TickFrame
  <2>2. QED BY <1>1, <1>4, <2>1, RingTick DEF RingInv
<1>5. ASSUME NEW s \in Stations, MSTP_Master_Node_FSM(s)
      PROVE  /\ faults = 0 /\ AllSane'
             /\ HasToken => HasToken'
             /\ Silent => Silent' \/ HasToken'
  <2>1. faults = 0
    BY <1>1, <1>5, NodeStep DEF Stepped
  <2>2. QED BY <1>1, <1>5, <2>1, RingStep DEF RingInv
<1>6. ASSUME NEW s \in Stations, PowerOn(s)
      PROVE  /\ faults = 0 /\ AllSane'
             /\ HasToken => HasToken'
             /\ Silent => Silent' \/ HasToken'
  <2>1. faults = 0 /\ Tokens # 0
    BY <1>1, <1>6 DEF PowerOn
  <2>2. AllSane /\ HasToken /\ ~ Silent
    BY <1>1, <2>1, TokenCounted DEF RingInv
  <2>3. QED BY <1>1, <1>6, <2>1, <2>2, RingJoin
<1>7. QED
  BY <1>2, <1>3, <1>4, <1>5, <1>6 DEF Next, Run, Damaged, Busy, PowerOff

LEMMA RingNext ==
    ASSUME RingInv, [Next]_vars
    PROVE  RingInv'
<1>1. TypeInv'
  BY TypeNext DEF RingInv
<1>2. faults' = 0 => AllSane' /\ (Silent' \/ HasToken')
  BY RingKept DEF RingInv
<1>3. QED BY <1>1, <1>2 DEF RingInv

\* As long as no fault has happened the line is in one of the phases above, whatever
\* the addresses, the timeouts and the limits are.
THEOREM RingInvariant == Spec => []RingInv
BY RingInit, RingNext, PTL DEF Spec

\* For every set of stations and all timeouts in the order of TimeAssumption: as
\* long as no fault has happened, MSTP_Master_Node_FSM never makes a second token.
\* The slots of NO_TOKEN let one station only make the first, and neither polls
\* nor requests, nor stations that join, make another.
THEOREM OneTokenTheorem == Spec => []OneToken
<1>1. RingInv => OneToken
  BY TokenCounted DEF RingInv, OneToken
<1>2. QED BY RingInvariant, <1>1, PTL

\* Under the same assumptions two stations never send in the same tick: a reply to a
\* poll or to a request, sent without the token, is out before the holder of the
\* token sends again.
THEOREM OneTalkerTheorem == Spec => []OneTalker
<1>1. RingInv => OneTalker
  BY TalkerCounted DEF RingInv, OneTalker
<1>2. QED BY RingInvariant, <1>1, PTL

\* Under the same assumptions a token, once made, is never lost: it is only ever
\* passed to a station that is on, has left INITIALIZE and takes it.
THEOREM NeverLostTheorem == Spec => NeverLost
<1>1. RingInv /\ [Next]_vars => [faults' = 0 /\ Tokens # 0 => Tokens' # 0]_vars
  <2> SUFFICES ASSUME RingInv, [Next]_vars, faults' = 0, Tokens # 0
               PROVE  Tokens' # 0
    OBVIOUS
  <2>1. faults = 0 /\ (HasToken => HasToken')
    BY RingKept
  <2>2. HasToken
    BY <2>1, TokenCounted DEF RingInv
  <2>3. TypeInv'
    BY TypeNext DEF RingInv
  <2>4. (TypeInv => (HasToken => Tokens = 1) /\ (Silent => Tokens = 0))'
    BY TokenCounted, PTL
  <2>5. QED BY <2>1, <2>2, <2>3, <2>4
<1>2. QED BY RingInvariant, <1>1, PTL DEF Spec, NeverLost
=============================================================================
