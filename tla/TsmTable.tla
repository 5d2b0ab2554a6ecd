------------------------------ MODULE TsmTable ------------------------------
(***************************************************************************)
(* The two tables behind every confirmed transaction of the stack          *)
(* (basic/tsm/tsm.c): TSM_List, the transaction slots, and TSM_Peer_Ids,   *)
(* which gives each segmented exchange that a peer started an invoke ID of *)
(* our own.  The module declares no variables: each operation is a         *)
(* function from a table to a table, so that a handler that makes several  *)
(* calls is one step of Tsm.                                               *)
(*                                                                         *)
(* A table is a record with fields                                         *)
(*   list   TSM_List: the slots                                            *)
(*   peers  TSM_Peer_Ids: the peer entries                                 *)
(*   cur    Current_Invoke_ID                                              *)
(* An invoke ID of 0 marks a free slot, an InternalInvokeID of 0 a free    *)
(* peer entry.  Only the address, the buffers and the state of a free slot *)
(* are kept: every function that takes a slot writes the other fields      *)
(* before it reads them.  In the same way a free peer entry is ZeroPeer.   *)
(***************************************************************************)
EXTENDS ApduSegments, Sequences, FiniteSets

CONSTANTS
    MAX_TSM_TRANSACTIONS,   \* config.h: 255
    MAX_TSM_PEERS,          \* config.h: 16
    MAX_INVOKE_ID,          \* 255: invoke IDs are uint8_t and 0 is reserved
    Address,                \* BACnet addresses of the other devices
    NoAddress,              \* an address no device has (a zeroed slot)
    PeerInvokeID,           \* the invoke IDs the peers choose
    SEQ,                    \* 256: sequence numbers are uint8_t
    ApduTimeout,            \* apdu_timeout(), in ticks of the timer
    SegTimeout,             \* apdu_segment_timeout(), in ticks
    TIMER,                  \* 65536: the timers are uint16_t
    BYTE,                   \* 256: the retry counters are uint8_t
    Retries                 \* apdu_retries()

ASSUME TsmConstants ==
    /\ MAX_INVOKE_ID \in Nat
    /\ MAX_TSM_TRANSACTIONS \in 1 .. MAX_INVOKE_ID
    /\ MAX_TSM_PEERS \in Nat \ {0}
    /\ NoAddress \notin Address
    /\ PeerInvokeID \subseteq 0 .. MAX_INVOKE_ID
    /\ SEQ \in Nat \ {0} /\ TIMER \in Nat \ {0} /\ BYTE \in Nat
    /\ ApduTimeout \in Nat /\ SegTimeout \in Nat /\ Retries \in Nat
    /\ ApduTimeout < TIMER /\ SegTimeout < TIMER
    /\ Retries < BYTE /\ 1 < BYTE
    /\ MAX_SEGMENTS_ACCEPTED < SEQ

Slots == 0 .. MAX_TSM_TRANSACTIONS - 1
PeerEntries == 0 .. MAX_TSM_PEERS - 1
InvokeIDs == 1 .. MAX_INVOKE_ID

(* The states of BACNET_TSM_STATE that some function of tsm.c assigns.     *)
IDLE == "IDLE"
AWAIT_CONFIRMATION == "AWAIT_CONFIRMATION"
SEGMENTED_REQUEST_SERVER == "SEGMENTED_REQUEST_SERVER"
SEGMENTED_RESPONSE_SERVER == "SEGMENTED_RESPONSE_SERVER"
TsmStates == {IDLE, AWAIT_CONFIRMATION, SEGMENTED_REQUEST_SERVER,
              SEGMENTED_RESPONSE_SERVER}

(* The message a slot keeps for sending: its length, the largest APDU the  *)
(* peer takes and the invoke ID in its header.  NULL is the null pointer.  *)
NULL == [len |-> 0, max |-> 0, id |-> 0]

(* BACNET_TSM_DATA as the static initialiser leaves it.  SentAllSegments   *)
(* and ProposedWindowSize are left out: no function reads them later.      *)
ZeroSlot ==
    [InvokeID |-> 0, state |-> IDLE, dest |-> NoAddress,
     RequestTimer |-> 0, RetryCount |-> 0,
     SegmentTimer |-> 0, SegmentRetryCount |-> 0,
     LastSequenceNumber |-> 0, InitialSequenceNumber |-> 0,
     ActualWindowSize |-> 0, ReceivedSegmentsCount |-> 0,
     blob |-> <<>>, apdu |-> NULL]

ZeroPeer ==
    [PeerAddress |-> NoAddress, PeerInvokeID |-> 0, InternalInvokeID |-> 0]

(* The service data of one received segment, tagged with where it is from. *)
SeqNumbers == 0 .. SEQ - 1
Payload(src, id, seq) == [src |-> src, id |-> id, seq |-> seq]
Payloads == [src : Address, id : PeerInvokeID, seq : SeqNumbers]

(* The types of tsm.h, each field with its width.                          *)
AnyInvokeID == 0 .. MAX_INVOKE_ID
Bytes == 0 .. BYTE - 1
Timers == 0 .. TIMER - 1
ApduType == [len : Nat, max : Nat, id : AnyInvokeID]

SlotType ==
    [InvokeID : AnyInvokeID, state : TsmStates, dest : Address \cup {NoAddress},
     RequestTimer : Timers, RetryCount : Bytes,
     SegmentTimer : Timers, SegmentRetryCount : Bytes,
     LastSequenceNumber : SeqNumbers, InitialSequenceNumber : SeqNumbers,
     ActualWindowSize : Bytes, ReceivedSegmentsCount : Nat,
     blob : Seq(Payloads), apdu : ApduType]

PeerType ==
    [PeerAddress : Address \cup {NoAddress}, PeerInvokeID : AnyInvokeID,
     InternalInvokeID : AnyInvokeID]

TableType ==
    [list : [Slots -> SlotType], peers : [PeerEntries -> PeerType],
     cur : InvokeIDs]

InitTable ==
    [list |-> [i \in Slots |-> ZeroSlot],
     peers |-> [p \in PeerEntries |-> ZeroPeer],
     cur |-> 1]

(* dlenv_init may choose the first invoke ID before the main loop starts.  *)
tsm_invokeID_set(t, id) == [t EXCEPT !.cur = IF id = 0 THEN 1 ELSE id]

-----------------------------------------------------------------------------
(* The slots.                                                              *)

(* The searches of tsm.c stop at the first hit; none is what they return   *)
(* when there is no hit.                                                   *)
First(S, none) == IF S = {} THEN none ELSE CHOOSE x \in S : \A y \in S : x <= y

Uses(t, id) == \E i \in Slots : t.list[i].InvokeID = id

tsm_find_invokeID_index(t, id) ==
    First({i \in Slots : t.list[i].InvokeID = id}, MAX_TSM_TRANSACTIONS)

tsm_transaction_available(t) == Uses(t, 0)

SetSlot(t, i, slot) == [t EXCEPT !.list[i] = slot]

(* Mutant: the wrapped counter is used as it is.                           *)
WrapToZero(id) == (id + 1) % (MAX_INVOKE_ID + 1)

(* Current_Invoke_ID++, skipping the reserved 0.                           *)
NextInvokeID(id) == IF id = MAX_INVOKE_ID THEN 1 ELSE id + 1

(* id after k increments: the candidates of the search loop.               *)
Skip(id, k) == IF id + k > MAX_INVOKE_ID THEN id + k - MAX_INVOKE_ID ELSE id + k

(* Mutant: the next ID is taken without looking for it in the slots.       *)
SkipNothing(t) == 0

(* How many IDs in use the search of tsm_next_free_invokeID steps over.    *)
Skipped(t) ==
    CHOOSE k \in 0 .. MAX_INVOKE_ID - 1 :
        /\ ~ Uses(t, Skip(t.cur, k))
        /\ \A j \in 0 .. k - 1 : Uses(t, Skip(t.cur, j))

(* Reserves a slot: the new table and the invoke ID, 0 when all are taken. *)
tsm_next_free_invokeID(t) ==
    IF ~ tsm_transaction_available(t)
    THEN [t |-> t, id |-> 0]
    ELSE LET id == Skip(t.cur, Skipped(t))
             i == tsm_find_invokeID_index(t, 0)
         IN [t |-> [SetSlot(t, i, [t.list[i] EXCEPT
                                     !.InvokeID = id,
                                     !.state = IDLE,
                                     !.RequestTimer = ApduTimeout])
                    EXCEPT !.cur = NextInvokeID(id)],
             id |-> id]

(* Mutant: the state is reset and the invoke ID forgotten.                 *)
FreeKeepsID(slot) == [slot EXCEPT !.state = IDLE]

FreeSlot(slot) ==
    [ZeroSlot EXCEPT !.dest = slot.dest, !.blob = slot.blob, !.apdu = slot.apdu]

(* Frees the slot and nothing else: neither its peer entry nor its data.   *)
tsm_free_invoke_id(t, id) ==
    LET i == tsm_find_invokeID_index(t, id)
    IN IF i \in Slots
       THEN SetSlot(t, i, FreeSlot(t.list[i]))
       ELSE t

free_blob(slot) == [slot EXCEPT !.blob = <<>>, !.apdu = NULL]

-----------------------------------------------------------------------------
(* The peer entries.                                                       *)

(* Mutant: the peer entry outlives its slot.                               *)
ClearNothing(t, internal) == t

tsm_clear_peer_id(t, internal) ==
    [t EXCEPT !.peers = [p \in PeerEntries |->
        IF t.peers[p].InternalInvokeID = internal
        THEN ZeroPeer
        ELSE t.peers[p]]]

(* Frees the slot, its peer entry and its data.  addr is NoAddress where   *)
(* the code passes NULL: then the slot's address is not compared.          *)
tsm_free_invoke_id_check(t, id, addr) ==
    LET i == tsm_find_invokeID_index(t, id)
    IN IF i \in Slots /\ (addr = NoAddress \/ t.list[i].dest = addr)
       THEN SetSlot(tsm_clear_peer_id(t, id), i,
                    free_blob(FreeSlot(t.list[i])))
       ELSE t

(* Mutant: the peer's address is not compared.                             *)
MatchesAnyAddress(t, p, src, id) ==
    /\ t.peers[p].InternalInvokeID # 0
    /\ t.peers[p].PeerInvokeID = id

PeerMatches(t, p, src, id) ==
    /\ t.peers[p].InternalInvokeID # 0
    /\ t.peers[p].PeerInvokeID = id
    /\ t.peers[p].PeerAddress = src

(* Mutant: the scan ends at the first free entry.                          *)
FindPeerBeforeFree(t, src, id) ==
    First({p \in PeerEntries :
             /\ PeerMatches(t, p, src, id)
             /\ \A q \in 0 .. p : t.peers[q].InternalInvokeID # 0}, MAX_TSM_PEERS)

(* The entry for (src, id), and the entry that a new exchange would get.   *)
FindPeer(t, src, id) ==
    First({p \in PeerEntries : PeerMatches(t, p, src, id)}, MAX_TSM_PEERS)

FirstFreePeer(t) ==
    First({p \in PeerEntries : t.peers[p].InternalInvokeID = 0}, MAX_TSM_PEERS)

(* Binds the free entry p to (src, id) and to a slot reserved for it.  The *)
(* entry stays free when no slot is left.                                  *)
CreatePeer(t, p, src, id) ==
    LET r == tsm_next_free_invokeID(t)
        i == tsm_find_invokeID_index(r.t, r.id)
        entry == [PeerAddress |-> src, PeerInvokeID |-> id,
                  InternalInvokeID |-> r.id]
    IN IF r.id # 0
       THEN [t |-> [SetSlot(r.t, i, [r.t.list[i] EXCEPT !.dest = src])
                    EXCEPT !.peers[p] = entry],
             id |-> r.id]
       ELSE [t |-> t, id |-> 0]

(* The internal invoke ID of (src, id), created when there is none yet;    *)
(* 0 when no peer entry or no slot is left.                                *)
tsm_get_peer_id(t, src, id) ==
    LET found == FindPeer(t, src, id)
        free == FirstFreePeer(t)
    IN IF found \in PeerEntries
       THEN [t |-> t, id |-> t.peers[found].InternalInvokeID]
       ELSE IF free \in PeerEntries
            THEN CreatePeer(t, free, src, id)
            ELSE [t |-> t, id |-> 0]

(* An Error, Reject or Abort ends the exchange (src, id) of the peer.      *)
tsm_free_invoke_id_segmentation(t, src, id) ==
    LET g == tsm_get_peer_id(t, src, id)
    IN tsm_free_invoke_id_check(g.t, g.id, src)

-----------------------------------------------------------------------------
(* What makes a table well formed.                                         *)

(* No two slots in use have the same invoke ID.                            *)
UniqueIDs(t) ==
    \A i, j \in Slots :
        /\ t.list[i].InvokeID # 0
        /\ t.list[i].InvokeID = t.list[j].InvokeID
        => i = j

(* The internal ID of a peer entry in use belongs to a slot that talks to  *)
(* the same device.                                                        *)
EntriesBound(t) ==
    \A p \in PeerEntries :
        t.peers[p].InternalInvokeID # 0 =>
            \E i \in Slots :
                /\ t.list[i].InvokeID = t.peers[p].InternalInvokeID
                /\ t.list[i].dest = t.peers[p].PeerAddress

(* Entries in use differ in their internal ID and in (address, peer ID).   *)
EntriesDistinct(t) ==
    \A p, q \in PeerEntries :
        /\ p # q
        /\ t.peers[p].InternalInvokeID # 0
        /\ t.peers[q].InternalInvokeID # 0
        => /\ t.peers[p].InternalInvokeID # t.peers[q].InternalInvokeID
           /\ \/ t.peers[p].PeerAddress # t.peers[q].PeerAddress
              \/ t.peers[p].PeerInvokeID # t.peers[q].PeerInvokeID

(* Every slot in use has a peer entry.                                     *)
SlotsOwned(t) ==
    \A i \in Slots :
        t.list[i].InvokeID # 0 =>
            \E p \in PeerEntries :
                t.peers[p].InternalInvokeID = t.list[i].InvokeID
=============================================================================
