# TLA+ models of the BACnet stack

This directory models the parts of the stack where its own state machines
live: confirmed transactions and segmentation, COV subscriptions, the MS/TP
token ring, BACnet/IP broadcast management, the BACnet/SC connection to a hub,
and the ring buffer beneath the data links. The modules are translated from the
C source; paths below are relative to the repository, and `PROJECT.json` maps
every definition to its lines.

## 1. Inventory of the system

The library runs in one thread, except for the websocket workers of BACnet/SC
and the interrupts or threads of the serial data links. The application's main
loop takes one received NPDU from the data link, hands the APDU in it to
`apdu_handler`, calls the periodic tasks (`tsm_timer_milliseconds`, the COV
task, DCC and BBMD timers) and lets the application send requests and poll for
their ends. Nothing of this is persisted: a restart loses every table, which
matters where another node relies on one (foreign devices). What is hard is
the order in which calls arrive, what the network does to messages, timers, and
state that is read before a lock is released and used after it.

| Component (source) | State | Operations | Hard behaviour | Correct when |
|---|---|---|---|---|
| Transaction state machine (`src/bacnet/basic/tsm/tsm.c`) | `TSM_List` (slots), `TSM_Peer_Ids`, `Current_Invoke_ID`, `Duplicate_Count` | reserve, free and find a slot; receive a segment or a SegmentACK; start a segmented answer; timer | peers and application share the slots; 8-bit IDs are reused; segments and acknowledgements are lost, repeated, late | IDs are unique, the two tables stay in step, data is reassembled in order, every exchange ends |
| APDU dispatch (`basic/service/h_apdu.c`) | timeouts, retries, handler tables | one branch for each PDU type | the branches look the same invoke ID up in different tables | an answer ends the transaction it answers |
| Service handlers (`h_rp.c`, `h_rpm.c`) | none | encode an answer, send it whole, in segments or as an Abort | run inside the call that received the last segment | the answer respects the client's limits |
| Request senders (`s_*.c`), read/write client (`basic/client/bac-rw.c`) | queue of targets, invoke ID being waited for | send, poll | the ID polled may have been freed and reused | polling ends, and ends only its own request |
| Address cache (`basic/binding/address.c`) | table with time to live | bind, expire, evict | full table, static entries | bound addresses are the last announced |
| COV (`basic/service/h_cov.c`) | subscriptions, addresses, an invoke ID for each | subscribe, cancel, tick, notify, confirm | holds TSM IDs across turns of the loop | every live subscription is notified |
| Device communication control (`dcc.c`) | state and duration | enable, disable, tick | gates read by three callers | ends on time |
| MS/TP (`datalink/mstp.c`, `dlmstp.c`) | master FSM, receive FSM, token bookkeeping | frame received, silence, timers | lost or doubled token | one token, recovered when lost |
| BACnet/IP BVLL (`datalink/bvlc.c`, `basic/bbmd/h_bbmd.c`), IPv6 | broadcast and foreign device tables | register, expire, forward | expiry races registration; forwarding loops | each subnet gets a broadcast once |
| Network layer (`basic/npdu`, `npdu.c`) | routes | route, reject | hop count | no loop |
| Ring buffer, FIFO, timers (`basic/sys`) | head, tail, counters | put, get | one side runs in an interrupt | nothing lost or read twice |
| BACnet/SC (`datalink/bsc`) | connections, hubs | connect, accept, forward | reconnection | failover to the other hub |
| Objects, encoding, uBASIC, ports, applications | values | property access, codecs | mostly data | covered by the unit tests |

How the modelled parts interact. `apdu_handler` calls the TSM for every
confirmed PDU and then the service handler; the handler calls back into the TSM
(`tsm_set_complexack_transaction`) for an answer that does not fit. The slots
are shared: a segmented exchange that a peer starts takes a slot and an invoke
ID of our own (the "internal" ID), kept in `TSM_Peer_Ids`, from the same pool as
the requests of the application. The COV task takes slots from that pool for
confirmed notifications and keeps their invoke IDs across turns of the loop;
DeviceCommunicationControl stops it from sending. BBMDs and foreign devices, MS/TP
masters, and the two ends of a hub connection meet on their networks only. Inside a
BACnet/SC node the datalink, the node, the hub connector and its sockets call
each other under one lock and are called back by the worker threads.

## 2. Modules

| Module | What it is |
|---|---|
| `ApduSegments` | the arithmetic of segmentation (`get_apdu_max_segments`, `bacnet_calc_transmittable_length`, block sizes), with unsigned wrap-around |
| `TsmTable` | the slot table and the peer table; each C function is a function from a table to a table |
| `Tsm` | the state machine: one action for each call the main loop makes. `ServerSpec` is a device that only answers, `Spec` one that also sends requests |
| `ComplexAckPlan` | how one answer is cut into packets, for all lengths and limits |
| `SegmentTransfer` | abstract specification of one segmented exchange: segments are received in order, and the sender finishes only when the receiver has them all |
| `SegmentedResponse` | `Tsm` + a network that loses, repeats and reorders + a client that receives a segmented answer |
| `SegmentedRequest` | `Tsm` + the same network + a client that sends a segmented request |
| `Cov` | COV subscriptions on top of `Tsm`: subscription and address lists, lifetimes, the notification task, and DeviceCommunicationControl, which gates it |
| `MstpMaster` | the master node state machines of several stations and the line they share |
| `BoundedFifo` | abstract specification of a bounded queue from which any element may be taken |
| `RingBuffer` | the ring buffer between a producer and a consumer that preempt each other at every octet; refines `BoundedFifo` |
| `Bbmd` | broadcasts over several IP subnets: BBMDs, their foreign device tables, the foreign devices |
| `ScNode` | a BACnet/SC node, from `bsc_init` to the websocket workers, and its two hubs |
| `TsmProofs` | lemmas and theorems about the tables and the state machine, a device that only answers, and the data of segmented exchanges |
| `SegmentedRequestProofs`, `SegmentedResponseProofs` | the refinement of `SegmentTransfer`, on top of `TsmProofs`; the second also has the theorems about `ComplexAckPlan` |
| `MstpMasterProofs`, `RingBufferProofs`, `ScNodeProofs`, `CovProofs`, `BbmdProofs` | lemmas and theorems about the module of that name |
| `MC...` | instances for TLC |

State and code. The variable `tsm` holds `list` (TSM_List), `peers`
(TSM_Peer_Ids) and `cur` (Current_Invoke_ID, which `dlenv_init` may set to any
value at start-up, so `Init` allows every ID); `Duplicate_Count` is the static
counter of tsm.c. `pending` and `refused` are what the application waits for
and what it has been told was refused (the `invoke_id` and error flag it keeps);
`asked` is a history of requests on the wire, from which late answers are
taken; `out` is what the last call sent or handed to the application, in order.
`nullbuf` stands for the memory at address 0 (see difference 6 in section 4).

An action is a whole call. `apdu_handler_confirmed_service_segment`, for
instance, looks up or creates the peer entry, stores the segment,
acknowledges, and after the last segment clears the peer entry, runs the
handler, which may take a second slot for its answer, and frees the slot of the
request: one step. Table functions are therefore operators on tables and not
actions.

Data is abstract: a payload is the triple (source, invoke ID, sequence number)
of the segment it came in, an APDU kept for sending is its length, the largest
APDU of the peer and the invoke ID in its header. A service handler is an
element of `Service`: how long its answer is, what the client announced, and
whether the data link takes the packet. Timers, retry counters and sequence
numbers keep their widths as the parameters `TIMER`, `BYTE` and `SEQ`. Fields
of a free slot that every function writes before reading are reset when it is
freed, so that states that cannot be told apart are one state.

`Cov` extends `Tsm`: its slots and IDs are the ones of `TsmTable`, its
notifications are answered by `AckReceived` and `ErrorReceived` and repeated by
`tsm_timer_milliseconds`. One call of `handler_cov_fsm` is one action: it looks
at one subscription in one of the passes mark, clear, free and send, so that
everything else can happen between two subscriptions of a pass. `owed` is a
history: which subscribers have not been sent the value of now, whether the change
came after the MARK pass had gone by them (`overtaken`), and whether the flag was
then cleared for another subscription (`forgotten`).

In `MstpMaster` a tick is the time of one frame. In a tick each station makes
one call of `dlmstp_receive`, which calls `MSTP_Master_Node_FSM` until it returns
FALSE; each such call is an action named after the transition in the code's
comments. Octets are abstracted: a frame is heard whole, as an invalid frame, or
as noise; `EventCount` is kept as the only thing the code asks of it, whether it
is above `Nmin_octets`.

`Bbmd` delivers datagrams one at a time from a bag, in any order. Time is a
sequence of seconds in which every node runs its timers once, in any order. One
broadcast is sent in a behaviour.

`ScNode`: all but websocket-cli.c runs under one lock, so a call is a step, and
a C function is a function from the state to the state. A worker takes an event
of libwebsockets under its own lock and dispatches it in a later step; between
the two anything may happen. Timers may run out whenever they are set. An answer
of the hub that comes after the timer counts as a fault.

`RingBuffer`: a step is one volatile access or one copied octet. `head++` and
`tail++` are one step each, since each has one writer.

## 3. Runs

Deadlock is checked in every run but `packets`, where a finished answer has no
next step, and `sc`, where `bsc_cleanup` can wait for ever (section 4, 14).

| Run | Instance | Checks |
|---|---|---|
| `server` | 2 peers using the same invoke ID, 2 slots, 2 entries, IDs 1..3, windows 0..2 (0 is out of range), up to 3 segments, sequence numbers modulo 4 | `TypeOK`, `UniqueInvokeIDs`, `PeerEntriesBound`, `PeerEntriesDistinct`, `NoOrphanSlot`, `ReassembledInOrder`, `ReassemblyConsistent` |
| `client` | 1 peer that also answers our requests, 2 slots, 2 IDs; four segment timeouts are longer than the APDU timeout, as in the default settings | `UniqueInvokeIDs`, liveness `SilenceEndsExchanges` |
| `request` | 1 client, request of 3 segments, window 2 | `ServedWhole`, refinement `ImplementsTransfer` |
| `response` | 1 client, answer of 3 segments, windows 0 and 2 in acknowledgements, one message delivered twice | `WindowBehindClient`, `ResponseInProgress`, refinement `ImplementsTransfer`, liveness `ResponseEnds` |
| `packets` | lengths 1..60, five APDU sizes, five segment limits | `PacketsTile`, `WithinClientLimits` |
| `mstp_ring` | 3 stations, any of which start together while the others join later, no faults, 2 data frames | `OneToken`, `OneTalker`, action property `NeverLost` |
| `mstp_faults` | 2 stations, 2 faults | `TypeOK`, liveness `RingRecovers` |
| `cov` | 2 subscribers, who may monitor the same object, with 3 subscriptions for a list of 2, 1 slot, DCC for a minute or for ever | `AddressesShared`, `SlotsHeld`, `NoChangeLost`, liveness `EveryoneTold` |
| `ringbuf` | 4 elements of 2 octets, indices modulo 8, 3 values | `CellStaysFree`, refinement `ImplementsFifo` |
| `bbmd` | 2 BBMDs, 2 devices, 1 foreign device and 2 guests for a table of 2, 1 fault | `NoStorm`, `NotBackToItsSubnet`, `OneEntryEach`, `StaysRegistered`, liveness `EveryoneHears`, `ComesBack` |
| `sc` | 2 hubs, 2 websockets, room for 2 PDUs, 2 faults, 1 refused connection | `ConnectorMatchesSocket`, `WorkerPerSocket`, liveness `Reconnects`, `StopEnds`, `Flushed` |
| `sc_cleanup` | the same with 1 fault; refuted (section 4, 1) | `CleanupBlocks` |

Why these bounds are enough. Two slots for two peers is the least in which
slots are scarce, shared and reused under another ID: with three IDs for two
slots the ID counter wraps, steps over an ID in use and gives a freed ID to
another exchange. The segment limit (2 or 3) is reached and exceeded, windows
are filled, over-filled and refused, timers expire at 1 and at 4 ticks, retries
run out. Sequence numbers wrap sooner than in the code (`SEQ` 3, 4, 8 for 256)
but stay above the largest number of segments, as 256 is above 25
(`MAX_SEGMENTS_ACCEPTED`); this is the assumption `TsmConstants`. Symmetry over
peers is used in runs without liveness only. `MaxPending` (requests the
application waits for at once) and `MaxCopies` (deliveries that leave the
message in the network) bound what would otherwise be unbounded; in `request`
the network is a set and duplication is unbounded.

In the newer runs the bounds are the least with which tables are contended
and counters wrap. `cov`: two subscriptions of one device share an address entry,
two devices share an object and its change flag, the third subscription finds the list full or reuses a place, two confirmed subscriptions wait
for one slot, which is also freed by a timeout; a lifetime of one second expires
in every pass. `mstp_ring`: the third station is found by polling while the other
two pass the token, the poll count and the retry count run out, and requests are
answered in time or postponed. `mstp_faults`: two faults are enough to lose a token
and its repetition, or to lose one and make a second; `MaxData` bounds the
traffic, because a station that keeps being asked resets `TokenCount` and never
polls. `ringbuf`: indices wrap after 8 elements, twice the size, so that searches
begin before and after a wrap of the head, with the tail on either side. `bbmd`: with a TTL of 1 and a
grace period of 2 an entry outlives one lost renewal and not two; guests take
every place before the device asks, and their entries expire. `sc`: two
websockets are as many as two hubs can use, so a freed handle is taken again by
the other socket; two faults are a lost connection while the one before is still
being reported, or a restart and a loss (three faults also pass, in two minutes).

`SilenceEndsExchanges` says that once only the timer runs, all slots are
eventually IDLE, and `EveryoneTold` that once nobody subscribes, cancels or
changes a value, everyone is up to date. Their hypotheses (eventually only such
steps) are part of the property.

Fairness, all of it weak:

- The timer of the TSM, the COV task and the second timers: every main loop in
  the repository calls them for ever, whatever is received. A confirmed COV
  notification needs no answer to end, only the timer.
- MS/TP: every powered station keeps calling `dlmstp_receive`. The hypothesis of
  `RingRecovers`, that stations do not send at the same time for ever, excludes
  stations whose clocks agree so well that they collide each time; real ones do
  not.
- BBMD: what the network does not lose arrives, main loops run, time passes.
- BACnet/SC: workers run, `bsc_maintenance_timer` is called, so set timers
  expire; a running hub answers a Connect-Request it received and drops a peer
  that has sent nothing for two heartbeat periods, as the acceptor's side of this
  code does (`bsc-socket.c:732`). A received message sets the heartbeat timer of
  the node anew (`bsc-socket.c:660-670`), so that a hub that never stops sending keeps
  it from expiring; it is then the hub that drops the node, which has sent nothing,
  and what `Flushed` and `StopEnds` promise stands. Hubs that fail need not return; applications need
  not call anything.

Peers, applications, subscribers and the network promise nothing else.

What is left out of the properties: `NoOrphanSlot`, `PeerEntriesBound` and
`PeerEntriesDistinct` hold for a device that only answers. With requests of its
own the first is not meaningful (those slots have no entry) and the second is
false (section 4). `NoStorm` allows a BBMD and a foreign device two copies where the IP stack returns
a BBMD's own Forwarded-NPDU, which the handler takes for one of a peer.
`NoChangeLost` and `EveryoneTold` make an exception of subscribers that the code
forgets when two subscriptions are for one object (`owed` is then `forgotten`), and
`ImplementsFifo` of `Ringbuf_Pop_Element` while the head has wrapped and the tail has
not (`Astray`); section 4, 9 and 15 refute them without the exception.

## 4. Where the code and its documentation differ

The first is a run of the project. The configurations of the others are kept
beside the modules; `tlc -config <cfg> <module>` finds a trace from the initial
state for each.

1. `sc_cleanup` / `CleanupBlocks`. A restart for a duplicate VMAC signals
   `bsc_event` with nobody waiting. The next `bsc_cleanup`, documented as blocking,
   returns while the node is still stopping; the node cannot be released and keeps
   its place, and later calls of `bsc_init` fail.
2. `MCTsmPeerAndClient.cfg MCTsm` / `PeerEntriesBound`. `tsm_free_invoke_id` frees
   by invoke ID alone (`tsm.c:318`). An ID that the application still polls, or that
   a late ACK names, may by then belong to a peer's exchange; its slot is freed,
   its entry stays, and the lookup marked "shall not fail" (`tsm.c:711`, `1062`)
   fails.
3. `MCTsmInternalID.cfg MCTsm` / `InternalIDsStayInternal`. The Abort for an
   unexpected SegmentACK carries the internal invoke ID (`tsm.c:1247`), "the unique
   id to use within our internal states" (`tsm.h:57`).
4. `MCTsmIdle.cfg MCTsm` / `NeverStayIdle`. A first segment with a window size out
   of range is aborted, but its slot stays allocated in IDLE, where no timer runs
   (`tsm.c:748`); "We never stay in IDLE state" (`tsm.c:719`).
5. `MCTsmLongTimer.cfg MCTsm` / `AbortedIsNotServed`. With four segment timeouts
   above the APDU timeout, which the default settings (5000 and 3000 ms) give, each
   later segment is answered with an Abort and nevertheless stored, acknowledged
   and in the end carried out (`tsm.c:785`); the comment says "enter IDLE state"
   (`tsm.c:780`).
6. `MCTsmCopy.cfg MCTsm` / `KeepsTheCopy`. The request is copied through
   `plist->apdu` (`tsm.c:248`), which is a null pointer unless the slot once sent a
   segmented answer; "copy of the APDU, should we need to send it again"
   (`tsm.h:98`). The model lets the octets land in `nullbuf`, shared by all such
   slots; where the write traps, the program stops, which is a behaviour that ends
   there.
7. `MCTsmAnswer.cfg MCTsm` / `AnswerEndsTransaction`. An Error, Reject or Abort for
   a request of our own is looked up in the peer table only (`h_apdu.c:841`): the
   application is told, the slot keeps waiting and repeats the request; "free the
   invoke ID when the reply comes back" (`tsm.h:133`).
8. `MCMstpPasser.cfg MstpMaster` / `PasserHeardSuccessor`. The reset of `EventCount`
   when the token is sent is commented out (`mstp.c:966`), so octets heard before
   count as those of the successor (comment at `mstp.c:1016`). The port for the
   PIC18F97J60 resets it. `RingRecovers` shows that the ring still recovers.
9. `MCCovLostChange.cfg MCCov` / `NeverForgotten`. With two subscriptions for one
   object, a value that changes between the marking of the first and the clearing
   is cleared for the second although the first is not marked: its subscriber is not
   told until the value changes again or it renews. `NoChangeLost` shows that this is
   the only way. The comment says "clear the COV flag after checking all subscriptions"
   (`h_cov.c:655`).
10. `MCBbmdDirected.cfg MCBbmd` / `NotBackToItsSubnet`. With directed broadcast
    masks, the entry of the BBMD itself gives the broadcast address of its own
    subnet, which differs from `my_addr` (`h_bbmd.c:381`): the Forwarded-NPDU also goes
    to its own subnet, which has had the original; "to each IP subnet in its BDT
    with the exception of its own" (`h_bbmd.c:1127`).
11. `MCScDisconnect.cfg ScNode` / `DisconnectIsFinal`. A connection established
    after `bws_cli_disconnect` is CONNECTED again (`websocket-cli.c:244`). The node
    then stops only when the hub drops a peer without heartbeats (`StopEnds`).
12. `MCScWakeup.cfg ScNode` / `WakeupKept`. `want_send_data` is reset after the
    dispatch (`websocket-cli.c:386`) and forgets a `bws_cli_send` made meanwhile. The
    data waits for the next heartbeat (`Flushed`).
13. `hub_connector_connect` drops the result of `bsc_connect`
    (`bsc-hub-connector.c:180`): when that fails at once, the connector stays in
    CONNECTING. `Reconnects` and a part of `ConnectorMatchesSocket` say so
    (`refused = 0`).
14. A restart whose start fails leaves the node idle without an event
    (`bsc-node.c`, `process_stop_event`), and a `bsc_cleanup` that waits for it waits
    for ever. A `bsc_init` whose node cannot start never frees its place.
15. `MCRingBufferWrap.cfg RingBuffer` / `RemovesTheSpecified`. The searches compare
    `index < head` (`ringbuf.c:161`, `224`): with a head that has wrapped, after 2^32
    puts, and a tail that has not, they find nothing. `Ringbuf_Peek_Next` returns
    NULL, and `Ringbuf_Pop_Element` still does `tail++` (`ringbuf.c:252`): the oldest
    element goes and the one asked for stays; "Copy the data from the specified
    element, and removes it" (`ringbuf.c:206`).

Also seen, without a configuration:

- For a reserved max-APDU code `decode_max_apdu` gives 0, the unsigned difference
  in `get_apdu_max_segments` wraps and the answer is sent as one empty packet (the
  value 0 is in the `packets` run, whose properties speak of segmented answers).
- `tsm_segmentack_received` does not check the window size in a SegmentACK
  (`tsm.c:1202` on): with one of 233 or more, outside the 1 to 127 of the protocol, an
  old acknowledgement counts around the sequence numbers as that of the last segment
  of an answer of 25, and the exchange ends early.
- All exchanges share `Duplicate_Count` (`tsm.c:32`). When one with a larger window
  has raised it above the window of another, duplicates of that one are dropped
  without an acknowledgement until another exchange or a segment out of order resets
  it (`tsm.c:644`).
- With `apdu_retries()` set to 0 the retry counter of a segmented answer wraps
  (`tsm.c:1344`) and an unanswered window is sent 255 times more; the exchange ends
  after that.
- With NAT handling on, the forwarding loops skip every address that differs from
  the global one, where the comment describes the opposite (`h_bbmd.c:390`, `457`).
  `bvlc_delete_from_bbmd` clears `Remote_BBMD` and then sends to it (`h_bbmd.c:1285`,
  `1291`). Distribute-Broadcast-To-Network is accepted from devices that are not
  registered.
- A confirmed notification that fails is not repeated by the COV task, and
  subscriptions with a high index wait while those before them take the slots.
- A node that fell back to the failover hub stays there while the primary is up.

## 5. Theorems

All are proved for every value of the constants that satisfies the named
assumptions of the modules: `SegmentSizes` (headers are shorter than APDUs),
`TsmConstants` (at least one slot and one entry, at most one slot for each invoke
ID, timeouts and retries fit their fields, fewer segments than sequence numbers),
`WindowSizes`, `PendingBound`, `ServiceType`, `AnswerSizes` (no peer announces
APDUs of exactly a segment header: `decode_max_apdu` gives 0 or at least 50, and
`get_apdu_max_segments` would divide by zero), `PlanConstants` (the same, and an
answer and its header fit a `uint32_t`), `CovConstants`, `BbmdConstants`,
`RequestConstants`, `ResponseConstants`, `AnswerIsSegmented` (the answer of `SegmentedResponse` takes at least
two segments), `RingConstants` (the size divides the range of the indices, as the powers of two
that `Ringbuf_Initialize` accepts do), `ScConstants`, and of `MstpMaster`
`AddressAssumption` (addresses are at most `Nmax_master`), `CountAssumption` and
`TimeAssumption`. The last gives the order of the timeouts of mstpdef.h: usage timeout
(35 ms) below reply timeout (250 ms), reply delay (245 ms) below it by more than a
tick, reply timeout below `Tno_token` (500 ms). The second of these is where the code
is close to its limit: its 5 ms are for the first octet of the reply to arrive, and
the theorems without faults say nothing of a line where it takes longer. Five
theorems have a hypothesis of their own, in the table.

| Theorem | Statement |
|---|---|
| `TsmProofs!TypeCorrect` | `Spec => []TypeOK` |
| `TsmProofs!InvokeIDsUnique` | `Spec => []UniqueInvokeIDs` |
| `TsmProofs!EntriesAlwaysBound` | `ServerSpec => []PeerEntriesBound` |
| `TsmProofs!EntriesAlwaysDistinct` | `ServerSpec => []PeerEntriesDistinct` |
| `TsmProofs!NoSlotOrphaned` | `ServerSpec => []NoOrphanSlot` |
| `TsmProofs!ReassemblyConsistentTheorem` | `Spec => []ReassemblyConsistent` |
| `TsmProofs!ResponseInProgressTheorem` | `Spec => []ResponseInProgress` |
| `TsmProofs!ReassembledInOrderTheorem` | `ServerSpec => []ReassembledInOrder` |
| `SegmentedRequestProofs!ServedWholeTheorem` | `RequestSpec => []ServedWhole` |
| `SegmentedRequestProofs!RequestImplementsTransfer` | `RequestSpec => ImplementsTransfer`, if `WindowFits` and `~ TimerTooLong` |
| `SegmentedResponseProofs!ResponseImplementsTransfer` | `ResponseSpec => ImplementsTransfer`, if `WindowsFit` |
| `SegmentedResponseProofs!WindowStaysBehindClient` | `ResponseSpec => []WindowBehindClient`, if `WindowsFit` |
| `SegmentedResponseProofs!PacketsTileTheorem` | `PlanSpec => []PacketsTile` |
| `SegmentedResponseProofs!WithinClientLimitsTheorem` | `PlanSpec => []WithinClientLimits` |
| `MstpMasterProofs!TypeInvariant` | `Spec => []TypeOK` |
| `MstpMasterProofs!OneTokenTheorem` | `Spec => []OneToken` |
| `MstpMasterProofs!OneTalkerTheorem` | `Spec => []OneTalker` |
| `MstpMasterProofs!NeverLostTheorem` | `Spec => NeverLost` |
| `RingBufferProofs!CellStaysFreeTheorem` | `Spec => []CellStaysFree` |
| `RingBufferProofs!RingImplementsFifo` | `Spec => ImplementsFifo`, the refinement of `BoundedFifo` with its exception (`TakeAstray`) |
| `ScNodeProofs!ConnectorMatchesSocketTheorem` | `Spec => []ConnectorMatchesSocket` |
| `ScNodeProofs!WorkerPerSocketTheorem` | `Spec => []WorkerPerSocket` |
| `CovProofs!AddressesSharedTheorem` | `CovSpec => []AddressesShared` |
| `CovProofs!SlotsHeldTheorem` | `CovSpec => []SlotsHeld` |
| `CovProofs!NoChangeLostTheorem` | `CovSpec => []NoChangeLost` |
| `BbmdProofs!OneEntryEachTheorem` | `Spec => []OneEntryEach` |
| `BbmdProofs!StaysRegisteredTheorem` | `Spec => []StaysRegistered`, if `GraceCovers` |
| `BbmdProofs!NotBackTheorem` | `Spec => []NotBackToItsSubnet`, if `WellPlaced` |

The tables of the TSM. The first part of `TsmProofs` shows what each function of
`TsmTable` does. The heart
is `SearchFindsID`: with a free slot there are fewer IDs in use than IDs
(pigeonhole, by cardinality), so the search loop of `tsm_next_free_invokeID`
ends at an unused one, also when it wraps. `WellFormed` (types and unique IDs)
is preserved by each function.

The second part reduces the handlers to a few shapes. `Edited`: slots are written
without changing their ID or device, then perhaps one is freed. `HandedOver`: the
last segment, where the entry is cleared, the handler runs and the slot is
freed. `ComplexAckEnds`: an answer is written into the slot of its exchange. The
inductive invariant for the first two theorems is `TypedAndUnique`: uniqueness
alone is not inductive, because the allocator's result is known only for a
typed table, and the types of what is written depend on all of `TypeOK`.

The third part, on a device that only answers, needs a stronger invariant, `InStep`. The three properties
are not inductive one by one: a new ID differs from the IDs in the peer table
only because every entry names a slot in use; freeing by ID is right only
because IDs and entries are distinct; writing an answer's address into a slot is
harmless only because the entry already names that device. Within the call that
handles the last segment the correspondence is broken on purpose, so `Paired`
takes the ID of the one slot allowed to have no entry; `FreeCheckRepairs` shows
that the end of the call restores it.

Segmented exchanges. `ConsistentInv` adds to `TypedAndUnique` what a slot in the
middle of an exchange satisfies: `Receiving` (number, count, data and window agree)
and `Answering` (two to `MAX_SEGMENTS_ACCEPTED` segments, one of them still to be
sent). Most table functions are `Calm`: they leave a slot alone or take it out of
its reassembly. What remains is arithmetic: the window that
`DuplicateInWindow` accepts never contains the segment that is expected
(`NextInWindow`), an accepted acknowledgement moves an answer forward by at most its
window (`SlidAnswers`), and the limit of `bacnet_calc_transmittable_length` bounds
the number of segments (`FewSegments`, where `AnswerSizes` is needed).
`ReassembledInOrder` speaks of the source of the data, which a slot does not
record: `Tagged` says that the data of a slot came in order from the exchange that
its peer entry names. It is inductive only together with `InStep`: a slot freed and
taken again under the same ID could otherwise be found through an old entry. What a
call sends is described by `OneIndication` (at most one indication); for the timer, which strings the output of all slots
together in the recursive function `resent`, its equation and the property are
proved by least counterexample.

A request in segments. `ServedWhole` holds without a hypothesis: every segment in
the network is one of the request (`Segments`), a slot takes a segment only when its
number is the length of what it has (`LastIsWhole`), and the number of segments is
below `SEQ`. The refinement adds `Progress`: a slot that receives has the window that
was proposed and less than the whole request (`Ours`), until the handler is called no
other slot holds data (`Clean`), and an acknowledgement of the last segment is in the
network only when the handler has been called (`Known`). `Took` says what a segment
does: it completes the request, or lets what is held stay, grow by one or go, and then
the last segment is not acknowledged. After the request has been served
the invariant asks less of the slots: a repeated request may be reassembled and served
again, which `SegmentTransfer` does not see.

An answer in segments. `ResponseInv`: the first segment of the server's window is one
the client has or expects, and acknowledgements in the network, old ones included, are
of segments the client has. An acknowledgement moves the window by its distance modulo
`SEQ`; that this is the segment it names is arithmetic, and here the windows matter.

`WindowFits` and `WindowsFit` say that a window and the number of segments together
do not exceed the sequence numbers by more than one. Both are tight: with `SEQ = 8` and
three segments TLC confirms the refinement for a window of 6 and refutes it for 7, where
an old acknowledgement is counted around the sequence numbers (section 4, also seen). With 256
sequence numbers and at most 25 segments every window that the protocol allows (up to
127) satisfies it. `~ TimerTooLong` is needed as well: with it false each segment puts
the slot into IDLE, and the next one starts the request over.

Packets. `PlanInv` adds the decision that was made (`Segmented`) and the range of
the packet index. A segmented answer has a client that takes more than a header
(`SegmentedBlocks`: for a maximum below it the difference wraps to a large divisor
and the number of packets is 1), so positions are multiples of a positive block
size. The limit on segments follows from the check on octets because every segment
but the last is full.

MS/TP. `TypeOK` holds with faults and without; it is inductive with one fact more,
that a station in USE_TOKEN has a frame of its allowance left. The other three
are about a line on which no fault has happened (`OneToken` and `OneTalker` say so
themselves), and rest on one invariant, `RingInv`. Without a fault the line is `Silent` or it has a token
(`HasToken`). `Silent`: all timers agree and no slot has gone by, so the
first slot to come is that of the lowest address alone, and the others
hear its poll before theirs. `HasToken` is one of
eight phases of the exchange between the holder of the token and the station it
talks to: the holder may send (`Owner`); a frame of its is on the line (`Sent`); the
token has been heard by its receiver (`Passed`); a poll or a request has been heard
(`Asked`); the reply is being looked for (`Answering`), is on the line (`Replied`),
has been heard (`Answered`); or nobody answers (`Waiting`). In
each of them all other stations are `Bystander`s: nothing unread that they would
act on, a timer below `Tno_token`, and in PASS_TOKEN only until they hear their
successor. None of the three properties is inductive: that a reply does not
meet a frame of the holder needs both timers, which `TimeAssumption` compares; that a
token is taken needs that `Next_Station` of every station that has one is on and
has left INITIALIZE, and that follows from how it was learned, by a poll
that was answered. `RingInvariant` proves `RingInv` for every set of stations.
A station that starts on a line without a token counts as a fault,
since its timer and those of the others disagree; one that joins a ring does not.
Once a fault has happened there is `TypeOK`, and from TLC `RingRecovers`.

Ring buffer. `RingInv` says which cells hold what: the distance from tail to head
is modulo the width of the indices and never above the size (`Held`); a put in
progress has written a prefix of its element (`WrittenSoFar`); a pop has copied one
(`CopiedSoFar`); and `Ringbuf_Pop_Element` has moved some of the older elements up
(`MovedSoFar`). That the size divides the range of the indices is what makes a
wrap harmless for puts and pops. A search that finds nothing (`Astray`) leaves the
cells alone and the oldest element goes. The refinement maps the cells between tail
and head to the queue, without the element that is being removed (`Queued`): head and tail steps are
puts and gets, all other steps stutter.

BACnet/SC. `ScInv`: types, agreement of the layers on who is running
(`LayersAgree`), at most one socket in use (`OneActive`), the connector's state names
it (`Matches`), and each socket in use and each worker belong together
(`Workers`). Neither property is inductive: an event reaches the right socket only
because there is no other, and there is no other only because the connector starts
one after the last has been reported ended.

COV. `CovInv`: types, `Shared` (addresses), `Held` (slots) and `Notifying` (the table
of a device that sends nothing but notifications: invoke IDs are unique and no peer
has an exchange). A subscription's slot is freed by the ID it remembers; that this
never takes the slot of another subscription, or leaves one behind, needs the
uniqueness of IDs from `TsmProofs` and the types of both lists at once. `ChangeInv`
adds what `NoChangeLost` does not say of the passes: a subscriber that is owed the
value, is not marked and has been gone by (`Behind`) is one whose flag was set
after the MARK pass came by (`overtaken`), so the CLEAR pass takes such a flag away
only for another subscription.

BBMD. `TablesOK` suffices for `OneEntryEach`. `StaysRegistered` needs `LeaseInv`: the
entry of an accepted device lasts as long as the device may take to renew, counted
from the timers of both and from the registration under way. `GraceCovers`, a lease
two seconds longer than the time to live, is the tight bound: one second for each of the
two timers that may tick first; with a grace of 1 TLC finds a violation. The code's 30
seconds give it for all times to live but 65534 and 65535, which the counter of 16
bits cuts short. `NotBackToItsSubnet` follows from `AllOnTheirWay`, what each datagram
in the network may still reach, in a network as `WellPlaced` describes it: one BBMD
to a subnet, and an own entry with a unicast mask. Section 4, 10 shows that the last
condition is needed; it leaves the masks of the other entries open.

Only model-checked:

- All liveness: the prover has no rules for fairness and ENABLED.
- `NoStorm`, which counts copies of a broadcast and would need sums over a bag.

## 6. Not modelled

- In the TSM: a failing `calloc`; `tsm_get_transaction_pdu` and
  `tsm_transaction_idle_count`, which only read; the timeout
  callback, which nothing in the repository registers; `SentAllSegments` and
  `ProposedWindowSize`, which are written and never read.
- In the dispatch: unconfirmed services, registration of handlers, the length
  checks of malformed APDUs, and the octets of headers. Where
  DeviceCommunicationControl makes the stack ignore a request, the model has a
  handler without an answer.
- `Send_..._Request` is modelled on ReadProperty; the other senders have the
  same shape. Address binding and the queue of `bac-rw.c` are not in the model.
- The client side of a segmented exchange and the network are not in the
  repository; `SegmentedRequest` and `SegmentedResponse` describe them from what
  tsm.c expects. This stack does not reassemble segmented answers to its own
  requests.
- COV: the encoding of lists, and objects other than those whose change flag
  works like a Binary Input's. A value is its change only.
- MS/TP: the octets of frames, slave nodes, zero-configuration, the queue between
  `dlmstp_send_pdu` and the state machine (a station that may send decides to).
- BBMD: NAT, messages that read or write the tables, results of requests
  (nothing in the code acts on them), loss of broadcasts, several broadcasts at
  once (forwarding changes no table).
- BACnet/SC: hub function and direct connections, address resolution,
  advertisements, received NPDUs, heartbeats of the hub, the values of VMACs,
  several application threads: the branch of `bsc_cleanup` for a start under way
  (`bsc-datalink.c:203-207`), and its signal to and wait for a thread in `bsc_receive`
  (`bsc-datalink.c:210`, `214`). With one application thread that wait returns at once;
  with another in `bsc_receive` it may not, and `StopEnds` does not speak of it. The hubs and libwebsockets are not in the
  repository's control; they are modelled from what the code expects.
- IPv6 BVLL (the same tables under virtual addresses), the address cache, the
  network layer and the key list are sequential tables whose operations do not
  interleave; objects, codecs, the interpreter and applications are data and glue.
  The codecs are most of the repository's lines: they are functions from octets
  to structures, have no state to explore and are covered by its unit tests.

## 7. Plan

In order of importance.

1. Two stacks facing each other: an Abort from a server is sent back as an Abort
   from a server (`h_apdu.c:878`), so the composition can answer itself for ever.
2. An abstract token ring refined by `MstpMaster`; the hub's side of BACnet/SC.
