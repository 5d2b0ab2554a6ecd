------------------------------- MODULE ScNode -------------------------------
(***************************************************************************)
(* A BACnet/SC datalink and its connection to a hub: bsc-datalink.c,       *)
(* bsc-node.c (a node without hub function and node switch),               *)
(* bsc-hub-connector.c, the initiating side of bsc-socket.c, and           *)
(* websocket-cli.c and bsc-event.c of the Linux port.                      *)
(*                                                                         *)
(* Everything but websocket-cli.c runs under one lock, so a call of it is  *)
(* one step; each websocket has a worker thread, which takes an event      *)
(* under the lock of websocket-cli.c and hands it up in a later step.  The *)
(* C functions are functions from a state to a state.  Timers may run out  *)
(* whenever they are set.  The hubs, the network and libwebsockets are     *)
(* external; what they may do wrong is counted by faults.                  *)
(***************************************************************************)
EXTENDS Naturals, Sequences, FiniteSets

CONSTANTS
    Handles,      \* BSC_CLIENT_WEBSOCKETS_MAX_NUM websockets, numbered
    TxRoom,       \* PDUs that fit tx_buf
    MaxFaults,    \* bound on faults of hubs and network
    MaxRefused    \* bound on calls of bws_cli_connect that fail at once

PRIMARY == "PRIMARY"
FAILOVER == "FAILOVER"
Hubs == {PRIMARY, FAILOVER}
NoHandle == 0

ASSUME ScConstants ==
    /\ Handles \subseteq Nat \ {NoHandle} /\ Handles # {}
    /\ TxRoom \in Nat \ {0}
    /\ MaxFaults \in Nat /\ MaxRefused \in Nat

VARIABLES
    sc,       \* datalink, node, hub connector, context and its two sockets
    ws,       \* bws_cli_conn, with the worker and the far end of each
    ending,   \* workers that have freed their websocket and not yet said so
    up,       \* the hubs that run
    faults

vars == <<sc, ws, ending, up, faults>>

(* reason is only read in the states ERROR and ERROR_FLUSH_TX, which set   *)
(* it, so an idle socket keeps none.                                       *)
IdleSocket == [state |-> "IDLE", wh |-> NoHandle, reason |-> "OTHER",
               tx |-> <<>>]

(* pc is what the worker is about to do; opening, alive and asked are the  *)
(* far end: the handshake is not over, the hub still has the connection,   *)
(* the hub owes an answer.                                                 *)
IdleWs == [state |-> "IDLE", want |-> FALSE, pc |-> "loop", hub |-> PRIMARY,
           opening |-> FALSE, alive |-> FALSE, asked |-> FALSE, rx |-> <<>>]

(* used is the one place for a node, ev is v of bsc_event.                 *)
Init ==
    /\ \E url \in BOOLEAN :
          sc = [dl |-> "IDLE", ev |-> FALSE, used |-> FALSE,
                node |-> "IDLE", conn |-> "IDLE", ctx |-> "IDLE",
                sock |-> [k \in Hubs |-> IdleSocket],
                failover_url |-> url, refused |-> 0]
    /\ ws = [h \in Handles |-> IdleWs]
    /\ ending = [h \in Handles |-> 0]
    /\ up \in SUBSET Hubs
    /\ faults = 0

-----------------------------------------------------------------------------
(* websocket-cli.c.  A state s of these functions is [sc, ws].             *)

Active(s, k) == s.sc.sock[k].state # "IDLE"

bws_cli_disconnect(s, h) ==
    IF h # NoHandle /\ s.ws[h].state \in {"CONNECTING", "CONNECTED"}
    THEN [s EXCEPT !.ws[h].state = "DISCONNECTING"]
    ELSE s

bws_cli_send(s, h) ==
    IF s.ws[h].state = "CONNECTED"
    THEN [s EXCEPT !.ws[h].want = TRUE]
    ELSE s

(* The first free websocket starts to connect to hub k.                    *)
bws_cli_connect(s, k, h) ==
    [s EXCEPT !.ws[h] = [IdleWs EXCEPT !.state = "CONNECTING", !.hub = k,
                                       !.opening = TRUE,
                                       !.alive = k \in up],
              !.sc.sock[k].wh = h]

FreeHandles(s) == {h \in Handles : s.ws[h].state = "IDLE"}

-----------------------------------------------------------------------------
(* bsc-socket.c, the calls of the upper layer.  ok[k] tells whether        *)
(* bws_cli_connect would take a connection to hub k.                       *)

bsc_connect(s, k, ok) ==
    IF s.sc.ctx # "INITIALIZED" THEN s
    ELSE IF ok[k] /\ FreeHandles(s) # {}
    THEN bws_cli_connect(
           [s EXCEPT !.sc.sock[k] = [@ EXCEPT !.state = "AWAITING_WEBSOCKET",
                                              !.tx = <<>>]],
           k, CHOOSE h \in FreeHandles(s) : \A g \in FreeHandles(s) : h <= g)
    ELSE [s EXCEPT !.sc.sock[k] = IdleSocket, !.sc.refused = @ + 1]

(* bsc_cli_process_error: the socket waits in ERROR for its worker to end. *)
bsc_cli_process_error(s, k, reason) ==
    bws_cli_disconnect(
        [s EXCEPT !.sc.sock[k] = [@ EXCEPT !.state = "ERROR",
                                           !.reason = reason]],
        s.sc.sock[k].wh)

-----------------------------------------------------------------------------
(* bsc-hub-connector.c and bsc-node.c.                                     *)

Connecting(k) == IF k = PRIMARY THEN "CONNECTING_PRIMARY"
                                ELSE "CONNECTING_FAILOVER"
Connected(k) == IF k = PRIMARY THEN "CONNECTED_PRIMARY"
                               ELSE "CONNECTED_FAILOVER"

(* Mutant: without a failover hub the connector does not wait.             *)
hub_connector_connectWaitsNot(s, k, ok) ==
    IF k = FAILOVER /\ ~ s.sc.failover_url
    THEN [s EXCEPT !.sc.conn = Connecting(k)]
    ELSE bsc_connect([s EXCEPT !.sc.conn = Connecting(k)], k, ok)

(* The result of bsc_connect is not looked at.                             *)
hub_connector_connect(s, k, ok) ==
    IF k = FAILOVER /\ ~ s.sc.failover_url
    THEN [s EXCEPT !.sc.conn = "WAIT_FOR_RECONNECT"]
    ELSE bsc_connect([s EXCEPT !.sc.conn = Connecting(k)], k, ok)

(* A connector that cannot even start leaves nothing behind.               *)
bsc_hub_connector_start(s, ok) ==
    LET fresh == [s EXCEPT !.sc.ctx = "INITIALIZED",
                           !.sc.sock = [k \in Hubs |-> IdleSocket]]
        first == bsc_connect(fresh, PRIMARY, ok)
        second == bsc_connect(first, FAILOVER, ok)
        failed(t) == [t EXCEPT !.sc.ctx = "IDLE", !.sc.conn = "IDLE"]
    IN IF Active(first, PRIMARY)
       THEN [first EXCEPT !.sc.conn = Connecting(PRIMARY)]
       ELSE IF ~ s.sc.failover_url THEN failed(first)
       ELSE IF Active(second, FAILOVER)
       THEN [second EXCEPT !.sc.conn = Connecting(FAILOVER)]
       ELSE failed(second)

(* bsc_node_event of bsc-datalink.c for the events STARTED and STOPPED.    *)
bsc_node_event(s) == [s EXCEPT !.sc.ev = @ \/ s.sc.dl # "IDLE"]

bsc_node_start_state(s, ok) ==
    LET t == bsc_hub_connector_start(s, ok)
    IN IF t.sc.conn = "IDLE"
       THEN [t EXCEPT !.sc.node = "IDLE"]
       ELSE bsc_node_event([t EXCEPT !.sc.node = "STARTED"])

(* The context is gone: hub_connector_context_event, then the STOPPED      *)
(* event in the node, which ends or starts again.                          *)
hub_connector_context_event(s, ok) ==
    LET t == [s EXCEPT !.sc.ctx = "IDLE", !.sc.conn = "IDLE"]
    IN CASE s.sc.node = "STOPPING" ->
              bsc_node_event([t EXCEPT !.sc.node = "IDLE"])
         [] s.sc.node = "RESTARTING" -> bsc_node_start_state(t, ok)
         [] OTHER -> t

(* Mutant: the context is gone before its sockets are.                     *)
bsc_deinit_ctxAtOnce(s, ok) ==
    LET one == bws_cli_disconnect(s, s.sc.sock[PRIMARY].wh)
    IN hub_connector_context_event(
           bws_cli_disconnect(one, s.sc.sock[FAILOVER].wh), ok)

bsc_deinit_ctx(s, ok) ==
    LET t == [s EXCEPT !.sc.ctx = "DEINITIALIZING"]
        active == {k \in Hubs : Active(s, k)}
        one == bws_cli_disconnect(t, s.sc.sock[PRIMARY].wh)
        both == bws_cli_disconnect(one, s.sc.sock[FAILOVER].wh)
    IN IF active = {} THEN hub_connector_context_event(t, ok) ELSE both

bsc_hub_connector_stop(s, ok) ==
    IF s.sc.conn \in {"IDLE", "WAIT_FOR_CTX_DEINIT"} THEN s
    ELSE bsc_deinit_ctx([s EXCEPT !.sc.conn = "WAIT_FOR_CTX_DEINIT"], ok)

bsc_node_restart(s, ok) ==
    bsc_hub_connector_stop([s EXCEPT !.sc.node = "RESTARTING"], ok)

(* hub_connector_socket_event, which does not ask which socket it is.      *)
SocketConnected(s) ==
    CASE s.sc.conn = "CONNECTING_PRIMARY" ->
           [s EXCEPT !.sc.conn = "CONNECTED_PRIMARY"]
      [] s.sc.conn = "CONNECTING_FAILOVER" ->
           [s EXCEPT !.sc.conn = "CONNECTED_FAILOVER"]
      [] OTHER -> s

DuplicateVmac(s, reason) ==
    reason = "NODE_DUPLICATE_VMAC" /\ s.sc.conn # "WAIT_FOR_CTX_DEINIT"

NextAttempt(s, ok) ==
    CASE s.sc.conn = "CONNECTING_PRIMARY" ->
           hub_connector_connect(s, FAILOVER, ok)
      [] s.sc.conn = "CONNECTING_FAILOVER" ->
           [s EXCEPT !.sc.conn = "WAIT_FOR_RECONNECT"]
      [] s.sc.conn \in {"CONNECTED_PRIMARY", "CONNECTED_FAILOVER"} ->
           hub_connector_connect(s, PRIMARY, ok)
      [] OTHER -> s

(* Mutant: a refused address is reported to nobody.                        *)
SocketDisconnectedQuietly(s, reason, ok) ==
    IF DuplicateVmac(s, reason)
    THEN [s EXCEPT !.sc.conn = "DUPLICATED_VMAC"]
    ELSE NextAttempt(s, ok)

SocketDisconnected(s, reason, ok) ==
    LET t == [s EXCEPT !.sc.conn = "DUPLICATED_VMAC"]
    IN IF DuplicateVmac(s, reason)
       THEN IF s.sc.node \in {"STOPPING", "RESTARTING"} THEN t
            ELSE bsc_node_restart(t, ok)
       ELSE NextAttempt(s, ok)

-----------------------------------------------------------------------------
(* The application's thread.                                               *)

(* A call that connects may find that bws_cli_connect fails at once.       *)
Becomes(t) ==
    /\ t.sc.refused <= MaxRefused
    /\ sc' = t.sc /\ ws' = t.ws

Now == [sc |-> sc, ws |-> ws]
Outcomes == [Hubs -> BOOLEAN]

(* A node that could not start keeps its place.                            *)
bsc_init ==
    /\ sc.dl = "IDLE" /\ ~ sc.used
    /\ \E ok \in Outcomes :
          LET t == bsc_node_start_state(
                       [Now EXCEPT !.sc.dl = "STARTING", !.sc.ev = FALSE,
                                   !.sc.used = TRUE], ok)
          IN Becomes(IF t.sc.node = "IDLE"
                     THEN [t EXCEPT !.sc.dl = "IDLE"] ELSE t)
    /\ UNCHANGED <<ending, up, faults>>

InitReturns ==
    /\ sc.dl = "STARTING" /\ sc.ev
    /\ sc' = [sc EXCEPT !.ev = FALSE, !.dl = "STARTED"]
    /\ UNCHANGED <<ws, ending, up, faults>>

bsc_node_stop(s, ok) ==
    IF s.sc.node \in {"IDLE", "STOPPING"} THEN s
    ELSE bsc_hub_connector_stop([s EXCEPT !.sc.node = "STOPPING"], ok)

(* One application thread makes the calls.  It cannot find the datalink    *)
(* STARTING here, and nobody waits for bsc_data_event in bsc_receive, so   *)
(* that the signal bsc_cleanup gives is the one its second wait takes.     *)
bsc_cleanup ==
    /\ sc.dl = "STARTED"
    /\ \E ok \in Outcomes :
          Becomes(bsc_node_stop([Now EXCEPT !.sc.dl = "STOPPING"], ok))
    /\ UNCHANGED <<ending, up, faults>>

(* bsc_node_deinit refuses a node that is not idle, and nobody asks.       *)
CleanupReturns ==
    /\ sc.dl = "STOPPING" /\ sc.ev
    /\ sc' = [sc EXCEPT !.ev = FALSE, !.dl = "IDLE",
                        !.used = @ /\ sc.node # "IDLE"]
    /\ UNCHANGED <<ws, ending, up, faults>>

Room(s, k) == Len(s.sc.sock[k].tx) < TxRoom

Queued(s, k, pdu) ==
    bws_cli_send([s EXCEPT !.sc.sock[k].tx = Append(@, pdu)],
                 s.sc.sock[k].wh)

(* bsc_send_pdu, bsc_node_send, bsc_hub_connector_send and bsc_send.       *)
bsc_send(k) ==
    /\ sc.dl = "STARTED" /\ sc.node = "STARTED" /\ sc.conn = Connected(k)
    /\ sc.ctx = "INITIALIZED" /\ sc.sock[k].state = "CONNECTED"
    /\ Room(Now, k)
    /\ Becomes(Queued(Now, k, "Data"))
    /\ UNCHANGED <<ending, up, faults>>

(* bsc_socket_maintenance_timer, which also ends every event of a worker.  *)
(* c->t runs out while the hub owes an answer only if the answer is late.  *)
Late(k) == LET h == sc.sock[k].wh
           IN ws[h].alive /\ (ws[h].asked \/ ws[h].rx # <<>> \/ ws[h].want
                              \/ ws[h].pc # "loop")

SocketTimeout(k) ==
    /\ sc.ctx = "INITIALIZED"
    /\ sc.sock[k].state \in {"AWAITING_ACCEPT", "DISCONNECTING"}
    /\ \/ ~ Late(k) /\ UNCHANGED faults
       \/ Late(k) /\ faults < MaxFaults /\ faults' = faults + 1
    /\ Becomes(bsc_cli_process_error(Now, k, "OTHER"))
    /\ UNCHANGED <<ending, up>>

(* Mutant: a heartbeat is only sent when nothing else is to be sent.       *)
HeartbeatWhenIdle(k) ==
    /\ sc.ctx = "INITIALIZED" /\ sc.sock[k].state = "CONNECTED"
    /\ sc.sock[k].tx = <<>>
    /\ Becomes(Queued(Now, k, "Data"))
    /\ UNCHANGED <<ending, up, faults>>

(* A heartbeat that finds no room is not sent, and nothing is woken up.    *)
(* Every valid message from the hub puts the heartbeat off; no stream of   *)
(* such messages is modelled.                                              *)
Heartbeat(k) ==
    /\ sc.ctx = "INITIALIZED" /\ sc.sock[k].state = "CONNECTED"
    /\ Room(Now, k)
    /\ Becomes(Queued(Now, k, "Data"))
    /\ UNCHANGED <<ending, up, faults>>

hub_connector_process_state ==
    /\ sc.conn = "WAIT_FOR_RECONNECT"
    /\ \E ok \in Outcomes : Becomes(hub_connector_connect(Now, PRIMARY, ok))
    /\ UNCHANGED <<ending, up, faults>>

-----------------------------------------------------------------------------
(* The worker of websocket h: an event of libwebsockets, then its dispatch.*)

SocketOf(h) == {k \in Hubs : Active(Now, k) /\ sc.sock[k].wh = h}

(* The first step of a callback, under the lock of websocket-cli.c.        *)
Callback(h, pc, state) ==
    /\ ws[h].pc = "loop"
    /\ ws' = [ws EXCEPT ![h].pc = pc, ![h].state = state]
    /\ UNCHANGED <<sc, ending, up, faults>>

(* LWS_CALLBACK_CLIENT_ESTABLISHED does not look at the state.             *)
Established(h) ==
    /\ ws[h].state \in {"CONNECTING", "DISCONNECTING"}
    /\ ws[h].opening /\ ws[h].alive /\ ws[h].pc = "loop"
    /\ ws' = [ws EXCEPT ![h].pc = "connected", ![h].state = "CONNECTED",
                        ![h].opening = FALSE]
    /\ UNCHANGED <<sc, ending, up, faults>>

Received(h) ==
    /\ ws[h].state = "CONNECTED" /\ ws[h].rx # <<>>
    /\ Callback(h, "received", "CONNECTED")

Writeable(h) ==
    /\ ws[h].state = "CONNECTED" /\ ws[h].want
    /\ Callback(h, "sendable", "CONNECTED")

Closed(h) ==
    /\ ws[h].state \in {"CONNECTING", "CONNECTED"} /\ ~ ws[h].alive
    /\ Callback(h, "loop", "DISCONNECTING")

(* Dispatch: the event is handed to every socket of the context that has   *)
(* the handle (there is at most one).                                      *)
Dispatched(s, h, pc, Handle(_, _)) ==
    LET t == [s EXCEPT !.ws[h].pc = pc]
    IN IF SocketOf(h) = {} THEN t
       ELSE Handle(t, CHOOSE k \in SocketOf(h) : TRUE)

OnConnected(s, k) ==
    IF s.sc.sock[k].state = "AWAITING_WEBSOCKET"
    THEN Queued([s EXCEPT !.sc.sock[k].state = "AWAITING_ACCEPT"],
                k, "ConnectRequest")
    ELSE s

DispatchConnected(h) ==
    /\ ws[h].pc = "connected"
    /\ Becomes(Dispatched(Now, h, "loop", OnConnected))
    /\ UNCHANGED <<ending, up, faults>>

Disconnecting(s, k) ==
    bws_cli_disconnect([s EXCEPT !.sc.sock[k].state = "DISCONNECTING"],
                       s.sc.sock[k].wh)

(* bsc_process_cli_awaiting_accept *)
AwaitingAccept(s, k, m) ==
    CASE m = "ConnectAccept" ->
           SocketConnected([s EXCEPT !.sc.sock[k].state = "CONNECTED"])
      [] m = "DuplicateVmac" ->
           bsc_cli_process_error(s, k, "NODE_DUPLICATE_VMAC")
      [] OTHER -> bsc_cli_process_error(s, k, "OTHER")

(* bsc_process_socket_connected_state *)
ConnectedState(s, k, m) ==
    CASE m = "DisconnectRequest" /\ Room(s, k) ->
           Queued([s EXCEPT !.sc.sock[k] = [@ EXCEPT !.state = "ERROR_FLUSH_TX",
                                                     !.reason = "OTHER"]],
                  k, "DisconnectAck")
      [] m = "DisconnectRequest" /\ ~ Room(s, k) -> Disconnecting(s, k)
      [] m = "DisconnectAck" -> Disconnecting(s, k)
      [] OTHER -> s

OnReceived(s, k) ==
    LET m == Head(ws[s.sc.sock[k].wh].rx)
    IN CASE s.sc.sock[k].state = "AWAITING_ACCEPT" -> AwaitingAccept(s, k, m)
         [] s.sc.sock[k].state = "CONNECTED" -> ConnectedState(s, k, m)
         [] OTHER -> s

DispatchReceived(h) ==
    /\ ws[h].pc = "received"
    /\ Becomes(Dispatched([Now EXCEPT !.ws[h].rx = Tail(@)], h, "loop",
                          OnReceived))
    /\ UNCHANGED <<ending, up, faults>>

(* bws_cli_dispatch_send for each PDU: all are written, or the websocket   *)
(* was told to disconnect or is found broken.                              *)
OnSendable(s, k) ==
    LET h == s.sc.sock[k].wh
        tx == s.sc.sock[k].tx
        written == s.ws[h].state = "CONNECTED" /\ s.ws[h].alive
        sent == [s EXCEPT !.sc.sock[k].tx = <<>>,
                          !.ws[h].asked =
                              @ \/ \E i \in DOMAIN tx : tx[i] = "ConnectRequest"]
    IN CASE tx # <<>> /\ ~ written -> bsc_cli_process_error(s, k, "OTHER")
         [] OTHER -> IF s.sc.sock[k].state = "ERROR_FLUSH_TX"
                     THEN bsc_cli_process_error(sent, k, s.sc.sock[k].reason)
                     ELSE sent

DispatchSendable(h) ==
    /\ ws[h].pc = "sendable"
    /\ Becomes(Dispatched(Now, h, "sent", OnSendable))
    /\ UNCHANGED <<ending, up, faults>>

(* want_send_data is reset after the dispatch, whoever has set it since.   *)
Sent(h) ==
    /\ ws[h].pc = "sent"
    /\ ws' = [ws EXCEPT ![h].pc = "loop", ![h].want = FALSE]
    /\ UNCHANGED <<sc, ending, up, faults>>

(* The worker frees its websocket, then says so.                           *)
WorkerEnds(h) ==
    /\ ws[h].state = "DISCONNECTING" /\ ws[h].pc = "loop"
    /\ ws' = [ws EXCEPT ![h] = IdleWs]
    /\ ending' = [ending EXCEPT ![h] = @ + 1]
    /\ UNCHANGED <<sc, up, faults>>

(* Mutant: the end of a websocket is always reported as a disconnection.   *)
OnDisconnectedReported(s, k, ok) ==
    LET c == s.sc.sock[k]
    IN SocketDisconnected([s EXCEPT !.sc.sock[k] = IdleSocket],
                          IF c.state = "ERROR" THEN c.reason ELSE "OTHER", ok)

OnDisconnected(s, k, ok) ==
    LET c == s.sc.sock[k]
        t == [s EXCEPT !.sc.sock[k] = IdleSocket]
    IN CASE s.sc.ctx # "DEINITIALIZING" ->
              SocketDisconnected(
                  t, IF c.state = "ERROR" THEN c.reason ELSE "OTHER", ok)
         [] OTHER -> IF \E j \in Hubs : Active(t, j) THEN t
                     ELSE hub_connector_context_event(t, ok)

DispatchDisconnected(h) ==
    /\ ending[h] > 0
    /\ ending' = [ending EXCEPT ![h] = @ - 1]
    /\ \E ok \in Outcomes :
          Becomes(IF SocketOf(h) = {} THEN Now
                  ELSE OnDisconnected(Now, CHOOSE k \in SocketOf(h) : TRUE, ok))
    /\ UNCHANGED <<up, faults>>

-----------------------------------------------------------------------------
(* Hubs and network.                                                       *)

HubSays(h, m) ==
    /\ ws' = [ws EXCEPT ![h].rx = Append(@, m), ![h].asked = FALSE]
    /\ UNCHANGED <<sc, ending, up>>

HubAccepts(h) ==
    /\ ws[h].asked /\ ws[h].alive
    /\ HubSays(h, "ConnectAccept") /\ UNCHANGED faults

HubRefuses(h) ==
    /\ ws[h].asked /\ ws[h].alive
    /\ faults < MaxFaults /\ faults' = faults + 1
    /\ HubSays(h, "DuplicateVmac")

HubDisconnects(h) ==
    /\ ws[h].alive /\ ~ ws[h].opening
    /\ faults < MaxFaults /\ faults' = faults + 1
    /\ \E m \in {"DisconnectRequest", "DisconnectAck"} : HubSays(h, m)

ConnectionLost(h) ==
    /\ ws[h].alive
    /\ faults < MaxFaults /\ faults' = faults + 1
    /\ ws' = [ws EXCEPT ![h].alive = FALSE]
    /\ UNCHANGED <<sc, ending, up>>

HubFails(k) ==
    /\ k \in up /\ faults < MaxFaults /\ faults' = faults + 1
    /\ up' = up \ {k}
    /\ ws' = [h \in Handles |->
                 [ws[h] EXCEPT !.alive = @ /\ ws[h].hub # k]]
    /\ UNCHANGED <<sc, ending>>

HubReturns(k) ==
    /\ k \notin up
    /\ up' = up \cup {k}
    /\ UNCHANGED <<sc, ws, ending, faults>>

(* A hub with this code drops a peer that sends no heartbeat any more: the *)
(* acceptor's side of bsc_process_socket_state.                            *)
NoHeartbeat(h) ==
    \/ sc.ctx = "DEINITIALIZING"
    \/ ~ ws[h].want /\ \E k \in SocketOf(h) : ~ Room(Now, k)

ZombieDropped(h) ==
    /\ ws[h].state = "CONNECTED" /\ ws[h].alive /\ ws[h].pc = "loop"
    /\ NoHeartbeat(h)
    /\ ws' = [ws EXCEPT ![h].alive = FALSE]
    /\ UNCHANGED <<sc, ending, up, faults>>

-----------------------------------------------------------------------------
Worker(h) ==
    \/ Established(h) \/ DispatchConnected(h)
    \/ Received(h) \/ DispatchReceived(h)
    \/ Writeable(h) \/ DispatchSendable(h) \/ Sent(h)
    \/ Closed(h) \/ WorkerEnds(h)

Next ==
    \/ bsc_init \/ InitReturns \/ bsc_cleanup \/ CleanupReturns
    \/ hub_connector_process_state
    \/ \E k \in Hubs : bsc_send(k) \/ SocketTimeout(k) \/ Heartbeat(k)
                       \/ HubFails(k) \/ HubReturns(k)
    \/ \E h \in Handles :
          \/ Worker(h) \/ DispatchDisconnected(h)
          \/ HubAccepts(h) \/ HubRefuses(h) \/ HubDisconnects(h)
          \/ ConnectionLost(h) \/ ZombieDropped(h)

Spec == Init /\ [][Next]_vars

Fairness ==
    /\ WF_vars(InitReturns) /\ WF_vars(CleanupReturns)
    /\ WF_vars(hub_connector_process_state)
    /\ \A k \in Hubs : WF_vars(SocketTimeout(k)) /\ WF_vars(Heartbeat(k))
    /\ \A h \in Handles :
          /\ WF_vars(Worker(h)) /\ WF_vars(DispatchDisconnected(h))
          /\ WF_vars(HubAccepts(h)) /\ WF_vars(ZombieDropped(h))

FairSpec == Spec /\ Fairness

-----------------------------------------------------------------------------
(* The hub connector's state says which of its two sockets is in use, and  *)
(* no other is: hub_connector_socket_event changes the state of the        *)
(* connector without looking at which socket an event comes from.  Only a  *)
(* bws_cli_connect that failed at once, whose result hub_connector_connect *)
(* drops, leaves it waiting for a socket that does not try.                *)
ConnectorMatchesSocket ==
    /\ \A k \in Hubs :
          /\ sc.conn \in {Connecting(k), Connected(k)} =>
                \A j \in Hubs \ {k} : ~ Active(Now, j)
          /\ sc.conn = Connected(k) =>
                sc.sock[k].state \notin {"IDLE", "AWAITING_WEBSOCKET",
                                         "AWAITING_ACCEPT"}
          /\ sc.conn = Connecting(k) /\ sc.refused = 0 => Active(Now, k)
          /\ sc.sock[k].state = "CONNECTED" =>
                sc.conn \in {Connected(k), "WAIT_FOR_CTX_DEINIT"}
    /\ sc.conn \in {"IDLE", "WAIT_FOR_RECONNECT"} =>
          \A k \in Hubs : ~ Active(Now, k)

(* Every socket in use has one worker, running or about to report its end, *)
(* and there is no other worker: a websocket is freed before its end is    *)
(* reported, and a report is matched to a socket by the freed handle.      *)
WorkerPerSocket ==
    /\ \A k \in Hubs : Active(Now, k) =>
          LET h == sc.sock[k].wh
          IN /\ h \in Handles
             /\ ending[h] + (IF ws[h].state = "IDLE" THEN 0 ELSE 1) = 1
             /\ SocketOf(h) = {k}
    /\ \A h \in Handles :
          ws[h].state # "IDLE" \/ ending[h] > 0 => SocketOf(h) # {}

(* A node that runs while a hub it may use runs for good is connected      *)
(* again and again, whatever went wrong before: a lost connection, a       *)
(* refused address, a late answer, a request to disconnect.                *)
Reconnects ==
    \A k \in Hubs :
        <>[](/\ k \in up /\ (k = PRIMARY \/ sc.failover_url)
             /\ sc.node = "STARTED" /\ sc.refused = 0)
        => []<>(\E j \in Hubs : sc.conn = Connected(j))

(* bsc_cleanup returns, and the node it stops does stop: even if the       *)
(* websocket was established while it was told to disconnect, and then     *)
(* only because the hub gives up a peer without heartbeats.  This is for   *)
(* an application of one thread: with another in bsc_receive, which may    *)
(* take the signal of bsc_data_event, bsc_cleanup could wait for ever.     *)
StopEnds ==
    /\ sc.dl = "STOPPING" ~> (sc.dl = "IDLE" \/ sc.refused > 0)
    /\ sc.node = "STOPPING" ~> sc.node = "IDLE"

(* What bsc_send has accepted is written, or the connection ends: a wakeup *)
(* lost in Sent is made good by the next heartbeat, or by the hub, which   *)
(* drops a silent peer, when the buffer has no room for a heartbeat.  The  *)
(* hub would do the same if its own messages put the heartbeat off for     *)
(* ever.                                                                   *)
Flushed ==
    \A k \in Hubs :
        sc.sock[k].tx # <<>> /\ sc.sock[k].state = "CONNECTED"
        ~> sc.sock[k].tx = <<>> \/ sc.sock[k].state # "CONNECTED"

(* bsc-datalink.h: "Blocking thread-safe bsc_cleanup() function            *)
(* de-initializes BACNet/SC datalink": once it has returned, the node is   *)
(* at rest and its place is free.                                          *)
CleanupBlocks == sc.dl = "IDLE" /\ sc.refused = 0 =>
                    sc.node = "IDLE" /\ ~ sc.used

(* websocket.h: "bws_cli_disconnnect() function starts process of          *)
(* disconnection [...] When the process completes, dispatch_func() with    *)
(* event BSC_WEBSOCKET_DISCONNECTED is called": it is not taken back.      *)
DisconnectIsFinal ==
    [][\A h \in Handles : ws[h].state = "DISCONNECTING" =>
           ws'[h].state \in {"DISCONNECTING", "IDLE"}]_vars

(* websocket.h: "bws_cli_send() function signals to the websocket [...]    *)
(* that some data is needed to be sent": queued data keeps the request up. *)
WakeupKept ==
    \A k \in Hubs :
        LET h == sc.sock[k].wh
        IN /\ sc.sock[k].state = "CONNECTED" /\ sc.sock[k].tx # <<>>
           /\ ws[h].state = "CONNECTED"
           => ws[h].want
=============================================================================
