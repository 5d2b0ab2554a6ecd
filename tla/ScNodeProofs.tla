---------------------------- MODULE ScNodeProofs ----------------------------
(***************************************************************************)
(* A BACnet/SC node: what the hub connector believes of its sockets is     *)
(* true, and every socket in use has one worker, for every number of       *)
(* websockets and whatever hubs and network do.                            *)
(***************************************************************************)
EXTENDS ScNode, WellFoundedInduction, TLAPS

-----------------------------------------------------------------------------
(* The invariant, of a state s of the C functions and of the counts e of   *)
(* workers that have not yet said that they ended.                         *)

Pdus == {"ConnectRequest", "Data", "DisconnectAck"}
Messages == {"ConnectAccept", "DuplicateVmac", "DisconnectRequest",
             "DisconnectAck"}
Reasons == {"OTHER", "NODE_DUPLICATE_VMAC"}

SockType ==
    [state : {"IDLE", "AWAITING_WEBSOCKET", "AWAITING_ACCEPT", "CONNECTED",
              "ERROR", "ERROR_FLUSH_TX", "DISCONNECTING"},
     wh : Handles \cup {NoHandle}, reason : Reasons, tx : Seq(Pdus)]

(* A worker that is about to hand up a message has one.                    *)
WsType ==
    {w \in [state : {"IDLE", "CONNECTING", "CONNECTED", "DISCONNECTING"},
            want : BOOLEAN,
            pc : {"loop", "connected", "received", "sendable", "sent"},
            hub : Hubs, opening : BOOLEAN, alive : BOOLEAN, asked : BOOLEAN,
            rx : Seq(Messages)] :
        w.pc = "received" => w.rx # <<>>}

Connectors == {"IDLE", "CONNECTING_PRIMARY", "CONNECTING_FAILOVER",
               "CONNECTED_PRIMARY", "CONNECTED_FAILOVER", "WAIT_FOR_RECONNECT",
               "WAIT_FOR_CTX_DEINIT", "DUPLICATED_VMAC"}

ScType ==
    [dl : {"IDLE", "STARTING", "STARTED", "STOPPING"}, ev : BOOLEAN,
     used : BOOLEAN, node : {"IDLE", "STARTED", "STOPPING", "RESTARTING"},
     conn : Connectors, ctx : {"IDLE", "INITIALIZED", "DEINITIALIZING"},
     sock : [Hubs -> SockType], failover_url : BOOLEAN, refused : Nat]

State == [sc : ScType, ws : [Handles -> WsType]]

(* Node, hub connector and context are in step.                            *)
LayersAgree(s) ==
    /\ s.sc.conn # "DUPLICATED_VMAC"
    /\ s.sc.ctx = "IDLE" <=> s.sc.conn = "IDLE"
    /\ s.sc.ctx = "DEINITIALIZING" <=> s.sc.conn = "WAIT_FOR_CTX_DEINIT"
    /\ s.sc.node = "IDLE" <=> s.sc.conn = "IDLE"
    /\ s.sc.node \in {"STOPPING", "RESTARTING"} <=>
           s.sc.conn = "WAIT_FOR_CTX_DEINIT"
    /\ s.sc.node # "IDLE" => s.sc.used = TRUE

(* At most one socket is in use.                                           *)
OneActive(s) ==
    \A j, k \in Hubs : Active(s, j) /\ Active(s, k) => j = k

(* ConnectorMatchesSocket and WorkerPerSocket of a state.                  *)
Matches(s) ==
    /\ \A k \in Hubs :
          /\ s.sc.conn \in {Connecting(k), Connected(k)} =>
                \A j \in Hubs \ {k} : ~ Active(s, j)
          /\ s.sc.conn = Connected(k) =>
                s.sc.sock[k].state \notin {"IDLE", "AWAITING_WEBSOCKET",
                                           "AWAITING_ACCEPT"}
          /\ s.sc.conn = Connecting(k) /\ s.sc.refused = 0 => Active(s, k)
          /\ s.sc.sock[k].state = "CONNECTED" =>
                s.sc.conn \in {Connected(k), "WAIT_FOR_CTX_DEINIT"}
    /\ s.sc.conn \in {"IDLE", "WAIT_FOR_RECONNECT"} =>
          \A k \in Hubs : ~ Active(s, k)

Users(s, h) == {k \in Hubs : Active(s, k) /\ s.sc.sock[k].wh = h}

Workers(s, e) ==
    /\ \A k \in Hubs : Active(s, k) =>
          LET h == s.sc.sock[k].wh
          IN /\ h \in Handles
             /\ e[h] + (IF s.ws[h].state = "IDLE" THEN 0 ELSE 1) = 1
    /\ \A h \in Handles :
          s.ws[h].state # "IDLE" \/ e[h] > 0 => Users(s, h) # {}

Sound(s, e) ==
    /\ s \in State
    /\ e \in [Handles -> Nat]
    /\ LayersAgree(s)
    /\ OneActive(s)
    /\ Matches(s)
    /\ Workers(s, e)

ScInv == Sound(Now, ending)

-----------------------------------------------------------------------------
(* Nothing in use: no socket, no worker.                                   *)
Quiet(s, e) ==
    /\ s \in State /\ e \in [Handles -> Nat]
    /\ \A k \in Hubs : ~ Active(s, k)
    /\ \A h \in Handles : s.ws[h].state = "IDLE" /\ e[h] = 0

(* Socket k has just been given a worker, and nothing else is in use.      *)
Single(s, k, e) ==
    /\ s \in State /\ e \in [Handles -> Nat]
    /\ s.sc.sock[k].state = "AWAITING_WEBSOCKET"
    /\ s.sc.sock[k].wh \in Handles
    /\ \A j \in Hubs \ {k} : ~ Active(s, j)
    /\ \A h \in Handles : /\ s.ws[h].state = "IDLE" <=> h # s.sc.sock[k].wh
                          /\ e[h] = 0

(* The parts of the state that the layers above the sockets keep.          *)
SameLayers(s, t) ==
    /\ t.sc.conn = s.sc.conn /\ t.sc.ctx = s.sc.ctx
    /\ t.sc.node = s.sc.node /\ t.sc.used = s.sc.used
    /\ t.sc.failover_url = s.sc.failover_url

(* A step that keeps the sockets in use, their workers and the layers, and *)
(* connects nothing.                                                       *)
Alike(s, t) ==
    /\ s \in State /\ t \in State
    /\ SameLayers(s, t)
    /\ t.sc.refused = s.sc.refused
    /\ \A k \in Hubs :
          /\ t.sc.sock[k].wh = s.sc.sock[k].wh
          /\ Active(t, k) <=> Active(s, k)
          /\ t.sc.sock[k].state = "CONNECTED" => s.sc.sock[k].state = "CONNECTED"
          /\ t.sc.sock[k].state \in {"AWAITING_WEBSOCKET", "AWAITING_ACCEPT"} =>
                s.sc.sock[k].state \in {"AWAITING_WEBSOCKET", "AWAITING_ACCEPT"}
    /\ \A h \in Handles : t.ws[h].state = "IDLE" <=> s.ws[h].state = "IDLE"

LEMMA AlikeSound ==
    ASSUME NEW s, NEW t, NEW e, Sound(s, e), Alike(s, t)
    PROVE  Sound(t, e)
<1>1. LayersAgree(t)
  BY DEF Sound, Alike, SameLayers, LayersAgree
<1>2. OneActive(t)
  BY DEF Sound, Alike, OneActive
<1>3. Matches(t)
  BY DEF Sound, Alike, SameLayers, Matches, Active, Connecting, Connected, Hubs,
         PRIMARY, FAILOVER
<1>4. Workers(t, e)
  <2>1. \A h \in Handles : Users(t, h) = Users(s, h)
    BY DEF Alike, Users
  <2>. QED  BY <2>1 DEF Sound, Alike, Workers
<1>. QED  BY <1>1, <1>2, <1>3, <1>4 DEF Sound, Alike

LEMMA AlikeTrans ==
    ASSUME NEW s, NEW t, NEW u, Alike(s, t), Alike(t, u)
    PROVE  Alike(s, u)
BY DEF Alike, SameLayers

LEMMA AlikeRefl ==
    ASSUME NEW s \in State
    PROVE  Alike(s, s)
BY DEF Alike, SameLayers

(* With no socket in use a sound state is quiet.                           *)
LEMMA SoundQuiet ==
    ASSUME NEW s, NEW e, Sound(s, e), \A k \in Hubs : ~ Active(s, k)
    PROVE  Quiet(s, e)
<1>1. \A h \in Handles : Users(s, h) = {}
  BY DEF Users
<1>2. \A h \in Handles : e[h] \in Nat
  BY DEF Sound
<1>. QED  BY <1>1, <1>2 DEF Sound, Workers, Quiet

(* A quiet state whose layers agree is sound if the connector waits.       *)
LEMMA QuietSound ==
    ASSUME NEW s, NEW e, Quiet(s, e), LayersAgree(s),
           \/ s.sc.conn \in {"IDLE", "WAIT_FOR_RECONNECT"}
           \/ \E k \in Hubs : s.sc.conn = Connecting(k) /\ s.sc.refused # 0
    PROVE  Sound(s, e)
<1>1. Matches(s)
  BY DEF Quiet, Matches, Active, Connecting, Connected, Hubs, PRIMARY, FAILOVER
<1>2. Workers(s, e) /\ OneActive(s)
  BY DEF Quiet, Workers, OneActive
<1>. QED  BY <1>1, <1>2 DEF Sound, Quiet

(* So is one with a socket that the connector connects.                    *)
LEMMA SingleSound ==
    ASSUME NEW s, NEW e, NEW k \in Hubs, Single(s, k, e), LayersAgree(s),
           s.sc.conn = Connecting(k)
    PROVE  Sound(s, e)
<1>1. Active(s, k) /\ \A j \in Hubs : Active(s, j) => j = k
  BY DEF Single, Active
<1>2. Matches(s)
  BY <1>1 DEF Single, Matches, Active, Connecting, Connected, Hubs, PRIMARY, FAILOVER
<1>3. OneActive(s)
  BY <1>1 DEF OneActive
<1>4. Workers(s, e)
  <2>1. \A h \in Handles : h = s.sc.sock[k].wh => k \in Users(s, h)
    BY <1>1 DEF Users
  <2>2. \A h \in Handles : e[h] = 0
    BY DEF Single
  <2>. QED  BY <1>1, <2>1, <2>2 DEF Single, Workers
<1>. QED  BY <1>2, <1>3, <1>4 DEF Sound, Single

-----------------------------------------------------------------------------
(* websocket-cli.c and bsc-socket.c.                                       *)

(* A websocket changes.                                                    *)
LEMMA WsUpdate ==
    ASSUME NEW s \in State, NEW h \in Handles, NEW w \in WsType,
           w.state = "IDLE" <=> s.ws[h].state = "IDLE"
    PROVE  Alike(s, [s EXCEPT !.ws[h] = w])
<1>. DEFINE t == [s EXCEPT !.ws[h] = w]
<1>1. t.sc = s.sc /\ t.ws = [s.ws EXCEPT ![h] = w] /\ t \in State
  BY DEF State
<1>2. \A g \in Handles : t.ws[g].state = "IDLE" <=> s.ws[g].state = "IDLE"
  BY <1>1 DEF State
<1>3. ASSUME NEW u, u.sc = s.sc, u \in State,
             \A g \in Handles : u.ws[g].state = "IDLE" <=> s.ws[g].state = "IDLE"
      PROVE  Alike(s, u)
  BY <1>3 DEF Alike, SameLayers, Active
<1>. QED  BY <1>1, <1>2, <1>3

(* A socket in use changes, but neither its handle nor that it is in use.  *)
LEMMA SockUpdate ==
    ASSUME NEW s \in State, NEW k \in Hubs, NEW c \in SockType,
           c.wh = s.sc.sock[k].wh,
           c.state = "IDLE" <=> s.sc.sock[k].state = "IDLE",
           c.state = "CONNECTED" => s.sc.sock[k].state = "CONNECTED",
           c.state \in {"AWAITING_WEBSOCKET", "AWAITING_ACCEPT"} =>
               s.sc.sock[k].state \in {"AWAITING_WEBSOCKET", "AWAITING_ACCEPT"}
    PROVE  Alike(s, [s EXCEPT !.sc.sock[k] = c])
<1>. DEFINE t == [s EXCEPT !.sc.sock[k] = c]
<1>1. /\ t.sc = [s.sc EXCEPT !.sock[k] = c] /\ t.ws = s.ws
      /\ s.sc \in ScType
  BY DEF State
<1>2. t.sc.sock = [s.sc.sock EXCEPT ![k] = c] /\ t.sc \in ScType
  BY <1>1 DEF ScType
<1>3. t \in State
  BY <1>1, <1>2 DEF State
<1>4. SameLayers(s, t) /\ t.sc.refused = s.sc.refused
  BY <1>1 DEF ScType, SameLayers
<1>5. \A j \in Hubs : t.sc.sock[j] = IF j = k THEN c ELSE s.sc.sock[j]
  BY <1>1, <1>2 DEF ScType
<1>. HIDE DEF t
<1>6. Alike(s, t)
  BY <1>1, <1>3, <1>4, <1>5 DEF Alike, Active
<1>. QED  BY <1>6 DEF t

(* The parts of a state.                                                   *)
LEMMA StateParts ==
    ASSUME NEW s \in State
    PROVE  /\ s.sc \in ScType
           /\ \A h \in Handles : s.ws[h] \in WsType
           /\ \A k \in Hubs : s.sc.sock[k] \in SockType
BY DEF State, ScType

(* Telling a worker to disconnect, or to send, does not end it.            *)
LEMMA DisconnectAlike ==
    ASSUME NEW s \in State, NEW h \in Handles \cup {NoHandle}
    PROVE  Alike(s, bws_cli_disconnect(s, h))
<1>1. CASE h # NoHandle /\ s.ws[h].state \in {"CONNECTING", "CONNECTED"}
  <2>1. h \in Handles /\ s.ws[h] \in WsType
    BY <1>1, StateParts
  <2>2. /\ [s.ws[h] EXCEPT !.state = "DISCONNECTING"] \in WsType
        /\ [s.ws[h] EXCEPT !.state = "DISCONNECTING"].state = "DISCONNECTING"
    BY <2>1 DEF WsType
  <2>3. Alike(s, [s EXCEPT !.ws[h] = [s.ws[h] EXCEPT !.state = "DISCONNECTING"]])
    BY <1>1, <2>1, <2>2, WsUpdate
  <2>. QED  BY <1>1, <2>3 DEF bws_cli_disconnect
<1>2. CASE ~ (h # NoHandle /\ s.ws[h].state \in {"CONNECTING", "CONNECTED"})
  BY <1>2, AlikeRefl DEF bws_cli_disconnect
<1>. QED  BY <1>1, <1>2

LEMMA SendAlike ==
    ASSUME NEW s \in State, NEW h \in Handles
    PROVE  Alike(s, bws_cli_send(s, h))
<1>1. CASE s.ws[h].state = "CONNECTED"
  <2>1. s.ws[h] \in WsType
    BY StateParts
  <2>2. /\ [s.ws[h] EXCEPT !.want = TRUE] \in WsType
        /\ [s.ws[h] EXCEPT !.want = TRUE].state = s.ws[h].state
    BY <2>1 DEF WsType
  <2>3. Alike(s, [s EXCEPT !.ws[h] = [s.ws[h] EXCEPT !.want = TRUE]])
    BY <1>1, <2>1, <2>2, WsUpdate
  <2>. QED  BY <1>1, <2>3 DEF bws_cli_send
<1>2. CASE s.ws[h].state # "CONNECTED"
  BY <1>2, AlikeRefl DEF bws_cli_send
<1>. QED  BY <1>1, <1>2

(* An empty buffer is a buffer.                                            *)
LEMMA EmptyPdus == <<>> \in Seq(Pdus) /\ <<>> \in Seq(Messages)
OBVIOUS

(* Calls that keep the sockets in use and connect nothing.                 *)
LEMMA ProcessErrorAlike ==
    ASSUME NEW s \in State, NEW k \in Hubs, Active(s, k), NEW reason \in Reasons
    PROVE  Alike(s, bsc_cli_process_error(s, k, reason))
<1>. DEFINE c == [s.sc.sock[k] EXCEPT !.state = "ERROR", !.reason = reason]
            t == [s EXCEPT !.sc.sock[k] = c]
<1>1. s.sc.sock[k] \in SockType
  BY StateParts
<1>2. c \in SockType /\ c.state = "ERROR" /\ c.wh = s.sc.sock[k].wh
  BY <1>1 DEF SockType
<1>3. Alike(s, t)
  <2>. HIDE DEF c
  <2>. QED  BY <1>2, SockUpdate DEF Active
<1>4. bsc_cli_process_error(s, k, reason) = bws_cli_disconnect(t, s.sc.sock[k].wh)
  BY DEF bsc_cli_process_error
<1>5. t \in State
  BY <1>3 DEF Alike
<1>6. s.sc.sock[k].wh \in Handles \cup {NoHandle}
  BY <1>1 DEF SockType
<1>. HIDE DEF t
<1>7. Alike(t, bws_cli_disconnect(t, s.sc.sock[k].wh))
  BY <1>5, <1>6, DisconnectAlike
<1>. QED  BY <1>3, <1>4, <1>7, AlikeTrans

LEMMA QueuedAlike ==
    ASSUME NEW s \in State, NEW k \in Hubs, s.sc.sock[k].wh \in Handles,
           NEW pdu \in Pdus
    PROVE  Alike(s, Queued(s, k, pdu))
<1>. DEFINE tx == Append(s.sc.sock[k].tx, pdu)
            c == [s.sc.sock[k] EXCEPT !.tx = tx]
            t == [s EXCEPT !.sc.sock[k] = c]
<1>1. s.sc.sock[k] \in SockType
  BY StateParts
<1>2. c \in SockType /\ c.state = s.sc.sock[k].state /\ c.wh = s.sc.sock[k].wh
  <2>1. s.sc.sock[k].tx \in Seq(Pdus)
    BY <1>1 DEF SockType
  <2>2. tx \in Seq(Pdus)
    BY <2>1
  <2>. HIDE DEF tx
  <2>. QED  BY <1>1, <2>2 DEF SockType
<1>3. Alike(s, t)
  <2>. HIDE DEF c
  <2>. QED  BY <1>2, SockUpdate
<1>4. t \in State
  BY <1>3 DEF Alike
<1>5. Alike(t, bws_cli_send(t, s.sc.sock[k].wh))
  <2>. HIDE DEF t
  <2>. QED  BY <1>4, SendAlike
<1>6. Queued(s, k, pdu) = bws_cli_send(t, s.sc.sock[k].wh)
  BY DEF Queued
<1>. HIDE DEF t
<1>. QED  BY <1>3, <1>5, <1>6, AlikeTrans

(* A socket in use that goes on to another state.                          *)
LEMMA StateAlike ==
    ASSUME NEW s \in State, NEW k \in Hubs, Active(s, k),
           NEW state \in {"ERROR_FLUSH_TX", "DISCONNECTING", "AWAITING_ACCEPT"},
           state = "AWAITING_ACCEPT" =>
               s.sc.sock[k].state = "AWAITING_WEBSOCKET"
    PROVE  LET t == [s EXCEPT !.sc.sock[k].state = state]
           IN  Alike(s, t) /\ t.sc.sock[k].wh = s.sc.sock[k].wh
<1>. DEFINE c == [s.sc.sock[k] EXCEPT !.state = state]
            t == [s EXCEPT !.sc.sock[k] = c]
<1>1. s.sc.sock[k] \in SockType
  BY StateParts
<1>2. c \in SockType /\ c.state = state /\ c.wh = s.sc.sock[k].wh
  BY <1>1 DEF SockType
<1>3. Alike(s, t)
  <2>. HIDE DEF c
  <2>. QED  BY <1>2, SockUpdate DEF Active
<1>4. t.sc.sock[k].wh = s.sc.sock[k].wh
  BY <1>3 DEF Alike
<1>. QED  BY <1>3, <1>4

LEMMA OnConnectedAlike ==
    ASSUME NEW s \in State, NEW k \in Hubs, Active(s, k), s.sc.sock[k].wh \in Handles
    PROVE  Alike(s, OnConnected(s, k))
<1>. DEFINE t == [s EXCEPT !.sc.sock[k].state = "AWAITING_ACCEPT"]
<1>1. CASE s.sc.sock[k].state = "AWAITING_WEBSOCKET"
  <2>1. Alike(s, t) /\ t.sc.sock[k].wh \in Handles
    BY <1>1, StateAlike
  <2>2. t \in State
    BY <2>1 DEF Alike
  <2>3. Alike(t, Queued(t, k, "ConnectRequest"))
    <3>. HIDE DEF t
    <3>. QED  BY <2>1, <2>2, QueuedAlike DEF Pdus
  <2>4. OnConnected(s, k) = Queued(t, k, "ConnectRequest")
    BY <1>1 DEF OnConnected
  <2>. HIDE DEF t
  <2>. QED  BY <2>1, <2>3, <2>4, AlikeTrans
<1>2. CASE s.sc.sock[k].state # "AWAITING_WEBSOCKET"
  BY <1>2, AlikeRefl DEF OnConnected
<1>. QED  BY <1>1, <1>2

LEMMA DisconnectingAlike ==
    ASSUME NEW s \in State, NEW k \in Hubs, Active(s, k)
    PROVE  Alike(s, Disconnecting(s, k))
<1>. DEFINE t == [s EXCEPT !.sc.sock[k].state = "DISCONNECTING"]
<1>1. Alike(s, t)
  BY StateAlike
<1>2. t \in State
  BY <1>1 DEF Alike
<1>3. s.sc.sock[k].wh \in Handles \cup {NoHandle}
  BY StateParts DEF SockType
<1>4. Disconnecting(s, k) = bws_cli_disconnect(t, s.sc.sock[k].wh)
  BY DEF Disconnecting
<1>. HIDE DEF t
<1>5. Alike(t, bws_cli_disconnect(t, s.sc.sock[k].wh))
  BY <1>2, <1>3, DisconnectAlike
<1>. QED  BY <1>1, <1>4, <1>5, AlikeTrans

LEMMA ConnectedStateAlike ==
    ASSUME NEW s \in State, NEW k \in Hubs, Active(s, k), s.sc.sock[k].wh \in Handles,
           NEW m
    PROVE  Alike(s, ConnectedState(s, k, m))
<1>1. CASE m = "DisconnectRequest" /\ Room(s, k)
  <2>. DEFINE c == [s.sc.sock[k] EXCEPT !.state = "ERROR_FLUSH_TX", !.reason = "OTHER"]
              t == [s EXCEPT !.sc.sock[k] = c]
  <2>1. s.sc.sock[k] \in SockType
    BY StateParts
  <2>2. c \in SockType /\ c.state = "ERROR_FLUSH_TX" /\ c.wh = s.sc.sock[k].wh
    BY <2>1 DEF SockType, Reasons
  <2>3. Alike(s, t)
    <3>. HIDE DEF c
    <3>. QED  BY <2>2, SockUpdate DEF Active
  <2>4. t \in State /\ t.sc.sock[k].wh \in Handles
    BY <2>3 DEF Alike
  <2>5. ConnectedState(s, k, m) = Queued(t, k, "DisconnectAck")
    BY <1>1 DEF ConnectedState
  <2>. HIDE DEF t
  <2>6. Alike(t, Queued(t, k, "DisconnectAck"))
    BY <2>4, QueuedAlike DEF Pdus
  <2>. QED  BY <2>3, <2>5, <2>6, AlikeTrans
<1>2. CASE (m = "DisconnectRequest" /\ ~ Room(s, k)) \/ m = "DisconnectAck"
  BY <1>2, DisconnectingAlike DEF ConnectedState
<1>3. CASE m \notin {"DisconnectRequest", "DisconnectAck"}
  BY <1>3, AlikeRefl DEF ConnectedState
<1>. QED  BY <1>1, <1>2, <1>3

LEMMA OnSendableAlike ==
    ASSUME NEW s \in State, NEW k \in Hubs, Active(s, k), s.sc.sock[k].wh \in Handles
    PROVE  Alike(s, OnSendable(s, k))
<1>. DEFINE h == s.sc.sock[k].wh
            tx == s.sc.sock[k].tx
            written == s.ws[h].state = "CONNECTED" /\ s.ws[h].alive
            asks == s.ws[h].asked \/ \E i \in DOMAIN tx : tx[i] = "ConnectRequest"
            c == [s.sc.sock[k] EXCEPT !.tx = <<>>]
            w == [s.ws[h] EXCEPT !.asked = asks]
            t == [s EXCEPT !.sc.sock[k] = c]
            sent == [t EXCEPT !.ws[h] = w]
<1>1. s.sc.sock[k] \in SockType /\ s.ws[h] \in WsType
  BY StateParts
<1>2. c \in SockType /\ c.state = s.sc.sock[k].state /\ c.wh = s.sc.sock[k].wh
  BY <1>1, EmptyPdus DEF SockType
<1>3. Alike(s, t)
  <2>. HIDE DEF c
  <2>. QED  BY <1>2, SockUpdate
<1>4. t \in State /\ t.ws = s.ws
  BY <1>3 DEF Alike, State
<1>5. asks \in BOOLEAN
  BY <1>1 DEF WsType
<1>6. w \in WsType /\ w.state = s.ws[h].state
  <2>. HIDE DEF asks
  <2>. QED  BY <1>1, <1>5 DEF WsType
<1>7. Alike(t, sent)
  <2>. HIDE DEF t, w
  <2>. QED  BY <1>4, <1>6, WsUpdate
<1>8. Alike(s, sent)
  BY <1>3, <1>7, AlikeTrans
<1>9. sent \in State /\ Active(sent, k)
  BY <1>8 DEF Alike
<1>10. s.sc.sock[k].reason \in Reasons /\ "OTHER" \in Reasons
  BY <1>1 DEF SockType, Reasons
<1>11. sent = [s EXCEPT !.sc.sock[k].tx = <<>>,
                        !.ws[h].asked =
                            @ \/ \E i \in DOMAIN tx : tx[i] = "ConnectRequest"]
  BY DEF State
<1>12. OnSendable(s, k) =
          IF tx # <<>> /\ ~ written THEN bsc_cli_process_error(s, k, "OTHER")
          ELSE IF s.sc.sock[k].state = "ERROR_FLUSH_TX"
          THEN bsc_cli_process_error(sent, k, s.sc.sock[k].reason)
          ELSE sent
  <2>. HIDE DEF sent
  <2>. QED  BY <1>11 DEF OnSendable
<1>. HIDE DEF sent
<1>13. Alike(sent, bsc_cli_process_error(sent, k, s.sc.sock[k].reason))
  BY <1>9, <1>10, ProcessErrorAlike
<1>14. Alike(s, bsc_cli_process_error(s, k, "OTHER"))
  BY <1>10, ProcessErrorAlike
<1>15. Alike(s, bsc_cli_process_error(sent, k, s.sc.sock[k].reason))
  BY <1>8, <1>13, AlikeTrans
<1>. QED  BY <1>8, <1>12, <1>14, <1>15

-----------------------------------------------------------------------------
(* Connecting, when nothing is in use.                                     *)

(* A non-empty set of naturals has a least element.                        *)
LEMMA LeastHandle ==
    ASSUME NEW T, T \subseteq Nat, T # {}
    PROVE  \E x \in T : \A y \in T : x <= y
<1>1. PICK x \in T : \A y \in T : ~ (<<y, x>> \in OpToRel(<, Nat))
  BY NatLessThanWellFounded, WFMin
<1>2. ASSUME NEW y \in T PROVE x <= y
  <2>1. y \in Nat /\ x \in Nat
    OBVIOUS
  <2>2. ~ (y < x)
    BY <1>1, <2>1, Zenon DEF OpToRel
  <2>. QED  BY <2>1, <2>2
<1>. QED  BY <1>2

(* The layers change above the sockets.                                    *)
LEMMA QuietLayers ==
    ASSUME NEW s, NEW t \in State, NEW e, Quiet(s, e),
           t.sc.sock = s.sc.sock, t.ws = s.ws
    PROVE  Quiet(t, e)
BY DEF Quiet, Active

LEMMA SingleLayers ==
    ASSUME NEW s, NEW t \in State, NEW e, NEW k, Single(s, k, e),
           t.sc.sock = s.sc.sock, t.ws = s.ws
    PROVE  Single(t, k, e)
BY DEF Single, Active

(* Single parts of a state change.                                         *)
LEMMA WsTyped ==
    ASSUME NEW s \in State, NEW h \in Handles, NEW w \in WsType
    PROVE  LET t == [s EXCEPT !.ws[h] = w]
           IN  /\ t \in State /\ t.sc = s.sc
               /\ \A g \in Handles : t.ws[g] = IF g = h THEN w ELSE s.ws[g]
BY DEF State

LEMMA SockTyped ==
    ASSUME NEW s \in State, NEW k \in Hubs, NEW c \in SockType
    PROVE  LET t == [s EXCEPT !.sc.sock[k] = c]
           IN  /\ t \in State /\ t.ws = s.ws
               /\ \A j \in Hubs : t.sc.sock[j] = IF j = k THEN c ELSE s.sc.sock[j]
               /\ SameLayers(s, t) /\ t.sc.refused = s.sc.refused
<1>. DEFINE t == [s EXCEPT !.sc.sock[k] = c]
<1>1. /\ t.sc = [s.sc EXCEPT !.sock[k] = c] /\ t.ws = s.ws
      /\ s.sc \in ScType
  BY DEF State
<1>2. t.sc.sock = [s.sc.sock EXCEPT ![k] = c] /\ t.sc \in ScType
  BY <1>1 DEF ScType
<1>3. t \in State
  BY <1>1, <1>2 DEF State
<1>4. SameLayers(s, t) /\ t.sc.refused = s.sc.refused
  BY <1>1 DEF ScType, SameLayers
<1>5. \A j \in Hubs : t.sc.sock[j] = IF j = k THEN c ELSE s.sc.sock[j]
  BY <1>1, <1>2 DEF ScType
<1>. QED  BY <1>1, <1>3, <1>4, <1>5

LEMMA RefusedTyped ==
    ASSUME NEW s \in State, NEW n \in Nat
    PROVE  LET t == [s EXCEPT !.sc.refused = n]
           IN  /\ t \in State /\ t.ws = s.ws /\ t.sc.sock = s.sc.sock
               /\ SameLayers(s, t) /\ t.sc.refused = n
<1>. DEFINE t == [s EXCEPT !.sc.refused = n]
<1>1. t.sc = [s.sc EXCEPT !.refused = n] /\ t.ws = s.ws /\ s.sc \in ScType
  BY DEF State
<1>2. /\ t.sc \in ScType /\ t.sc.sock = s.sc.sock /\ t.sc.refused = n
      /\ SameLayers(s, t)
  BY <1>1 DEF ScType, SameLayers
<1>3. t \in State
  BY <1>1, <1>2 DEF State
<1>. QED  BY <1>1, <1>2, <1>3

(* What an attempt to connect hub k leads to.                              *)
Tried(s, t, k, e) ==
    /\ SameLayers(s, t)
    /\ (Quiet(t, e) /\ t.sc.refused # 0) \/ Single(t, k, e)

LEMMA ConnectTried ==
    ASSUME NEW s, NEW e, NEW k \in Hubs, NEW ok, Quiet(s, e),
           s.sc.ctx = "INITIALIZED"
    PROVE  Tried(s, bsc_connect(s, k, ok), k, e)
<1>. DEFINE r == bsc_connect(s, k, ok)
<1>1. s \in State /\ s.sc.sock[k] \in SockType /\ s.sc.refused \in Nat
  BY StateParts DEF Quiet, ScType
<1>2. CASE ok[k] /\ FreeHandles(s) # {}
  <2>. DEFINE h == CHOOSE x \in FreeHandles(s) : \A y \in FreeHandles(s) : x <= y
              c == [s.sc.sock[k] EXCEPT !.state = "AWAITING_WEBSOCKET", !.tx = <<>>]
              w == [IdleWs EXCEPT !.state = "CONNECTING", !.hub = k,
                                  !.opening = TRUE, !.alive = k \in up]
              t == [s EXCEPT !.sc.sock[k] = c]
              v == [t EXCEPT !.ws[h] = w]
              d == [v.sc.sock[k] EXCEPT !.wh = h]
              u == [v EXCEPT !.sc.sock[k] = d]
  <2>1. r = u
    BY <1>2 DEF bsc_connect, bws_cli_connect
  <2>2. h \in Handles /\ s.ws[h].state = "IDLE"
    <3>1. FreeHandles(s) \subseteq Nat
      BY ScConstants DEF FreeHandles
    <3>2. \E x \in FreeHandles(s) : \A y \in FreeHandles(s) : x <= y
      BY <1>2, <3>1, LeastHandle
    <3>. QED  BY <3>2 DEF FreeHandles
  <2>3. c \in SockType /\ c.state = "AWAITING_WEBSOCKET"
    BY <1>1, EmptyPdus DEF SockType
  <2>4. w \in WsType /\ w.state = "CONNECTING"
    <3>1. ASSUME NEW b \in BOOLEAN
          PROVE  LET x == [IdleWs EXCEPT !.state = "CONNECTING", !.hub = k,
                                         !.opening = TRUE, !.alive = b]
                 IN  x \in WsType /\ x.state = "CONNECTING"
      BY EmptyPdus DEF IdleWs, WsType
    <3>2. (k \in up) \in BOOLEAN
      OBVIOUS
    <3>. QED  BY <3>1, <3>2, Zenon
  <2>. HIDE DEF h, c, w
  <2>5. /\ t \in State /\ t.ws = s.ws /\ SameLayers(s, t)
        /\ \A j \in Hubs : t.sc.sock[j] = IF j = k THEN c ELSE s.sc.sock[j]
    BY <1>1, <2>3, SockTyped
  <2>. HIDE DEF t
  <2>6. /\ v \in State /\ v.sc = t.sc
        /\ \A g \in Handles : v.ws[g] = IF g = h THEN w ELSE s.ws[g]
    BY <2>2, <2>4, <2>5, WsTyped
  <2>. HIDE DEF v
  <2>7. d \in SockType /\ d.state = "AWAITING_WEBSOCKET" /\ d.wh = h
    BY <2>2, <2>3, <2>5, <2>6 DEF SockType
  <2>. HIDE DEF d
  <2>8. /\ u \in State /\ u.ws = v.ws /\ SameLayers(v, u)
        /\ \A j \in Hubs : u.sc.sock[j] = IF j = k THEN d ELSE v.sc.sock[j]
    BY <2>6, <2>7, SockTyped
  <2>. HIDE DEF u
  <2>9. \A j \in Hubs \ {k} : u.sc.sock[j] = s.sc.sock[j]
    BY <2>5, <2>6, <2>8
  <2>10. Single(u, k, e)
    BY <2>2, <2>4, <2>6, <2>7, <2>8, <2>9 DEF Single, Quiet, Active
  <2>11. SameLayers(s, u)
    BY <2>5, <2>6, <2>8 DEF SameLayers
  <2>. QED  BY <2>1, <2>10, <2>11 DEF Tried
<1>3. CASE ~ (ok[k] /\ FreeHandles(s) # {})
  <2>. DEFINE t == [s EXCEPT !.sc.sock[k] = IdleSocket]
              u == [t EXCEPT !.sc.refused = s.sc.refused + 1]
  <2>1. r = u
    BY <1>3 DEF bsc_connect
  <2>2. IdleSocket \in SockType /\ IdleSocket.state = "IDLE"
    BY EmptyPdus DEF SockType, IdleSocket, Reasons
  <2>3. /\ t \in State /\ t.ws = s.ws /\ SameLayers(s, t)
        /\ \A j \in Hubs : t.sc.sock[j] = IF j = k THEN IdleSocket ELSE s.sc.sock[j]
    BY <1>1, <2>2, SockTyped
  <2>4. s.sc.refused + 1 \in Nat
    BY <1>1
  <2>. HIDE DEF t
  <2>5. /\ u \in State /\ u.ws = t.ws /\ u.sc.sock = t.sc.sock
        /\ SameLayers(t, u) /\ u.sc.refused = s.sc.refused + 1
    BY <2>3, <2>4, RefusedTyped
  <2>. HIDE DEF u
  <2>6. \A j \in Hubs : ~ Active(u, j)
    BY <2>2, <2>3, <2>5 DEF Quiet, Active
  <2>7. Quiet(u, e) /\ u.sc.refused # 0
    BY <1>1, <2>3, <2>5, <2>6 DEF Quiet
  <2>. QED  BY <2>1, <2>3, <2>5, <2>7 DEF Tried, SameLayers
<1>. QED  BY <1>2, <1>3

-----------------------------------------------------------------------------
(* The layers above the sockets: hub connector, node and datalink.         *)

(* What they leave alone.                                                  *)
Below(s, t) ==
    /\ t \in State /\ t.ws = s.ws /\ t.sc.sock = s.sc.sock
    /\ t.sc.refused = s.sc.refused /\ t.sc.failover_url = s.sc.failover_url

LEMMA ConnTyped ==
    ASSUME NEW s \in State, NEW x \in Connectors
    PROVE  LET t == [s EXCEPT !.sc.conn = x]
           IN  /\ Below(s, t) /\ t.sc.conn = x
               /\ t.sc.ctx = s.sc.ctx /\ t.sc.node = s.sc.node /\ t.sc.used = s.sc.used
<1>. DEFINE t == [s EXCEPT !.sc.conn = x]
<1>1. t.sc = [s.sc EXCEPT !.conn = x] /\ t.ws = s.ws /\ s.sc \in ScType
  BY DEF State
<1>2. /\ t.sc \in ScType /\ t.sc.conn = x /\ t.sc.sock = s.sc.sock
      /\ t.sc.refused = s.sc.refused /\ t.sc.failover_url = s.sc.failover_url
      /\ t.sc.ctx = s.sc.ctx /\ t.sc.node = s.sc.node /\ t.sc.used = s.sc.used
  BY <1>1 DEF ScType
<1>3. t \in State
  BY <1>1, <1>2 DEF State
<1>. QED  BY <1>1, <1>2, <1>3 DEF Below

LEMMA NodeTyped ==
    ASSUME NEW s \in State, NEW x \in {"IDLE", "STARTED", "STOPPING", "RESTARTING"}
    PROVE  LET t == [s EXCEPT !.sc.node = x]
           IN  /\ Below(s, t) /\ t.sc.node = x
               /\ t.sc.conn = s.sc.conn /\ t.sc.ctx = s.sc.ctx /\ t.sc.used = s.sc.used
<1>. DEFINE t == [s EXCEPT !.sc.node = x]
<1>1. t.sc = [s.sc EXCEPT !.node = x] /\ t.ws = s.ws /\ s.sc \in ScType
  BY DEF State
<1>2. /\ t.sc \in ScType /\ t.sc.node = x /\ t.sc.sock = s.sc.sock
      /\ t.sc.refused = s.sc.refused /\ t.sc.failover_url = s.sc.failover_url
      /\ t.sc.conn = s.sc.conn /\ t.sc.ctx = s.sc.ctx /\ t.sc.used = s.sc.used
  BY <1>1 DEF ScType
<1>3. t \in State
  BY <1>1, <1>2 DEF State
<1>. QED  BY <1>1, <1>2, <1>3 DEF Below

LEMMA CtxTyped ==
    ASSUME NEW s \in State, NEW x \in {"IDLE", "INITIALIZED", "DEINITIALIZING"}
    PROVE  LET t == [s EXCEPT !.sc.ctx = x]
           IN  /\ Below(s, t) /\ t.sc.ctx = x
               /\ t.sc.conn = s.sc.conn /\ t.sc.node = s.sc.node /\ t.sc.used = s.sc.used
<1>. DEFINE t == [s EXCEPT !.sc.ctx = x]
<1>1. t.sc = [s.sc EXCEPT !.ctx = x] /\ t.ws = s.ws /\ s.sc \in ScType
  BY DEF State
<1>2. /\ t.sc \in ScType /\ t.sc.ctx = x /\ t.sc.sock = s.sc.sock
      /\ t.sc.refused = s.sc.refused /\ t.sc.failover_url = s.sc.failover_url
      /\ t.sc.conn = s.sc.conn /\ t.sc.node = s.sc.node /\ t.sc.used = s.sc.used
  BY <1>1 DEF ScType
<1>3. t \in State
  BY <1>1, <1>2 DEF State
<1>. QED  BY <1>1, <1>2, <1>3 DEF Below

LEMMA EvTyped ==
    ASSUME NEW s \in State, NEW x \in BOOLEAN
    PROVE  LET t == [s EXCEPT !.sc.ev = x]
           IN  Below(s, t) /\ SameLayers(s, t)
<1>. DEFINE t == [s EXCEPT !.sc.ev = x]
<1>1. t.sc = [s.sc EXCEPT !.ev = x] /\ t.ws = s.ws /\ s.sc \in ScType
  BY DEF State
<1>2. /\ t.sc \in ScType /\ t.sc.sock = s.sc.sock
      /\ t.sc.refused = s.sc.refused /\ SameLayers(s, t)
  BY <1>1 DEF ScType, SameLayers
<1>3. t \in State
  BY <1>1, <1>2 DEF State
<1>. QED  BY <1>1, <1>2, <1>3 DEF Below, SameLayers

LEMMA DlTyped ==
    ASSUME NEW s \in State, NEW x \in {"IDLE", "STARTING", "STARTED", "STOPPING"}
    PROVE  LET t == [s EXCEPT !.sc.dl = x]
           IN  Below(s, t) /\ SameLayers(s, t)
<1>. DEFINE t == [s EXCEPT !.sc.dl = x]
<1>1. t.sc = [s.sc EXCEPT !.dl = x] /\ t.ws = s.ws /\ s.sc \in ScType
  BY DEF State
<1>2. /\ t.sc \in ScType /\ t.sc.sock = s.sc.sock
      /\ t.sc.refused = s.sc.refused /\ SameLayers(s, t)
  BY <1>1 DEF ScType, SameLayers
<1>3. t \in State
  BY <1>1, <1>2 DEF State
<1>. QED  BY <1>1, <1>2, <1>3 DEF Below, SameLayers

LEMMA UsedTyped ==
    ASSUME NEW s \in State, NEW x \in BOOLEAN
    PROVE  LET t == [s EXCEPT !.sc.used = x]
           IN  Below(s, t) /\ t.sc.used = x
<1>. DEFINE t == [s EXCEPT !.sc.used = x]
<1>1. t.sc = [s.sc EXCEPT !.used = x] /\ t.ws = s.ws /\ s.sc \in ScType
  BY DEF State
<1>2. /\ t.sc \in ScType /\ t.sc.used = x /\ t.sc.sock = s.sc.sock
      /\ t.sc.refused = s.sc.refused /\ t.sc.failover_url = s.sc.failover_url
  BY <1>1 DEF ScType
<1>3. t \in State
  BY <1>1, <1>2 DEF State
<1>. QED  BY <1>1, <1>2, <1>3 DEF Below

(* Nothing of the invariant is about the datalink.                         *)
LEMMA BelowAlike ==
    ASSUME NEW s \in State, NEW t, Below(s, t), SameLayers(s, t)
    PROVE  Alike(s, t)
BY DEF Below, Alike, Active

LEMMA BelowQuiet ==
    ASSUME NEW s, NEW t, NEW e, Below(s, t), Quiet(s, e)
    PROVE  Quiet(t, e)
BY QuietLayers DEF Below

LEMMA BelowSingle ==
    ASSUME NEW s, NEW t, NEW e, NEW k, Below(s, t), Single(s, k, e)
    PROVE  Single(t, k, e)
BY SingleLayers DEF Below

(* The four states of a connector that a hub has to do with.               *)
LEMMA ConnectorStates ==
    ASSUME NEW k \in Hubs
    PROVE  /\ Connecting(k) \in Connectors
           /\ Connecting(k) \notin {"IDLE", "WAIT_FOR_RECONNECT",
                                    "WAIT_FOR_CTX_DEINIT", "DUPLICATED_VMAC"}
BY DEF Connecting, Connectors

LEMMA HubConnectSound ==
    ASSUME NEW s, NEW e, NEW k \in Hubs, NEW ok, Quiet(s, e),
           s.sc.ctx = "INITIALIZED", s.sc.node = "STARTED", s.sc.used = TRUE
    PROVE  Sound(hub_connector_connect(s, k, ok), e)
<1>1. s \in State
  BY DEF Quiet
<1>2. CASE k = FAILOVER /\ ~ s.sc.failover_url
  <2>. DEFINE t == [s EXCEPT !.sc.conn = "WAIT_FOR_RECONNECT"]
  <2>1. "WAIT_FOR_RECONNECT" \in Connectors
    BY DEF Connectors
  <2>2. /\ Below(s, t) /\ t.sc.conn = "WAIT_FOR_RECONNECT" /\ t.sc.ctx = "INITIALIZED"
        /\ t.sc.node = "STARTED" /\ t.sc.used = TRUE
    BY <1>1, <2>1, ConnTyped
  <2>3. hub_connector_connect(s, k, ok) = t
    BY <1>2 DEF hub_connector_connect
  <2>. HIDE DEF t
  <2>4. Quiet(t, e) /\ LayersAgree(t)
    BY <2>2, BelowQuiet DEF LayersAgree
  <2>. QED  BY <2>2, <2>3, <2>4, QuietSound
<1>3. CASE ~ (k = FAILOVER /\ ~ s.sc.failover_url)
  <2>. DEFINE t == [s EXCEPT !.sc.conn = Connecting(k)]
              u == bsc_connect(t, k, ok)
  <2>1. Connecting(k) \in Connectors
    BY ConnectorStates
  <2>2. /\ Below(s, t) /\ t.sc.conn = Connecting(k) /\ t.sc.ctx = "INITIALIZED"
        /\ t.sc.node = "STARTED" /\ t.sc.used = TRUE
    BY <1>1, <2>1, ConnTyped
  <2>3. hub_connector_connect(s, k, ok) = u
    BY <1>3 DEF hub_connector_connect
  <2>. HIDE DEF t
  <2>4. Tried(t, u, k, e)
    BY <2>2, BelowQuiet, ConnectTried
  <2>. HIDE DEF u
  <2>5. LayersAgree(u) /\ u.sc.conn = Connecting(k)
    BY <2>2, <2>4, ConnectorStates DEF Tried, SameLayers, LayersAgree
  <2>6. CASE Single(u, k, e)
    BY <2>3, <2>5, <2>6, SingleSound
  <2>7. CASE Quiet(u, e) /\ u.sc.refused # 0
    BY <2>3, <2>5, <2>7, QuietSound
  <2>. QED  BY <2>4, <2>6, <2>7 DEF Tried
<1>. QED  BY <1>2, <1>3

(* What becomes of a connector that starts.                                *)
ConnectorStarted(s, t, e) ==
    /\ t.sc.node = s.sc.node /\ t.sc.used = s.sc.used
    /\ \/ t.sc.conn = "IDLE" /\ t.sc.ctx = "IDLE" /\ Quiet(t, e)
       \/ \E k \in Hubs : /\ t.sc.conn = Connecting(k)
                          /\ t.sc.ctx = "INITIALIZED" /\ Single(t, k, e)

LEMMA ConnectorStarts ==
    ASSUME NEW s, NEW e, NEW ok, Quiet(s, e)
    PROVE  ConnectorStarted(s, bsc_hub_connector_start(s, ok), e)
<1>. DEFINE idle == [k \in Hubs |-> IdleSocket]
            fresh0 == [s EXCEPT !.sc.ctx = "INITIALIZED"]
            fresh == [fresh0 EXCEPT !.sc.sock = idle]
            first == bsc_connect(fresh, PRIMARY, ok)
            second == bsc_connect(first, FAILOVER, ok)
            failed(t) == [t EXCEPT !.sc.ctx = "IDLE", !.sc.conn = "IDLE"]
            on(t, k) == [t EXCEPT !.sc.conn = Connecting(k)]
            r == bsc_hub_connector_start(s, ok)
<1>1. r = IF Active(first, PRIMARY) THEN on(first, PRIMARY)
          ELSE IF ~ s.sc.failover_url THEN failed(first)
          ELSE IF Active(second, FAILOVER) THEN on(second, FAILOVER)
          ELSE failed(second)
  BY DEF bsc_hub_connector_start
<1>2. /\ Below(s, fresh0) /\ fresh0.sc.ctx = "INITIALIZED"
      /\ fresh0.sc.node = s.sc.node /\ fresh0.sc.used = s.sc.used
  BY CtxTyped DEF Quiet
<1>. HIDE DEF fresh0
<1>3. /\ fresh \in State /\ fresh.ws = s.ws
      /\ \A k \in Hubs : fresh.sc.sock[k] = IdleSocket
      /\ fresh.sc.ctx = "INITIALIZED" /\ fresh.sc.node = s.sc.node
      /\ fresh.sc.used = s.sc.used
  <2>1. IdleSocket \in SockType
    BY EmptyPdus DEF SockType, IdleSocket, Reasons
  <2>2. idle \in [Hubs -> SockType]
    BY <2>1
  <2>3. fresh0 \in State /\ fresh0.ws = s.ws
    BY <1>2 DEF Below
  <2>4. fresh.sc = [fresh0.sc EXCEPT !.sock = idle] /\ fresh.ws = fresh0.ws
    BY <2>3 DEF State
  <2>5. \A k \in Hubs : idle[k] = IdleSocket
    OBVIOUS
  <2>. HIDE DEF idle
  <2>6. /\ fresh.sc \in ScType /\ fresh.sc.sock = idle
        /\ fresh.sc.ctx = fresh0.sc.ctx /\ fresh.sc.node = fresh0.sc.node
        /\ fresh.sc.used = fresh0.sc.used
    BY <2>2, <2>3, <2>4, StateParts DEF ScType
  <2>7. fresh \in State
    BY <2>3, <2>4, <2>6 DEF State
  <2>. HIDE DEF fresh
  <2>. QED  BY <1>2, <2>3, <2>4, <2>5, <2>6, <2>7
<1>4. Quiet(fresh, e)
  <2>. HIDE DEF fresh
  <2>. QED  BY <1>3 DEF Quiet, Active, IdleSocket
<1>. HIDE DEF fresh
<1>5. ASSUME NEW t, Quiet(t, e), t.sc.node = s.sc.node, t.sc.used = s.sc.used
      PROVE  ConnectorStarted(s, failed(t), e)
  <2>. DEFINE t1 == [t EXCEPT !.sc.ctx = "IDLE"]
              t2 == [t1 EXCEPT !.sc.conn = "IDLE"]
  <2>1. /\ Below(t, t1) /\ t1.sc.ctx = "IDLE" /\ t1.sc.node = s.sc.node
        /\ t1.sc.used = s.sc.used
    BY <1>5, CtxTyped DEF Quiet
  <2>2. failed(t) = t2
    OBVIOUS
  <2>. HIDE DEF t1, failed
  <2>3. "IDLE" \in Connectors /\ t1 \in State
    BY <2>1 DEF Connectors, Below
  <2>4. /\ Below(t1, t2) /\ t2.sc.ctx = "IDLE" /\ t2.sc.node = s.sc.node
        /\ t2.sc.used = s.sc.used /\ t2.sc.conn = "IDLE"
    BY <2>1, <2>3, ConnTyped
  <2>. HIDE DEF t2
  <2>5. Quiet(t2, e)
    BY <1>5, <2>1, <2>4, BelowQuiet
  <2>. QED  BY <2>2, <2>4, <2>5 DEF ConnectorStarted
<1>6. ASSUME NEW t, NEW k \in Hubs, Single(t, k, e), t.sc.node = s.sc.node,
             t.sc.used = s.sc.used, t.sc.ctx = "INITIALIZED"
      PROVE  ConnectorStarted(s, on(t, k), e)
  <2>. DEFINE t1 == [t EXCEPT !.sc.conn = Connecting(k)]
  <2>1. Connecting(k) \in Connectors /\ t \in State
    BY <1>6, ConnectorStates DEF Single
  <2>2. /\ Below(t, t1) /\ t1.sc.conn = Connecting(k) /\ t1.sc.node = s.sc.node
        /\ t1.sc.used = s.sc.used /\ t1.sc.ctx = "INITIALIZED"
    BY <1>6, <2>1, ConnTyped
  <2>. HIDE DEF t1
  <2>3. Single(t1, k, e)
    BY <1>6, <2>2, BelowSingle
  <2>4. ConnectorStarted(s, t1, e)
    BY <2>2, <2>3 DEF ConnectorStarted
  <2>. QED  BY <2>4 DEF t1
<1>7. PRIMARY \in Hubs /\ FAILOVER \in Hubs
  BY DEF Hubs
<1>8. Tried(fresh, first, PRIMARY, e)
  BY <1>3, <1>4, <1>7, ConnectTried
<1>. HIDE DEF first, failed, on
<1>9. /\ first.sc.node = s.sc.node /\ first.sc.used = s.sc.used
      /\ first.sc.ctx = "INITIALIZED"
      /\ Active(first, PRIMARY) <=> Single(first, PRIMARY, e)
      /\ ~ Active(first, PRIMARY) => Quiet(first, e)
  BY <1>3, <1>7, <1>8 DEF Tried, SameLayers, Single, Quiet, Active
<1>10. CASE Active(first, PRIMARY)
  BY <1>1, <1>6, <1>7, <1>9, <1>10
<1>11. CASE ~ Active(first, PRIMARY) /\ ~ s.sc.failover_url
  BY <1>1, <1>5, <1>9, <1>11
<1>12. CASE ~ Active(first, PRIMARY) /\ s.sc.failover_url
  <2>1. Tried(first, second, FAILOVER, e)
    BY <1>7, <1>9, <1>12, ConnectTried
  <2>. HIDE DEF second
  <2>2. /\ second.sc.node = s.sc.node /\ second.sc.used = s.sc.used
        /\ second.sc.ctx = "INITIALIZED"
        /\ Active(second, FAILOVER) <=> Single(second, FAILOVER, e)
        /\ ~ Active(second, FAILOVER) => Quiet(second, e)
    BY <1>7, <1>9, <2>1 DEF Tried, SameLayers, Single, Quiet, Active
  <2>3. CASE Active(second, FAILOVER)
    BY <1>1, <1>6, <1>7, <1>12, <2>2, <2>3
  <2>4. CASE ~ Active(second, FAILOVER)
    BY <1>1, <1>5, <1>12, <2>2, <2>4
  <2>. QED  BY <2>3, <2>4
<1>. QED  BY <1>10, <1>11, <1>12

LEMMA NodeEventAlike ==
    ASSUME NEW s \in State
    PROVE  Alike(s, bsc_node_event(s))
<1>. DEFINE x == s.sc.ev \/ s.sc.dl # "IDLE"
<1>1. x \in BOOLEAN
  BY StateParts DEF ScType
<1>2. bsc_node_event(s) = [s EXCEPT !.sc.ev = x]
  BY DEF bsc_node_event
<1>. HIDE DEF x
<1>. QED  BY <1>1, <1>2, EvTyped, BelowAlike

LEMMA NodeStartSound ==
    ASSUME NEW s, NEW e, NEW ok, Quiet(s, e), s.sc.used = TRUE
    PROVE  /\ Sound(bsc_node_start_state(s, ok), e)
           /\ bsc_node_start_state(s, ok).sc.node \in {"IDLE", "STARTED"}
<1>. DEFINE t == bsc_hub_connector_start(s, ok)
            i == [t EXCEPT !.sc.node = "IDLE"]
            u == [t EXCEPT !.sc.node = "STARTED"]
<1>1. bsc_node_start_state(s, ok) = IF t.sc.conn = "IDLE" THEN i ELSE bsc_node_event(u)
  BY DEF bsc_node_start_state
<1>2. ConnectorStarted(s, t, e)
  BY ConnectorStarts
<1>. HIDE DEF t
<1>3. t \in State
  BY <1>2 DEF ConnectorStarted, Quiet, Single
<1>4. CASE t.sc.conn = "IDLE"
  <2>1. Quiet(t, e) /\ t.sc.ctx = "IDLE"
    BY <1>2, <1>4, ConnectorStates DEF ConnectorStarted
  <2>2. Below(t, i) /\ i.sc.node = "IDLE" /\ i.sc.conn = "IDLE" /\ i.sc.ctx = "IDLE"
    BY <1>3, <1>4, <2>1, NodeTyped
  <2>. HIDE DEF i
  <2>3. Quiet(i, e) /\ LayersAgree(i)
    BY <2>1, <2>2, BelowQuiet DEF LayersAgree
  <2>. QED  BY <1>1, <1>4, <2>2, <2>3, QuietSound
<1>5. CASE t.sc.conn # "IDLE"
  <2>1. PICK k \in Hubs : /\ t.sc.conn = Connecting(k)
                          /\ t.sc.ctx = "INITIALIZED" /\ Single(t, k, e)
    BY <1>2, <1>5 DEF ConnectorStarted
  <2>2. /\ Below(t, u) /\ u.sc.node = "STARTED" /\ u.sc.conn = Connecting(k)
        /\ u.sc.ctx = "INITIALIZED" /\ u.sc.used = TRUE
    BY <1>2, <1>3, <2>1, NodeTyped DEF ConnectorStarted
  <2>. HIDE DEF u
  <2>3. Single(u, k, e) /\ LayersAgree(u)
    BY <2>1, <2>2, BelowSingle, ConnectorStates DEF LayersAgree
  <2>4. Sound(u, e) /\ u \in State
    BY <2>2, <2>3, SingleSound DEF Below
  <2>5. Alike(u, bsc_node_event(u))
    BY <2>4, NodeEventAlike
  <2>6. bsc_node_event(u).sc.node = "STARTED"
    BY <2>2, <2>5 DEF Alike, SameLayers
  <2>7. Sound(bsc_node_event(u), e)
    BY <2>4, <2>5, AlikeSound
  <2>. QED  BY <1>1, <1>5, <2>6, <2>7
<1>. QED  BY <1>4, <1>5

LEMMA ContextEventSound ==
    ASSUME NEW s, NEW e, NEW ok, Quiet(s, e), s.sc.used = TRUE,
           s.sc.node \in {"STOPPING", "RESTARTING"}
    PROVE  Sound(hub_connector_context_event(s, ok), e)
<1>. DEFINE t0 == [s EXCEPT !.sc.ctx = "IDLE"]
            t == [t0 EXCEPT !.sc.conn = "IDLE"]
            u == [t EXCEPT !.sc.node = "IDLE"]
<1>1. Below(s, t0) /\ t0.sc.ctx = "IDLE" /\ t0.sc.node = s.sc.node /\ t0.sc.used = TRUE
  <2>1. s \in State
    BY DEF Quiet
  <2>. QED  BY <2>1, CtxTyped
<1>2. hub_connector_context_event(s, ok) =
          IF s.sc.node = "STOPPING" THEN bsc_node_event(u)
          ELSE bsc_node_start_state(t, ok)
  BY DEF hub_connector_context_event
<1>. HIDE DEF t0
<1>3. "IDLE" \in Connectors /\ t0 \in State
  BY <1>1 DEF Connectors, Below
<1>4. /\ Below(t0, t) /\ t.sc.ctx = "IDLE" /\ t.sc.node = s.sc.node /\ t.sc.used = TRUE
      /\ t.sc.conn = "IDLE"
  BY <1>1, <1>3, ConnTyped
<1>. HIDE DEF t
<1>5. Quiet(t, e) /\ t \in State
  BY <1>1, <1>4, BelowQuiet DEF Below
<1>6. CASE s.sc.node = "STOPPING"
  <2>1. Below(t, u) /\ u.sc.ctx = "IDLE" /\ u.sc.node = "IDLE" /\ u.sc.conn = "IDLE"
    BY <1>4, <1>5, NodeTyped
  <2>. HIDE DEF u
  <2>2. Quiet(u, e) /\ LayersAgree(u)
    BY <1>5, <2>1, BelowQuiet DEF LayersAgree
  <2>3. Sound(u, e) /\ u \in State
    BY <2>1, <2>2, QuietSound DEF Below
  <2>4. Alike(u, bsc_node_event(u))
    BY <2>3, NodeEventAlike
  <2>. QED  BY <1>2, <1>6, <2>3, <2>4, AlikeSound
<1>7. CASE s.sc.node # "STOPPING"
  BY <1>2, <1>4, <1>5, <1>7, NodeStartSound
<1>. QED  BY <1>6, <1>7

(* A node that stops or starts again, before its connector has been told.  *)
Stoppable(s, e) ==
    /\ s \in State /\ e \in [Handles -> Nat]
    /\ OneActive(s) /\ Workers(s, e)
    /\ s.sc.node \in {"STOPPING", "RESTARTING"} /\ s.sc.used = TRUE

LEMMA BelowStoppable ==
    ASSUME NEW s, NEW t, NEW e, Below(s, t), OneActive(s), Workers(s, e),
           e \in [Handles -> Nat],
           t.sc.node \in {"STOPPING", "RESTARTING"}, t.sc.used = TRUE
    PROVE  Stoppable(t, e)
<1>1. OneActive(t)
  BY DEF Below, OneActive, Active
<1>2. Workers(t, e)
  BY DEF Below, Workers, Users, Active
<1>. QED  BY <1>1, <1>2 DEF Stoppable, Below

LEMMA StoppableQuiet ==
    ASSUME NEW s, NEW e, Stoppable(s, e), \A k \in Hubs : ~ Active(s, k)
    PROVE  Quiet(s, e)
<1>1. \A h \in Handles : Users(s, h) = {}
  BY DEF Users
<1>2. \A h \in Handles : e[h] \in Nat
  BY DEF Stoppable
<1>. QED  BY <1>1, <1>2 DEF Stoppable, Workers, Quiet

LEMMA DeinitSound ==
    ASSUME NEW s, NEW e, NEW ok, Stoppable(s, e), s.sc.conn = "WAIT_FOR_CTX_DEINIT"
    PROVE  Sound(bsc_deinit_ctx(s, ok), e)
<1>. DEFINE t == [s EXCEPT !.sc.ctx = "DEINITIALIZING"]
            one == bws_cli_disconnect(t, s.sc.sock[PRIMARY].wh)
            both == bws_cli_disconnect(one, s.sc.sock[FAILOVER].wh)
<1>1. bsc_deinit_ctx(s, ok) = IF {k \in Hubs : Active(s, k)} = {}
                              THEN hub_connector_context_event(t, ok) ELSE both
  BY DEF bsc_deinit_ctx
<1>2. s \in State
  BY DEF Stoppable
<1>3. /\ Below(s, t) /\ t.sc.ctx = "DEINITIALIZING" /\ t.sc.node = s.sc.node
      /\ t.sc.used = s.sc.used /\ t.sc.conn = "WAIT_FOR_CTX_DEINIT"
  BY <1>2, CtxTyped
<1>. HIDE DEF t
<1>4. CASE {k \in Hubs : Active(s, k)} = {}
  <2>1. Quiet(t, e)
    BY <1>3, <1>4, StoppableQuiet, BelowQuiet
  <2>. QED  BY <1>1, <1>3, <1>4, <2>1, ContextEventSound DEF Stoppable
<1>5. CASE {k \in Hubs : Active(s, k)} # {}
  <2>1. Stoppable(t, e)
    BY <1>3, BelowStoppable DEF Stoppable
  <2>2. LayersAgree(t)
    BY <1>3 DEF LayersAgree, Stoppable
  <2>3. Matches(t)
    BY <1>3 DEF Matches, Connecting, Connected
  <2>4. Sound(t, e) /\ t \in State
    BY <2>1, <2>2, <2>3 DEF Sound, Stoppable
  <2>5. \A k \in Hubs : s.sc.sock[k].wh \in Handles \cup {NoHandle}
    BY <1>2, StateParts DEF SockType
  <2>6. PRIMARY \in Hubs /\ FAILOVER \in Hubs
    BY DEF Hubs
  <2>7. Alike(t, one)
    BY <2>4, <2>5, <2>6, DisconnectAlike
  <2>. HIDE DEF one
  <2>8. Alike(one, both)
    BY <2>5, <2>6, <2>7, DisconnectAlike DEF Alike
  <2>. HIDE DEF both
  <2>. QED  BY <1>1, <1>5, <2>4, <2>7, <2>8, AlikeSound
<1>. QED  BY <1>4, <1>5

LEMMA StopSound ==
    ASSUME NEW s, NEW e, NEW ok, Stoppable(s, e),
           s.sc.conn \notin {"IDLE", "WAIT_FOR_CTX_DEINIT"}
    PROVE  Sound(bsc_hub_connector_stop(s, ok), e)
<1>. DEFINE t == [s EXCEPT !.sc.conn = "WAIT_FOR_CTX_DEINIT"]
<1>1. "WAIT_FOR_CTX_DEINIT" \in Connectors
  BY DEF Connectors
<1>2. /\ Below(s, t) /\ t.sc.conn = "WAIT_FOR_CTX_DEINIT" /\ t.sc.node = s.sc.node
      /\ t.sc.used = s.sc.used
  BY <1>1, ConnTyped DEF Stoppable
<1>3. bsc_hub_connector_stop(s, ok) = bsc_deinit_ctx(t, ok)
  BY DEF bsc_hub_connector_stop
<1>. HIDE DEF t
<1>4. Stoppable(t, e)
  BY <1>2, BelowStoppable DEF Stoppable
<1>. QED  BY <1>2, <1>3, <1>4, DeinitSound

(* The connection of the only socket in use has ended.                     *)
LEMMA SocketDisconnectedSound ==
    ASSUME NEW s, NEW e, NEW reason, NEW ok, Quiet(s, e), LayersAgree(s),
           s.sc.ctx = "INITIALIZED"
    PROVE  Sound(SocketDisconnected(s, reason, ok), e)
<1>1. s \in State /\ PRIMARY \in Hubs /\ FAILOVER \in Hubs
  BY DEF Quiet, Hubs
<1>2. /\ s.sc.node = "STARTED" /\ s.sc.used = TRUE
      /\ s.sc.conn \in {"CONNECTING_PRIMARY", "CONNECTING_FAILOVER",
                        "CONNECTED_PRIMARY", "CONNECTED_FAILOVER",
                        "WAIT_FOR_RECONNECT"}
  BY <1>1, StateParts DEF LayersAgree, ScType, Connectors
<1>3. CASE DuplicateVmac(s, reason)
  <2>. DEFINE t == [s EXCEPT !.sc.conn = "DUPLICATED_VMAC"]
              u == [t EXCEPT !.sc.node = "RESTARTING"]
  <2>1. "DUPLICATED_VMAC" \in Connectors
    BY DEF Connectors
  <2>2. Below(s, t) /\ t.sc.conn = "DUPLICATED_VMAC" /\ t.sc.used = TRUE
    BY <1>1, <1>2, <2>1, ConnTyped
  <2>3. SocketDisconnected(s, reason, ok) = bsc_hub_connector_stop(u, ok)
    BY <1>2, <1>3 DEF SocketDisconnected, bsc_node_restart
  <2>. HIDE DEF t
  <2>4. /\ Below(t, u) /\ u.sc.conn = "DUPLICATED_VMAC" /\ u.sc.node = "RESTARTING"
        /\ u.sc.used = TRUE
    <3>1. t \in State
      BY <2>2 DEF Below
    <3>. QED  BY <2>2, <3>1, NodeTyped
  <2>. HIDE DEF u
  <2>5. Quiet(u, e)
    BY <2>2, <2>4, BelowQuiet
  <2>6. OneActive(u) /\ Workers(u, e)
    BY <2>5 DEF Quiet, OneActive, Workers
  <2>7. Stoppable(u, e)
    BY <2>4, <2>5, <2>6 DEF Stoppable, Quiet
  <2>. QED  BY <2>3, <2>4, <2>7, StopSound
<1>4. CASE ~ DuplicateVmac(s, reason)
  <2>1. SocketDisconnected(s, reason, ok) = NextAttempt(s, ok)
    BY <1>4 DEF SocketDisconnected
  <2>2. CASE s.sc.conn = "CONNECTING_PRIMARY"
    BY <1>1, <1>2, <2>1, <2>2, HubConnectSound DEF NextAttempt
  <2>3. CASE s.sc.conn = "CONNECTING_FAILOVER"
    <3>. DEFINE t == [s EXCEPT !.sc.conn = "WAIT_FOR_RECONNECT"]
    <3>1. "WAIT_FOR_RECONNECT" \in Connectors
      BY DEF Connectors
    <3>2. /\ Below(s, t) /\ t.sc.conn = "WAIT_FOR_RECONNECT"
          /\ t.sc.ctx = s.sc.ctx /\ t.sc.node = s.sc.node /\ t.sc.used = TRUE
      BY <1>1, <1>2, <3>1, ConnTyped
    <3>3. NextAttempt(s, ok) = t
      BY <2>3 DEF NextAttempt
    <3>. HIDE DEF t
    <3>4. Quiet(t, e) /\ LayersAgree(t)
      BY <1>2, <3>2, BelowQuiet DEF LayersAgree
    <3>. QED  BY <2>1, <3>2, <3>3, <3>4, QuietSound
  <2>4. CASE s.sc.conn \in {"CONNECTED_PRIMARY", "CONNECTED_FAILOVER"}
    BY <1>1, <1>2, <2>1, <2>4, HubConnectSound DEF NextAttempt
  <2>5. CASE s.sc.conn = "WAIT_FOR_RECONNECT"
    <3>1. NextAttempt(s, ok) = s
      BY <2>5 DEF NextAttempt
    <3>. QED  BY <2>1, <2>5, <3>1, QuietSound
  <2>. QED  BY <1>2, <2>2, <2>3, <2>4, <2>5
<1>. QED  BY <1>3, <1>4

-----------------------------------------------------------------------------
(* The steps.                                                              *)

(* What becomes of the invariant when the state of the C functions is t.   *)
LEMMA BecomesInv ==
    ASSUME NEW t, Becomes(t), Sound(t, ending'), t \in State
    PROVE  ScInv'
<1>1. t = [sc |-> t.sc, ws |-> t.ws]
  BY DEF State
<1>2. Now' = t
  BY <1>1 DEF Now, Becomes
<1>. QED  BY <1>2 DEF ScInv

LEMMA AlikeInv ==
    ASSUME NEW t, ScInv, Alike(Now, t), Becomes(t), UNCHANGED ending
    PROVE  ScInv'
<1>1. Sound(t, ending)
  BY AlikeSound DEF ScInv
<1>. QED  BY <1>1, BecomesInv DEF Sound

(* A socket in use has a handle.                                           *)
LEMMA ActiveHandle ==
    ASSUME NEW s, NEW e, Sound(s, e), NEW k \in Hubs, Active(s, k)
    PROVE  s.sc.sock[k].wh \in Handles
BY DEF Sound, Workers

LEMMA NowState ==
    ASSUME ScInv
    PROVE  /\ Now \in State /\ sc \in ScType
           /\ \A k \in Hubs : sc.sock[k] \in SockType
           /\ \A h \in Handles : ws[h] \in WsType
           /\ ws \in [Handles -> WsType] /\ ending \in [Handles -> Nat]
           /\ Now.sc = sc /\ Now.ws = ws
<1>1. Now \in State /\ Now.sc = sc /\ Now.ws = ws /\ ending \in [Handles -> Nat]
  BY DEF ScInv, Sound, Now
<1>. QED  BY <1>1, StateParts DEF State

LEMMA InitInv ==
    ASSUME Init
    PROVE  ScInv
<1>1. PICK url \in BOOLEAN :
          sc = [dl |-> "IDLE", ev |-> FALSE, used |-> FALSE,
                node |-> "IDLE", conn |-> "IDLE", ctx |-> "IDLE",
                sock |-> [k \in Hubs |-> IdleSocket],
                failover_url |-> url, refused |-> 0]
  BY DEF Init
<1>2. IdleSocket \in SockType /\ IdleSocket.state = "IDLE"
  BY EmptyPdus DEF SockType, IdleSocket, Reasons
<1>3. IdleWs \in WsType /\ IdleWs.state = "IDLE"
  BY EmptyPdus DEF WsType, IdleWs, Hubs
<1>4. ws = [h \in Handles |-> IdleWs] /\ ending = [h \in Handles |-> 0]
  BY DEF Init
<1>5. "IDLE" \in Connectors
  BY DEF Connectors
<1>6. sc \in ScType
  BY <1>1, <1>2, <1>5 DEF ScType
<1>7. Now \in State /\ Now.sc = sc /\ Now.ws = ws
  BY <1>3, <1>4, <1>6 DEF State, Now
<1>8. Quiet(Now, ending)
  BY <1>1, <1>2, <1>3, <1>4, <1>7 DEF Quiet, Active
<1>9. LayersAgree(Now) /\ Now.sc.conn = "IDLE"
  BY <1>1, <1>7 DEF LayersAgree
<1>. QED  BY <1>8, <1>9, QuietSound DEF ScInv

LEMMA InitStepInv ==
    ASSUME ScInv, bsc_init
    PROVE  ScInv'
<1>1. PICK ok \in Outcomes :
          LET t == bsc_node_start_state(
                       [Now EXCEPT !.sc.dl = "STARTING", !.sc.ev = FALSE,
                                   !.sc.used = TRUE], ok)
          IN Becomes(IF t.sc.node = "IDLE"
                     THEN [t EXCEPT !.sc.dl = "IDLE"] ELSE t)
  BY DEF bsc_init
<1>. DEFINE a == [Now EXCEPT !.sc.dl = "STARTING"]
            b == [a EXCEPT !.sc.ev = FALSE]
            c == [b EXCEPT !.sc.used = TRUE]
            t == bsc_node_start_state(c, ok)
            u == [t EXCEPT !.sc.dl = "IDLE"]
<1>2. Becomes(IF t.sc.node = "IDLE" THEN u ELSE t)
  BY <1>1
<1>3. Now.sc.used # TRUE /\ ending' = ending
  BY NowState DEF bsc_init
<1>4. Quiet(Now, ending)
  <2>1. Now.sc.conn = "IDLE"
    BY <1>3 DEF ScInv, Sound, LayersAgree
  <2>2. \A k \in Hubs : ~ Active(Now, k)
    BY <2>1 DEF ScInv, Sound, Matches
  <2>. QED  BY <2>2, SoundQuiet DEF ScInv
<1>5. Below(Now, a)
  BY NowState, DlTyped
<1>. HIDE DEF a
<1>6. Below(a, b)
  BY <1>5, EvTyped DEF Below
<1>. HIDE DEF b
<1>7. b \in State
  BY <1>6 DEF Below
<1>8. Below(b, c) /\ c.sc.used = TRUE
  BY <1>7, UsedTyped
<1>. HIDE DEF c
<1>9. Quiet(c, ending)
  BY <1>4, <1>5, <1>6, <1>8, BelowQuiet
<1>10. Sound(t, ending)
  BY <1>8, <1>9, NodeStartSound
<1>. HIDE DEF t
<1>11. t \in State
  BY <1>10 DEF Sound
<1>12. Sound(u, ending)
  BY <1>10, <1>11, DlTyped, BelowAlike, AlikeSound
<1>. HIDE DEF u
<1>13. u \in State
  BY <1>12 DEF Sound
<1>. QED  BY <1>2, <1>3, <1>10, <1>11, <1>12, <1>13, BecomesInv

LEMMA CleanupStepInv ==
    ASSUME ScInv, bsc_cleanup
    PROVE  ScInv'
<1>1. PICK ok \in Outcomes :
          Becomes(bsc_node_stop([Now EXCEPT !.sc.dl = "STOPPING"], ok))
  BY DEF bsc_cleanup
<1>. DEFINE t == [Now EXCEPT !.sc.dl = "STOPPING"]
            u == [t EXCEPT !.sc.node = "STOPPING"]
            r == bsc_node_stop(t, ok)
<1>2. Becomes(r) /\ ending' = ending
  BY <1>1 DEF bsc_cleanup
<1>3. r = IF t.sc.node \in {"IDLE", "STOPPING"} THEN t
          ELSE bsc_hub_connector_stop(u, ok)
  BY DEF bsc_node_stop
<1>4. Sound(t, ending)
  BY NowState, DlTyped, BelowAlike, AlikeSound DEF ScInv
<1>. HIDE DEF t
<1>5. t \in State
  BY <1>4 DEF Sound
<1>6. /\ Below(t, u) /\ u.sc.node = "STOPPING" /\ u.sc.conn = t.sc.conn
      /\ u.sc.used = t.sc.used /\ u.sc.ctx = t.sc.ctx
  BY <1>5, NodeTyped
<1>. HIDE DEF u
<1>7. Sound(r, ending)
  <2>1. CASE t.sc.node \in {"IDLE", "STOPPING"}
    BY <1>3, <1>4, <2>1
  <2>2. CASE t.sc.node \notin {"IDLE", "STOPPING"}
    <3>1. u.sc.used = TRUE /\ u.sc.conn # "IDLE"
      BY <1>4, <1>6, <2>2 DEF Sound, LayersAgree
    <3>2. Stoppable(u, ending)
      BY <1>4, <1>6, <3>1, BelowStoppable DEF Sound
    <3>3. CASE u.sc.conn = "WAIT_FOR_CTX_DEINIT"
      <4>1. bsc_hub_connector_stop(u, ok) = u
        BY <3>3 DEF bsc_hub_connector_stop
      <4>2. LayersAgree(u)
        BY <1>4, <1>6, <3>1, <3>3 DEF Sound, LayersAgree
      <4>3. Matches(u)
        BY <3>3 DEF Matches, Connecting, Connected
      <4>4. Sound(u, ending)
        BY <3>2, <4>2, <4>3 DEF Sound, Stoppable
      <4>. QED  BY <1>3, <2>2, <4>1, <4>4
    <3>4. CASE u.sc.conn # "WAIT_FOR_CTX_DEINIT"
      BY <1>3, <2>2, <3>1, <3>2, <3>4, StopSound
    <3>. QED  BY <3>3, <3>4
  <2>. QED  BY <2>1, <2>2
<1>. HIDE DEF r
<1>. QED  BY <1>2, <1>7, BecomesInv DEF Sound

LEMMA ReconnectInv ==
    ASSUME ScInv, hub_connector_process_state
    PROVE  ScInv'
<1>1. PICK ok \in Outcomes : Becomes(hub_connector_connect(Now, PRIMARY, ok))
  BY DEF hub_connector_process_state
<1>2. Now.sc.conn = "WAIT_FOR_RECONNECT" /\ ending' = ending
  BY NowState DEF hub_connector_process_state
<1>3. \A k \in Hubs : ~ Active(Now, k)
  BY <1>2 DEF ScInv, Sound, Matches
<1>4. Quiet(Now, ending)
  BY <1>3, SoundQuiet DEF ScInv
<1>5. Now.sc.ctx = "INITIALIZED" /\ Now.sc.node = "STARTED" /\ Now.sc.used = TRUE
  BY <1>2, NowState DEF ScInv, Sound, LayersAgree, ScType
<1>6. PRIMARY \in Hubs
  BY DEF Hubs
<1>7. Sound(hub_connector_connect(Now, PRIMARY, ok), ending)
  BY <1>4, <1>5, <1>6, HubConnectSound
<1>. QED  BY <1>1, <1>2, <1>7, BecomesInv DEF Sound

(* A step of the datalink, of a worker or of a hub that keeps the sockets  *)
(* in use and their workers.                                               *)
LEMMA AlikeStep ==
    ASSUME NEW t, ScInv, Alike(Now, t), sc' = t.sc, ws' = t.ws, UNCHANGED ending
    PROVE  ScInv'
<1>1. Sound(t, ending) /\ t \in State
  BY AlikeSound DEF ScInv, Sound
<1>2. t = [sc |-> t.sc, ws |-> t.ws]
  BY <1>1 DEF State
<1>3. Now' = t
  BY <1>2 DEF Now
<1>. QED  BY <1>1, <1>3 DEF ScInv

LEMMA WsStep ==
    ASSUME ScInv, NEW h \in Handles, NEW w \in WsType,
           w.state = "IDLE" <=> ws[h].state = "IDLE",
           ws' = [ws EXCEPT ![h] = w], UNCHANGED <<sc, ending>>
    PROVE  ScInv'
<1>. DEFINE t == [Now EXCEPT !.ws[h] = w]
<1>1. Alike(Now, t)
  BY NowState, WsUpdate
<1>2. t.sc = sc /\ t.ws = [ws EXCEPT ![h] = w]
  BY DEF Now
<1>. HIDE DEF t
<1>. QED  BY <1>1, <1>2, AlikeStep

LEMMA InitReturnsInv ==
    ASSUME ScInv, InitReturns
    PROVE  ScInv'
<1>. DEFINE t == [Now EXCEPT !.sc.ev = FALSE]
            u == [t EXCEPT !.sc.dl = "STARTED"]
<1>1. Alike(Now, t)
  BY NowState, EvTyped, BelowAlike
<1>2. u.sc = sc' /\ u.ws = ws' /\ ending' = ending
  BY DEF Now, InitReturns
<1>3. t \in State
  BY <1>1 DEF Alike
<1>. HIDE DEF t
<1>4. Alike(t, u)
  BY <1>3, DlTyped, BelowAlike
<1>. HIDE DEF u
<1>. QED  BY <1>1, <1>2, <1>4, AlikeTrans, AlikeStep

(* A node that is still there keeps its place.                             *)
LEMMA CleanupReturnsInv ==
    ASSUME ScInv, CleanupReturns
    PROVE  ScInv'
<1>1. /\ sc' = [sc EXCEPT !.ev = FALSE, !.dl = "IDLE",
                          !.used = sc.used /\ sc.node # "IDLE"]
      /\ ws' = ws /\ ending' = ending
  BY DEF CleanupReturns
<1>2. sc \in ScType /\ ws \in [Handles -> WsType]
  BY NowState
<1>3. (sc.used /\ sc.node # "IDLE") \in BOOLEAN
  OBVIOUS
<1>4. /\ sc' \in ScType /\ sc'.conn = sc.conn /\ sc'.ctx = sc.ctx
      /\ sc'.node = sc.node /\ sc'.sock = sc.sock /\ sc'.refused = sc.refused
      /\ sc'.used = (sc.used /\ sc.node # "IDLE")
  BY <1>1, <1>2, <1>3 DEF ScType
<1>. DEFINE s == Now
            t == [sc |-> sc', ws |-> ws']
<1>5. /\ t \in State /\ t.sc = sc' /\ t.ws = ws
      /\ s.sc = sc /\ s.ws = ws
  BY <1>1, <1>2, <1>4 DEF State, Now
<1>6. Now' = t
  BY DEF Now
<1>7. Sound(s, ending)
  BY DEF ScInv
<1>. HIDE DEF s, t
<1>8. LayersAgree(t)
  BY <1>4, <1>5, <1>7 DEF Sound, LayersAgree
<1>9. OneActive(t) /\ Matches(t)
  BY <1>4, <1>5, <1>7 DEF Sound, OneActive, Matches, Active
<1>10. Workers(t, ending)
  BY <1>4, <1>5, <1>7 DEF Sound, Workers, Users, Active
<1>11. Sound(t, ending)
  BY <1>5, <1>7, <1>8, <1>9, <1>10 DEF Sound
<1>. QED  BY <1>1, <1>6, <1>11 DEF ScInv

LEMMA SocketStepsInv ==
    ASSUME ScInv, NEW k \in Hubs, bsc_send(k) \/ SocketTimeout(k) \/ Heartbeat(k)
    PROVE  ScInv'
<1>1. Now \in State /\ Now.sc = sc
  BY NowState
<1>2. Active(Now, k) /\ ending' = ending
  BY <1>1 DEF bsc_send, SocketTimeout, Heartbeat, Active
<1>3. Now.sc.sock[k].wh \in Handles
  BY <1>2, ActiveHandle DEF ScInv
<1>4. CASE bsc_send(k) \/ Heartbeat(k)
  <2>1. Becomes(Queued(Now, k, "Data"))
    BY <1>4 DEF bsc_send, Heartbeat
  <2>2. Alike(Now, Queued(Now, k, "Data"))
    BY <1>1, <1>3, QueuedAlike DEF Pdus
  <2>. QED  BY <1>2, <2>1, <2>2, AlikeInv
<1>5. CASE SocketTimeout(k)
  <2>1. Becomes(bsc_cli_process_error(Now, k, "OTHER"))
    BY <1>5 DEF SocketTimeout
  <2>2. Alike(Now, bsc_cli_process_error(Now, k, "OTHER"))
    BY <1>1, <1>2, ProcessErrorAlike DEF Reasons
  <2>. QED  BY <1>2, <2>1, <2>2, AlikeInv
<1>. QED  BY <1>4, <1>5

(* A worker takes an event.                                                *)
LEMMA CallbackInv ==
    ASSUME ScInv, NEW h \in Handles,
           Established(h) \/ Received(h) \/ Writeable(h) \/ Closed(h) \/ Sent(h)
    PROVE  ScInv'
<1>1. ws[h] \in WsType /\ ws \in [Handles -> WsType]
  BY NowState
<1>2. CASE Established(h)
  <2>. DEFINE w == [ws[h] EXCEPT !.pc = "connected", !.state = "CONNECTED",
                                 !.opening = FALSE]
  <2>1. w \in WsType /\ w.state = "CONNECTED"
    BY <1>1 DEF WsType
  <2>2. ws' = [ws EXCEPT ![h] = w] /\ UNCHANGED <<sc, ending>> /\ ws[h].state # "IDLE"
    BY <1>1, <1>2 DEF Established
  <2>. HIDE DEF w
  <2>. QED  BY <2>1, <2>2, WsStep
<1>3. CASE Received(h)
  <2>. DEFINE w == [ws[h] EXCEPT !.pc = "received", !.state = "CONNECTED"]
  <2>1. w \in WsType /\ w.state = "CONNECTED"
    BY <1>1, <1>3 DEF WsType, Received
  <2>2. ws' = [ws EXCEPT ![h] = w] /\ UNCHANGED <<sc, ending>> /\ ws[h].state # "IDLE"
    BY <1>1, <1>3 DEF Received, Callback
  <2>. HIDE DEF w
  <2>. QED  BY <2>1, <2>2, WsStep
<1>4. CASE Writeable(h)
  <2>. DEFINE w == [ws[h] EXCEPT !.pc = "sendable", !.state = "CONNECTED"]
  <2>1. w \in WsType /\ w.state = "CONNECTED"
    BY <1>1 DEF WsType
  <2>2. ws' = [ws EXCEPT ![h] = w] /\ UNCHANGED <<sc, ending>> /\ ws[h].state # "IDLE"
    BY <1>1, <1>4 DEF Writeable, Callback
  <2>. HIDE DEF w
  <2>. QED  BY <2>1, <2>2, WsStep
<1>5. CASE Closed(h)
  <2>. DEFINE w == [ws[h] EXCEPT !.pc = "loop", !.state = "DISCONNECTING"]
  <2>1. w \in WsType /\ w.state = "DISCONNECTING"
    BY <1>1 DEF WsType
  <2>2. ws' = [ws EXCEPT ![h] = w] /\ UNCHANGED <<sc, ending>> /\ ws[h].state # "IDLE"
    BY <1>1, <1>5 DEF Closed, Callback
  <2>. HIDE DEF w
  <2>. QED  BY <2>1, <2>2, WsStep
<1>6. CASE Sent(h)
  <2>. DEFINE w == [ws[h] EXCEPT !.pc = "loop", !.want = FALSE]
  <2>1. w \in WsType /\ w.state = ws[h].state
    BY <1>1 DEF WsType
  <2>2. ws' = [ws EXCEPT ![h] = w] /\ UNCHANGED <<sc, ending>>
    BY <1>1, <1>6 DEF Sent
  <2>. HIDE DEF w
  <2>. QED  BY <2>1, <2>2, WsStep
<1>. QED  BY <1>2, <1>3, <1>4, <1>5, <1>6

(* Hubs and network.                                                       *)
LEMMA HubSaysInv ==
    ASSUME ScInv, NEW h \in Handles, NEW m \in Messages, HubSays(h, m)
    PROVE  ScInv'
<1>. DEFINE rx == Append(ws[h].rx, m)
            w == [ws[h] EXCEPT !.rx = rx, !.asked = FALSE]
<1>1. ws[h] \in WsType /\ ws \in [Handles -> WsType]
  BY NowState
<1>2. rx \in Seq(Messages) /\ rx # <<>>
  <2>1. ws[h].rx \in Seq(Messages)
    BY <1>1 DEF WsType
  <2>. QED  BY <2>1
<1>3. ws' = [ws EXCEPT ![h] = w] /\ UNCHANGED <<sc, ending>>
  BY <1>1 DEF HubSays
<1>4. w \in WsType /\ w.state = ws[h].state
  <2>. HIDE DEF rx
  <2>. QED  BY <1>1, <1>2 DEF WsType
<1>. HIDE DEF w
<1>. QED  BY <1>3, <1>4, WsStep

LEMMA HubStepsInv ==
    ASSUME ScInv, NEW h \in Handles,
           \/ HubAccepts(h) \/ HubRefuses(h) \/ HubDisconnects(h)
           \/ ConnectionLost(h) \/ ZombieDropped(h)
    PROVE  ScInv'
<1>1. CASE HubAccepts(h)
  BY <1>1, HubSaysInv DEF HubAccepts, Messages
<1>2. CASE HubRefuses(h)
  BY <1>2, HubSaysInv DEF HubRefuses, Messages
<1>3. CASE HubDisconnects(h)
  BY <1>3, HubSaysInv DEF HubDisconnects, Messages
<1>4. CASE ConnectionLost(h) \/ ZombieDropped(h)
  <2>. DEFINE w == [ws[h] EXCEPT !.alive = FALSE]
  <2>1. ws[h] \in WsType /\ ws \in [Handles -> WsType]
    BY NowState
  <2>2. w \in WsType /\ w.state = ws[h].state
    BY <2>1 DEF WsType
  <2>3. ws' = [ws EXCEPT ![h] = w] /\ UNCHANGED <<sc, ending>>
    BY <1>4, <2>1 DEF ConnectionLost, ZombieDropped
  <2>. HIDE DEF w
  <2>. QED  BY <2>2, <2>3, WsStep
<1>. QED  BY <1>1, <1>2, <1>3, <1>4

LEMMA HubFailsInv ==
    ASSUME ScInv, NEW k \in Hubs, HubFails(k)
    PROVE  ScInv'
<1>. DEFINE t == [sc |-> sc', ws |-> ws']
<1>1. \A h \in Handles : ws[h] \in WsType
  BY NowState
<1>2. /\ ws' = [h \in Handles |-> [ws[h] EXCEPT !.alive = ws[h].alive /\ ws[h].hub # k]]
      /\ sc' = sc /\ ending' = ending
  BY <1>1 DEF HubFails
<1>3. ASSUME NEW h \in Handles
      PROVE  ws'[h] \in WsType /\ ws'[h].state = ws[h].state
  <2>1. (ws[h].alive /\ ws[h].hub # k) \in BOOLEAN
    OBVIOUS
  <2>2. ASSUME NEW b \in BOOLEAN
        PROVE  /\ [ws[h] EXCEPT !.alive = b] \in WsType
               /\ [ws[h] EXCEPT !.alive = b].state = ws[h].state
    BY <1>1 DEF WsType
  <2>. QED  BY <1>2, <2>1, <2>2
<1>4. ws' \in [Handles -> WsType]
  BY <1>2, <1>3
<1>5. t \in State /\ t.sc = sc /\ t.ws = ws'
  BY <1>2, <1>4, NowState DEF State
<1>. HIDE DEF t
<1>6. Alike(Now, t)
  BY <1>3, <1>5, NowState DEF Alike, SameLayers, Active
<1>. QED  BY <1>2, <1>5, <1>6, AlikeStep

-----------------------------------------------------------------------------
(* A worker hands its event up.                                            *)

(* The socket the event is for.                                            *)
LEMMA SocketOfUser ==
    ASSUME ScInv, NEW h \in Handles, SocketOf(h) # {}
    PROVE  LET k == CHOOSE j \in SocketOf(h) : TRUE
           IN  k \in Hubs /\ Active(Now, k) /\ Now.sc.sock[k].wh = h
<1>1. PICK j : j \in SocketOf(h)
  OBVIOUS
<1>2. (CHOOSE i \in SocketOf(h) : TRUE) \in SocketOf(h)
  BY <1>1
<1>. QED  BY <1>2, NowState DEF SocketOf

LEMMA PcAlike ==
    ASSUME ScInv, NEW h \in Handles, NEW pc \in {"loop", "sent"}
    PROVE  Alike(Now, [Now EXCEPT !.ws[h].pc = pc])
<1>. DEFINE w == [ws[h] EXCEPT !.pc = pc]
<1>1. ws[h] \in WsType
  BY NowState
<1>2. w \in WsType /\ w.state = ws[h].state
  BY <1>1 DEF WsType
<1>3. [Now EXCEPT !.ws[h].pc = pc] = [Now EXCEPT !.ws[h] = w]
  BY DEF Now
<1>. HIDE DEF w
<1>. QED  BY <1>2, <1>3, NowState, WsUpdate

LEMMA DispatchConnectedInv ==
    ASSUME ScInv, NEW h \in Handles, DispatchConnected(h)
    PROVE  ScInv'
<1>. DEFINE t == [Now EXCEPT !.ws[h].pc = "loop"]
            k == CHOOSE j \in SocketOf(h) : TRUE
<1>1. Alike(Now, t)
  BY PcAlike
<1>2. Becomes(IF SocketOf(h) = {} THEN t ELSE OnConnected(t, k)) /\ ending' = ending
  BY DEF DispatchConnected, Dispatched
<1>. HIDE DEF t
<1>3. CASE SocketOf(h) = {}
  BY <1>1, <1>2, <1>3, AlikeInv
<1>4. CASE SocketOf(h) # {}
  <2>1. k \in Hubs /\ Active(Now, k) /\ Now.sc.sock[k].wh = h
    BY <1>4, SocketOfUser
  <2>. HIDE DEF k
  <2>2. t \in State /\ Active(t, k) /\ t.sc.sock[k].wh \in Handles
    BY <1>1, <2>1 DEF Alike
  <2>3. Alike(t, OnConnected(t, k))
    BY <2>1, <2>2, OnConnectedAlike
  <2>4. Alike(Now, OnConnected(t, k))
    BY <1>1, <2>3, AlikeTrans
  <2>. QED  BY <1>2, <1>4, <2>4, AlikeInv
<1>. QED  BY <1>3, <1>4

LEMMA DispatchSendableInv ==
    ASSUME ScInv, NEW h \in Handles, DispatchSendable(h)
    PROVE  ScInv'
<1>. DEFINE t == [Now EXCEPT !.ws[h].pc = "sent"]
            k == CHOOSE j \in SocketOf(h) : TRUE
<1>1. Alike(Now, t)
  BY PcAlike
<1>2. Becomes(IF SocketOf(h) = {} THEN t ELSE OnSendable(t, k)) /\ ending' = ending
  BY DEF DispatchSendable, Dispatched
<1>. HIDE DEF t
<1>3. CASE SocketOf(h) = {}
  BY <1>1, <1>2, <1>3, AlikeInv
<1>4. CASE SocketOf(h) # {}
  <2>1. k \in Hubs /\ Active(Now, k) /\ Now.sc.sock[k].wh = h
    BY <1>4, SocketOfUser
  <2>. HIDE DEF k
  <2>2. t \in State /\ Active(t, k) /\ t.sc.sock[k].wh \in Handles
    BY <1>1, <2>1 DEF Alike
  <2>3. Alike(t, OnSendable(t, k))
    BY <2>1, <2>2, OnSendableAlike
  <2>4. Alike(Now, OnSendable(t, k))
    BY <1>1, <2>3, AlikeTrans
  <2>. QED  BY <1>2, <1>4, <2>4, AlikeInv
<1>. QED  BY <1>3, <1>4

(* A hub has accepted the socket that the connector connects, or one whose *)
(* context is about to end.                                                *)
LEMMA AcceptSound ==
    ASSUME NEW s, NEW e, Sound(s, e), NEW k \in Hubs,
           s.sc.sock[k].state = "AWAITING_ACCEPT"
    PROVE  Sound(SocketConnected([s EXCEPT !.sc.sock[k].state = "CONNECTED"]), e)
<1>. DEFINE c == [s.sc.sock[k] EXCEPT !.state = "CONNECTED"]
            t == [s EXCEPT !.sc.sock[k] = c]
            u == [t EXCEPT !.sc.conn = Connected(k)]
<1>1. s \in State /\ s.sc.sock[k] \in SockType /\ s.sc.conn \in Connectors
  BY StateParts DEF Sound, ScType
<1>2. c \in SockType /\ c.state = "CONNECTED" /\ c.wh = s.sc.sock[k].wh
  BY <1>1 DEF SockType
<1>3. s.sc.conn \in {Connecting(k), "WAIT_FOR_CTX_DEINIT"}
  <2>1. Active(s, k)
    BY DEF Active
  <2>2. s.sc.conn \notin {"IDLE", "WAIT_FOR_RECONNECT", "DUPLICATED_VMAC"}
    BY <2>1 DEF Sound, Matches, LayersAgree
  <2>3. s.sc.conn # Connected(k)
    BY DEF Sound, Matches
  <2>4. \A j \in Hubs : s.sc.conn \in {Connecting(j), Connected(j)} => j = k
    BY <2>1 DEF Sound, Matches
  <2>. QED  BY <1>1, <2>2, <2>3, <2>4 DEF Connectors, Connecting, Connected, Hubs,
               PRIMARY, FAILOVER
<1>. HIDE DEF c
<1>4. /\ t \in State /\ t.ws = s.ws /\ SameLayers(s, t)
      /\ t.sc.refused = s.sc.refused
      /\ \A j \in Hubs : t.sc.sock[j] = IF j = k THEN c ELSE s.sc.sock[j]
  BY <1>1, <1>2, SockTyped
<1>5. SocketConnected([s EXCEPT !.sc.sock[k].state = "CONNECTED"]) = SocketConnected(t)
  BY DEF c
<1>. HIDE DEF t
<1>6. \A j \in Hubs : (Active(t, j) <=> Active(s, j)) /\ t.sc.sock[j].wh = s.sc.sock[j].wh
  BY <1>2, <1>4 DEF Active
<1>7. OneActive(t)
  BY <1>6 DEF Sound, OneActive
<1>8. Workers(t, e)
  <2>1. \A h \in Handles : Users(t, h) = Users(s, h)
    BY <1>6 DEF Users
  <2>. QED  BY <1>4, <1>6, <2>1 DEF Sound, Workers
<1>9. \A j \in Hubs : t.sc.sock[j].state = "CONNECTED" => j = k
  BY <1>2, <1>6, <1>7 DEF OneActive, Active
<1>10. CASE s.sc.conn = "WAIT_FOR_CTX_DEINIT"
  <2>1. SocketConnected(t) = t
    BY <1>4, <1>10 DEF SocketConnected, SameLayers
  <2>2. LayersAgree(t)
    BY <1>4 DEF Sound, LayersAgree, SameLayers
  <2>3. Matches(t)
    BY <1>4, <1>10 DEF Matches, SameLayers, Connecting, Connected
  <2>4. Sound(t, e)
    BY <1>4, <1>7, <1>8, <2>2, <2>3 DEF Sound
  <2>. QED  BY <1>5, <2>1, <2>4
<1>11. CASE s.sc.conn = Connecting(k)
  <2>1. SocketConnected(t) = u
    BY <1>4, <1>11 DEF SocketConnected, SameLayers, Connecting, Connected
  <2>2. Connected(k) \in Connectors
    BY DEF Connected, Connectors
  <2>3. /\ Below(t, u) /\ u.sc.conn = Connected(k) /\ u.sc.ctx = s.sc.ctx
        /\ u.sc.node = s.sc.node /\ u.sc.used = s.sc.used
    BY <1>4, <2>2, ConnTyped DEF SameLayers
  <2>. HIDE DEF u
  <2>4. LayersAgree(u)
    BY <1>11, <2>3 DEF Sound, LayersAgree, Connecting, Connected
  <2>5. OneActive(u) /\ Workers(u, e)
    BY <1>7, <1>8, <2>3 DEF Below, OneActive, Workers, Users, Active
  <2>6. Matches(u)
    <3>1. u.sc.sock[k].state = "CONNECTED"
      BY <1>2, <1>4, <2>3 DEF Below
    <3>2. \A j \in Hubs : Active(u, j) => j = k
      BY <2>5, <3>1 DEF OneActive, Active
    <3>. QED  BY <2>3, <3>1, <3>2 DEF Matches, Active, Connecting, Connected, Hubs,
                 PRIMARY, FAILOVER
  <2>7. Sound(u, e)
    BY <2>3, <2>4, <2>5, <2>6 DEF Sound, Below
  <2>. QED  BY <1>5, <2>1, <2>7
<1>. QED  BY <1>3, <1>10, <1>11

LEMMA DispatchReceivedInv ==
    ASSUME ScInv, NEW h \in Handles, DispatchReceived(h)
    PROVE  ScInv'
<1>. DEFINE rx == Tail(ws[h].rx)
            w == [[ws[h] EXCEPT !.rx = rx] EXCEPT !.pc = "loop"]
            t == [Now EXCEPT !.ws[h] = w]
            k == CHOOSE j \in SocketOf(h) : TRUE
            r == IF SocketOf(h) = {} THEN t ELSE OnReceived(t, k)
            m == Head(ws[t.sc.sock[k].wh].rx)
<1>1. ws[h] \in WsType
  BY NowState
<1>2. rx \in Seq(Messages)
  <2>1. ws[h].rx \in Seq(Messages) /\ ws[h].rx # <<>>
    BY <1>1 DEF WsType, DispatchReceived
  <2>. QED  BY <2>1
<1>3. w \in WsType /\ w.state = ws[h].state
  <2>. HIDE DEF rx
  <2>. QED  BY <1>1, <1>2 DEF WsType
<1>4. Alike(Now, t)
  <2>. HIDE DEF w
  <2>. QED  BY <1>3, NowState, WsUpdate
<1>5. [[Now EXCEPT !.ws[h].rx = Tail(@)] EXCEPT !.ws[h].pc = "loop"] = t
  BY NowState DEF Now
<1>6. Becomes(r) /\ ending' = ending
  BY <1>5 DEF DispatchReceived, Dispatched
<1>. HIDE DEF t
<1>7. Sound(t, ending) /\ t \in State
  BY <1>4, AlikeSound DEF ScInv, Alike
<1>8. CASE SocketOf(h) = {}
  BY <1>6, <1>7, <1>8, BecomesInv
<1>9. CASE SocketOf(h) # {}
  <2>1. k \in Hubs /\ Active(Now, k) /\ Now.sc.sock[k].wh = h
    BY <1>9, SocketOfUser
  <2>. HIDE DEF k
  <2>2. Active(t, k) /\ t.sc.sock[k].wh \in Handles
    BY <1>4, <2>1 DEF Alike
  <2>3. r = CASE t.sc.sock[k].state = "AWAITING_ACCEPT" -> AwaitingAccept(t, k, m)
              [] t.sc.sock[k].state = "CONNECTED" -> ConnectedState(t, k, m)
              [] OTHER -> t
    BY <1>9 DEF OnReceived
  <2>. HIDE DEF r, m
  <2>4. CASE t.sc.sock[k].state = "AWAITING_ACCEPT" /\ m = "ConnectAccept"
    <3>. DEFINE u == SocketConnected([t EXCEPT !.sc.sock[k].state = "CONNECTED"])
    <3>1. r = u
      BY <2>3, <2>4 DEF AwaitingAccept
    <3>2. Sound(u, ending)
      BY <1>7, <2>1, <2>4, AcceptSound
    <3>. HIDE DEF u
    <3>. QED  BY <1>6, <3>1, <3>2, BecomesInv DEF Sound
  <2>5. CASE ~ (t.sc.sock[k].state = "AWAITING_ACCEPT" /\ m = "ConnectAccept")
    <3>1. \A reason \in Reasons : Alike(t, bsc_cli_process_error(t, k, reason))
      BY <1>7, <2>1, <2>2, ProcessErrorAlike
    <3>2. Alike(t, ConnectedState(t, k, m))
      BY <1>7, <2>1, <2>2, ConnectedStateAlike
    <3>3. Alike(t, t)
      BY <1>7, AlikeRefl
    <3>4. Alike(t, r)
      <4>1. CASE t.sc.sock[k].state = "AWAITING_ACCEPT"
        <5>1. r \in {bsc_cli_process_error(t, k, reason) : reason \in Reasons}
          BY <2>3, <2>5, <4>1 DEF AwaitingAccept, Reasons
        <5>. QED  BY <3>1, <5>1
      <4>2. CASE t.sc.sock[k].state = "CONNECTED"
        BY <2>3, <3>2, <4>2
      <4>3. CASE t.sc.sock[k].state \notin {"AWAITING_ACCEPT", "CONNECTED"}
        BY <2>3, <3>3, <4>3
      <4>. QED  BY <4>1, <4>2, <4>3
    <3>5. Sound(r, ending)
      BY <1>7, <3>4, AlikeSound
    <3>. QED  BY <1>6, <3>5, BecomesInv DEF Sound
  <2>. QED  BY <2>4, <2>5
<1>. QED  BY <1>8, <1>9

(* The worker of a socket in use ends: from now on its report stands for   *)
(* it.                                                                     *)
LEMMA WorkerEndsInv ==
    ASSUME ScInv, NEW h \in Handles, WorkerEnds(h)
    PROVE  ScInv'
<1>. DEFINE s == Now
            t == [Now EXCEPT !.ws[h] = IdleWs]
            e == [ending EXCEPT ![h] = ending[h] + 1]
<1>1. IdleWs \in WsType /\ IdleWs.state = "IDLE"
  BY EmptyPdus DEF WsType, IdleWs, Hubs
<1>2. /\ t \in State /\ t.sc = s.sc
      /\ \A g \in Handles : t.ws[g] = IF g = h THEN IdleWs ELSE s.ws[g]
  BY <1>1, NowState, WsTyped
<1>3. ending \in [Handles -> Nat]
  BY NowState
<1>4. e \in [Handles -> Nat] /\ \A g \in Handles : e[g] = IF g = h THEN ending[h] + 1 ELSE ending[g]
  BY <1>3
<1>5. Now' = t /\ ending' = e /\ s.ws[h].state # "IDLE"
  BY DEF WorkerEnds, Now
<1>6. Sound(s, ending)
  BY DEF ScInv
<1>. HIDE DEF s, t, e
<1>7. LayersAgree(t) /\ OneActive(t) /\ Matches(t)
  BY <1>2, <1>6 DEF Sound, LayersAgree, OneActive, Matches, Active
<1>8. \A g \in Handles : Users(t, g) = Users(s, g)
  BY <1>2 DEF Users, Active
<1>9. Users(s, h) # {}
  BY <1>5, <1>6 DEF Sound, Workers
<1>10. ending[h] = 0
  <2>1. PICK k \in Hubs : Active(s, k) /\ s.sc.sock[k].wh = h
    BY <1>9 DEF Users
  <2>. QED  BY <1>3, <1>5, <1>6, <2>1 DEF Sound, Workers
<1>11. Workers(t, e)
  <2>1. ASSUME NEW k \in Hubs, Active(t, k)
        PROVE  LET g == t.sc.sock[k].wh
               IN /\ g \in Handles
                  /\ e[g] + (IF t.ws[g].state = "IDLE" THEN 0 ELSE 1) = 1
    <3>1. Active(s, k) /\ t.sc.sock[k].wh = s.sc.sock[k].wh
      BY <1>2, <2>1 DEF Active
    <3>2. /\ s.sc.sock[k].wh \in Handles
          /\ ending[s.sc.sock[k].wh]
                + (IF s.ws[s.sc.sock[k].wh].state = "IDLE" THEN 0 ELSE 1) = 1
      BY <1>6, <3>1 DEF Sound, Workers
    <3>. QED  BY <1>1, <1>2, <1>4, <1>10, <3>1, <3>2
  <2>2. ASSUME NEW g \in Handles, t.ws[g].state # "IDLE" \/ e[g] > 0
        PROVE  Users(t, g) # {}
    <3>1. CASE g = h
      BY <1>8, <1>9, <3>1
    <3>2. CASE g # h
      BY <1>2, <1>4, <1>6, <1>8, <2>2, <3>2 DEF Sound, Workers
    <3>. QED  BY <3>1, <3>2
  <2>. QED  BY <2>1, <2>2 DEF Workers
<1>12. Sound(t, e)
  BY <1>2, <1>4, <1>7, <1>11 DEF Sound
<1>. QED  BY <1>5, <1>12 DEF ScInv

(* The report of an end reaches the one socket that waits for it, and      *)
(* nothing is in use any more.                                             *)
LEMMA DispatchDisconnectedInv ==
    ASSUME ScInv, NEW h \in Handles, DispatchDisconnected(h)
    PROVE  ScInv'
<1>. DEFINE s == Now
            k == CHOOSE j \in SocketOf(h) : TRUE
            e == [ending EXCEPT ![h] = ending[h] - 1]
            t == [s EXCEPT !.sc.sock[k] = IdleSocket]
<1>1. PICK ok \in Outcomes :
          Becomes(IF SocketOf(h) = {} THEN s ELSE OnDisconnected(s, k, ok))
  BY DEF DispatchDisconnected
<1>2. Sound(s, ending) /\ s \in State /\ ending \in [Handles -> Nat]
  BY NowState DEF ScInv
<1>3. ending[h] > 0 /\ ending' = e
  BY DEF DispatchDisconnected
<1>4. SocketOf(h) = Users(s, h)
  BY NowState DEF SocketOf, Users
<1>5. SocketOf(h) # {}
  BY <1>2, <1>3, <1>4 DEF Sound, Workers
<1>6. k \in Hubs /\ Active(s, k) /\ s.sc.sock[k].wh = h
  BY <1>5, SocketOfUser
<1>. DEFINE r == OnDisconnected(s, k, ok)
<1>7. Becomes(r)
  BY <1>1, <1>5
<1>. HIDE DEF s, k
<1>8. ending[h] = 1 /\ s.ws[h].state = "IDLE"
  BY <1>2, <1>3, <1>6 DEF Sound, Workers
<1>9. \A j \in Hubs : Active(s, j) => j = k
  BY <1>2, <1>6 DEF Sound, OneActive
<1>10. \A g \in Handles \ {h} : s.ws[g].state = "IDLE" /\ ending[g] = 0
  <2>1. \A g \in Handles \ {h} : Users(s, g) = {}
    BY <1>6, <1>9 DEF Users
  <2>2. \A g \in Handles : ending[g] \in Nat
    BY <1>2
  <2>. QED  BY <1>2, <2>1, <2>2 DEF Sound, Workers
<1>11. e \in [Handles -> Nat] /\ \A g \in Handles : e[g] = 0
  BY <1>2, <1>8, <1>10
<1>12. IdleSocket \in SockType /\ IdleSocket.state = "IDLE"
  BY EmptyPdus DEF SockType, IdleSocket, Reasons
<1>13. /\ t \in State /\ t.ws = s.ws /\ SameLayers(s, t)
       /\ \A j \in Hubs : t.sc.sock[j] = IF j = k THEN IdleSocket ELSE s.sc.sock[j]
  BY <1>2, <1>6, <1>12, SockTyped
<1>14. r = IF s.sc.ctx # "DEINITIALIZING"
           THEN SocketDisconnected(t, IF s.sc.sock[k].state = "ERROR"
                                      THEN s.sc.sock[k].reason ELSE "OTHER", ok)
           ELSE IF \E j \in Hubs : Active(t, j) THEN t
           ELSE hub_connector_context_event(t, ok)
  BY DEF OnDisconnected
<1>. HIDE DEF t, e
<1>15. \A j \in Hubs : ~ Active(t, j)
  BY <1>9, <1>12, <1>13 DEF Active
<1>16. Quiet(t, e)
  BY <1>8, <1>10, <1>11, <1>13, <1>15 DEF Quiet
<1>17. LayersAgree(t) /\ t.sc.ctx = s.sc.ctx /\ t.sc.conn = s.sc.conn
  BY <1>2, <1>13 DEF Sound, LayersAgree, SameLayers
<1>18. s.sc.conn # "IDLE"
  BY <1>2, <1>6 DEF Sound, Matches
<1>19. CASE s.sc.ctx # "DEINITIALIZING"
  <2>1. t.sc.ctx = "INITIALIZED"
    BY <1>2, <1>17, <1>18, <1>19, StateParts DEF LayersAgree, ScType
  <2>2. Sound(r, e)
    BY <1>14, <1>16, <1>17, <1>19, <2>1, SocketDisconnectedSound
  <2>. HIDE DEF r
  <2>. QED  BY <1>3, <1>7, <2>2, BecomesInv DEF Sound
<1>20. CASE s.sc.ctx = "DEINITIALIZING"
  <2>1. t.sc.node \in {"STOPPING", "RESTARTING"} /\ t.sc.used = TRUE
    BY <1>17, <1>20 DEF LayersAgree
  <2>2. Sound(r, e)
    BY <1>14, <1>15, <1>16, <1>20, <2>1, ContextEventSound
  <2>. HIDE DEF r
  <2>. QED  BY <1>3, <1>7, <2>2, BecomesInv DEF Sound
<1>. QED  BY <1>19, <1>20

-----------------------------------------------------------------------------
(* The theorems.                                                           *)

LEMMA StutterInv ==
    ASSUME ScInv, UNCHANGED <<sc, ws, ending>>
    PROVE  ScInv'
<1>1. Now' = Now
  BY DEF Now
<1>. QED  BY <1>1 DEF ScInv

LEMMA StepInv ==
    ASSUME ScInv, [Next]_vars
    PROVE  ScInv'
<1>1. CASE bsc_init \/ InitReturns \/ bsc_cleanup \/ CleanupReturns
           \/ hub_connector_process_state
  BY <1>1, InitStepInv, InitReturnsInv, CleanupStepInv, CleanupReturnsInv, ReconnectInv
<1>2. ASSUME NEW k \in Hubs, bsc_send(k) \/ SocketTimeout(k) \/ Heartbeat(k)
      PROVE  ScInv'
  BY <1>2, SocketStepsInv
<1>3. ASSUME NEW k \in Hubs, HubFails(k) \/ HubReturns(k)
      PROVE  ScInv'
  <2>1. CASE HubFails(k)
    BY <2>1, HubFailsInv
  <2>2. CASE HubReturns(k)
    BY <2>2, StutterInv DEF HubReturns
  <2>. QED  BY <1>3, <2>1, <2>2
<1>4. ASSUME NEW h \in Handles, Worker(h)
      PROVE  ScInv'
  BY <1>4, CallbackInv, DispatchConnectedInv, DispatchReceivedInv,
     DispatchSendableInv, WorkerEndsInv DEF Worker
<1>5. ASSUME NEW h \in Handles, DispatchDisconnected(h)
      PROVE  ScInv'
  BY <1>5, DispatchDisconnectedInv
<1>6. ASSUME NEW h \in Handles,
             \/ HubAccepts(h) \/ HubRefuses(h) \/ HubDisconnects(h)
             \/ ConnectionLost(h) \/ ZombieDropped(h)
      PROVE  ScInv'
  BY <1>6, HubStepsInv
<1>7. CASE UNCHANGED vars
  BY <1>7, StutterInv DEF vars
<1>. QED  BY <1>1, <1>2, <1>3, <1>4, <1>5, <1>6, <1>7 DEF Next

(* ScInv is inductive: the state of bsc-datalink.c, bsc-node.c,            *)
(* bsc-hub-connector.c, bsc-socket.c and websocket-cli.c stays typed, their*)
(* layers agree on who runs, and sockets and workers are paired.           *)
THEOREM ScInvariant == Spec => []ScInv
<1>1. Init => ScInv
  BY InitInv
<1>2. ScInv /\ [Next]_vars => ScInv'
  BY StepInv
<1>. QED  BY <1>1, <1>2, PTL DEF Spec

(* For any number of websockets and faults, hub_connector_socket_event of  *)
(* bsc-hub-connector.c may go by the connector's state alone: the event is *)
(* of the socket that this state names.                                    *)
THEOREM ConnectorMatchesSocketTheorem == Spec => []ConnectorMatchesSocket
<1>1. ScInv => ConnectorMatchesSocket
  <2>1. ScInv => Matches(Now) /\ Now.sc = sc
    BY NowState DEF ScInv, Sound
  <2>. QED  BY <2>1 DEF Matches, ConnectorMatchesSocket
<1>. QED  BY <1>1, ScInvariant, PTL

(* For any number of websockets and faults, a socket of bsc-socket.c that  *)
(* is in use has one worker of websocket-cli.c, running or about to report *)
(* its end, no two sockets share one, and there is no other worker.        *)
THEOREM WorkerPerSocketTheorem == Spec => []WorkerPerSocket
<1>1. ScInv => WorkerPerSocket
  <2>. SUFFICES ASSUME ScInv PROVE WorkerPerSocket
    OBVIOUS
  <2>1. /\ Sound(Now, ending) /\ Now.sc = sc /\ Now.ws = ws
    BY NowState DEF ScInv
  <2>2. \A h : SocketOf(h) = Users(Now, h)
    BY <2>1 DEF SocketOf, Users
  <2>3. ASSUME NEW k \in Hubs, Active(Now, k)
        PROVE  SocketOf(sc.sock[k].wh) = {k}
    BY <2>1, <2>2, <2>3 DEF Sound, OneActive, Users
  <2>. QED  BY <2>1, <2>2, <2>3 DEF Sound, Workers, WorkerPerSocket
<1>. QED  BY <1>1, ScInvariant, PTL
=============================================================================
