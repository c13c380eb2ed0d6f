------------------------------ MODULE Transport -----------------------------
(***************************************************************************)
(* What the supervisor talks to: rumqttc's client and event loop, the TCP  *)
(* connection and the broker.  None of it is this repository's code; it is *)
(* modelled from how src/src/mqtt.rs uses it and from the options it sets  *)
(* (clean session, retained "offline" will, bounded request channel).      *)
(*                                                                         *)
(* Connections are numbered.  conn is the client's current connection and  *)
(* session the one the broker currently serves (0: none); they differ      *)
(* while one side has not noticed the other's failure.  A clean session    *)
(* means that a new CONNECT starts from nothing: requests left from the    *)
(* previous connection are not replayed.                                   *)
(***************************************************************************)
EXTENDS Naturals, Sequences, FiniteSets

CONSTANTS
  RequestCapacity,  \* REQUEST_CHANNEL_CAPACITY of the request channel
  MaxConnections    \* bound: CONNECTs the broker accepts; the last is stable

ASSUME TransportAssumption ==
  /\ RequestCapacity \in Nat /\ RequestCapacity >= 2
  /\ MaxConnections \in Nat

VARIABLES
  queue,         \* request channel of the client, FIFO
  conn,          \* connection the event loop holds
  inflight,      \* QoS 1 identifiers sent and not acknowledged
  downlink,      \* PUBACKs on the way to the client
  uplink,        \* packets on the way to the broker
  session,       \* connection the broker serves
  epoch,         \* CONNECTs accepted so far
  availability,  \* retained payload of the availability topic
  announced      \* kinds of packets the broker took in this session

clientVars    == <<queue, conn, inflight, downlink>>
brokerVars    == <<uplink, session, epoch, availability, announced>>
transportVars == <<queue, conn, inflight, downlink,
                   uplink, session, epoch, availability, announced>>

\* MqttSettings::options registers a retained "offline" as the last will.
Will == "offline"

InitClient ==
  /\ queue = <<>>
  /\ conn = 0
  /\ inflight = {}
  /\ downlink = <<>>

InitBroker ==
  /\ uplink = <<>>
  /\ session = 0
  /\ epoch = 0
  /\ availability = "none"
  /\ announced = {}

-----------------------------------------------------------------------------
\* The broker accepts the next CONNECT.  A session of the same client that is
\* still open is taken over, and its will is published first.
Accept ==
  /\ epoch < MaxConnections
  /\ epoch' = epoch + 1
  /\ session' = epoch + 1
  /\ uplink' = <<>>
  /\ announced' = {}
  /\ availability' = IF session # 0 THEN Will ELSE availability

\* The network and the event loop stop using a connection: dropped with the
\* EventLoop, or cleaned by poll before it returns an error.
CloseClient ==
  /\ conn' = 0
  /\ queue' = <<>>
  /\ inflight' = {}
  /\ downlink' = <<>>

\* A packet written by the client reaches the broker only if the broker still
\* serves this connection.
Transmit(packet) ==
  uplink' = IF session = conn THEN Append(uplink, packet) ELSE uplink

BrokerTakes(packet) ==
  IF packet.kind = "disconnect"
    THEN \* DISCONNECT ends the session and discards the will.
         /\ session' = 0 /\ uplink' = <<>> /\ announced' = {}
         /\ UNCHANGED <<availability, downlink>>
    ELSE /\ uplink' = Tail(uplink)
         /\ announced' = announced \cup {packet.kind}
         /\ availability' = IF packet.kind \in {"online", "offline"}
                              THEN packet.kind ELSE availability
         /\ downlink' = IF packet.packet # 0 /\ session = conn
                          THEN Append(downlink, packet.packet) ELSE downlink
         /\ UNCHANGED session

\* The broker takes the next packet and acknowledges a QoS 1 publication.
BrokerReceive ==
  /\ uplink # <<>>
  /\ BrokerTakes(Head(uplink))
  /\ UNCHANGED <<epoch, queue, conn, inflight>>

\* The broker ends the session without a DISCONNECT (keep-alive expired, the
\* peer closed the connection, the network failed): it publishes the will.
BrokerDrops ==
  /\ session # 0
  /\ session # conn \/ session < MaxConnections
  /\ session' = 0
  /\ uplink' = <<>>
  /\ announced' = {}
  /\ availability' = Will
  /\ UNCHANGED <<epoch, queue, conn, inflight, downlink>>
=============================================================================
