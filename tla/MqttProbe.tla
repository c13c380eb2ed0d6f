------------------------------ MODULE MqttProbe -----------------------------
(***************************************************************************)
(* probe_mqtt of src/src/diagnostics.rs: a short connection that checks    *)
(* whether the broker lets the configured user in.  Several processes may  *)
(* run it at once, while the daemon holds its own session with the same    *)
(* broker.  A broker knows a client by its identifier only: a CONNECT with *)
(* the identifier of an open session takes that session over.              *)
(*                                                                         *)
(* rumqttc, the network and the broker are the environment: the broker may *)
(* accept, refuse, answer with something else or stay silent, and the      *)
(* connection may fail at any point.  Events the loop ignores (Ok(_)) are  *)
(* left out: they change nothing.                                          *)
(***************************************************************************)
EXTENDS Naturals, Sequences

CONSTANTS
  Probes,    \* the processes that run the probe, each named by its pid
  Daemon,    \* the service's own connection
  IdLength,  \* length of the configured mqtt.client_id
  IdLimit,   \* MQTT_PROBE_CLIENT_ID_LIMIT
  Capacity   \* MQTT_REQUEST_CAPACITY

\* The suffix of an identifier has three parts here: "-check", pid, sequence.
ASSUME ProbeAssumption ==
  /\ Daemon \notin Probes
  /\ IdLimit \in Nat /\ IdLimit > 3
  /\ IdLength \in 1..IdLimit
  /\ Capacity \in Nat \ {0}

VARIABLES
  probe,     \* where probe_mqtt is, per process
  sequence,  \* MQTT_PROBE_SEQUENCE, per process
  requests,  \* DISCONNECT requests in the client's request channel
  link,      \* what became of the CONNECT; "open" once its acceptance was read
  serving,   \* the clients whose session the broker holds
  outcome    \* what probe_mqtt returned, "none" before

vars == <<probe, sequence, requests, link, serving, outcome>>

\* mqtt.client_id, which does not itself look like the identifier of a probe.
ClientId == [i \in 1..IdLength |-> "c"]

Clients == Probes \cup {Daemon}

Failures == {"Rejected", "Unreachable", "TimedOut", "Protocol", "ControlQueue"}

\* Polling, before and after the CONNACK was read.
Polling == {"dialing", "waiting", "connected"}

InitProbe ==
  /\ probe = [p \in Probes |-> "idle"]
  /\ sequence = [p \in Probes |-> 1]
  /\ requests = [p \in Probes |-> 0]
  /\ link = [p \in Probes |-> "none"]
  /\ outcome = [p \in Probes |-> "none"]

\* The daemon may be connected or not.
Init == InitProbe /\ serving \in {{}, {Daemon}}

-----------------------------------------------------------------------------
\* Mutation of UniqueProbeClientId: the whole identifier is cut to the limit.
ProbeClientIdCut(p, number) ==
  LET id == ClientId \o <<"-check", p, number>>
  IN  SubSeq(id, 1, IF Len(id) < IdLimit THEN Len(id) ELSE IdLimit)

\* unique_probe_client_id: the configured identifier gives way to the suffix.
UniqueProbeClientId(p, number) ==
  LET suffix == <<"-check", p, number>>
      room   == IdLimit - Len(suffix)
  IN  SubSeq(ClientId, 1, IF Len(ClientId) < room THEN Len(ClientId) ELSE room) \o suffix

\* fetch_add returned the number before the increment.
IdOf(client) ==
  IF client = Daemon THEN ClientId ELSE UniqueProbeClientId(client, sequence[client] - 1)

\* probe_options, AsyncClient::new and the first poll.
Start(p) ==
  /\ probe[p] = "idle"
  /\ probe' = [probe EXCEPT ![p] = "dialing"]
  /\ sequence' = [sequence EXCEPT ![p] = @ + 1]
  /\ UNCHANGED <<requests, link, serving, outcome>>

\* The TCP connection is up and CONNECT is written.
Dial(p) ==
  /\ probe[p] = "dialing"
  /\ probe' = [probe EXCEPT ![p] = "waiting"]
  /\ link' = [link EXCEPT ![p] = "connect"]
  /\ UNCHANGED <<sequence, requests, serving, outcome>>

\* probe_mqtt returns; client and event loop are dropped with it.
Return(p, result) ==
  /\ probe' = [probe EXCEPT ![p] = "ended"]
  /\ outcome' = [outcome EXCEPT ![p] = result]
  /\ requests' = [requests EXCEPT ![p] = 0]

\* CONNACK with the code Success: try_disconnect, which fails on a full queue.
PollConnAck(p) ==
  /\ probe[p] = "waiting" /\ link[p] = "accepted"
  /\ link' = [link EXCEPT ![p] = "open"]
  /\ IF requests[p] < Capacity
     THEN /\ requests' = [requests EXCEPT ![p] = @ + 1]
          /\ probe' = [probe EXCEPT ![p] = "connected"]
          /\ UNCHANGED outcome
     ELSE Return(p, "ControlQueue")
  /\ UNCHANGED <<sequence, serving>>

\* Outgoing::Disconnect: the request was taken from the channel and written.
PollDisconnect(p) ==
  /\ probe[p] = "connected" /\ requests[p] > 0
  /\ Return(p, "ok")
  /\ UNCHANGED <<sequence, link, serving>>

\* The errors poll may return: before CONNECT is written, while waiting for
\* the answer, and on an open connection.  A connection that breaks while a
\* packet is written or read is an MqttState to rumqttc, although the broker
\* may have said nothing; an answer may be lost with the connection, unread.
ErrorsOf(p) ==
  CASE probe[p] = "dialing"   -> {"Io", "NetworkTimeout", "MqttState"}
    [] probe[p] = "waiting"   -> {"Io", "NetworkTimeout", "FlushTimeout", "MqttState"} \cup
                                 (IF link[p] = "refused" THEN {"ConnectionRefused"} ELSE {}) \cup
                                 (IF link[p] = "other" THEN {"NotConnAck"} ELSE {})
    [] probe[p] = "connected" -> {"Io", "FlushTimeout", "MqttState"}
    [] OTHER                  -> {}

\* classify_connection_error.
ClassifyConnectionError(error) ==
  CASE error = "ConnectionRefused"                -> "Rejected"
    [] error \in {"NetworkTimeout", "FlushTimeout"} -> "TimedOut"
    [] error = "Io"                               -> "Unreachable"
    [] OTHER                                      -> "Protocol"

\* Mutation of PollError: an error after the CONNACK is a failure as well.
PollErrorAlwaysFails(p, error) ==
  /\ probe[p] \in Polling /\ error \in ErrorsOf(p)
  /\ Return(p, ClassifyConnectionError(error))
  /\ UNCHANGED <<sequence, link, serving>>

\* poll fails: fine once connected, classified otherwise.
PollError(p, error) ==
  /\ probe[p] \in Polling /\ error \in ErrorsOf(p)
  /\ Return(p, IF probe[p] = "connected" THEN "ok" ELSE ClassifyConnectionError(error))
  /\ UNCHANGED <<sequence, link, serving>>

\* Mutation of Timeout: the limit covers the time until CONNECT is written.
TimeoutOfDialOnly(p) ==
  /\ probe[p] = "dialing"
  /\ Return(p, "TimedOut")
  /\ UNCHANGED <<sequence, link, serving>>

\* tokio::time::timeout drops the loop after MQTT_PROBE_TIMEOUT wherever it is.
Timeout(p) ==
  /\ probe[p] \in Polling
  /\ Return(p, "TimedOut")
  /\ UNCHANGED <<sequence, link, serving>>

-----------------------------------------------------------------------------
(***************************************************************************)
(* The broker.  It may still answer a CONNECT whose sender has given up.   *)
(***************************************************************************)
\* The sessions left when this client is let in.
TakeOver(client) == {other \in serving : IdOf(other) # IdOf(client)} \cup {client}

BrokerAccepts(p) ==
  /\ link[p] = "connect"
  /\ link' = [link EXCEPT ![p] = "accepted"]
  /\ serving' = TakeOver(p)
  /\ UNCHANGED <<probe, sequence, requests, outcome>>

BrokerRefuses(p, answer) ==
  /\ link[p] = "connect"
  /\ link' = [link EXCEPT ![p] = answer]
  /\ UNCHANGED <<probe, sequence, requests, serving, outcome>>

\* The broker sees DISCONNECT, or that the probe is gone.
BrokerCloses(p) ==
  /\ p \in serving /\ probe[p] = "ended"
  /\ serving' = serving \ {p}
  /\ UNCHANGED <<probe, sequence, requests, link, outcome>>

\* The daemon connects, and loses its connection, on its own account.
DaemonConnects ==
  /\ Daemon \notin serving
  /\ serving' = TakeOver(Daemon)
  /\ UNCHANGED <<probe, sequence, requests, link, outcome>>

DaemonLeaves ==
  /\ Daemon \in serving
  /\ serving' = serving \ {Daemon}
  /\ UNCHANGED <<probe, sequence, requests, link, outcome>>

ProbeSteps(p) ==
  \/ Dial(p)
  \/ PollConnAck(p)
  \/ PollDisconnect(p)
  \/ \E error \in ErrorsOf(p) : PollError(p, error)
  \/ Timeout(p)
  \/ BrokerAccepts(p)
  \/ \E answer \in {"refused", "other"} : BrokerRefuses(p, answer)
  \/ BrokerCloses(p)

Next ==
  \/ \E p \in Probes : Start(p) \/ ProbeSteps(p)
  \/ DaemonConnects
  \/ DaemonLeaves

Spec == Init /\ [][Next]_vars

\* The timer fires whatever the broker does.
FairSpec == Spec /\ \A p \in Probes : WF_vars(Timeout(p))

-----------------------------------------------------------------------------
\* What each variable may hold.
TypeOK ==
  /\ probe \in [Probes -> Polling \cup {"idle", "ended"}]
  /\ sequence \in [Probes -> Nat]
  /\ requests \in [Probes -> 0..1]
  /\ link \in [Probes -> {"none", "connect", "accepted", "refused", "other", "open"}]
  /\ serving \subseteq Clients
  /\ outcome \in [Probes -> Failures \cup {"none", "ok"}]

\* A probe never takes over another client's session: while the daemon is
\* connected, or two checks run at once, a CONNECT leaves every open session
\* open, also when the configured identifier fills the limit by itself.
NoTakeover == [][serving' \subseteq serving \/ serving \subseteq serving']_serving

\* What probe_mqtt says of the credentials is what the broker said: ok exactly
\* when it let the user in and the probe learned of it in time, however the
\* connection breaks afterwards, and Rejected only if it refused.
OutcomeTrue ==
  \A p \in Probes :
    /\ outcome[p] = "ok" => link[p] = "open"
    /\ link[p] = "open" => outcome[p] \in {"none", "ok", "TimedOut"}
    /\ outcome[p] = "Rejected" => link[p] = "refused"

\* A probe that was started returns, although nothing is assumed of the broker.
ProbeReturns == \A p \in Probes : probe[p] = "dialing" ~> outcome[p] # "none"
=============================================================================
