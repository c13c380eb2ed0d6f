--------------------------- MODULE MqttSupervisor ---------------------------
(***************************************************************************)
(* MqttSupervisor::run of src/src/mqtt.rs: the task that owns the MQTT     *)
(* connection.  pc is the await point the task is at:                      *)
(*   Loop      the select of the main loop (a fresh iteration checks       *)
(*             shutdown first, and the select is biased towards it)        *)
(*   ConnAck   between marking the states seen and asking for a fresh one; *)
(*             there is no await here, but the worker thread runs on       *)
(*   Backoff   the sleep after a poll error                                *)
(*   Drain     the poll loop of graceful_shutdown                          *)
(*   Done, Failed   run returned Ok, Err(ControlQueueUnavailable)          *)
(* One poll of the event loop returns one event and is one action; events  *)
(* handle_event ignores are left out.  When run returns, the event loop is *)
(* dropped and with it the connection.                                     *)
(***************************************************************************)
EXTENDS BootstrapMachine, Channels, Transport

CONSTANT RetrySteps  \* length of RETRY_SECONDS

ASSUME RetryAssumption == RetrySteps \in Nat \ {0}

VARIABLES
  pc,       \* see above
  machine,  \* the BootstrapMachine `protocol`
  status,   \* the MqttStatus last sent
  attempt   \* index into RETRY_SECONDS of the next retry delay

supervisorVars == <<pc, machine, status, attempt>>

InitSupervisor ==
  /\ pc = "Loop"
  /\ machine = NewMachine
  /\ status = "Disconnected"
  /\ attempt = 0

-----------------------------------------------------------------------------
\* perform: try_publish or try_disconnect on the bounded channel q; without
\* room run returns ControlQueueUnavailable.  next is where the task goes on.
Perform(q, result, message, next) ==
  /\ machine' = result.machine
  /\ IF result.action = "none" \/ Len(q) < RequestCapacity
       THEN /\ pc' = next
            /\ conn' = IF next = "Done" THEN 0 ELSE conn
            /\ queue' = IF result.action = "none" THEN q
                        ELSE Append(q, [kind |-> result.action, message |-> message])
       ELSE /\ pc' = "Failed"
            /\ conn' = 0
            /\ queue' = <<>>

\* publish_current_state reads and marks the latest state, then offers it.
PublishCurrentState(q, m) ==
  /\ unseen' = FALSE
  /\ Perform(q, IF states = NoState THEN Quiet(m) ELSE StateAvailable(m, states.id),
             states, "Loop")

\* The end of a loop iteration whose event was handled with this result.
EndIteration(q, result) ==
  IF result.machine.becameOnline
    THEN /\ status' = "Online"
         /\ PublishCurrentState(q, TakeBecameOnline(result.machine))
    ELSE /\ status' = IF IsOnline(result.machine) THEN "Online" ELSE status
         /\ Perform(q, result, NoState, "Loop")
         /\ UNCHANGED unseen

\* The end of one turn of the poll loop in graceful_shutdown.
EndDrainTurn(q, result) ==
  /\ IF IsStopped(result.machine)
       THEN status' = "Stopped" /\ Perform(q, result, NoState, "Done")
       ELSE UNCHANGED status /\ Perform(q, result, NoState, "Drain")
  /\ UNCHANGED unseen

\* handle_event, in whichever of the two loops the task is.
HandleEvent(q, result) ==
  IF pc = "Drain" THEN EndDrainTurn(q, result) ELSE EndIteration(q, result)

Polling == pc = "Drain" \/ (pc = "Loop" /\ ~shutdown)

-----------------------------------------------------------------------------
\* Mutation of NextAttempt: the index into RETRY_SECONDS is not limited.
NextAttemptUnlimited(n) == n + 1

\* RetryBackoff::next_delay moves to the next delay and stays at the last.
NextAttempt(n) == IF n + 1 < RetrySteps THEN n + 1 ELSE n

\* poll returns a successful CONNACK: reset the backoff, mark states seen.
PollConnAck ==
  /\ pc = "Loop" /\ ~shutdown
  /\ conn = 0
  /\ Accept
  /\ conn' = epoch + 1
  /\ attempt' = 0
  /\ unseen' = FALSE
  /\ pc' = "ConnAck"
  /\ UNCHANGED <<machine, status, request, states, shutdown,
                 queue, inflight, downlink>>

\* The rest of the CONNACK branch: ask for a fresh state, queue discovery.
RequestFresh ==
  /\ pc = "ConnAck"
  /\ RequestCollection
  /\ status' = "Bootstrapping"
  /\ Perform(queue, Connected(machine, request + 1), NoState, "Loop")
  /\ UNCHANGED <<attempt, states, unseen, shutdown, inflight, downlink, brokerVars>>

\* The broker accepts a CONNECT but the client never reads the CONNACK: the
\* handshake fails or times out, or shutdown cancels the poll.
HandshakeAbandoned ==
  /\ pc = "Loop" /\ conn = 0
  /\ epoch + 1 < MaxConnections
  /\ Accept
  /\ UNCHANGED <<supervisorVars, channelVars, clientVars>>

\* poll sends the next request and returns Outgoing(Publish) or
\* Outgoing(Disconnect).  A QoS 1 publication gets an identifier not in use.
PollOutgoing(packet) ==
  /\ Polling
  /\ conn # 0 /\ queue # <<>> /\ inflight # PacketIds
  /\ LET next == Head(queue) IN
       /\ packet \in IF next.kind \in {"state", "disconnect"}
                       THEN {NoPacket} ELSE PacketIds \ inflight
       /\ inflight' = (inflight \cup {packet}) \ {NoPacket}
       /\ Transmit([kind |-> next.kind, message |-> next.message, packet |-> packet])
       /\ HandleEvent(Tail(queue),
            Quiet(IF next.kind = "disconnect" THEN Disconnected(machine)
                                              ELSE OutgoingPublish(machine, packet)))
  /\ UNCHANGED <<attempt, request, states, shutdown, downlink,
                 session, epoch, availability, announced>>

\* poll returns Incoming(PubAck).
PollPubAck ==
  /\ Polling
  /\ conn # 0 /\ downlink # <<>>
  /\ inflight' = inflight \ {Head(downlink)}
  /\ downlink' = Tail(downlink)
  /\ HandleEvent(queue, PublishAcknowledged(machine, Head(downlink)))
  /\ UNCHANGED <<attempt, request, states, shutdown, brokerVars>>

\* poll fails: no connection could be made, or the current one is lost.  The
\* last connection of the model is lost only once the broker has given it up.
PollError ==
  /\ pc = "Loop" /\ ~shutdown
  /\ conn < MaxConnections \/ session # conn
  /\ machine' = ConnectionLost(machine)
  /\ status' = "Disconnected"
  /\ attempt' = NextAttempt(attempt)
  /\ pc' = "Backoff"
  /\ CloseClient
  /\ UNCHANGED <<channelVars, brokerVars>>

\* The retry delay ends, or shutdown interrupts it.
BackoffElapsed ==
  /\ pc = "Backoff"
  /\ pc' = "Loop"
  /\ UNCHANGED <<machine, status, attempt, channelVars, transportVars>>

BackoffShutdown ==
  /\ pc = "Backoff" /\ shutdown
  /\ pc' = "Done"
  /\ status' = "Stopped"
  /\ UNCHANGED <<machine, attempt, channelVars, transportVars>>

\* Mutation of StateChanged: the branch is taken in every phase.
StateChangedAlways ==
  /\ pc = "Loop" /\ ~shutdown
  /\ unseen
  /\ PublishCurrentState(queue, machine)
  /\ status' = IF IsOnline(machine') THEN "Online" ELSE status
  /\ UNCHANGED <<attempt, request, states, shutdown, inflight, downlink, brokerVars>>

\* states.changed(), if protocol.accepts_state()
StateChanged ==
  /\ pc = "Loop" /\ ~shutdown
  /\ AcceptsState(machine) /\ unseen
  /\ PublishCurrentState(queue, machine)
  /\ status' = IF IsOnline(machine') THEN "Online" ELSE status
  /\ UNCHANGED <<attempt, request, states, shutdown, inflight, downlink, brokerVars>>

\* graceful_shutdown up to its first poll.
GracefulShutdown ==
  /\ pc = "Loop" /\ shutdown
  /\ LET result == Shutdown(machine) IN
       IF result.action = "none"
         THEN status' = "Stopped" /\ Perform(queue, result, NoState, "Done")
         ELSE status' = "ShuttingDown" /\ Perform(queue, result, NoState, "Drain")
  /\ UNCHANGED <<attempt, channelVars, inflight, downlink, brokerVars>>

\* The poll loop ends without Outgoing(Disconnect): poll failed, or
\* GRACEFUL_SHUTDOWN_TIMEOUT expired.  Both return Ok.
DrainAbandoned ==
  /\ pc = "Drain"
  /\ pc' = "Done"
  /\ status' = "Stopped"
  /\ CloseClient
  /\ UNCHANGED <<machine, attempt, channelVars, brokerVars>>

\* The memory of a process goes with it: the supervisor, its channels and its
\* client are as a new process has them.
ForgetProcess ==
  /\ machine' = NewMachine /\ attempt' = 0
  /\ request' = 0 /\ states' = NoState
  /\ unseen' = FALSE /\ shutdown' = FALSE
  /\ CloseClient

SupervisorStep ==
  \/ PollConnAck
  \/ RequestFresh
  \/ \E packet \in PacketIds \cup {NoPacket} : PollOutgoing(packet)
  \/ PollPubAck
  \/ PollError
  \/ BackoffElapsed
  \/ BackoffShutdown
  \/ StateChanged
  \/ GracefulShutdown
  \/ DrainAbandoned

BrokerStep ==
  /\ BrokerReceive \/ BrokerDrops
  /\ UNCHANGED <<supervisorVars, channelVars>>

NetworkStep == BrokerStep \/ HandshakeAbandoned

-----------------------------------------------------------------------------
(***************************************************************************)
(* Properties of the supervisor and the broker, for any composition that   *)
(* stamps an observation with the number of connections accepted so far.   *)
(***************************************************************************)

\* The bounded request channel always has room for what the protocol sends:
\* at most one publication waits when shutdown adds its own, so run never
\* returns ControlQueueUnavailable.
ControlQueueAvailable == Len(queue) <= 2 /\ pc # "Failed"

\* A state is published on a connection only if it was observed after that
\* connection was made, also when the worker was in the middle of an older
\* collection at the time (required_request of BootstrapMachine).
FreshState ==
  /\ \A i \in DOMAIN queue : queue[i].kind = "state" => queue[i].message.seen >= conn
  /\ \A i \in DOMAIN uplink : uplink[i].kind = "state" => uplink[i].message.seen >= session

\* On every connection the broker has taken discovery before "online" is sent,
\* and both before the first state is sent, whatever acknowledgements are late
\* or belong to other publications (publish_acknowledged).
BootstrapOrder ==
  \A i \in DOMAIN uplink :
    /\ uplink[i].kind = "online" => "discovery" \in announced
    /\ uplink[i].kind = "state" => {"discovery", "online"} \subseteq announced

\* Once the broker serves no session of this client, the retained availability
\* is not "online": the will covers every unclean end, and a DISCONNECT, which
\* discards the will, only follows an "offline" (graceful_shutdown).
NoGhostOnline == session = 0 => availability # "online"

\* A DISCONNECT is sent only after the broker took "offline" on this
\* connection, also when shutdown overtook a publication still in the queue
\* (skip_queued_publish).
DisconnectConfirmed ==
  \A i \in DOMAIN uplink :
    uplink[i].kind = "disconnect" => "offline" \in announced

\* Nothing but the DISCONNECT follows "offline" to the broker, so no late
\* "online" or state undoes it.
OfflineIsFinal ==
  /\ "offline" \in announced =>
       \A i \in DOMAIN uplink : uplink[i].kind = "disconnect"
  /\ \A i, j \in DOMAIN uplink :
       i < j /\ uplink[i].kind = "offline" => uplink[j].kind = "disconnect"

\* States on their way to the broker have increasing request identifiers: the
\* second look at the latest state after the bootstrap does not repeat it.
StatesInOrder ==
  \A i, j \in DOMAIN uplink :
    i < j /\ uplink[i].kind = "state" /\ uplink[j].kind = "state"
      => uplink[i].message.id < uplink[j].message.id

\* No wake-up is lost: when the supervisor waits for a state and its receiver
\* has nothing new, the latest state is not one it would still publish.
NoLostState ==
  pc = "Loop" /\ conn # 0 /\ AcceptsState(machine) /\ ~unseen
    => states = NoState \/ ~StateAllowed(machine, states.id)
=============================================================================
