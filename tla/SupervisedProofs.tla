-------------------------- MODULE SupervisedProofs --------------------------
(***************************************************************************)
(* Proofs about SupervisedPublishing for every number of connections,      *)
(* requests and packet identifiers and every request channel with room for *)
(* two requests: its types; ControlQueueAvailable and FreshState; and what *)
(* the broker is told, in which order, and that no state is missed:        *)
(* BootstrapOrder, DisconnectConfirmed, OfflineIsFinal, NoGhostOnline,     *)
(* StatesInOrder and NoLostState.                                          *)
(***************************************************************************)
EXTENDS SupervisedPublishing, TLAPS, SequenceTheorems

Requests == [kind: ProtocolActions, message: Messages]
Packets  == [kind: ProtocolActions, message: Messages,
             packet: PacketIds \cup {NoPacket}]
Results  == [machine: Machines, action: ProtocolActions \cup {"none"}]
Points   == {"Loop", "ConnAck", "Backoff", "Drain", "Done", "Failed"}

-----------------------------------------------------------------------------
(***************************************************************************)
(* The methods of BootstrapMachine return machines.                        *)
(***************************************************************************)

\* A phase change keeps a machine a machine.
LEMMA EnterType ==
  ASSUME NEW m \in Machines, NEW ph \in Phases,
         NEW packet \in PacketIds \cup {NoPacket}
  PROVE  Enter(m, ph) \in Machines /\ Await(m, ph, packet) \in Machines
  BY DEF Enter, Await, Machines, NoPacket

\* NewMachine, the default of BootstrapMachine, is a machine.
LEMMA NewMachineType == NewMachine \in Machines
  BY DEF NewMachine, Machines, Phases, NoPacket

\* connected: a machine and the discovery publication.
LEMMA ConnectedType ==
  ASSUME NEW m \in Machines, NEW r \in Nat
  PROVE  Connected(m, r) \in Results
  BY DEF Connected, Emit, Enter, Results, Machines, Phases, QueuedPhases,
         ProtocolActions, NoPacket

\* outgoing_publish: a machine.
LEMMA OutgoingType ==
  ASSUME NEW m \in Machines, NEW packet \in PacketIds \cup {NoPacket}
  PROVE  OutgoingPublish(m, packet) \in Machines
  BY DEF OutgoingPublish, Enter, Await, Machines, Phases, QueuedPhases,
         AckPhases, NoPacket

\* publish_acknowledged: a machine and possibly an action.
LEMMA AcknowledgedType ==
  ASSUME NEW m \in Machines, NEW packet
  PROVE  PublishAcknowledged(m, packet) \in Results
  BY DEF PublishAcknowledged, Emit, Quiet, Enter, Results, Machines, Phases,
         QueuedPhases, AckPhases, ProtocolActions, NoPacket

\* state_available: a machine and possibly the state publication.
LEMMA StateAvailableType ==
  ASSUME NEW m \in Machines, NEW r \in Nat
  PROVE  StateAvailable(m, r) \in Results
  BY DEF StateAvailable, Emit, Quiet, Enter, Results, Machines, Phases,
         QueuedPhases, ProtocolActions, NoPacket

\* The result of shutdown in a connected phase.
OfflineQueued(m, skip) ==
  Emit([m EXCEPT !.phase = "ShutdownAwaitOfflineOutgoing",
                 !.expected = NoPacket, !.skip = skip], "offline")

\* shutdown, case by case.
LEMMA ShutdownIs ==
  ASSUME NEW m \in Machines
  PROVE  /\ m.phase \in QueuedPhases => Shutdown(m) = OfflineQueued(m, TRUE)
         /\ m.phase \in {"DiscoveryAwaitAck", "OnlineAwaitAck", "AwaitFreshState", "Online"}
              => Shutdown(m) = OfflineQueued(m, FALSE)
         /\ Shutdown(m) \in {Quiet(Enter(m, "Stopped")), Quiet(m),
                             OfflineQueued(m, TRUE), OfflineQueued(m, FALSE)}
<1>1. CASE m.phase \in QueuedPhases
  <2>1. (m.phase \in QueuedPhases) = TRUE
    BY <1>1
  <2>2. Shutdown(m) = OfflineQueued(m, m.phase \in QueuedPhases)
    BY <1>1 DEF Shutdown, QueuedPhases, OfflineQueued
  <2>3. QED
    BY <1>1, <2>1, <2>2 DEF QueuedPhases
<1>2. CASE m.phase \notin QueuedPhases
  <2>1. (m.phase \in QueuedPhases) = FALSE
    BY <1>2
  <2>2. /\ m.phase \in {"DiscoveryAwaitAck", "OnlineAwaitAck", "AwaitFreshState", "Online"}
             => Shutdown(m) = OfflineQueued(m, m.phase \in QueuedPhases)
        /\ Shutdown(m) \in {Quiet(Enter(m, "Stopped")), Quiet(m),
                            OfflineQueued(m, m.phase \in QueuedPhases)}
    BY DEF Shutdown, OfflineQueued
  <2>3. QED
    BY <1>2, <2>1, <2>2
<1>3. QED
  BY <1>1, <1>2

\* shutdown: a machine and possibly the "offline" publication.
LEMMA ShutdownType ==
  ASSUME NEW m \in Machines
  PROVE  Shutdown(m) \in Results
<1>1. OfflineQueued(m, TRUE) \in Results /\ OfflineQueued(m, FALSE) \in Results
  BY DEF OfflineQueued, Emit, Results, Machines, Phases, ProtocolActions, NoPacket
<1>2. Quiet(Enter(m, "Stopped")) \in Results /\ Quiet(m) \in Results
  BY DEF Quiet, Enter, Results, Machines, Phases, NoPacket
<1>3. QED
  BY <1>1, <1>2, ShutdownIs

\* connection_lost, disconnected and just_became_online: machines.
LEMMA OtherMachineTypes ==
  ASSUME NEW m \in Machines
  PROVE  /\ ConnectionLost(m) \in Machines
         /\ Disconnected(m) \in Machines
         /\ TakeBecameOnline(m) \in Machines
         /\ Quiet(m) \in Results
  BY DEF ConnectionLost, Disconnected, TakeBecameOnline, Quiet, Enter,
         Results, Machines, Phases, NoPacket

-----------------------------------------------------------------------------
(***************************************************************************)
(* The steps every event handler ends with keep the types.                 *)
(***************************************************************************)
Statuses == {"Disconnected", "Bootstrapping", "Online", "ShuttingDown", "Stopped"}

HandlerTypes ==
  /\ machine' \in Machines
  /\ pc' \in Points
  /\ conn' \in Nat
  /\ queue' \in Seq(Requests)

\* The empty sequence is a sequence over every set.
LEMMA EmptyIsSeq == \A S : <<>> \in Seq(S)
  OBVIOUS

\* The record with identifier 0 that stands for None is a message.
LEMMA NoStateType == NoState \in Messages
  BY DEF NoState, Messages

\* perform keeps the types, whether or not the queue has room.
LEMMA PerformType ==
  ASSUME TypeOK, NEW q \in Seq(Requests), NEW r \in Results,
         NEW message \in Messages, NEW next \in Points,
         Perform(q, r, message, next)
  PROVE  HandlerTypes
<1>1. r.machine \in Machines /\ r.action \in ProtocolActions \cup {"none"}
  BY DEF Results
<1>2. CASE r.action = "none"
  BY <1>1, <1>2 DEF Perform, HandlerTypes, TypeOK
<1>3. CASE r.action # "none"
  <2>1. [kind |-> r.action, message |-> message] \in Requests
    BY <1>1, <1>3 DEF Requests
  <2>2. Append(q, [kind |-> r.action, message |-> message]) \in Seq(Requests)
    BY <2>1
  <2>3. <<>> \in Seq(Requests)
    OBVIOUS
  <2>4. CASE Len(q) < RequestCapacity
    <3>1. /\ machine' = r.machine /\ pc' = next
          /\ conn' = IF next = "Done" THEN 0 ELSE conn
          /\ queue' = Append(q, [kind |-> r.action, message |-> message])
      BY <1>3, <2>4, Zenon DEF Perform
    <3>2. QED
      BY <1>1, <2>2, <3>1 DEF HandlerTypes, TypeOK
  <2>5. CASE ~(Len(q) < RequestCapacity)
    <3>1. machine' = r.machine /\ pc' = "Failed" /\ conn' = 0 /\ queue' = <<>>
      BY <1>3, <2>5, Zenon DEF Perform
    <3>2. QED
      BY <1>1, <2>3, <3>1 DEF HandlerTypes, Points
  <2>6. QED
    BY <2>4, <2>5
<1>4. QED
  BY <1>2, <1>3

\* publish_current_state keeps the types.
LEMMA PublishCurrentStateType ==
  ASSUME TypeOK, NEW q \in Seq(Requests), NEW m \in Machines,
         PublishCurrentState(q, m)
  PROVE  HandlerTypes /\ unseen' \in BOOLEAN
<1>1. states \in Messages /\ states.id \in Nat
  BY DEF TypeOK, TypeOKChannels, Messages
<1>2. (IF states = NoState THEN Quiet(m) ELSE StateAvailable(m, states.id)) \in Results
  BY <1>1, StateAvailableType, OtherMachineTypes
<1>3. HandlerTypes
  BY <1>1, <1>2, PerformType DEF PublishCurrentState, Points
<1>4. QED
  BY <1>3 DEF PublishCurrentState

\* Handling one event keeps the types, in the main loop and while draining.
LEMMA HandleEventType ==
  ASSUME TypeOK, NEW q \in Seq(Requests), NEW r \in Results, HandleEvent(q, r)
  PROVE  HandlerTypes /\ status' \in Statuses /\ unseen' \in BOOLEAN
<1>1. r.machine \in Machines
  BY DEF Results
<1>2. status \in Statuses /\ unseen \in BOOLEAN
  BY DEF TypeOK, TypeOKChannels, Statuses
<1>3. CASE pc = "Drain"
  <2>1. EndDrainTurn(q, r)
    BY <1>3 DEF HandleEvent
  <2>2. HandlerTypes
    BY <2>1, PerformType, NoStateType DEF EndDrainTurn, Points
  <2>3. QED
    BY <1>2, <2>1, <2>2 DEF EndDrainTurn, Statuses
<1>4. CASE pc # "Drain" /\ r.machine.becameOnline
  <2>1. status' = "Online" /\ PublishCurrentState(q, TakeBecameOnline(r.machine))
    BY <1>4 DEF HandleEvent, EndIteration
  <2>2. HandlerTypes /\ unseen' \in BOOLEAN
    BY <1>1, <2>1, OtherMachineTypes, PublishCurrentStateType
  <2>3. QED
    BY <2>1, <2>2 DEF Statuses
<1>5. CASE pc # "Drain" /\ ~r.machine.becameOnline
  <2>1. /\ status' = IF IsOnline(r.machine) THEN "Online" ELSE status
        /\ Perform(q, r, NoState, "Loop")
        /\ UNCHANGED unseen
    BY <1>5 DEF HandleEvent, EndIteration
  <2>2. HandlerTypes
    BY <2>1, PerformType, NoStateType DEF Points
  <2>3. QED
    BY <1>2, <2>1, <2>2 DEF Statuses
<1>6. QED
  BY <1>3, <1>4, <1>5

-----------------------------------------------------------------------------
\* The initial state is well typed.
LEMMA InitTyped == Init => TypeOK
<1> SUFFICES ASSUME Init PROVE TypeOK
  OBVIOUS
<1>1. /\ pc \in {"Loop", "ConnAck", "Backoff", "Drain", "Done", "Failed"}
      /\ machine \in Machines
      /\ status \in {"Disconnected", "Bootstrapping", "Online", "ShuttingDown", "Stopped"}
      /\ attempt \in 0..(RetrySteps - 1)
  BY NewMachineType, RetryAssumption DEF Init, InitSupervisor
<1>2. TypeOKChannels /\ TypeOKSource
  BY NoStateType DEF Init, InitChannels, InitSource, TypeOKChannels, TypeOKSource
<1>3. /\ queue = <<>> /\ downlink = <<>> /\ uplink = <<>>
      /\ conn \in Nat /\ session \in Nat /\ epoch \in Nat
      /\ inflight \in SUBSET PacketIds
      /\ availability \in {"none", "online", "offline"}
      /\ announced \in SUBSET ProtocolActions
  BY DEF Init, InitClient, InitBroker
<1>4. QED
  BY <1>1, <1>2, <1>3, EmptyIsSeq DEF TypeOK

\* Closing the client leaves a well-typed client.
LEMMA CloseClientTyped ==
  ASSUME CloseClient
  PROVE  /\ queue' \in Seq(Requests) /\ conn' \in Nat
         /\ inflight' \in SUBSET PacketIds /\ downlink' \in Seq(PacketIds)
<1>1. <<>> \in Seq(Requests) /\ <<>> \in Seq(PacketIds)
  BY EmptyIsSeq
<1>2. QED
  BY <1>1 DEF CloseClient

\* Accepting a CONNECT leaves a well-typed broker.
LEMMA AcceptTyped ==
  ASSUME TypeOK, Accept
  PROVE  /\ epoch' \in Nat /\ session' \in Nat /\ uplink' \in Seq(Packets)
         /\ announced' \in SUBSET ProtocolActions
         /\ availability' \in {"none", "online", "offline"}
<1>1. <<>> \in Seq(Packets)
  BY EmptyIsSeq
<1>2. QED
  BY <1>1 DEF TypeOK, Accept, Will

\* One step of the supervisor keeps every variable well typed.
LEMMA SupervisorStepTyped ==
  ASSUME TypeOK, SupervisorStep, UNCHANGED sourceVars
  PROVE  TypeOK'
<1> USE DEF Points, Statuses
<1>0. queue \in Seq(Requests) /\ machine \in Machines /\ request \in Nat
  BY DEF TypeOK, TypeOKChannels, Requests
<1>1. CASE PollConnAck
  <2>1. conn' \in Nat /\ attempt' \in 0..(RetrySteps - 1)
    BY <1>1, RetryAssumption DEF PollConnAck, TypeOK
  <2>2. QED
    BY <1>1, <2>1, AcceptTyped DEF PollConnAck, TypeOK, TypeOKChannels, TypeOKSource,
       sourceVars, Packets
<1>2. CASE RequestFresh
  <2>1. Connected(machine, request + 1) \in Results
    BY <1>0, ConnectedType
  <2>2. HandlerTypes
    BY <1>0, <1>2, <2>1, PerformType, NoStateType DEF RequestFresh
  <2>3. QED
    BY <1>2, <2>2 DEF RequestFresh, RequestCollection, HandlerTypes, Requests, TypeOK,
       TypeOKChannels, TypeOKSource, sourceVars, brokerVars
<1>3. ASSUME NEW packet \in PacketIds \cup {NoPacket}, PollOutgoing(packet)
      PROVE  TypeOK'
  <2> DEFINE head == Head(queue)
             result == Quiet(IF head.kind = "disconnect" THEN Disconnected(machine)
                             ELSE OutgoingPublish(machine, packet))
  <2>1. /\ queue # <<>> /\ HandleEvent(Tail(queue), result)
        /\ inflight' = (inflight \cup {packet}) \ {NoPacket}
        /\ Transmit([kind |-> head.kind, message |-> head.message, packet |-> packet])
        /\ UNCHANGED <<attempt, request, states, shutdown, downlink,
                       session, epoch, availability, announced>>
    BY <1>3, Zenon DEF PollOutgoing
  <2>2. head \in Requests /\ Tail(queue) \in Seq(Requests)
    BY <1>0, <2>1
  <2>3. result \in Results
    BY <1>0, OutgoingType, OtherMachineTypes
  <2>4. HandlerTypes /\ status' \in Statuses /\ unseen' \in BOOLEAN
    BY <2>1, <2>2, <2>3, HandleEventType
  <2>5. [kind |-> head.kind, message |-> head.message, packet |-> packet] \in Packets
    BY <2>2 DEF Requests, Packets
  <2>6. uplink \in Seq(Packets)
    BY DEF TypeOK, Packets
  <2>7. uplink' \in Seq(Packets)
    BY <2>1, <2>5, <2>6 DEF Transmit
  <2>8. inflight' \in SUBSET PacketIds
    BY <2>1 DEF TypeOK
  <2>9. QED
    BY <2>1, <2>4, <2>7, <2>8 DEF HandlerTypes, Requests, Packets, TypeOK,
       TypeOKChannels, TypeOKSource, sourceVars
<1>4. CASE PollPubAck
  <2>1. downlink # <<>> /\ downlink \in Seq(PacketIds)
    BY <1>4 DEF PollPubAck, TypeOK
  <2>2. downlink' \in Seq(PacketIds) /\ inflight' \in SUBSET PacketIds
    BY <1>4, <2>1 DEF PollPubAck, TypeOK
  <2>3. HandlerTypes /\ status' \in Statuses /\ unseen' \in BOOLEAN
    BY <1>0, <1>4, AcknowledgedType, HandleEventType DEF PollPubAck
  <2>4. QED
    BY <1>4, <2>2, <2>3 DEF PollPubAck, HandlerTypes, Requests, TypeOK,
       TypeOKChannels, TypeOKSource, sourceVars, brokerVars
<1>5. CASE PollError
  <2>1. ConnectionLost(machine) \in Machines
    BY <1>0, OtherMachineTypes
  <2>2. attempt' \in 0..(RetrySteps - 1)
    BY <1>5, RetryAssumption DEF PollError, NextAttempt, TypeOK
  <2>3. QED
    BY <1>5, <2>1, <2>2, CloseClientTyped DEF PollError, TypeOK, TypeOKChannels,
       TypeOKSource, sourceVars, channelVars, brokerVars, Requests
<1>6. CASE BackoffElapsed
  BY <1>6 DEF BackoffElapsed, TypeOK, TypeOKChannels, TypeOKSource, sourceVars,
     channelVars, transportVars
<1>7. CASE BackoffShutdown
  BY <1>7 DEF BackoffShutdown, TypeOK, TypeOKChannels, TypeOKSource, sourceVars,
     channelVars, transportVars
<1>8. CASE StateChanged
  <2>1. HandlerTypes /\ unseen' \in BOOLEAN
    BY <1>0, <1>8, PublishCurrentStateType DEF StateChanged
  <2>2. QED
    BY <1>8, <2>1 DEF StateChanged, HandlerTypes, Requests, TypeOK, TypeOKChannels,
       TypeOKSource, sourceVars, brokerVars
<1>9. CASE GracefulShutdown
  <2>1. Shutdown(machine) \in Results
    BY <1>0, ShutdownType
  <2>2. HandlerTypes
    BY <1>0, <1>9, <2>1, PerformType, NoStateType DEF GracefulShutdown
  <2>3. QED
    BY <1>9, <2>2 DEF GracefulShutdown, HandlerTypes, Requests, TypeOK, TypeOKChannels,
       TypeOKSource, sourceVars, channelVars, brokerVars
<1>10. CASE DrainAbandoned
  BY <1>10, CloseClientTyped DEF DrainAbandoned, TypeOK, TypeOKChannels,
     TypeOKSource, sourceVars, channelVars, brokerVars, Requests
<1>11. QED
  BY <1>1, <1>2, <1>3, <1>4, <1>5, <1>6, <1>7, <1>8, <1>9, <1>10 DEF SupervisorStep

\* A step of the broker or of the network keeps every variable well typed.
LEMMA NetworkStepTyped ==
  ASSUME TypeOK, NetworkStep, UNCHANGED sourceVars
  PROVE  TypeOK'
<1> USE DEF sourceVars, supervisorVars, channelVars
<1>1. CASE BrokerReceive /\ UNCHANGED <<supervisorVars, channelVars>>
  <2>1. uplink # <<>> /\ uplink \in Seq(Packets) /\ downlink \in Seq(PacketIds)
    BY <1>1 DEF BrokerReceive, TypeOK, Packets
  <2>2. Head(uplink) \in Packets /\ Tail(uplink) \in Seq(Packets)
    BY <2>1
  <2>3. <<>> \in Seq(Packets)
    BY EmptyIsSeq
  <2>4. Head(uplink).kind \in ProtocolActions /\ Head(uplink).packet \in PacketIds \cup {NoPacket}
    BY <2>2 DEF Packets
  <2>5. BrokerTakes(Head(uplink))
    BY <1>1 DEF BrokerReceive
  <2>6. /\ session' \in Nat
        /\ announced' \in SUBSET ProtocolActions
        /\ availability' \in {"none", "online", "offline"}
    BY <2>4, <2>5 DEF BrokerTakes, TypeOK
  <2>7. uplink' \in Seq(Packets)
    BY <2>2, <2>3, <2>5 DEF BrokerTakes
  <2>8. downlink' \in Seq(PacketIds)
    BY <2>1, <2>4, <2>5 DEF BrokerTakes, NoPacket
  <2>9. QED
    BY <1>1, <2>6, <2>8, <2>7 DEF BrokerReceive, Packets, TypeOK, TypeOKChannels, TypeOKSource
<1>2. CASE BrokerDrops /\ UNCHANGED <<supervisorVars, channelVars>>
  <2>1. <<>> \in Seq(Packets)
    BY EmptyIsSeq
  <2>2. QED
    BY <1>2, <2>1 DEF BrokerDrops, Packets, Will, TypeOK, TypeOKChannels, TypeOKSource
<1>3. CASE HandshakeAbandoned
  BY <1>3, AcceptTyped DEF HandshakeAbandoned, Packets, clientVars, TypeOK, TypeOKChannels, TypeOKSource
<1>4. QED
  BY <1>1, <1>2, <1>3 DEF NetworkStep, BrokerStep

\* Every step keeps every variable well typed.
LEMMA NextTyped == TypeOK /\ [Next]_vars => TypeOK'
<1> SUFFICES ASSUME TypeOK, [Next]_vars PROVE TypeOK'
  OBVIOUS
<1>1. CASE SupervisorStep /\ UNCHANGED sourceVars
  BY <1>1, SupervisorStepTyped
<1>2. CASE NetworkStep /\ UNCHANGED sourceVars
  BY <1>2, NetworkStepTyped
<1>3. CASE SourceStep
  <2> USE DEF channelVars, sourceVars, TypeOK, TypeOKChannels, TypeOKSource
  <2>1. Schedule => TypeOKChannels' /\ TypeOKSource'
    BY DEF Schedule, RequestCollection
  <2>2. Observe(epoch) => TypeOKChannels' /\ TypeOKSource'
    BY DEF Observe, Messages
  <2>3. Deliver => TypeOKChannels' /\ TypeOKSource'
    BY NoStateType DEF Deliver, SendState
  <2>4. Abandon => TypeOKChannels' /\ TypeOKSource'
    BY NoStateType DEF Abandon
  <2>5. TypeOKChannels' /\ TypeOKSource'
    BY <1>3, <2>1, <2>2, <2>3, <2>4 DEF SourceStep
  <2>6. QED
    BY <1>3, <2>5 DEF SourceStep, supervisorVars, transportVars, TypeOK
<1>4. CASE RequestShutdown
  BY <1>4 DEF RequestShutdown, SendShutdown, supervisorVars, transportVars, sourceVars,
     TypeOK, TypeOKChannels, TypeOKSource
<1>5. CASE Crash
  <2>1. attempt' \in 0..(RetrySteps - 1)
    BY <1>5, RetryAssumption DEF Crash, ForgetProcess
  <2>2. QED
    BY <1>5, <2>1, CloseClientTyped, NewMachineType, NoStateType DEF Crash, ForgetProcess,
       brokerVars, Requests, TypeOK, TypeOKChannels, TypeOKSource
<1>6. CASE Restart
  <2>1. attempt' \in 0..(RetrySteps - 1)
    BY <1>6, RetryAssumption DEF Restart, ForgetProcess
  <2>2. QED
    BY <1>6, <2>1, CloseClientTyped, NewMachineType, NoStateType DEF Restart, ForgetProcess,
       brokerVars, Requests, TypeOK, TypeOKChannels, TypeOKSource
<1>7. CASE UNCHANGED vars
  BY <1>7 DEF vars, supervisorVars, transportVars, channelVars, sourceVars,
     TypeOK, TypeOKChannels, TypeOKSource
<1>8. QED
  BY <1>1, <1>2, <1>3, <1>4, <1>5, <1>6, <1>7 DEF Next

\* Type correctness of the supervisor, the channels, the client and the broker.
THEOREM TypeCorrect == Spec => []TypeOK
<1>1. QED
  BY InitTyped, NextTyped, PTL DEF Spec

-----------------------------------------------------------------------------
(***************************************************************************)
(* What each method of BootstrapMachine does to the fields the invariant   *)
(* speaks of.                                                              *)
(***************************************************************************)

\* connected: discovery is queued and the new request is required.
LEMMA ConnectedValue ==
  ASSUME NEW m \in Machines, NEW r \in Nat
  PROVE  LET n == Connected(m, r).machine IN
         /\ Connected(m, r).action = "discovery"
         /\ n.phase = "DiscoveryQueued" /\ ~n.becameOnline
         /\ n.required = r
  BY DEF Connected, Emit, Enter, Machines

\* outgoing_publish: a queued phase moves on when its own publication leaves.
LEMMA OutgoingValue ==
  ASSUME NEW m \in Machines, NEW packet \in PacketIds \cup {NoPacket}, ~m.becameOnline
  PROVE  LET n == OutgoingPublish(m, packet) IN
         /\ n.required = m.required /\ n.last = m.last
         /\ m.phase = "DiscoveryQueued" /\ packet # NoPacket
              => n.phase = "DiscoveryAwaitAck" /\ ~n.becameOnline /\ n.expected = packet
         /\ m.phase = "OnlineQueued" /\ packet # NoPacket
              => n.phase = "OnlineAwaitAck" /\ ~n.becameOnline /\ n.expected = packet
         /\ m.phase = "StateQueued" /\ packet = NoPacket => n.phase = "Online"
         /\ m.phase = "ShutdownAwaitOfflineOutgoing" /\ m.skip
              => n.phase = m.phase /\ ~n.skip /\ ~n.becameOnline
         /\ m.phase = "ShutdownAwaitOfflineOutgoing" /\ ~m.skip /\ packet # NoPacket
              => n.phase = "ShutdownAwaitOfflineAck" /\ ~n.becameOnline /\ n.expected = packet
<1>1. CASE m.phase = "DiscoveryQueued"
  BY <1>1 DEF OutgoingPublish, Await, Enter, Machines
<1>2. CASE m.phase = "OnlineQueued"
  BY <1>2 DEF OutgoingPublish, Await, Enter, Machines
<1>3. CASE m.phase = "StateQueued"
  BY <1>3 DEF OutgoingPublish, Await, Enter, Machines
<1>4. CASE m.phase = "ShutdownAwaitOfflineOutgoing"
  BY <1>4 DEF OutgoingPublish, Await, Enter, Machines
<1>5. CASE m.phase \notin {"DiscoveryQueued", "OnlineQueued", "StateQueued",
                           "ShutdownAwaitOfflineOutgoing"}
  BY <1>5 DEF OutgoingPublish, Await, Enter, Machines
<1>6. QED
  BY <1>1, <1>2, <1>3, <1>4, <1>5

\* publish_acknowledged: what is queued next depends on the awaited phase.
LEMMA AcknowledgedValue ==
  ASSUME NEW m \in Machines, NEW packet
  PROVE  LET n == PublishAcknowledged(m, packet).machine
             a == PublishAcknowledged(m, packet).action IN
         /\ n.required = m.required /\ n.last = m.last
         /\ n.becameOnline = m.becameOnline
         /\ \/ n = m /\ a = "none"
            \/ /\ m.phase = "DiscoveryAwaitAck" /\ m.expected = packet
               /\ n.phase = "OnlineQueued" /\ a = "online"
            \/ /\ m.phase = "OnlineAwaitAck" /\ m.expected = packet
               /\ n.phase = "AwaitFreshState" /\ a = "none"
            \/ /\ m.phase = "ShutdownAwaitOfflineAck" /\ m.expected = packet
               /\ n.phase = "DisconnectQueued" /\ a = "disconnect"
  BY DEF PublishAcknowledged, Emit, Quiet, Enter, Machines

\* state_available: only a state fresh enough is queued.
LEMMA StateAvailableValue ==
  ASSUME NEW m \in Machines, NEW r \in Nat
  PROVE  LET n == StateAvailable(m, r).machine
             a == StateAvailable(m, r).action IN
         /\ n.required = m.required
         /\ \/ ~StateAllowed(m, r) /\ n = m /\ a = "none"
            \/ /\ StateAllowed(m, r)
               /\ n.phase = "StateQueued" /\ ~n.becameOnline /\ n.last = r
               /\ a = "state"
<1>1. CASE StateAllowed(m, r)
  BY <1>1 DEF StateAvailable, Emit, Enter, Machines
<1>2. CASE ~StateAllowed(m, r)
  BY <1>2 DEF StateAvailable, Quiet
<1>3. QED
  BY <1>1, <1>2

\* shutdown: from a queued phase, "offline" follows the queued publication.
LEMMA ShutdownValue ==
  ASSUME NEW m \in Machines, m.phase \in LoopPhases
  PROVE  LET n == Shutdown(m).machine
             a == Shutdown(m).action IN
         /\ n.required = m.required /\ n.last = m.last
         /\ n.becameOnline = m.becameOnline
         /\ m.phase = "Disconnected" => a = "none" /\ n.phase = "Stopped"
         /\ m.phase # "Disconnected" =>
              /\ a = "offline" /\ n.phase = "ShutdownAwaitOfflineOutgoing"
              /\ m.phase \in QueuedPhases => n.skip
              /\ m.phase \notin QueuedPhases => ~n.skip
<1> DEFINE off(b) == OfflineQueued(m, b)
<1>1. \A b \in BOOLEAN :
        /\ off(b).action = "offline"
        /\ off(b).machine.phase = "ShutdownAwaitOfflineOutgoing"
        /\ off(b).machine.skip = b
        /\ off(b).machine.required = m.required
        /\ off(b).machine.last = m.last
        /\ off(b).machine.becameOnline = m.becameOnline
  BY DEF OfflineQueued, Emit, Machines
<1> HIDE DEF off
<1>2. CASE m.phase = "Disconnected"
  BY <1>2 DEF Shutdown, Quiet, Enter, Machines
<1>3. CASE m.phase \in QueuedPhases
  <2>1. Shutdown(m) = off(TRUE)
    BY <1>3, ShutdownIs DEF off
  <2>2. QED
    BY <1>1, <1>3, <2>1 DEF QueuedPhases
<1>4. CASE m.phase \in {"DiscoveryAwaitAck", "OnlineAwaitAck", "AwaitFreshState", "Online"}
  <2>1. Shutdown(m) = off(FALSE)
    BY <1>4, ShutdownIs DEF off
  <2>2. QED
    BY <1>1, <1>4, <2>1 DEF QueuedPhases
<1>5. QED
  BY <1>2, <1>3, <1>4 DEF LoopPhases, QueuedPhases

\* perform never fails while at most one request waits.
LEMMA PerformRoom ==
  ASSUME NEW q \in Seq(Requests), Len(q) <= 1, NEW r \in Results,
         NEW message \in Messages, NEW next \in Points,
         Perform(q, r, message, next)
  PROVE  /\ machine' = r.machine
         /\ pc' = next
         /\ conn' = IF next = "Done" THEN 0 ELSE conn
         /\ queue' = IF r.action = "none" THEN q
                     ELSE Append(q, [kind |-> r.action, message |-> message])
<1>1. Len(q) < RequestCapacity
  BY TransportAssumption
<1>2. QED
  BY <1>1, Zenon DEF Perform

\* perform of nothing leaves the queue alone.
LEMMA PerformNothing ==
  ASSUME NEW r, r.action = "none", NEW q, NEW message, NEW next, next # "Done",
         Perform(q, r, message, next)
  PROVE  machine' = r.machine /\ pc' = next /\ conn' = conn /\ queue' = q
  BY Zenon DEF Perform

\* What is left of a queue of one or two requests.
LEMMA ShortTail ==
  ASSUME NEW s \in Seq(Requests), s # <<>>
  PROVE  /\ Len(s) = 1 => Tail(s) = <<>>
         /\ Len(s) = 2 => Len(Tail(s)) = 1 /\ Tail(s)[1] = s[2]
<1>1. /\ Tail(s) \in Seq(Requests) /\ Len(Tail(s)) = Len(s) - 1
      /\ \A i \in 1 .. Len(Tail(s)) : Tail(s)[i] = s[i + 1]
  BY HeadTailProperties
<1>2. Tail(s) # <<>> => Len(Tail(s)) # 0
  BY <1>1, EmptySeq
<1>3. CASE Len(s) = 1
  BY <1>1, <1>2, <1>3
<1>4. CASE Len(s) = 2
  BY <1>1, <1>4
<1>5. QED
  BY <1>3, <1>4

\* A request put at the end of the queue.
LEMMA AppendFacts ==
  ASSUME NEW s \in Seq(Requests), NEW e \in Requests
  PROVE  /\ Append(s, e) \in Seq(Requests) /\ Len(Append(s, e)) = Len(s) + 1
         /\ \A i \in 1 .. Len(s) : Append(s, e)[i] = s[i]
         /\ Append(s, e)[Len(s) + 1] = e
  BY AppendProperties

\* A request put behind a single other one.
LEMMA AppendToOne ==
  ASSUME NEW s \in Seq(Requests), NEW e \in Requests, Len(s) = 1
  PROVE  /\ Len(Append(s, e)) = 2
         /\ Append(s, e)[1] = s[1] /\ Append(s, e)[2] = e
         /\ DOMAIN Append(s, e) = {1, 2} /\ 1 \in DOMAIN s
<1>1. /\ Append(s, e) \in Seq(Requests) /\ Len(Append(s, e)) = Len(s) + 1
      /\ \A i \in 1 .. Len(s) : Append(s, e)[i] = s[i]
      /\ Append(s, e)[Len(s) + 1] = e
  BY AppendFacts
<1>2. Append(s, e)[1] = s[1] /\ Append(s, e)[2] = e /\ Len(Append(s, e)) = 2
  BY <1>1
<1>3. DOMAIN Append(s, e) = 1 .. 2 /\ DOMAIN s = 1 .. 1
  BY <1>1, <1>2, LenProperties
<1>4. QED
  BY <1>2, <1>3

-----------------------------------------------------------------------------
(***************************************************************************)
(* The inductive invariant, one action at a time.                          *)
(***************************************************************************)
IInv == TypeOK /\ QueueInv /\ SourceInv /\ FreshState

\* The types the proofs below use most.
LEMMA BasicTypes ==
  ASSUME TypeOK
  PROVE  /\ queue \in Seq(Requests) /\ uplink \in Seq(Packets)
         /\ machine \in Machines
         /\ machine.required \in Nat /\ machine.last \in Nat
         /\ request \in Nat /\ conn \in Nat /\ epoch \in Nat /\ session \in Nat
         /\ states \in Messages /\ states.id \in Nat /\ states.seen \in Nat
         /\ work \in Messages /\ work.id \in Nat /\ work.seen \in Nat
  BY DEF TypeOK, TypeOKChannels, TypeOKSource, Machines, Messages, Requests, Packets

\* The initial state satisfies the invariant.
LEMMA InitInv == Init => IInv
  BY InitTyped DEF Init, InitSupervisor, InitChannels, InitClient, InitBroker, InitSource,
     IInv, QueueInv, QueueMatches, SourceInv, Satisfies, FreshState, LoopPhases,
     NewMachine, NoState

\* Offering the latest state with nothing queued either leaves the machine as
\* it is or queues a state that satisfies the current connection's request.
LEMMA PublishValue ==
  ASSUME TypeOK, NEW m \in Machines, m.phase \in {"AwaitFreshState", "Online"},
         ~m.becameOnline, m.phase = "Online" => m.last >= m.required,
         PublishCurrentState(<<>>, m)
  PROVE  /\ pc' = "Loop" /\ conn' = conn
         /\ machine'.required = m.required /\ ~unseen'
         /\ \/ /\ machine' = m /\ queue' = <<>>
               /\ states = NoState \/ ~StateAllowed(m, states.id)
            \/ /\ machine'.phase = "StateQueued" /\ ~machine'.becameOnline
               /\ machine'.last >= m.required /\ machine'.last = states.id
               /\ states.id >= m.required /\ StateAllowed(m, states.id)
               /\ queue' = Append(<<>>, [kind |-> "state", message |-> states])
<1> DEFINE r == IF states = NoState THEN Quiet(m) ELSE StateAvailable(m, states.id)
<1>0. states.id \in Nat /\ m.required \in Nat /\ m.last \in Nat
  BY BasicTypes DEF Machines
<1>1. <<>> \in Seq(Requests) /\ Len(<<>>) <= 1
  BY EmptyIsSeq
<1>2. Perform(<<>>, r, states, "Loop") /\ ~unseen'
  BY DEF PublishCurrentState
<1>3. \/ /\ r.machine = m /\ r.action = "none"
         /\ states = NoState \/ ~StateAllowed(m, states.id)
      \/ /\ StateAllowed(m, states.id) /\ r.machine.required = m.required
         /\ r.machine.phase = "StateQueued" /\ ~r.machine.becameOnline
         /\ r.machine.last = states.id /\ r.action = "state"
  BY <1>0, StateAvailableValue DEF Quiet
<1>4. StateAllowed(m, states.id) => states.id >= m.required
  BY <1>0 DEF StateAllowed
<1> HIDE DEF r
<1>5. /\ machine' = r.machine /\ pc' = "Loop" /\ conn' = conn
      /\ queue' = IF r.action = "none" THEN <<>>
                  ELSE Append(<<>>, [kind |-> r.action, message |-> states])
  <2>1. Len(<<>>) < RequestCapacity
    BY TransportAssumption
  <2>2. QED
    BY <1>2, <2>1, Zenon DEF Perform
<1>6. QED
  BY <1>0, <1>2, <1>3, <1>4, <1>5

\* A CONNACK.
LEMMA ConnAckInv ==
  ASSUME IInv, PollConnAck, UNCHANGED sourceVars
  PROVE  QueueInv' /\ SourceInv' /\ FreshState'
<1>1. queue = <<>> /\ machine.phase = "Disconnected" /\ ~machine.becameOnline
  BY DEF IInv, PollConnAck, QueueInv, QueueMatches
<1>2. QueueInv'
  BY <1>1, BasicTypes DEF IInv, PollConnAck, QueueInv, QueueMatches
<1>3. SourceInv'
  BY BasicTypes DEF IInv, PollConnAck, Accept, SourceInv, Satisfies, sourceVars
<1>4. FreshState'
  BY <1>1 DEF PollConnAck, Accept, FreshState
<1>5. QED
  BY <1>2, <1>3, <1>4

\* The rest of the CONNACK branch: no state known so far is recent enough.
LEMMA RequestFreshInv ==
  ASSUME IInv, RequestFresh, UNCHANGED sourceVars
  PROVE  QueueInv' /\ SourceInv' /\ FreshState'
<1> DEFINE r == Connected(machine, request + 1)
<1>0. queue = <<>> /\ queue \in Seq(Requests) /\ Len(queue) <= 1 /\ conn # 0
  BY BasicTypes DEF IInv, RequestFresh, QueueInv, QueueMatches
<1>1. /\ r.action = "discovery"
      /\ r.machine.phase = "DiscoveryQueued" /\ ~r.machine.becameOnline
      /\ r.machine.required = request + 1
  BY BasicTypes, ConnectedValue DEF IInv
<1>2. Perform(queue, r, NoState, "Loop") /\ r \in Results
  BY BasicTypes, ConnectedType DEF IInv, RequestFresh
<1> HIDE DEF r
<1>3. /\ machine' = r.machine /\ pc' = "Loop" /\ conn' = conn
      /\ queue' = Append(<<>>, [kind |-> "discovery", message |-> NoState])
  <2>1. /\ machine' = r.machine /\ pc' = "Loop"
        /\ conn' = IF "Loop" = "Done" THEN 0 ELSE conn
        /\ queue' = IF r.action = "none" THEN queue
                    ELSE Append(queue, [kind |-> r.action, message |-> NoState])
    BY <1>0, <1>2, PerformRoom, NoStateType DEF Points
  <2>2. QED
    BY <1>0, <1>1, <2>1
<1>4. QueueInv'
  BY <1>0, <1>1, <1>3 DEF QueueInv, QueueMatches, LoopPhases
<1>5. SourceInv'
  BY <1>0, <1>1, <1>3, BasicTypes DEF IInv, RequestFresh, RequestCollection, SourceInv, Satisfies,
     sourceVars, brokerVars
<1>6. FreshState'
  BY <1>3 DEF IInv, RequestFresh, FreshState, brokerVars
<1>7. QED
  BY <1>4, <1>5, <1>6

\* A packet put on the wire is as fresh as the queue it came from.
LEMMA TransmitFresh ==
  ASSUME IInv, NEW packet \in PacketIds \cup {NoPacket}, PollOutgoing(packet)
  PROVE  \A i \in DOMAIN uplink' : uplink'[i].kind = "state" => uplink'[i].message.seen >= session'
<1> DEFINE head == Head(queue)
           pk == [kind |-> head.kind, message |-> head.message, packet |-> packet]
<1>0. /\ queue \in Seq(Requests) /\ queue # <<>> /\ session' = session
      /\ Transmit(pk)
  BY BasicTypes DEF IInv, PollOutgoing
<1>1. head \in Requests /\ head = queue[1] /\ 1 \in DOMAIN queue
  BY <1>0
<1>2. head.kind = "state" => head.message.seen >= conn
  BY <1>1 DEF IInv, FreshState
<1> HIDE DEF head
<1>3. pk \in Packets /\ pk.kind = head.kind /\ pk.message = head.message
  BY <1>1 DEF Requests, Packets
<1> HIDE DEF pk
<1>4. uplink' = IF session = conn THEN Append(uplink, pk) ELSE uplink
  BY <1>0 DEF Transmit
<1>5. \A i \in DOMAIN uplink : uplink[i].kind = "state" => uplink[i].message.seen >= session
  BY DEF IInv, FreshState
<1>6. CASE session # conn
  BY <1>0, <1>4, <1>5, <1>6
<1>7. CASE session = conn
  <2>1. uplink' = Append(uplink, pk) /\ uplink \in Seq(Packets)
    BY <1>4, <1>7, BasicTypes DEF IInv
  <2>2. \A i \in DOMAIN uplink' :
          uplink'[i] = IF i = Len(uplink) + 1 THEN pk ELSE uplink[i]
    BY <2>1, <1>3
  <2>3. \A i \in DOMAIN uplink' : i = Len(uplink) + 1 \/ i \in DOMAIN uplink
    BY <2>1, <1>3
  <2>4. QED
    BY <1>0, <1>2, <1>3, <1>5, <1>7, <2>2, <2>3
<1>8. QED
  BY <1>6, <1>7

\* A publication leaves in the main loop.
LEMMA LoopOutgoingInv ==
  ASSUME IInv, NEW packet \in PacketIds \cup {NoPacket}, PollOutgoing(packet),
         pc = "Loop", UNCHANGED sourceVars
  PROVE  QueueInv' /\ SourceInv' /\ FreshState'
<1> DEFINE head == Head(queue)
           n == OutgoingPublish(machine, packet)
<1>0. /\ machine.phase \in LoopPhases /\ QueueMatches /\ ~machine.becameOnline
      /\ conn # 0 /\ queue # <<>> /\ queue \in Seq(Requests)
      /\ head = queue[1]
  BY BasicTypes DEF IInv, PollOutgoing, QueueInv
<1>1. /\ machine.phase \in QueuedPhases /\ Len(queue) = 1 /\ Tail(queue) = <<>>
      /\ head.kind # "disconnect"
      /\ machine.phase = "StateQueued" <=> head.kind = "state"
  BY <1>0 DEF QueueMatches, LoopPhases, QueuedPhases
<1>2. /\ HandleEvent(Tail(queue), Quiet(n))
      /\ Transmit([kind |-> head.kind, message |-> head.message, packet |-> packet])
      /\ packet = NoPacket <=> head.kind = "state"
      /\ UNCHANGED <<attempt, request, states, shutdown, downlink,
                     session, epoch, availability, announced>>
  <2>1. packet \in IF head.kind \in {"state", "disconnect"}
                      THEN {NoPacket} ELSE PacketIds \ inflight
    BY DEF PollOutgoing
  <2>2. HandleEvent(Tail(queue), Quiet(n))
    BY <1>1, Zenon DEF PollOutgoing
  <2>3. QED
    BY <1>1, <2>1, <2>2, PacketIdsAssumption DEF PollOutgoing
<1>3. n \in Machines /\ Quiet(n) \in Results
  BY BasicTypes, OutgoingType, OtherMachineTypes DEF IInv
<1>4. /\ n.required = machine.required /\ n.last = machine.last
      /\ machine.phase = "DiscoveryQueued" => n.phase = "DiscoveryAwaitAck" /\ ~n.becameOnline
      /\ machine.phase = "OnlineQueued" => n.phase = "OnlineAwaitAck" /\ ~n.becameOnline
      /\ machine.phase = "StateQueued" => n.phase = "Online"
  BY <1>0, <1>1, <1>2, OutgoingValue, BasicTypes DEF IInv
<1>5. EndIteration(<<>>, Quiet(n))
  BY <1>1, <1>2 DEF HandleEvent
<1>6. Quiet(n).machine = n /\ Quiet(n).action = "none"
  BY DEF Quiet
<1> HIDE DEF n
<1>7. FreshState' <=> /\ \A i \in DOMAIN queue' : queue'[i].kind = "state" => queue'[i].message.seen >= conn'
                      /\ \A i \in DOMAIN uplink' : uplink'[i].kind = "state" => uplink'[i].message.seen >= session'
  BY DEF FreshState
<1>8. \A i \in DOMAIN uplink' : uplink'[i].kind = "state" => uplink'[i].message.seen >= session'
  BY TransmitFresh
<1>9. CASE n.becameOnline
  <2>1. n.phase = "Online"
    BY <1>1, <1>4, <1>9 DEF QueuedPhases
  <2> DEFINE t == TakeBecameOnline(n)
  <2>2. PublishCurrentState(<<>>, t)
    BY <1>5, <1>6, <1>9, Zenon DEF EndIteration
  <2>3. /\ t \in Machines /\ t.phase = "Online" /\ ~t.becameOnline
        /\ t.required = machine.required /\ t.last = machine.last
    BY <1>3, <1>4, <2>1 DEF TakeBecameOnline, Machines
  <2>4. machine.last >= machine.required
    BY <1>0, <1>1, <1>4, <2>1 DEF IInv, SourceInv, QueuedPhases
  <2> HIDE DEF t
  <2>5. /\ pc' = "Loop" /\ conn' = conn /\ machine'.required = machine.required
        /\ \/ machine' = t /\ queue' = <<>>
           \/ /\ machine'.phase = "StateQueued" /\ ~machine'.becameOnline
              /\ machine'.last >= machine.required
              /\ states.id >= machine.required
              /\ queue' = Append(<<>>, [kind |-> "state", message |-> states])
    BY <2>2, <2>3, <2>4, PublishValue DEF IInv
  <2>6. QueueInv'
    BY <1>0, <2>3, <2>5 DEF QueueInv, QueueMatches, LoopPhases
  <2>7. SourceInv'
    BY <1>2, <2>3, <2>4, <2>5 DEF IInv, SourceInv, Satisfies, sourceVars
  <2>8. states.id >= machine.required => states.seen >= conn
    BY DEF IInv, SourceInv, Satisfies
  <2>9. QED
    BY <1>7, <1>8, <2>5, <2>6, <2>7, <2>8
<1>10. CASE ~n.becameOnline
  <2>1. Perform(<<>>, Quiet(n), NoState, "Loop")
    BY <1>5, <1>6, <1>10, Zenon DEF EndIteration
  <2>2. machine' = n /\ pc' = "Loop" /\ conn' = conn /\ queue' = <<>>
    BY <1>6, <2>1, PerformNothing, Zenon
  <2>3. QueueInv'
    BY <1>0, <1>1, <1>4, <1>10, <2>2 DEF QueueInv, QueueMatches, LoopPhases, QueuedPhases
  <2>4. SourceInv'
    BY <1>0, <1>1, <1>2, <1>4, <2>2 DEF IInv, SourceInv, Satisfies, sourceVars, QueuedPhases
  <2>5. QED
    BY <1>7, <1>8, <2>2, <2>3, <2>4
<1>11. QED
  BY <1>9, <1>10

\* A publication or the DISCONNECT leaves in the poll loop of graceful_shutdown.
LEMMA DrainOutgoingInv ==
  ASSUME IInv, NEW packet \in PacketIds \cup {NoPacket}, PollOutgoing(packet),
         pc = "Drain", UNCHANGED sourceVars
  PROVE  QueueInv' /\ SourceInv' /\ FreshState'
<1> DEFINE head == Head(queue)
           q == Tail(queue)
           n == IF head.kind = "disconnect" THEN Disconnected(machine)
                                            ELSE OutgoingPublish(machine, packet)
<1>0. /\ machine.phase \in DrainPhases /\ QueueMatches /\ ~machine.becameOnline
      /\ conn # 0 /\ queue # <<>> /\ queue \in Seq(Requests)
      /\ head = queue[1] /\ machine \in Machines
  BY BasicTypes DEF IInv, PollOutgoing, QueueInv
<1>1. /\ EndDrainTurn(q, Quiet(n))
      /\ head.kind = "offline" => packet # NoPacket
      /\ UNCHANGED <<attempt, request, states, shutdown, downlink,
                     session, epoch, availability, announced>>
  <2>1. packet \in IF head.kind \in {"state", "disconnect"}
                      THEN {NoPacket} ELSE PacketIds \ inflight
    BY DEF PollOutgoing
  <2>2. EndDrainTurn(q, Quiet(n))
    BY Zenon DEF PollOutgoing, HandleEvent
  <2>3. QED
    BY <2>1, <2>2, PacketIdsAssumption DEF PollOutgoing
<1>2. Quiet(n).machine = n /\ Quiet(n).action = "none"
  BY DEF Quiet
<1>3. \A i \in DOMAIN uplink' : uplink'[i].kind = "state" => uplink'[i].message.seen >= session'
  BY TransmitFresh
<1>4. CASE machine.phase = "DisconnectQueued"
  <2>1. q = <<>> /\ head.kind = "disconnect"
    BY <1>0, <1>4, ShortTail DEF QueueMatches
  <2>2. n = Disconnected(machine)
    BY <2>1
  <2>3. n.phase = "Stopped" /\ ~n.becameOnline
    BY <1>0, <2>2 DEF Disconnected, Enter, Machines
  <2> HIDE DEF n, q
  <2>4. machine' = n /\ pc' = "Done" /\ conn' = 0 /\ queue' = <<>>
    BY <1>1, <1>2, <2>1, <2>3, Zenon DEF EndDrainTurn, IsStopped, Perform
  <2>5. QueueInv' /\ FreshState'
    BY <1>3, <2>3, <2>4 DEF QueueInv, FreshState
  <2>6. SourceInv'
    BY <1>1, <2>4, BasicTypes DEF IInv, SourceInv, Satisfies, sourceVars
  <2>7. QED
    BY <2>5, <2>6
<1>5. CASE machine.phase = "ShutdownAwaitOfflineOutgoing"
  <2>1. head.kind # "disconnect" /\ n = OutgoingPublish(machine, packet)
    BY <1>0, <1>5 DEF QueueMatches
  <2>2. /\ n.required = machine.required /\ ~n.becameOnline
        /\ \/ /\ n.phase = "ShutdownAwaitOfflineOutgoing" /\ ~n.skip
              /\ Len(q) = 1 /\ q[1].kind = "offline"
           \/ n.phase = "ShutdownAwaitOfflineAck" /\ q = <<>>
    <3>1. CASE machine.skip
      <4>1. Len(queue) = 2 /\ queue[2].kind = "offline"
        BY <1>0, <1>5, <3>1 DEF QueueMatches
      <4>2. Len(q) = 1 /\ q[1].kind = "offline"
        BY <1>0, <4>1, ShortTail
      <4>3. QED
        BY <1>0, <1>5, <2>1, <3>1, <4>2, OutgoingValue
    <3>2. CASE ~machine.skip
      <4>1. Len(queue) = 1 /\ head.kind = "offline"
        BY <1>0, <1>5, <3>2 DEF QueueMatches
      <4>2. q = <<>>
        BY <1>0, <4>1, ShortTail
      <4>3. QED
        BY <1>0, <1>1, <1>5, <2>1, <3>2, <4>1, <4>2, OutgoingValue
    <3>3. QED
      BY <3>1, <3>2
  <2> HIDE DEF n, q
  <2>3. machine' = n /\ pc' = "Drain" /\ conn' = conn /\ queue' = q
    <3>1. n.phase # "Stopped"
      BY <2>2
    <3>2. Perform(q, Quiet(n), NoState, "Drain")
      BY <1>1, <1>2, <3>1, Zenon DEF EndDrainTurn, IsStopped
    <3>3. QED
      BY <1>2, <3>2, PerformNothing, Zenon
  <2>4. QueueInv'
    BY <2>2, <2>3 DEF QueueInv, QueueMatches, DrainPhases
  <2>5. SourceInv'
    BY <1>0, <1>1, <2>2, <2>3 DEF IInv, SourceInv, Satisfies, sourceVars
  <2>6. FreshState'
    BY <1>3, <2>2, <2>3 DEF FreshState
  <2>7. QED
    BY <2>4, <2>5, <2>6
<1>6. machine.phase # "ShutdownAwaitOfflineAck"
  BY <1>0 DEF QueueMatches
<1>7. QED
  BY <1>0, <1>4, <1>5, <1>6 DEF DrainPhases

\* A PUBACK, awaited or not, in either loop.
LEMMA PubAckInv ==
  ASSUME IInv, PollPubAck, UNCHANGED sourceVars
  PROVE  QueueInv' /\ SourceInv' /\ FreshState'
<1> DEFINE r == PublishAcknowledged(machine, Head(downlink))
<1>0. /\ pc \in {"Loop", "Drain"} /\ conn # 0 /\ ~machine.becameOnline
      /\ machine \in Machines /\ queue \in Seq(Requests) /\ QueueMatches
      /\ pc = "Loop" => machine.phase \in LoopPhases
      /\ pc = "Drain" => machine.phase \in DrainPhases
  BY BasicTypes DEF IInv, PollPubAck, Polling, QueueInv
<1>1. /\ r.machine.required = machine.required /\ r.machine.last = machine.last
      /\ r.machine.becameOnline = machine.becameOnline
      /\ \/ r.machine = machine /\ r.action = "none"
         \/ /\ machine.phase = "DiscoveryAwaitAck"
            /\ r.machine.phase = "OnlineQueued" /\ r.action = "online"
         \/ /\ machine.phase = "OnlineAwaitAck"
            /\ r.machine.phase = "AwaitFreshState" /\ r.action = "none"
         \/ /\ machine.phase = "ShutdownAwaitOfflineAck"
            /\ r.machine.phase = "DisconnectQueued" /\ r.action = "disconnect"
  BY <1>0, AcknowledgedValue
<1>2. HandleEvent(queue, r) /\ UNCHANGED <<request, states, shutdown, brokerVars>>
  BY DEF PollPubAck
<1> HIDE DEF r
<1>3. ~r.machine.becameOnline
  BY <1>0, <1>1
<1>4. r.machine.phase # "Stopped" /\ (r.action # "none" => queue = <<>>)
  BY <1>0, <1>1 DEF LoopPhases, DrainPhases, QueueMatches
<1>5. Perform(queue, r, NoState, pc)
  <2>1. CASE pc = "Loop"
    BY <1>2, <1>3, <2>1, Zenon DEF HandleEvent, EndIteration
  <2>2. CASE pc = "Drain"
    BY <1>2, <1>4, <2>2, Zenon DEF HandleEvent, EndDrainTurn, IsStopped
  <2>3. QED
    BY <1>0, <2>1, <2>2
<1>6. CASE r.action = "none"
  <2>1. machine' = r.machine /\ pc' = pc /\ conn' = conn /\ queue' = queue
    BY <1>0, <1>5, <1>6, PerformNothing, Zenon
  <2>2. QueueInv'
    <3>1. CASE r.machine = machine
      BY <1>0, <2>1, <3>1 DEF QueueInv, QueueMatches
    <3>2. CASE machine.phase = "OnlineAwaitAck" /\ r.machine.phase = "AwaitFreshState"
      BY <1>0, <1>3, <2>1, <3>2 DEF QueueInv, QueueMatches, LoopPhases, DrainPhases
    <3>3. QED
      BY <1>1, <1>6, <3>1, <3>2
  <2>3. SourceInv'
    BY <1>0, <1>1, <1>2, <1>6, <2>1 DEF IInv, SourceInv, Satisfies, sourceVars, brokerVars
  <2>4. FreshState'
    BY <1>2, <2>1 DEF IInv, FreshState, brokerVars
  <2>5. QED
    BY <2>2, <2>3, <2>4
<1>7. CASE r.action # "none"
  <2>1. Perform(<<>>, r, NoState, pc)
    BY <1>4, <1>5, <1>7, Zenon
  <2>2. /\ machine' = r.machine /\ pc' = pc /\ conn' = conn
        /\ queue' = Append(<<>>, [kind |-> r.action, message |-> NoState])
    <3>1. Len(<<>>) < RequestCapacity
      BY TransportAssumption
    <3>2. pc # "Done"
      BY <1>0
    <3>3. QED
      BY <1>7, <2>1, <3>1, <3>2, Zenon DEF Perform
  <2>3. QueueInv'
    BY <1>0, <1>1, <1>3, <1>7, <2>2 DEF QueueInv, QueueMatches, LoopPhases, DrainPhases
  <2>4. SourceInv'
    BY <1>0, <1>1, <1>2, <1>7, <2>2 DEF IInv, SourceInv, Satisfies, sourceVars, brokerVars
  <2>5. FreshState'
    BY <1>1, <1>2, <1>7, <2>2 DEF IInv, FreshState, brokerVars
  <2>6. QED
    BY <2>3, <2>4, <2>5
<1>8. QED
  BY <1>6, <1>7

\* The states channel changed while a state is wanted.
LEMMA StateChangedInv ==
  ASSUME IInv, StateChanged, UNCHANGED sourceVars
  PROVE  QueueInv' /\ SourceInv' /\ FreshState'
<1>1. /\ pc = "Loop" /\ machine.phase \in {"AwaitFreshState", "Online"}
      /\ ~machine.becameOnline /\ queue = <<>> /\ machine \in Machines
      /\ conn # 0
      /\ UNCHANGED <<request, states, shutdown, brokerVars>>
  BY BasicTypes DEF IInv, StateChanged, AcceptsState, QueueInv, QueueMatches
<1>2. PublishCurrentState(<<>>, machine)
  BY <1>1 DEF StateChanged
<1>3. machine.phase = "Online" => machine.last >= machine.required
  BY <1>1 DEF IInv, SourceInv
<1>4. /\ pc' = "Loop" /\ conn' = conn /\ machine'.required = machine.required
      /\ \/ machine' = machine /\ queue' = <<>>
         \/ /\ machine'.phase = "StateQueued" /\ ~machine'.becameOnline
            /\ machine'.last >= machine.required
            /\ states.id >= machine.required
            /\ queue' = Append(<<>>, [kind |-> "state", message |-> states])
  BY <1>1, <1>2, <1>3, PublishValue DEF IInv
<1>5. QueueInv'
  BY <1>1, <1>4 DEF QueueInv, QueueMatches, LoopPhases
<1>6. SourceInv'
  BY <1>1, <1>3, <1>4 DEF IInv, SourceInv, Satisfies, sourceVars, brokerVars
<1>7. states.id >= machine.required => states.seen >= conn
  BY <1>1 DEF IInv, SourceInv, Satisfies
<1>8. FreshState'
  BY <1>1, <1>4, <1>7 DEF IInv, FreshState, brokerVars
<1>9. QED
  BY <1>5, <1>6, <1>8

\* Whatever ends with the client closed and the task at Backoff or Done.
LEMMA ClosedInv ==
  ASSUME IInv, CloseClient, pc' \in {"Backoff", "Done"}, ~machine'.becameOnline,
         pc' = "Backoff" => machine'.phase = "Disconnected",
         UNCHANGED <<channelVars, brokerVars, sourceVars>>
  PROVE  QueueInv' /\ SourceInv' /\ FreshState'
<1>1. queue' = <<>> /\ conn' = 0
  BY DEF CloseClient
<1>2. QueueInv'
  BY <1>1 DEF QueueInv, QueueMatches
<1>3. SourceInv'
  BY <1>1, BasicTypes DEF IInv, SourceInv, channelVars, brokerVars, sourceVars
<1>4. FreshState'
  BY <1>1 DEF IInv, FreshState, brokerVars
<1>5. QED
  BY <1>2, <1>3, <1>4

\* A poll error and the end of the poll loop close the client.
LEMMA EndingsInv ==
  ASSUME IInv, PollError \/ DrainAbandoned, UNCHANGED sourceVars
  PROVE  QueueInv' /\ SourceInv' /\ FreshState'
<1>1. machine \in Machines /\ ~machine.becameOnline
  BY BasicTypes DEF IInv, QueueInv
<1>2. CASE PollError
  <2>1. machine'.phase = "Disconnected" /\ ~machine'.becameOnline
    BY <1>1, <1>2 DEF PollError, ConnectionLost, Enter, Machines
  <2>2. QED
    BY <1>2, <2>1, ClosedInv DEF PollError
<1>3. CASE DrainAbandoned
  BY <1>1, <1>3, ClosedInv DEF DrainAbandoned
<1>4. QED
  BY <1>2, <1>3

\* The retry delay ends or is interrupted: there is no connection.
LEMMA BackoffInv ==
  ASSUME IInv, BackoffElapsed \/ BackoffShutdown, UNCHANGED sourceVars
  PROVE  QueueInv' /\ SourceInv' /\ FreshState'
<1>1. /\ pc = "Backoff" /\ machine.phase = "Disconnected" /\ ~machine.becameOnline
      /\ queue = <<>> /\ conn = 0
  BY DEF IInv, BackoffElapsed, BackoffShutdown, QueueInv, QueueMatches, SourceInv
<1>2. /\ pc' \in {"Loop", "Done"}
      /\ UNCHANGED <<machine, channelVars, transportVars, sourceVars>>
  BY DEF BackoffElapsed, BackoffShutdown
<1>3. QueueInv'
  BY <1>1, <1>2 DEF QueueInv, QueueMatches, LoopPhases, transportVars
<1>4. SourceInv'
  BY <1>1, <1>2, BasicTypes DEF IInv, SourceInv, Satisfies, channelVars, transportVars, sourceVars
<1>5. FreshState'
  BY <1>2 DEF IInv, FreshState, transportVars
<1>6. QED
  BY <1>3, <1>4, <1>5

\* graceful_shutdown: "offline" goes behind at most one publication.
LEMMA GracefulShutdownInv ==
  ASSUME IInv, GracefulShutdown, UNCHANGED sourceVars
  PROVE  QueueInv' /\ SourceInv' /\ FreshState'
<1> DEFINE r == Shutdown(machine)
           offline == [kind |-> "offline", message |-> NoState]
<1>0. /\ pc = "Loop" /\ machine.phase \in LoopPhases /\ QueueMatches
      /\ ~machine.becameOnline /\ machine \in Machines /\ queue \in Seq(Requests)
      /\ conn = 0 => machine.phase = "Disconnected"
      /\ UNCHANGED <<channelVars, inflight, downlink, brokerVars>>
  BY BasicTypes DEF IInv, GracefulShutdown, QueueInv
<1>1. /\ r.machine.required = machine.required
      /\ r.machine.becameOnline = machine.becameOnline
      /\ machine.phase = "Disconnected" => r.action = "none" /\ r.machine.phase = "Stopped"
      /\ machine.phase # "Disconnected" =>
           /\ r.action = "offline" /\ r.machine.phase = "ShutdownAwaitOfflineOutgoing"
           /\ machine.phase \in QueuedPhases => r.machine.skip
           /\ machine.phase \notin QueuedPhases => ~r.machine.skip
  BY <1>0, ShutdownValue
<1>2. IF r.action = "none" THEN Perform(queue, r, NoState, "Done")
                           ELSE Perform(queue, r, NoState, "Drain")
  BY DEF GracefulShutdown
<1>3. \A i \in DOMAIN queue : queue[i].kind = "state" => queue[i].message.seen >= conn
  BY DEF IInv, FreshState
<1> HIDE DEF r
<1>4. CASE machine.phase = "Disconnected"
  <2>1. machine' = r.machine /\ pc' = "Done" /\ conn' = 0 /\ queue' = queue
    BY <1>1, <1>2, <1>4, Zenon DEF Perform
  <2>2. queue = <<>>
    BY <1>0, <1>4 DEF QueueMatches
  <2>3. QueueInv' /\ FreshState'
    BY <1>0, <1>1, <2>1, <2>2 DEF IInv, QueueInv, FreshState, brokerVars
  <2>4. SourceInv'
    BY <1>0, <2>1, BasicTypes DEF IInv, SourceInv, channelVars, brokerVars, sourceVars
  <2>5. QED
    BY <2>3, <2>4
<1>5. CASE machine.phase # "Disconnected"
  <2>1. Len(queue) <= 1
    <3>1. CASE machine.phase \in QueuedPhases
      <4>1. Len(queue) = 1
        BY <1>0, <3>1 DEF QueueMatches, QueuedPhases
      <4>2. QED
        BY <4>1
    <3>2. CASE machine.phase \notin QueuedPhases
      <4>1. queue = <<>>
        BY <1>0, <3>2 DEF QueueMatches, QueuedPhases, LoopPhases
      <4>2. Len(queue) = 0
        BY <4>1, EmptySeq
      <4>3. QED
        BY <4>2
    <3>3. QED
      BY <3>1, <3>2
  <2>2. offline \in Requests
    BY NoStateType DEF Requests, ProtocolActions
  <2> HIDE DEF offline
  <2>3. machine' = r.machine /\ pc' = "Drain" /\ conn' = conn /\ queue' = Append(queue, offline)
    <3>1. Len(queue) < RequestCapacity
      BY <1>0, <2>1, TransportAssumption
    <3>2. r.action = "offline"
      BY <1>1, <1>5
    <3>3. QED
      BY <1>2, <3>1, <3>2, Zenon DEF Perform, offline
  <2>4. conn # 0 /\ ~machine'.becameOnline
    BY <1>0, <1>1, <1>5, <2>3
  <2>5. CASE machine.phase \in QueuedPhases
    <3>1. Len(queue) = 1 /\ queue[1].kind \in {"discovery", "online", "state"}
      BY <1>0, <2>5 DEF QueueMatches, QueuedPhases
    <3>2. /\ Len(queue') = 2 /\ queue'[1] = queue[1] /\ queue'[2] = offline
          /\ DOMAIN queue' = {1, 2} /\ 1 \in DOMAIN queue
      BY <1>0, <2>2, <2>3, <3>1, AppendToOne
    <3>3. machine'.skip /\ machine'.phase = "ShutdownAwaitOfflineOutgoing"
      BY <1>1, <1>5, <2>3, <2>5
    <3>4. QueueInv'
      BY <2>3, <2>4, <3>1, <3>2, <3>3 DEF QueueInv, QueueMatches, DrainPhases, offline
    <3>5. FreshState'
      BY <1>0, <1>3, <2>3, <3>2 DEF IInv, FreshState, brokerVars, offline
    <3>6. QED
      BY <3>4, <3>5, <1>0, <1>1, <2>3, <2>4 DEF IInv, SourceInv, Satisfies, channelVars,
         brokerVars, sourceVars
  <2>6. CASE machine.phase \notin QueuedPhases
    <3>1. queue = <<>>
      BY <1>0, <2>6 DEF QueueMatches, QueuedPhases, LoopPhases
    <3>2. Len(queue') = 1 /\ queue'[1] = offline /\ DOMAIN queue' = {1}
      BY <2>3, <3>1
    <3>3. ~machine'.skip /\ machine'.phase = "ShutdownAwaitOfflineOutgoing"
      BY <1>1, <1>5, <2>3, <2>6
    <3>4. QueueInv'
      BY <2>3, <2>4, <3>2, <3>3 DEF QueueInv, QueueMatches, DrainPhases, offline
    <3>5. FreshState'
      BY <1>0, <2>3, <3>2 DEF IInv, FreshState, brokerVars, offline
    <3>6. QED
      BY <3>4, <3>5, <1>0, <1>1, <2>3, <2>4 DEF IInv, SourceInv, Satisfies, channelVars,
         brokerVars, sourceVars
  <2>7. QED
    BY <2>5, <2>6
<1>6. QED
  BY <1>4, <1>5

\* The invariant reads only these variables of a step that leaves the
\* supervisor, the request channel and the source alone.
LEMMA BrokerSideInv ==
  ASSUME IInv, UNCHANGED <<supervisorVars, channelVars, sourceVars, queue, conn>>,
         epoch' \in Nat, epoch' >= epoch,
         \A i \in DOMAIN uplink' : uplink'[i].kind = "state"
                                     => uplink'[i].message.seen >= session'
  PROVE  QueueInv' /\ SourceInv' /\ FreshState'
<1> USE DEF supervisorVars, channelVars, sourceVars
<1>1. QueueInv'
  BY DEF IInv, QueueInv, QueueMatches
<1>2. SourceInv'
  BY BasicTypes DEF IInv, SourceInv, Satisfies
<1>3. FreshState'
  BY DEF IInv, FreshState
<1>4. QED
  BY <1>1, <1>2, <1>3

\* The broker takes a packet or ends the session, or a handshake is abandoned.
LEMMA NetworkInv ==
  ASSUME IInv, NetworkStep, UNCHANGED sourceVars
  PROVE  QueueInv' /\ SourceInv' /\ FreshState'
<1>0. /\ uplink \in Seq(Packets) /\ epoch \in Nat
      /\ \A i \in DOMAIN uplink : uplink[i].kind = "state" => uplink[i].message.seen >= session
  BY BasicTypes DEF IInv, FreshState
<1>1. CASE BrokerReceive /\ UNCHANGED <<supervisorVars, channelVars>>
  <2>1. \/ uplink' = <<>>
        \/ uplink' = Tail(uplink) /\ session' = session
    BY <1>1 DEF BrokerReceive, BrokerTakes
  <2>2. CASE uplink' = <<>>
    BY <1>0, <1>1, <2>2, BrokerSideInv DEF BrokerReceive
  <2>3. CASE uplink' = Tail(uplink) /\ session' = session
    <3>1. uplink # <<>>
      BY <1>1 DEF BrokerReceive
    <3>2. \A i \in DOMAIN uplink' : i + 1 \in DOMAIN uplink /\ uplink'[i] = uplink[i + 1]
      BY <1>0, <2>3, <3>1
    <3>3. \A i \in DOMAIN uplink' : uplink'[i].kind = "state"
                                      => uplink'[i].message.seen >= session'
      BY <1>0, <2>3, <3>2
    <3>4. QED
      BY <1>0, <1>1, <3>3, BrokerSideInv DEF BrokerReceive
  <2>4. QED
    BY <2>1, <2>2, <2>3
<1>2. CASE BrokerDrops /\ UNCHANGED <<supervisorVars, channelVars>>
  BY <1>0, <1>2, BrokerSideInv DEF BrokerDrops
<1>3. CASE HandshakeAbandoned
  BY <1>0, <1>3, BrokerSideInv DEF HandshakeAbandoned, Accept, clientVars
<1>4. QED
  BY <1>1, <1>2, <1>3 DEF NetworkStep, BrokerStep

\* The collection side: what it observes now is fresh for the connection.
LEMMA SourceInvStep ==
  ASSUME IInv, SourceStep
  PROVE  QueueInv' /\ SourceInv' /\ FreshState'
<1> USE DEF supervisorVars, transportVars, channelVars, sourceVars
<1>0. UNCHANGED <<supervisorVars, transportVars>>
  BY DEF SourceStep
<1>1. QueueInv' /\ FreshState'
  BY <1>0 DEF IInv, QueueInv, QueueMatches, FreshState
<1>2. CASE Schedule
  <2>1. request' = request + 1 /\ states' = states /\ work' = work
    BY <1>2 DEF Schedule, RequestCollection
  <2>2. QED
    BY <1>0, <1>1, <2>1, BasicTypes DEF IInv, SourceInv, Satisfies
<1>3. CASE Observe(epoch)
  <2>1. request' = request /\ states' = states /\ work'.id = request /\ work'.seen = epoch
    BY <1>3 DEF Observe
  <2>2. QED
    BY <1>0, <1>1, <2>1, BasicTypes DEF IInv, SourceInv, Satisfies
<1>4. CASE Deliver
  <2>1. states' = work /\ work' = NoState /\ request' = request
    BY <1>4 DEF Deliver, SendState
  <2>2. pc \in {"Loop", "Drain"} => (NoState.id >= machine.required => NoState.seen >= conn)
    BY BasicTypes DEF IInv, SourceInv, QueueInv, NoState
  <2>3. NoState.id <= request
    BY BasicTypes DEF IInv, NoState
  <2>4. QED
    BY <1>0, <1>1, <2>1, <2>2, <2>3, BasicTypes DEF IInv, SourceInv, Satisfies
<1>5. CASE Abandon
  <2>1. states' = states /\ work' = NoState /\ request' = request
    BY <1>5 DEF Abandon
  <2>2. pc \in {"Loop", "Drain"} => (NoState.id >= machine.required => NoState.seen >= conn)
    BY BasicTypes DEF IInv, SourceInv, QueueInv, NoState
  <2>3. NoState.id <= request
    BY BasicTypes DEF IInv, NoState
  <2>4. QED
    BY <1>0, <1>1, <2>1, <2>2, <2>3, BasicTypes DEF IInv, SourceInv, Satisfies
<1>6. QED
  BY <1>1, <1>2, <1>3, <1>4, <1>5 DEF SourceStep

\* A process leaves nothing to the next, which starts with nothing queued and
\* nothing known.
LEMMA RestartInv ==
  ASSUME IInv, Crash \/ Restart
  PROVE  QueueInv' /\ SourceInv' /\ FreshState'
<1>1. /\ pc' \in {"Loop", "Done"} /\ machine' = NewMachine /\ request' = 0 /\ states' = NoState
      /\ work' = NoState /\ conn' = 0 /\ queue' = <<>> /\ UNCHANGED brokerVars
  BY DEF Crash, Restart, ForgetProcess, CloseClient
<1>2. QueueInv'
  BY <1>1 DEF QueueInv, QueueMatches, LoopPhases, NewMachine
<1>3. SourceInv'
  BY <1>1, BasicTypes DEF IInv, SourceInv, Satisfies, NewMachine, NoState, brokerVars
<1>4. FreshState'
  BY <1>1 DEF IInv, FreshState, brokerVars
<1>5. QED
  BY <1>2, <1>3, <1>4

\* Every step of the supervisor task keeps the invariant.
LEMMA SupervisorInv ==
  ASSUME IInv, SupervisorStep, UNCHANGED sourceVars
  PROVE  QueueInv' /\ SourceInv' /\ FreshState'
<1>1. CASE \E packet \in PacketIds \cup {NoPacket} : PollOutgoing(packet)
  <2>1. PICK packet \in PacketIds \cup {NoPacket} : PollOutgoing(packet)
    BY <1>1
  <2>2. pc = "Loop" \/ pc = "Drain"
    BY <2>1 DEF PollOutgoing, Polling
  <2>3. QED
    BY <2>1, <2>2, LoopOutgoingInv, DrainOutgoingInv
<1>2. QED
  BY <1>1, ConnAckInv, RequestFreshInv, PubAckInv, EndingsInv, BackoffInv,
     StateChangedInv, GracefulShutdownInv DEF SupervisorStep

\* The invariant is inductive.
LEMMA NextInv == IInv /\ [Next]_vars => IInv'
<1> SUFFICES ASSUME IInv, [Next]_vars PROVE IInv'
  OBVIOUS
<1>1. TypeOK'
  BY NextTyped DEF IInv
<1>2. QueueInv' /\ SourceInv' /\ FreshState'
  <2>1. CASE RequestShutdown
    BY <2>1 DEF RequestShutdown, IInv, QueueInv, QueueMatches, SourceInv, Satisfies, FreshState,
       supervisorVars, transportVars, sourceVars
  <2>2. CASE UNCHANGED vars
    BY <2>2 DEF vars, IInv, QueueInv, QueueMatches, SourceInv, Satisfies, FreshState,
       supervisorVars, channelVars, transportVars, sourceVars
  <2>3. QED
    BY <2>1, <2>2, SupervisorInv, NetworkInv, SourceInvStep, RestartInv DEF Next
<1>3. QED
  BY <1>1, <1>2 DEF IInv

\* The invariant leaves at most two requests in the channel.
LEMMA QueueIsShort == IInv => ControlQueueAvailable
<1> SUFFICES ASSUME IInv PROVE ControlQueueAvailable
  OBVIOUS
<1>1. pc # "Failed"
  BY DEF IInv, QueueInv
<1>2. machine.phase # "Stopped" \/ pc = "Done"
  BY DEF IInv, QueueInv, TypeOK, LoopPhases, DrainPhases
<1>3. queue = <<>> \/ Len(queue) = 1 \/ Len(queue) = 2
  <2>1. CASE pc = "Done"
    BY <2>1 DEF IInv, QueueInv
  <2>2. CASE pc # "Done"
    <3>1. QueueMatches
      BY <2>2 DEF IInv, QueueInv
    <3>2. machine.phase \in Phases
      BY BasicTypes DEF IInv, Machines
    <3>3. QED
      BY <1>2, <2>2, <3>1, <3>2 DEF QueueMatches, Phases, QueuedPhases, AckPhases
  <2>3. QED
    BY <2>1, <2>2
<1>4. Len(queue) <= 2
  <2>1. CASE queue = <<>>
    <3>1. Len(queue) = 0
      BY <2>1, EmptySeq
    <3>2. QED
      BY <3>1
  <2>2. CASE Len(queue) = 1
    BY <2>2
  <2>3. CASE Len(queue) = 2
    BY <2>3
  <2>4. QED
    BY <1>3, <2>1, <2>2, <2>3
<1>5. QED
  BY <1>1, <1>4 DEF ControlQueueAvailable

-----------------------------------------------------------------------------
\* For any number of connections and requests, the request channel never holds
\* more than two requests, so perform of src/src/mqtt.rs always finds room in a
\* channel of REQUEST_CHANNEL_CAPACITY >= 2 and run never fails for want of it.
THEOREM QueueNeverFull == Spec => []ControlQueueAvailable
<1>1. Spec => []IInv
  BY InitInv, NextInv, PTL DEF Spec
<1>2. QED
  BY <1>1, QueueIsShort, PTL

\* For any number of connections and requests, every state published on a
\* connection was observed after that connection was made, whatever the worker
\* thread was doing when the CONNACK came (required_request of src/src/mqtt.rs).
THEOREM StatesAreFresh == Spec => []FreshState
<1>1. Spec => []IInv
  BY InitInv, NextInv, PTL DEF Spec
<1>2. IInv => FreshState
  BY DEF IInv
<1>3. QED
  BY <1>1, <1>2, PTL

-----------------------------------------------------------------------------
(***************************************************************************)
(* What an event of the poll loop does to the machine and the channel,     *)
(* given the invariant behind ControlQueueAvailable and FreshState.        *)
(***************************************************************************)

\* The machine and the channel after a publication left in the main loop.
LoopSends(packet) ==
  LET kind == queue[1].kind IN
  \/ /\ machine.phase = "DiscoveryQueued" /\ kind = "discovery"
     /\ machine'.phase = "DiscoveryAwaitAck"
     /\ packet \in PacketIds \ inflight /\ machine'.expected = packet
     /\ queue' = <<>> /\ unseen' = unseen
     /\ machine'.required = machine.required /\ machine'.last = machine.last
  \/ /\ machine.phase = "OnlineQueued" /\ kind = "online"
     /\ machine'.phase = "OnlineAwaitAck"
     /\ packet \in PacketIds \ inflight /\ machine'.expected = packet
     /\ queue' = <<>> /\ unseen' = unseen
     /\ machine'.required = machine.required /\ machine'.last = machine.last
  \/ /\ machine.phase = "StateQueued" /\ kind = "state" /\ packet = NoPacket
     /\ machine'.phase = "Online" /\ machine'.last = machine.last
     /\ queue' = <<>>
     /\ unseen' = unseen \/ states.id <= machine.last
  \/ /\ machine.phase = "StateQueued" /\ kind = "state" /\ packet = NoPacket
     /\ machine'.phase = "StateQueued"
     /\ machine'.last = states.id /\ states.id > machine.last
     /\ queue' = Append(<<>>, [kind |-> "state", message |-> states])

\* A state that is not offered to an online machine is not a new one.
LEMMA NotOffered ==
  ASSUME NEW m \in Machines, m.phase = "Online", TypeOK,
         states = NoState \/ ~StateAllowed(m, states.id)
  PROVE  states.id <= m.last
<1>1. states.id \in Nat /\ m.last \in Nat
  BY BasicTypes DEF Machines
<1>2. CASE states = NoState
  BY <1>1, <1>2 DEF NoState
<1>3. CASE ~StateAllowed(m, states.id)
  BY <1>1, <1>3 DEF StateAllowed
<1>4. QED
  BY <1>2, <1>3

\* Outgoing(Publish) in the main loop.
LEMMA LoopOutgoing ==
  ASSUME IInv, NEW packet \in PacketIds \cup {NoPacket}, PollOutgoing(packet), pc = "Loop"
  PROVE  /\ pc' = "Loop" /\ conn' = conn /\ conn # 0
         /\ Len(queue) = 1 /\ LoopSends(packet)
<1> DEFINE head == Head(queue)
           n == OutgoingPublish(machine, packet)
<1>0. /\ machine.phase \in LoopPhases /\ QueueMatches /\ ~machine.becameOnline
      /\ conn # 0 /\ queue # <<>> /\ queue \in Seq(Requests)
      /\ head = queue[1] /\ machine \in Machines
  BY BasicTypes DEF IInv, PollOutgoing, QueueInv
<1>1. /\ machine.phase \in QueuedPhases /\ Len(queue) = 1 /\ Tail(queue) = <<>>
      /\ head.kind # "disconnect"
      /\ machine.phase = "DiscoveryQueued" => head.kind = "discovery"
      /\ machine.phase = "OnlineQueued" => head.kind = "online"
      /\ machine.phase = "StateQueued" => head.kind = "state"
  <2>1. machine.phase \in QueuedPhases
    BY <1>0 DEF QueueMatches, LoopPhases, QueuedPhases
  <2>2. Len(queue) = 1
    BY <1>0, <2>1 DEF QueueMatches, QueuedPhases
  <2>3. Tail(queue) = <<>>
    BY <1>0, <2>2, ShortTail
  <2> HIDE DEF head
  <2>4. QED
    BY <1>0, <2>1, <2>2, <2>3 DEF QueueMatches, QueuedPhases
<1>2. /\ HandleEvent(Tail(queue), Quiet(n))
      /\ packet \in IF head.kind \in {"state", "disconnect"}
                      THEN {NoPacket} ELSE PacketIds \ inflight
  <2>1. HandleEvent(Tail(queue), Quiet(n))
    BY <1>1, Zenon DEF PollOutgoing
  <2>2. QED
    BY <2>1 DEF PollOutgoing
<1>3. EndIteration(<<>>, Quiet(n))
  BY <1>1, <1>2 DEF HandleEvent
<1>4. n \in Machines /\ Quiet(n).machine = n /\ Quiet(n).action = "none"
  BY <1>0, OutgoingType DEF Quiet
<1>5. /\ n.required = machine.required /\ n.last = machine.last
      /\ machine.phase = "DiscoveryQueued" /\ packet # NoPacket
           => n.phase = "DiscoveryAwaitAck" /\ ~n.becameOnline /\ n.expected = packet
      /\ machine.phase = "OnlineQueued" /\ packet # NoPacket
           => n.phase = "OnlineAwaitAck" /\ ~n.becameOnline /\ n.expected = packet
      /\ machine.phase = "StateQueued" /\ packet = NoPacket => n.phase = "Online"
  BY <1>0, OutgoingValue
<1>6. \/ /\ machine.phase \in {"DiscoveryQueued", "OnlineQueued"}
         /\ packet \in PacketIds \ inflight /\ packet # NoPacket
      \/ machine.phase = "StateQueued" /\ packet = NoPacket
  BY <1>1, <1>2, PacketIdsAssumption DEF QueuedPhases
<1> HIDE DEF n
<1>7. CASE n.becameOnline
  <2> DEFINE t == TakeBecameOnline(n)
  <2>1. machine.phase = "StateQueued" /\ n.phase = "Online" /\ packet = NoPacket
    BY <1>5, <1>6, <1>7
  <2>2. PublishCurrentState(<<>>, t)
    BY <1>3, <1>4, <1>7, Zenon DEF EndIteration
  <2>3. /\ t \in Machines /\ t.phase = "Online" /\ ~t.becameOnline
        /\ t.required = machine.required /\ t.last = machine.last
    BY <1>4, <1>5, <2>1 DEF TakeBecameOnline, Machines
  <2>4. t.last >= t.required
    BY <2>1, <2>3 DEF IInv, SourceInv
  <2> HIDE DEF t
  <2>5. /\ pc' = "Loop" /\ conn' = conn
        /\ \/ /\ machine' = t /\ queue' = <<>>
              /\ states = NoState \/ ~StateAllowed(t, states.id)
           \/ /\ machine'.phase = "StateQueued" /\ machine'.last = states.id
              /\ StateAllowed(t, states.id)
              /\ queue' = Append(<<>>, [kind |-> "state", message |-> states])
    BY <2>2, <2>3, <2>4, PublishValue DEF IInv
  <2>6. CASE states = NoState \/ ~StateAllowed(t, states.id)
    <3>1. states.id <= machine.last
      BY <2>3, <2>6, NotOffered DEF IInv
    <3>2. CASE machine' = t /\ queue' = <<>>
      BY <1>0, <1>1, <2>1, <2>3, <2>5, <3>1, <3>2 DEF LoopSends
    <3>3. CASE StateAllowed(t, states.id)
      <4>1. states.id > machine.last
        BY <2>3, <3>3 DEF StateAllowed
      <4>2. QED
        BY <3>1, <4>1, BasicTypes DEF IInv
    <3>4. QED
      BY <2>5, <3>2, <3>3
  <2>7. CASE StateAllowed(t, states.id) /\ machine'.phase = "StateQueued"
    <3>1. states.id > machine.last
      BY <2>3, <2>7 DEF StateAllowed
    <3>2. QED
      BY <1>0, <1>1, <2>1, <2>3, <2>5, <2>7, <3>1 DEF LoopSends
  <2>8. QED
    BY <2>5, <2>6, <2>7
<1>8. CASE ~n.becameOnline
  <2>1. Perform(<<>>, Quiet(n), NoState, "Loop") /\ unseen' = unseen
    BY <1>3, <1>4, <1>8, Zenon DEF EndIteration
  <2>2. machine' = n /\ pc' = "Loop" /\ conn' = conn /\ queue' = <<>>
    BY <1>4, <2>1, PerformNothing, Zenon
  <2>3. QED
    BY <1>0, <1>1, <1>5, <1>6, <2>1, <2>2 DEF LoopSends
<1>9. QED
  BY <1>7, <1>8

\* The machine and the channel after a packet left in the poll loop of
\* graceful_shutdown.
DrainSends(packet) ==
  LET kind == queue[1].kind IN
  \/ /\ machine.phase = "DisconnectQueued" /\ kind = "disconnect" /\ packet = NoPacket
     /\ pc' = "Done" /\ conn' = 0
  \/ /\ machine.phase = "ShutdownAwaitOfflineOutgoing" /\ kind \in {"discovery", "online", "state"}
     /\ packet \in PacketIds \ inflight \/ packet = NoPacket
     /\ pc' = "Drain" /\ conn' = conn
     /\ machine'.phase = "ShutdownAwaitOfflineOutgoing" /\ machine'.last = machine.last
     /\ DOMAIN queue' = {1} /\ queue'[1].kind = "offline"
  \/ /\ machine.phase = "ShutdownAwaitOfflineOutgoing" /\ kind = "offline"
     /\ packet \in PacketIds \ inflight /\ machine'.expected = packet
     /\ pc' = "Drain" /\ conn' = conn
     /\ machine'.phase = "ShutdownAwaitOfflineAck" /\ machine'.last = machine.last
     /\ queue' = <<>>

\* Outgoing(Publish) or Outgoing(Disconnect) in the poll loop of graceful_shutdown.
LEMMA DrainOutgoing ==
  ASSUME IInv, NEW packet \in PacketIds \cup {NoPacket}, PollOutgoing(packet), pc = "Drain"
  PROVE  conn # 0 /\ unseen' = unseen /\ DrainSends(packet)
<1> DEFINE head == Head(queue)
           q == Tail(queue)
           n == IF head.kind = "disconnect" THEN Disconnected(machine)
                                            ELSE OutgoingPublish(machine, packet)
<1>0. /\ machine.phase \in DrainPhases /\ QueueMatches /\ ~machine.becameOnline
      /\ conn # 0 /\ queue # <<>> /\ queue \in Seq(Requests)
      /\ head = queue[1] /\ machine \in Machines
  BY BasicTypes DEF IInv, PollOutgoing, QueueInv
<1>1. /\ EndDrainTurn(q, Quiet(n)) /\ unseen' = unseen
      /\ packet \in IF head.kind \in {"state", "disconnect"}
                      THEN {NoPacket} ELSE PacketIds \ inflight
  <2>1. EndDrainTurn(q, Quiet(n))
    BY Zenon DEF PollOutgoing, HandleEvent
  <2>2. QED
    BY <2>1 DEF PollOutgoing, EndDrainTurn
<1>2. Quiet(n).machine = n /\ Quiet(n).action = "none"
  BY DEF Quiet
<1>3. CASE machine.phase = "DisconnectQueued"
  <2>1. q = <<>> /\ head.kind = "disconnect"
    BY <1>0, <1>3, ShortTail DEF QueueMatches
  <2>2. n.phase = "Stopped"
    BY <1>0, <2>1 DEF Disconnected, Enter, Machines
  <2> HIDE DEF n, q
  <2>3. pc' = "Done" /\ conn' = 0
    BY <1>1, <1>2, <2>1, <2>2, Zenon DEF EndDrainTurn, IsStopped, Perform
  <2>4. QED
    BY <1>0, <1>1, <1>3, <2>1, <2>3 DEF DrainSends
<1>4. CASE machine.phase = "ShutdownAwaitOfflineOutgoing"
  <2>1. head.kind # "disconnect" /\ n = OutgoingPublish(machine, packet)
    BY <1>0, <1>4 DEF QueueMatches
  <2>2. /\ n.last = machine.last /\ n.phase # "Stopped"
        /\ \/ /\ head.kind \in {"discovery", "online", "state"}
              /\ n.phase = "ShutdownAwaitOfflineOutgoing"
              /\ DOMAIN q = {1} /\ q[1].kind = "offline"
           \/ /\ head.kind = "offline" /\ n.phase = "ShutdownAwaitOfflineAck"
              /\ n.expected = packet /\ q = <<>>
    <3>1. CASE machine.skip
      <4>1. /\ Len(queue) = 2 /\ queue[2].kind = "offline"
            /\ head.kind \in {"discovery", "online", "state"}
        BY <1>0, <1>4, <3>1 DEF QueueMatches
      <4>2. DOMAIN q = {1} /\ q[1].kind = "offline"
        <5>1. Len(q) = 1 /\ q[1].kind = "offline" /\ q \in Seq(Requests)
          BY <1>0, <4>1, ShortTail
        <5> HIDE DEF q
        <5>2. QED
          BY <5>1
      <4>3. n.last = machine.last /\ n.phase = machine.phase
        BY <1>0, <1>4, <2>1, <3>1, OutgoingValue
      <4>4. QED
        BY <1>4, <4>1, <4>2, <4>3
    <3>2. CASE ~machine.skip
      <4>1. Len(queue) = 1 /\ head.kind = "offline"
        BY <1>0, <1>4, <3>2 DEF QueueMatches
      <4>2. q = <<>>
        BY <1>0, <4>1, ShortTail
      <4>3. packet # NoPacket
        BY <1>1, <4>1, PacketIdsAssumption
      <4>4. n.last = machine.last /\ n.phase = "ShutdownAwaitOfflineAck" /\ n.expected = packet
        BY <1>0, <1>4, <2>1, <3>2, <4>3, OutgoingValue
      <4>5. QED
        BY <4>1, <4>2, <4>4
    <3>3. QED
      BY <3>1, <3>2
  <2> HIDE DEF n, q
  <2>3. Perform(q, Quiet(n), NoState, "Drain")
    BY <1>1, <1>2, <2>2, Zenon DEF EndDrainTurn, IsStopped
  <2>4. machine' = n /\ pc' = "Drain" /\ conn' = conn /\ queue' = q
    BY <1>2, <2>3, PerformNothing, Zenon
  <2>5. packet \in PacketIds \ inflight \/ (packet = NoPacket /\ head.kind # "offline")
    BY <1>1, <2>1
  <2>6. QED
    BY <1>0, <1>1, <1>4, <2>2, <2>4, <2>5 DEF DrainSends
<1>5. machine.phase # "ShutdownAwaitOfflineAck"
  BY <1>0 DEF QueueMatches
<1>6. QED
  BY <1>0, <1>3, <1>4, <1>5 DEF DrainPhases

\* The machine and the channel after an acknowledgement was read.
AckRead(packet) ==
  \/ machine' = machine /\ queue' = queue
  \/ /\ machine.phase = "DiscoveryAwaitAck" /\ machine.expected = packet
     /\ machine'.phase = "OnlineQueued" /\ machine'.last = machine.last
     /\ machine'.required = machine.required
     /\ queue' = Append(<<>>, [kind |-> "online", message |-> NoState])
  \/ /\ machine.phase = "OnlineAwaitAck" /\ machine.expected = packet
     /\ machine'.phase = "AwaitFreshState" /\ machine'.last = machine.last
     /\ machine'.required = machine.required
     /\ queue' = <<>>
  \/ /\ machine.phase = "ShutdownAwaitOfflineAck" /\ machine.expected = packet
     /\ machine'.phase = "DisconnectQueued" /\ machine'.last = machine.last
     /\ queue' = Append(<<>>, [kind |-> "disconnect", message |-> NoState])

\* Incoming(PubAck) in either loop.
LEMMA PubAckRead ==
  ASSUME IInv, PollPubAck
  PROVE  /\ pc' = pc /\ conn' = conn /\ conn # 0 /\ unseen' = unseen
         /\ AckRead(Head(downlink))
<1> DEFINE r == PublishAcknowledged(machine, Head(downlink))
<1>0. /\ pc \in {"Loop", "Drain"} /\ conn # 0 /\ ~machine.becameOnline
      /\ machine \in Machines /\ QueueMatches
      /\ pc = "Loop" => machine.phase \in LoopPhases
      /\ pc = "Drain" => machine.phase \in DrainPhases
  BY BasicTypes DEF IInv, PollPubAck, Polling, QueueInv
<1>1. /\ r.machine.required = machine.required /\ r.machine.last = machine.last
      /\ r.machine.becameOnline = machine.becameOnline
      /\ \/ r.machine = machine /\ r.action = "none"
         \/ /\ machine.phase = "DiscoveryAwaitAck" /\ machine.expected = Head(downlink)
            /\ r.machine.phase = "OnlineQueued" /\ r.action = "online"
         \/ /\ machine.phase = "OnlineAwaitAck" /\ machine.expected = Head(downlink)
            /\ r.machine.phase = "AwaitFreshState" /\ r.action = "none"
         \/ /\ machine.phase = "ShutdownAwaitOfflineAck" /\ machine.expected = Head(downlink)
            /\ r.machine.phase = "DisconnectQueued" /\ r.action = "disconnect"
  BY <1>0, AcknowledgedValue
<1>2. HandleEvent(queue, r)
  BY DEF PollPubAck
<1> HIDE DEF r
<1>3. ~r.machine.becameOnline /\ r.machine.phase # "Stopped"
  BY <1>0, <1>1 DEF LoopPhases, DrainPhases
<1>4. Perform(queue, r, NoState, pc) /\ unseen' = unseen
  <2>1. CASE pc = "Loop"
    BY <1>2, <1>3, <2>1, Zenon DEF HandleEvent, EndIteration
  <2>2. CASE pc = "Drain"
    BY <1>2, <1>3, <2>2, Zenon DEF HandleEvent, EndDrainTurn, IsStopped
  <2>3. QED
    BY <1>0, <2>1, <2>2
<1>5. CASE r.action = "none"
  <2>1. machine' = r.machine /\ pc' = pc /\ conn' = conn /\ queue' = queue
    BY <1>0, <1>4, <1>5, PerformNothing, Zenon
  <2>2. machine.phase = "OnlineAwaitAck" => queue = <<>>
    BY <1>0 DEF QueueMatches
  <2>3. QED
    BY <1>0, <1>1, <1>4, <1>5, <2>1, <2>2 DEF AckRead
<1>6. CASE r.action # "none"
  <2>1. queue = <<>> /\ pc # "Done"
    BY <1>0, <1>1, <1>6 DEF QueueMatches
  <2>2. Len(<<>>) < RequestCapacity
    BY TransportAssumption
  <2>3. Perform(<<>>, r, NoState, pc)
    BY <1>4, <2>1, Zenon
  <2>4. /\ machine' = r.machine /\ pc' = pc /\ conn' = conn
        /\ queue' = Append(<<>>, [kind |-> r.action, message |-> NoState])
    BY <1>6, <2>1, <2>2, <2>3, Zenon DEF Perform
  <2>5. QED
    BY <1>0, <1>1, <1>4, <1>6, <2>4 DEF AckRead
<1>7. QED
  BY <1>5, <1>6

\* states.changed(): the latest state is marked, and offered if it is wanted.
LEMMA StateOffered ==
  ASSUME IInv, StateChanged
  PROVE  /\ pc = "Loop" /\ pc' = "Loop" /\ conn' = conn /\ conn # 0 /\ ~unseen'
         /\ machine.phase \in {"AwaitFreshState", "Online"}
         /\ \/ /\ machine' = machine /\ queue' = <<>>
               /\ machine.phase = "Online" => states.id <= machine.last
               /\ machine.phase = "AwaitFreshState" => states.id < machine.required
            \/ /\ machine'.phase = "StateQueued" /\ machine'.last = states.id
               /\ machine.phase = "Online" => states.id > machine.last
               /\ queue' = Append(<<>>, [kind |-> "state", message |-> states])
<1>1. /\ pc = "Loop" /\ machine.phase \in {"AwaitFreshState", "Online"}
      /\ ~machine.becameOnline /\ queue = <<>> /\ machine \in Machines /\ conn # 0
  BY BasicTypes DEF IInv, StateChanged, AcceptsState, QueueInv, QueueMatches
<1>2. PublishCurrentState(<<>>, machine)
  BY <1>1 DEF StateChanged
<1>3. /\ machine.phase = "Online" => machine.last >= machine.required
      /\ machine.required > 0
  BY <1>1 DEF IInv, SourceInv
<1>4. /\ pc' = "Loop" /\ conn' = conn /\ ~unseen'
      /\ \/ /\ machine' = machine /\ queue' = <<>>
            /\ states = NoState \/ ~StateAllowed(machine, states.id)
         \/ /\ machine'.phase = "StateQueued" /\ machine'.last = states.id
            /\ StateAllowed(machine, states.id)
            /\ queue' = Append(<<>>, [kind |-> "state", message |-> states])
  BY <1>1, <1>2, <1>3, PublishValue DEF IInv
<1>5. CASE states = NoState \/ ~StateAllowed(machine, states.id)
  <2>1. machine.phase = "Online" => states.id <= machine.last
    BY <1>1, <1>5, NotOffered DEF IInv
  <2>2. machine.phase = "AwaitFreshState" => states.id < machine.required
    BY <1>3, <1>5, BasicTypes DEF IInv, NoState, StateAllowed
  <2>3. StateAllowed(machine, states.id) /\ machine.phase = "Online" => states.id > machine.last
    BY DEF StateAllowed
  <2>4. QED
    BY <1>1, <1>4, <2>1, <2>2, <2>3
<1>6. CASE StateAllowed(machine, states.id) /\ states # NoState
  BY <1>1, <1>4, <1>6 DEF StateAllowed
<1>7. QED
  BY <1>5, <1>6

\* graceful_shutdown up to its first poll: "offline" goes behind what waits.
LEMMA ShutdownBegins ==
  ASSUME IInv, GracefulShutdown
  PROVE  \/ pc' = "Done" /\ conn' = 0
         \/ /\ pc' = "Drain" /\ conn' = conn /\ conn # 0
            /\ machine.phase \in LoopPhases
            /\ machine'.phase = "ShutdownAwaitOfflineOutgoing"
            /\ machine'.last = machine.last
            /\ \A i \in DOMAIN queue' :
                 \/ i \in DOMAIN queue /\ queue'[i] = queue[i]
                 \/ queue'[i].kind = "offline"
<1> DEFINE r == Shutdown(machine)
           offline == [kind |-> "offline", message |-> NoState]
<1>0. /\ pc = "Loop" /\ machine.phase \in LoopPhases /\ QueueMatches
      /\ machine \in Machines /\ queue \in Seq(Requests)
      /\ conn = 0 => machine.phase = "Disconnected"
  BY BasicTypes DEF IInv, GracefulShutdown, QueueInv
<1>1. /\ r.machine.last = machine.last
      /\ machine.phase = "Disconnected" => r.action = "none"
      /\ machine.phase # "Disconnected" =>
           r.action = "offline" /\ r.machine.phase = "ShutdownAwaitOfflineOutgoing"
  BY <1>0, ShutdownValue
<1>2. IF r.action = "none" THEN Perform(queue, r, NoState, "Done")
                           ELSE Perform(queue, r, NoState, "Drain")
  BY DEF GracefulShutdown
<1> HIDE DEF r
<1>3. CASE machine.phase = "Disconnected"
  BY <1>1, <1>2, <1>3, Zenon DEF Perform
<1>4. CASE machine.phase # "Disconnected"
  <2>1. Len(queue) <= 1
    <3>1. CASE machine.phase \in QueuedPhases
      <4>1. Len(queue) = 1
        BY <1>0, <3>1 DEF QueueMatches, QueuedPhases
      <4>2. QED
        BY <4>1
    <3>2. CASE machine.phase \notin QueuedPhases
      <4>1. queue = <<>>
        BY <1>0, <3>2 DEF QueueMatches, QueuedPhases, LoopPhases
      <4>2. Len(queue) = 0
        BY <4>1, EmptySeq
      <4>3. QED
        BY <4>2
    <3>3. QED
      BY <3>1, <3>2
  <2>2. offline \in Requests /\ offline.kind = "offline"
    BY NoStateType DEF Requests, ProtocolActions
  <2> HIDE DEF offline
  <2>3. machine' = r.machine /\ pc' = "Drain" /\ conn' = conn /\ queue' = Append(queue, offline)
    <3>1. Len(queue) < RequestCapacity
      BY <1>0, <2>1, TransportAssumption
    <3>2. r.action = "offline"
      BY <1>1, <1>4
    <3>3. QED
      BY <1>2, <3>1, <3>2, Zenon DEF Perform, offline
  <2>4. \A i \in DOMAIN queue' : (i \in DOMAIN queue /\ queue'[i] = queue[i]) \/ queue'[i] = offline
    BY <1>0, <2>2, <2>3
  <2>5. QED
    BY <1>0, <1>1, <1>4, <2>2, <2>3, <2>4
<1>5. QED
  BY <1>3, <1>4

\* The rest of the CONNACK branch.
LEMMA BootstrapBegins ==
  ASSUME IInv, RequestFresh
  PROVE  /\ pc' = "Loop" /\ conn' = conn
         /\ machine'.phase = "DiscoveryQueued" /\ machine'.required = request + 1
         /\ machine.phase = "Disconnected"
         /\ queue' = Append(<<>>, [kind |-> "discovery", message |-> NoState])
<1> DEFINE r == Connected(machine, request + 1)
<1>0. queue = <<>> /\ machine \in Machines /\ request \in Nat /\ machine.phase = "Disconnected"
  BY BasicTypes DEF IInv, RequestFresh, QueueInv, QueueMatches
<1>1. /\ r.action = "discovery" /\ r.machine.phase = "DiscoveryQueued"
      /\ r.machine.required = request + 1
  BY <1>0, ConnectedValue
<1>2. Perform(<<>>, r, NoState, "Loop")
  BY <1>0, Zenon DEF RequestFresh
<1> HIDE DEF r
<1>3. Len(<<>>) < RequestCapacity
  BY TransportAssumption
<1>4. /\ machine' = r.machine /\ pc' = "Loop" /\ conn' = conn
      /\ queue' = Append(<<>>, [kind |-> "discovery", message |-> NoState])
  BY <1>1, <1>2, <1>3, Zenon DEF Perform
<1>5. QED
  BY <1>0, <1>1, <1>4

-----------------------------------------------------------------------------
(***************************************************************************)
(* The wire.                                                               *)
(***************************************************************************)
BrokerSide ==
  /\ BrokerInv
  /\ BootstrapOrder /\ NoGhostOnline /\ DisconnectConfirmed
  /\ OfflineIsFinal /\ StatesInOrder

ClientSide == ConnInv /\ LinkInv /\ SeenInv

WInv == IInv /\ BrokerSide /\ ClientSide

\* The types of what is on the wire.
LEMMA WireTypes ==
  ASSUME TypeOK
  PROVE  /\ uplink \in Seq(Packets) /\ downlink \in Seq(PacketIds)
         /\ inflight \in SUBSET PacketIds /\ announced \in SUBSET ProtocolActions
         /\ \A i \in DOMAIN uplink :
              /\ i \in Nat /\ uplink[i].packet \in PacketIds \cup {NoPacket}
              /\ uplink[i].message.id \in Nat /\ uplink[i].kind \in ProtocolActions
         /\ \A i \in DOMAIN queue : queue[i].message.id \in Nat
         /\ \A i \in DOMAIN downlink : downlink[i] \in PacketIds
<1>1. /\ uplink \in Seq(Packets) /\ downlink \in Seq(PacketIds)
      /\ inflight \in SUBSET PacketIds /\ announced \in SUBSET ProtocolActions
      /\ queue \in Seq(Requests)
  BY DEF TypeOK, Packets, Requests
<1>2. \A i \in DOMAIN uplink : i \in Nat /\ uplink[i] \in Packets
  BY <1>1
<1>3. \A i \in DOMAIN queue : queue[i] \in Requests
  BY <1>1
<1>4. \A i \in DOMAIN downlink : downlink[i] \in PacketIds
  BY <1>1
<1>5. QED
  BY <1>1, <1>2, <1>3, <1>4 DEF Packets, Requests, Messages

\* A sequence with one more element at its end.
Extended(old, new, x) ==
  \E end \in Nat :
    /\ DOMAIN new = DOMAIN old \cup {end} /\ end \notin DOMAIN old
    /\ new[end] = x
    /\ \A i \in DOMAIN old : i < end /\ new[i] = old[i]

\* Append is that.
LEMMA AppendExtends ==
  ASSUME NEW S, NEW old \in Seq(S), NEW x \in S
  PROVE  Extended(old, Append(old, x), x)
<1> DEFINE new == Append(old, x)
<1>1. /\ Len(old) \in Nat /\ DOMAIN old = 1 .. Len(old)
      /\ new \in Seq(S) /\ Len(new) = Len(old) + 1
      /\ \A i \in 1 .. Len(old) : new[i] = old[i]
      /\ new[Len(old) + 1] = x
  BY AppendProperties, LenProperties
<1>2. DOMAIN new = 1 .. Len(old) + 1
  BY <1>1, LenProperties
<1> HIDE DEF new
<1>3. /\ DOMAIN new = DOMAIN old \cup {Len(old) + 1}
      /\ Len(old) + 1 \notin DOMAIN old
      /\ \A i \in DOMAIN old : i < Len(old) + 1 /\ new[i] = old[i]
      /\ Len(old) + 1 \in Nat
  BY <1>1, <1>2
<1>4. Extended(old, new, x)
  BY <1>1, <1>3 DEF Extended
<1>5. QED
  BY <1>4 DEF new

\* A sequence without its first element.
Shortened(old, new) ==
  /\ 1 \in DOMAIN old
  /\ \A i \in DOMAIN new : i \in Nat \ {0} /\ i + 1 \in DOMAIN old /\ new[i] = old[i + 1]

\* Tail is that.
LEMMA TailShortens ==
  ASSUME NEW S, NEW old \in Seq(S), old # <<>>
  PROVE  Shortened(old, Tail(old)) /\ Head(old) = old[1]
<1>1. /\ Tail(old) \in Seq(S) /\ Len(Tail(old)) = Len(old) - 1
      /\ \A i \in 1 .. Len(Tail(old)) : Tail(old)[i] = old[i + 1]
      /\ Head(old) = old[1]
  BY HeadTailProperties
<1>2. DOMAIN old = 1 .. Len(old) /\ DOMAIN Tail(old) = 1 .. Len(Tail(old)) /\ Len(old) \in Nat
  BY <1>1, LenProperties
<1>3. Len(old) # 0
  BY EmptySeq
<1>4. QED
  BY <1>1, <1>2, <1>3 DEF Shortened

\* A packet that leaves is put on the wire if the broker serves the connection.
LEMMA Sent ==
  ASSUME IInv, NEW packet \in PacketIds \cup {NoPacket}, PollOutgoing(packet)
  PROVE  /\ 1 \in DOMAIN queue
         /\ UNCHANGED <<states, downlink, session, epoch, availability, announced>>
         /\ inflight' = (inflight \cup {packet}) \ {NoPacket}
         /\ session # conn => uplink' = uplink
         /\ session = conn => Extended(uplink, uplink', [kind |-> queue[1].kind,
                                message |-> queue[1].message, packet |-> packet])
<1> DEFINE head == Head(queue)
           pk == [kind |-> head.kind, message |-> head.message, packet |-> packet]
<1>0. /\ queue \in Seq(Requests) /\ queue # <<>> /\ Transmit(pk) /\ uplink \in Seq(Packets)
      /\ inflight' = (inflight \cup {packet}) \ {NoPacket}
      /\ UNCHANGED <<states, downlink, session, epoch, availability, announced>>
  BY BasicTypes DEF IInv, PollOutgoing
<1>1. head \in Requests /\ head = queue[1] /\ 1 \in DOMAIN queue
  BY <1>0
<1> HIDE DEF head
<1>2. pk \in Packets
  BY <1>1 DEF Requests, Packets
<1>3. Extended(uplink, Append(uplink, pk), pk)
  BY <1>0, <1>2, AppendExtends
<1>4. QED
  BY <1>0, <1>1, <1>3 DEF Transmit

\* What is put on the wire keeps the order in which the broker is told things.
LEMMA SendKeepsOrder ==
  ASSUME WInv, NEW packet \in PacketIds \cup {NoPacket}, PollOutgoing(packet)
  PROVE  BrokerSide'
<1> DEFINE pk == [kind |-> queue[1].kind, message |-> queue[1].message, packet |-> packet]
<1>0. /\ 1 \in DOMAIN queue
      /\ UNCHANGED <<session, availability, announced>>
      /\ session # conn => uplink' = uplink
      /\ session = conn => Extended(uplink, uplink', pk)
  BY Sent DEF WInv
<1>1. CASE session # conn
  BY <1>0, <1>1 DEF WInv, BrokerSide, BrokerInv, BootstrapOrder, NoGhostOnline,
     DisconnectConfirmed, OfflineIsFinal, StatesInOrder
<1>2. CASE session = conn
  <2>1. conn # 0 /\ LinkInv
    BY DEF WInv, ClientSide, PollOutgoing
  <2>2. /\ pk.kind = queue[1].kind /\ pk.message = queue[1].message
        /\ pk.kind = "online" => "discovery" \in announced
        /\ pk.kind = "state" => {"discovery", "online"} \subseteq announced
        /\ pk.kind = "disconnect" => "offline" \in announced
    BY <1>0, <1>2, <2>1 DEF LinkInv, Announced
  <2>3. pk.kind = "state" => \A j \in DOMAIN uplink : uplink[j].kind = "state"
                                 => uplink[j].message.id < pk.message.id
    BY <1>0, <1>2, <2>1, <2>2 DEF LinkInv, StatesBelow
  <2>4. \/ pk.kind = "disconnect"
        \/ /\ "offline" \notin announced
           /\ \A i \in DOMAIN uplink : uplink[i].kind # "offline"
    <3>1. machine.phase \notin {"ShutdownAwaitOfflineAck", "DisconnectQueued"}
            \/ queue[1].kind = "disconnect"
      <4>1. CASE pc = "Loop"
        BY <4>1, LoopOutgoing DEF WInv, LoopSends
      <4>2. CASE pc = "Drain"
        BY <4>2, DrainOutgoing DEF WInv, DrainSends
      <4>3. QED
        BY <4>1, <4>2 DEF PollOutgoing, Polling
    <3>2. QED
      BY <1>2, <2>1, <2>2, <3>1 DEF LinkInv, OfflineLast
  <2> HIDE DEF pk
  <2>5. PICK end \in Nat :
          /\ DOMAIN uplink' = DOMAIN uplink \cup {end} /\ end \notin DOMAIN uplink
          /\ uplink'[end] = pk
          /\ \A i \in DOMAIN uplink : i < end /\ uplink'[i] = uplink[i]
    BY <1>0, <1>2 DEF Extended
  <2>6. BrokerInv' /\ NoGhostOnline'
    BY <1>0, <1>2, <2>1 DEF WInv, BrokerSide, BrokerInv, NoGhostOnline
  <2>7. BootstrapOrder' /\ DisconnectConfirmed'
    BY <1>0, <2>2, <2>5 DEF WInv, BrokerSide, BootstrapOrder, DisconnectConfirmed
  <2>8. \A i \in DOMAIN uplink : i \in Nat
    BY WireTypes DEF WInv, IInv
  <2>9. OfflineIsFinal'
    BY <1>0, <2>4, <2>5, <2>8 DEF WInv, BrokerSide, OfflineIsFinal
  <2>10. StatesInOrder'
    BY <1>0, <2>3, <2>5, <2>8 DEF WInv, BrokerSide, StatesInOrder
  <2>11. QED
    BY <2>6, <2>7, <2>9, <2>10 DEF BrokerSide
<1>3. QED
  BY <1>1, <1>2

\* A publication that leaves has an identifier nobody waits for, or none.
LEMMA SendKeepsDistinct ==
  ASSUME TypeOK, PacketsDistinct, NEW packet \in (PacketIds \ inflight) \cup {NoPacket},
         NEW pk, pk.packet = packet, Extended(uplink, uplink', pk),
         inflight' = (inflight \cup {packet}) \ {NoPacket}, downlink' = downlink
  PROVE  PacketsDistinct'
<1>1. PICK end \in Nat :
        /\ DOMAIN uplink' = DOMAIN uplink \cup {end} /\ end \notin DOMAIN uplink
        /\ uplink'[end] = pk
        /\ \A i \in DOMAIN uplink : i < end /\ uplink'[i] = uplink[i]
  BY DEF Extended
<1>2. /\ inflight \in SUBSET PacketIds /\ NoPacket \notin inflight
      /\ \A i \in DOMAIN downlink : downlink[i] \in PacketIds
  BY WireTypes, PacketIdsAssumption
<1>3. \A i \in DOMAIN uplink : uplink[i].packet # NoPacket => uplink[i].packet # packet
  BY <1>2 DEF PacketsDistinct
<1>4. \A i \in DOMAIN downlink : downlink[i] # packet
  BY <1>2, PacketIdsAssumption DEF PacketsDistinct
<1>5. \A i \in DOMAIN uplink' : uplink'[i].packet \in inflight' \cup {NoPacket}
  BY <1>1 DEF PacketsDistinct
<1>6. \A i \in DOMAIN downlink' : downlink'[i] \in inflight'
  BY <1>2, PacketIdsAssumption DEF PacketsDistinct
<1>7. \A i, j \in DOMAIN uplink' :
        i # j /\ uplink'[i].packet # NoPacket => uplink'[i].packet # uplink'[j].packet
  BY <1>1, <1>3 DEF PacketsDistinct
<1>8. \A i \in DOMAIN uplink', j \in DOMAIN downlink' : uplink'[i].packet # downlink'[j]
  BY <1>1, <1>4 DEF PacketsDistinct
<1>9. QED
  BY <1>5, <1>6, <1>7, <1>8 DEF PacketsDistinct

\* Awaits in the next state, of a kind known in this one.
AwaitsNext(kind) ==
  /\ \A i \in DOMAIN uplink' : uplink'[i].packet = machine'.expected => uplink'[i].kind = kind
  /\ \A i \in DOMAIN downlink' : downlink'[i] = machine'.expected => kind \in announced'

\* A publication with a new identifier is the one its acknowledgement is for.
LEMMA SendAwaits ==
  ASSUME TypeOK, PacketsDistinct, NEW packet \in PacketIds \ inflight,
         NEW pk, pk.packet = packet, Extended(uplink, uplink', pk),
         downlink' = downlink, machine'.expected = packet
  PROVE  AwaitsNext(pk.kind) /\ machine'.expected # NoPacket
<1>1. PICK end \in Nat :
        /\ DOMAIN uplink' = DOMAIN uplink \cup {end}
        /\ uplink'[end] = pk
        /\ \A i \in DOMAIN uplink : uplink'[i] = uplink[i]
  BY DEF Extended
<1>2. packet # NoPacket
  BY PacketIdsAssumption
<1>3. \A i \in DOMAIN uplink : uplink[i].packet # packet
  BY <1>2 DEF PacketsDistinct
<1>4. \A i \in DOMAIN downlink : downlink[i] # packet
  BY DEF PacketsDistinct
<1>5. QED
  BY <1>1, <1>2, <1>3, <1>4 DEF AwaitsNext

\* What leaves the client keeps what the machine knows of the connection.
LEMMA SendKeepsLink ==
  ASSUME WInv, NEW packet \in PacketIds \cup {NoPacket}, PollOutgoing(packet),
         session = conn, conn' = conn
  PROVE  (PacketsDistinct /\ AcksMean /\ Announced /\ OfflineLast /\ StatesBelow)'
<1> DEFINE pk == [kind |-> queue[1].kind, message |-> queue[1].message, packet |-> packet]
<1>0. /\ 1 \in DOMAIN queue
      /\ UNCHANGED <<states, downlink, session, announced>>
      /\ inflight' = (inflight \cup {packet}) \ {NoPacket}
      /\ Extended(uplink, uplink', pk)
  BY Sent DEF WInv
<1>1. /\ conn # 0 /\ TypeOK
      /\ PacketsDistinct /\ AcksMean /\ Announced /\ OfflineLast /\ StatesBelow
  BY DEF WInv, IInv, ClientSide, LinkInv, PollOutgoing
<1>2. pk.kind = queue[1].kind /\ pk.message = queue[1].message /\ pk.packet = packet
  OBVIOUS
<1>3. (pc = "Loop" /\ LoopSends(packet)) \/ (pc = "Drain" /\ DrainSends(packet) /\ conn' # 0)
  BY <1>1, LoopOutgoing, DrainOutgoing DEF WInv, PollOutgoing, Polling
<1>4. packet \in (PacketIds \ inflight) \cup {NoPacket}
  BY <1>3 DEF LoopSends, DrainSends
<1> HIDE DEF pk
<1>5. PacketsDistinct'
  BY <1>0, <1>1, <1>2, <1>4, SendKeepsDistinct
<1>6. packet \in PacketIds \ inflight /\ machine'.expected = packet
        => AwaitsNext(queue[1].kind) /\ machine'.expected # NoPacket
  BY <1>0, <1>1, <1>2, SendAwaits
<1>7. PICK end \in Nat :
        /\ DOMAIN uplink' = DOMAIN uplink \cup {end} /\ end \notin DOMAIN uplink
        /\ uplink'[end] = pk
        /\ \A i \in DOMAIN uplink : i < end /\ uplink'[i] = uplink[i]
  BY <1>0 DEF Extended
<1>8. /\ machine.last \in Nat /\ states.id \in Nat
      /\ \A i \in DOMAIN uplink : uplink[i].message.id \in Nat
      /\ \A i \in DOMAIN queue : queue[i].message.id \in Nat
  BY <1>1, BasicTypes, WireTypes
<1>9. /\ pk.kind = "state" => /\ pk.message.id <= machine.last
                              /\ \A j \in DOMAIN uplink : uplink[j].kind = "state"
                                     => uplink[j].message.id < pk.message.id
      /\ pk.kind = "online" => "discovery" \in announced
      /\ pk.kind = "state" => {"discovery", "online"} \subseteq announced
  BY <1>0, <1>1, <1>2 DEF Announced, StatesBelow
<1>10. \A i \in DOMAIN uplink' : uplink'[i].kind = "state" => uplink'[i].message.id <= machine.last
  BY <1>1, <1>7, <1>9 DEF StatesBelow
<1>11. CASE pc = "Loop" /\ LoopSends(packet)
  <2>1. machine.phase \in {"DiscoveryQueued", "OnlineQueued", "StateQueued"}
    BY <1>11 DEF LoopSends
  <2>2. OfflineLast'
    BY <1>0, <1>1, <1>2, <1>7, <1>11, <2>1 DEF LoopSends, OfflineLast
  <2>3. CASE machine'.phase = "DiscoveryAwaitAck" \/ machine'.phase = "OnlineAwaitAck"
    <3>1. AcksMean'
      BY <1>6, <1>11, <2>3 DEF LoopSends, AcksMean, AwaitsNext, Awaits
    <3>2. Announced'
      BY <1>0, <1>2, <1>9, <1>11, <2>3 DEF LoopSends, Announced
    <3>3. \A i \in DOMAIN uplink' : uplink'[i].kind # "state"
      BY <1>1, <1>2, <1>7, <1>11, <2>3 DEF LoopSends, StatesBelow
    <3>4. StatesBelow'
      BY <1>10, <1>11, <2>3, <3>3 DEF LoopSends, StatesBelow
    <3>5. QED
      BY <1>5, <2>2, <3>1, <3>2, <3>4
  <2>4. CASE machine'.phase = "Online"
    <3>1. AcksMean'
      BY <2>4 DEF AcksMean, AckPhases
    <3>2. Announced'
      BY <1>0, <1>2, <1>9, <1>11, <2>4 DEF LoopSends, Announced
    <3>3. StatesBelow'
      BY <1>10, <1>11, <2>4 DEF LoopSends, StatesBelow
    <3>4. QED
      BY <1>5, <2>2, <3>1, <3>2, <3>3
  <2>5. CASE machine'.phase = "StateQueued"
    <3>1. /\ queue' = Append(<<>>, [kind |-> "state", message |-> states])
          /\ pk.kind = "state" /\ machine'.last = states.id /\ states.id > machine.last
      BY <1>2, <1>11, <2>5 DEF LoopSends
    <3>2. DOMAIN queue' = {1} /\ queue'[1].kind = "state" /\ queue'[1].message = states
      BY <3>1
    <3>3. AcksMean'
      BY <2>5 DEF AcksMean, AckPhases
    <3>4. Announced'
      BY <1>0, <1>9, <2>5, <3>1, <3>2 DEF Announced
    <3>5. \A i \in DOMAIN uplink' : uplink'[i].message.id \in Nat
      BY <1>0, <1>2, <1>7, <1>8
    <3>6. StatesBelow'
      BY <1>8, <1>10, <2>5, <3>1, <3>2, <3>5 DEF StatesBelow
    <3>7. QED
      BY <1>5, <2>2, <3>3, <3>4, <3>6
  <2>6. QED
    BY <1>11, <2>3, <2>4, <2>5 DEF LoopSends
<1>12. CASE pc = "Drain" /\ DrainSends(packet)
  <2>1. CASE machine'.phase = "ShutdownAwaitOfflineOutgoing"
    <3>1. /\ queue'[1].kind = "offline" /\ DOMAIN queue' = {1} /\ machine'.last = machine.last
          /\ machine.phase = machine'.phase /\ pk.kind \in {"discovery", "online", "state"}
      BY <1>1, <1>2, <1>3, <1>12, <2>1 DEF DrainSends
    <3>3. AcksMean' /\ Announced'
      BY <2>1, <3>1 DEF AcksMean, AckPhases, Announced
    <3>4. OfflineLast'
      BY <1>0, <1>1, <1>7, <3>1 DEF OfflineLast
    <3>5. StatesBelow'
      BY <1>10, <2>1, <3>1 DEF StatesBelow
    <3>6. QED
      BY <1>5, <3>3, <3>4, <3>5
  <2>2. CASE machine'.phase = "ShutdownAwaitOfflineAck"
    <3>1. /\ pk.kind = "offline" /\ queue' = <<>> /\ machine'.last = machine.last
          /\ packet \in PacketIds \ inflight /\ machine'.expected = packet
      BY <1>1, <1>2, <1>3, <1>12, <2>2 DEF DrainSends
    <3>2. AcksMean'
      BY <1>2, <1>6, <2>2, <3>1 DEF AcksMean, AwaitsNext, Awaits
    <3>3. Announced' /\ OfflineLast'
      BY <2>2, <3>1 DEF Announced, OfflineLast
    <3>4. StatesBelow'
      BY <1>10, <2>2, <3>1 DEF StatesBelow
    <3>5. QED
      BY <1>5, <3>2, <3>3, <3>4
  <2>3. QED
    BY <1>1, <1>3, <1>12, <2>1, <2>2 DEF DrainSends
<1>13. QED
  BY <1>3, <1>11, <1>12

\* Outgoing(Publish) and Outgoing(Disconnect) keep the invariant.
LEMMA OutgoingWire ==
  ASSUME WInv, NEW packet \in PacketIds \cup {NoPacket}, PollOutgoing(packet)
  PROVE  BrokerSide' /\ ClientSide'
<1>0. /\ session' = session /\ states' = states /\ conn # 0
      /\ machine.last \in Nat /\ states.id \in Nat
  BY Sent, BasicTypes DEF WInv, IInv, PollOutgoing
<1>1. /\ pc = "Loop" => pc' = "Loop" /\ conn' = conn /\ LoopSends(packet)
      /\ pc = "Drain" => DrainSends(packet)
      /\ pc \in {"Loop", "Drain"}
  BY LoopOutgoing, DrainOutgoing DEF WInv, PollOutgoing, Polling
<1>2. (conn' = conn /\ pc' \in {"Loop", "Drain"}) \/ (conn' = 0 /\ pc' = "Done")
  BY <1>1 DEF DrainSends
<1>3. ConnInv'
  BY <1>0, <1>2 DEF WInv, ClientSide, ConnInv
<1>4. LinkInv'
  <2>1. CASE session = conn /\ conn' = conn
    BY <2>1, SendKeepsLink DEF LinkInv
  <2>2. CASE conn' = 0
    BY <2>2 DEF LinkInv
  <2>3. CASE session # conn /\ conn' = conn
    BY <1>0, <2>3 DEF LinkInv
  <2>4. QED
    BY <1>2, <2>1, <2>2, <2>3
<1>5. SeenInv'
  <2>1. CASE pc = "Loop"
    <3>1. ~unseen => IF machine.phase \in {"StateQueued", "Online"}
                       THEN states.id <= machine.last ELSE states.id < machine.required
      BY <1>0, <2>1 DEF WInv, ClientSide, SeenInv
    <3>2. QED
      BY <1>0, <1>1, <2>1, <3>1 DEF LoopSends, SeenInv
  <2>2. CASE pc = "Drain"
    BY <1>1, <2>2 DEF DrainSends, SeenInv
  <2>3. QED
    BY <1>1, <2>1, <2>2
<1>6. QED
  BY <1>3, <1>4, <1>5, SendKeepsOrder DEF ClientSide

\* The broker side reads only what the broker holds.
LEMMA BrokerSideUnchanged ==
  ASSUME BrokerSide, UNCHANGED brokerVars
  PROVE  BrokerSide'
  BY DEF BrokerSide, brokerVars, BrokerInv, BootstrapOrder, NoGhostOnline,
     DisconnectConfirmed, OfflineIsFinal, StatesInOrder

\* An acknowledgement that is read keeps what the machine knows.
LEMMA AckKeepsLink ==
  ASSUME WInv, PollPubAck, session = conn
  PROVE  (PacketsDistinct /\ AcksMean /\ Announced /\ OfflineLast /\ StatesBelow)'
<1> DEFINE packet == Head(downlink)
<1>0. /\ inflight' = inflight \ {packet} /\ UNCHANGED brokerVars
      /\ downlink' = Tail(downlink) /\ downlink # <<>> /\ downlink \in Seq(PacketIds)
  BY WireTypes DEF WInv, IInv, PollPubAck
<1>1. /\ PacketsDistinct /\ AcksMean /\ Announced /\ OfflineLast /\ StatesBelow
      /\ AckRead(packet)
  BY PubAckRead DEF WInv, ClientSide, LinkInv
<1>2. Shortened(downlink, downlink') /\ packet = downlink[1]
  BY <1>0, TailShortens
<1>3. uplink' = uplink /\ announced' = announced
  BY <1>0 DEF brokerVars
<1> HIDE DEF packet
<1>4. \A i \in DOMAIN downlink' : \E j \in DOMAIN downlink : j # 1 /\ downlink'[i] = downlink[j]
  BY <1>2 DEF Shortened
<1>5. PacketsDistinct'
  <2>1. \A i \in DOMAIN uplink' : uplink'[i].packet \in inflight' \cup {NoPacket}
    BY <1>0, <1>1, <1>2, <1>3 DEF PacketsDistinct, Shortened
  <2>2. \A i \in DOMAIN downlink' : downlink'[i] \in inflight'
    BY <1>0, <1>1, <1>2 DEF PacketsDistinct, Shortened
  <2>3. \A i, j \in DOMAIN downlink' : i # j => downlink'[i] # downlink'[j]
    BY <1>1, <1>2 DEF PacketsDistinct, Shortened
  <2>4. \A i \in DOMAIN uplink', j \in DOMAIN downlink' : uplink'[i].packet # downlink'[j]
    BY <1>1, <1>3, <1>4 DEF PacketsDistinct
  <2>5. QED
    BY <1>1, <1>3, <2>1, <2>2, <2>3, <2>4 DEF PacketsDistinct
<1>6. CASE machine' = machine /\ queue' = queue
  <2>1. AcksMean'
    BY <1>1, <1>3, <1>4, <1>6 DEF AcksMean, Awaits
  <2>2. Announced' /\ OfflineLast' /\ StatesBelow'
    BY <1>1, <1>3, <1>6 DEF Announced, OfflineLast, StatesBelow
  <2>3. QED
    BY <1>5, <2>1, <2>2
<1>7. CASE /\ machine.phase \in AckPhases /\ machine.expected = packet
           /\ machine'.phase \notin AckPhases /\ machine'.last = machine.last
           /\ AckRead(packet)
  <2>1. AcksMean'
    BY <1>7 DEF AcksMean, AckPhases
  <2>2. /\ machine.phase = "DiscoveryAwaitAck" => "discovery" \in announced
        /\ machine.phase = "OnlineAwaitAck" => {"discovery", "online"} \subseteq announced
        /\ machine.phase = "ShutdownAwaitOfflineAck" => "offline" \in announced
    BY <1>1, <1>2, <1>7 DEF AcksMean, Awaits, Announced, Shortened
  <2>3. /\ \/ machine.phase = "DiscoveryAwaitAck" /\ machine'.phase = "OnlineQueued"
           \/ machine.phase = "OnlineAwaitAck" /\ machine'.phase = "AwaitFreshState"
           \/ machine.phase = "ShutdownAwaitOfflineAck" /\ machine'.phase = "DisconnectQueued"
        /\ \A i \in DOMAIN queue' :
             \/ machine'.phase = "OnlineQueued" /\ queue'[i].kind = "online"
             \/ machine'.phase = "DisconnectQueued" /\ queue'[i].kind = "disconnect"
    BY <1>7 DEF AckRead, AckPhases
  <2>4. Announced'
    BY <1>3, <2>2, <2>3 DEF Announced
  <2>5. OfflineLast'
    BY <1>1, <1>3, <2>3 DEF OfflineLast
  <2>6. StatesBelow'
    BY <1>1, <1>3, <1>7, <2>3 DEF StatesBelow
  <2>7. QED
    BY <1>5, <2>1, <2>4, <2>5, <2>6
<1>8. QED
  BY <1>1, <1>6, <1>7 DEF AckRead, AckPhases

\* Incoming(PubAck) keeps the invariant.
LEMMA PubAckWire ==
  ASSUME WInv, PollPubAck
  PROVE  BrokerSide' /\ ClientSide'
<1>1. /\ pc' = pc /\ conn' = conn /\ conn # 0 /\ unseen' = unseen /\ AckRead(Head(downlink))
      /\ UNCHANGED brokerVars /\ states' = states /\ pc \in {"Loop", "Drain"}
  BY PubAckRead DEF WInv, PollPubAck, Polling
<1>2. BrokerSide'
  BY <1>1, BrokerSideUnchanged DEF WInv
<1>3. ConnInv'
  BY <1>1 DEF WInv, ClientSide, ConnInv, brokerVars
<1>4. LinkInv'
  BY <1>1, AckKeepsLink DEF LinkInv, brokerVars
<1>5. SeenInv'
  <2>1. pc = "Loop" => machine.phase \in LoopPhases
    BY DEF WInv, IInv, QueueInv
  <2>2. QED
    BY <1>1, <2>1 DEF WInv, ClientSide, SeenInv, AckRead, LoopPhases
<1>6. QED
  BY <1>2, <1>3, <1>4, <1>5 DEF ClientSide

\* The steps that change the machine and the channel but not the wire.
LEMMA HandlersWire ==
  ASSUME WInv, RequestFresh \/ StateChanged \/ GracefulShutdown
  PROVE  BrokerSide' /\ ClientSide'
<1>0. UNCHANGED <<inflight, downlink, brokerVars, states>>
  BY DEF RequestFresh, StateChanged, GracefulShutdown, channelVars
<1>1. /\ uplink' = uplink /\ announced' = announced /\ session' = session
      /\ downlink' = downlink /\ inflight' = inflight /\ states' = states
  BY <1>0 DEF brokerVars
<1>2. BrokerSide'
  BY <1>0, BrokerSideUnchanged DEF WInv
<1>3. machine.last \in Nat /\ states.id \in Nat /\ request \in Nat /\ machine.required \in Nat
  BY BasicTypes DEF WInv, IInv
<1>4. \A i \in DOMAIN uplink : uplink[i].message.id \in Nat
  BY WireTypes DEF WInv, IInv
<1>5. CASE RequestFresh
  <2>1. /\ pc = "ConnAck" /\ pc' = "Loop" /\ conn' = conn
        /\ machine.phase = "Disconnected"
        /\ machine'.phase = "DiscoveryQueued" /\ machine'.required = request + 1
        /\ queue' = Append(<<>>, [kind |-> "discovery", message |-> NoState])
    BY <1>5, BootstrapBegins DEF WInv, RequestFresh
  <2>2. DOMAIN queue' = {1} /\ queue'[1].kind = "discovery"
    BY <2>1
  <2>3. ConnInv'
    BY <1>1, <2>1 DEF WInv, ClientSide, ConnInv
  <2>4. LinkInv'
    BY <1>1, <2>1, <2>2 DEF WInv, ClientSide, LinkInv, PacketsDistinct, AcksMean, AckPhases,
       Announced, OfflineLast, StatesBelow
  <2>5. SeenInv'
    <3>1. states.id <= request
      BY DEF WInv, IInv, SourceInv
    <3>2. QED
      BY <1>1, <1>3, <2>1, <3>1 DEF SeenInv
  <2>6. QED
    BY <1>2, <2>3, <2>4, <2>5 DEF ClientSide
<1>6. CASE StateChanged
  <2>1. /\ pc = "Loop" /\ pc' = "Loop" /\ conn' = conn /\ conn # 0 /\ ~unseen'
        /\ machine.phase \in {"AwaitFreshState", "Online"}
        /\ \/ /\ machine' = machine /\ queue' = <<>>
              /\ machine.phase = "Online" => states.id <= machine.last
              /\ machine.phase = "AwaitFreshState" => states.id < machine.required
           \/ /\ machine'.phase = "StateQueued" /\ machine'.last = states.id
              /\ machine.phase = "Online" => states.id > machine.last
              /\ queue' = Append(<<>>, [kind |-> "state", message |-> states])
    BY <1>6, StateOffered DEF WInv
  <2>2. ConnInv'
    BY <1>1, <2>1 DEF WInv, ClientSide, ConnInv
  <2>3. SeenInv'
    BY <1>1, <1>3, <2>1 DEF SeenInv
  <2>4. LinkInv'
    <3>1. CASE machine' = machine /\ queue' = <<>>
      BY <1>1, <2>1, <3>1 DEF WInv, ClientSide, LinkInv, PacketsDistinct, AcksMean, Awaits,
         Announced, OfflineLast, StatesBelow
    <3>2. CASE /\ machine'.phase = "StateQueued" /\ machine'.last = states.id
               /\ machine.phase = "Online" => states.id > machine.last
               /\ queue' = Append(<<>>, [kind |-> "state", message |-> states])
      <4>1. DOMAIN queue' = {1} /\ queue'[1].kind = "state" /\ queue'[1].message = states
        BY <3>2
      <4>2. SUFFICES ASSUME session = conn PROVE LinkInv'
        BY <1>1, <2>1 DEF LinkInv
      <4>3. PacketsDistinct /\ AcksMean /\ Announced /\ OfflineLast /\ StatesBelow
        BY <2>1, <4>2 DEF WInv, ClientSide, LinkInv
      <4>4. PacketsDistinct' /\ AcksMean'
        BY <1>1, <3>2, <4>3 DEF PacketsDistinct, AcksMean, AckPhases
      <4>5. Announced' /\ OfflineLast'
        BY <1>1, <2>1, <3>2, <4>1, <4>3 DEF Announced, OfflineLast
      <4>6. StatesBelow'
        BY <1>1, <1>3, <1>4, <2>1, <3>2, <4>1, <4>3 DEF StatesBelow
      <4>7. QED
        BY <4>4, <4>5, <4>6 DEF LinkInv
    <3>3. QED
      BY <2>1, <3>1, <3>2
  <2>5. QED
    BY <1>2, <2>2, <2>3, <2>4 DEF ClientSide
<1>7. CASE GracefulShutdown
  <2>1. CASE pc' = "Done" /\ conn' = 0
    BY <1>2, <2>1 DEF ClientSide, ConnInv, LinkInv, SeenInv
  <2>2. CASE /\ pc' = "Drain" /\ conn' = conn /\ conn # 0
             /\ machine.phase \in LoopPhases
             /\ machine'.phase = "ShutdownAwaitOfflineOutgoing"
             /\ machine'.last = machine.last
             /\ \A i \in DOMAIN queue' :
                  \/ i \in DOMAIN queue /\ queue'[i] = queue[i]
                  \/ queue'[i].kind = "offline"
    <3>1. ConnInv' /\ SeenInv'
      BY <1>1, <2>2 DEF WInv, ClientSide, ConnInv, SeenInv
    <3>2. SUFFICES ASSUME session = conn PROVE LinkInv'
      BY <1>1, <1>2, <2>2, <3>1 DEF LinkInv, ClientSide
    <3>3. PacketsDistinct /\ AcksMean /\ Announced /\ OfflineLast /\ StatesBelow
      BY <2>2, <3>2 DEF WInv, ClientSide, LinkInv
    <3>4. PacketsDistinct' /\ AcksMean'
      BY <1>1, <2>2, <3>3 DEF PacketsDistinct, AcksMean, AckPhases
    <3>5. Announced' /\ OfflineLast'
      BY <1>1, <2>2, <3>3 DEF Announced, OfflineLast, LoopPhases
    <3>6. StatesBelow'
      BY <1>1, <2>2, <3>3 DEF StatesBelow
    <3>7. QED
      BY <3>4, <3>5, <3>6 DEF LinkInv
  <2>3. QED
    BY <1>7, <2>1, <2>2, ShutdownBegins DEF WInv
<1>8. QED
  BY <1>5, <1>6, <1>7

\* A CONNACK: the broker starts the session from nothing.
LEMMA ConnAckWire ==
  ASSUME WInv, PollConnAck
  PROVE  BrokerSide' /\ ClientSide'
<1>1. /\ queue = <<>> /\ machine.phase = "Disconnected" /\ downlink = <<>> /\ epoch \in Nat
  BY BasicTypes DEF WInv, IInv, PollConnAck, QueueInv, QueueMatches, ClientSide, ConnInv
<1>2. /\ uplink' = <<>> /\ announced' = {} /\ session' = epoch + 1 /\ conn' = epoch + 1
      /\ pc' = "ConnAck" /\ UNCHANGED <<machine, queue, downlink>>
  BY DEF PollConnAck, Accept
<1>3. BrokerSide'
  BY <1>1, <1>2 DEF BrokerSide, BrokerInv, BootstrapOrder, NoGhostOnline,
     DisconnectConfirmed, OfflineIsFinal, StatesInOrder
<1>4. LinkInv'
  BY <1>1, <1>2 DEF LinkInv, PacketsDistinct, AcksMean, AckPhases, Announced, OfflineLast,
     StatesBelow
<1>5. QED
  BY <1>1, <1>2, <1>3, <1>4 DEF ClientSide, ConnInv, SeenInv

\* Whatever leaves the client without a connection.
LEMMA ClosedWire ==
  ASSUME WInv, UNCHANGED brokerVars, conn' = 0, pc' # "Done" => downlink' = <<>>
  PROVE  BrokerSide' /\ ClientSide'
<1>1. BrokerSide'
  BY BrokerSideUnchanged DEF WInv
<1>2. QED
  BY <1>1 DEF ClientSide, ConnInv, LinkInv, SeenInv

\* A poll error, the retry delay, the end of the poll loop and of the process.
LEMMA EndingsWire ==
  ASSUME WInv, \/ PollError \/ BackoffElapsed \/ BackoffShutdown \/ DrainAbandoned
               \/ Crash \/ Restart
  PROVE  BrokerSide' /\ ClientSide'
<1>1. CASE PollError \/ DrainAbandoned \/ Crash \/ Restart
  BY <1>1, ClosedWire DEF PollError, DrainAbandoned, Crash, Restart, ForgetProcess, CloseClient
<1>2. CASE BackoffElapsed \/ BackoffShutdown
  <2>1. pc = "Backoff" /\ conn = 0 /\ UNCHANGED transportVars
    BY <1>2 DEF WInv, IInv, SourceInv, BackoffElapsed, BackoffShutdown
  <2>2. downlink = <<>>
    BY <2>1 DEF WInv, ClientSide, ConnInv
  <2>3. conn' = 0 /\ downlink' = <<>> /\ UNCHANGED brokerVars
    BY <2>1, <2>2 DEF transportVars, brokerVars
  <2>4. QED
    BY <2>3, ClosedWire
<1>3. QED
  BY <1>1, <1>2

\* The broker ends a session or lets an abandoned handshake in.
LEMMA SessionWire ==
  ASSUME WInv,
         \/ BrokerDrops /\ UNCHANGED <<supervisorVars, channelVars>>
         \/ HandshakeAbandoned
  PROVE  BrokerSide' /\ ClientSide'
<1>1. /\ uplink' = <<>> /\ announced' = {}
      /\ UNCHANGED <<supervisorVars, channelVars, conn, queue, inflight, downlink>>
  BY DEF BrokerDrops, HandshakeAbandoned, Accept, clientVars
<1>2. \/ session' = 0 /\ availability' = "offline"
      \/ session' # 0 /\ conn = 0
  BY BasicTypes DEF WInv, IInv, BrokerDrops, HandshakeAbandoned, Accept, Will
<1>3. BrokerSide'
  BY <1>1, <1>2 DEF BrokerSide, BrokerInv, BootstrapOrder, NoGhostOnline,
     DisconnectConfirmed, OfflineIsFinal, StatesInOrder
<1>4. ConnInv' /\ SeenInv'
  BY <1>1, <1>2 DEF WInv, ClientSide, ConnInv, SeenInv, supervisorVars, channelVars
<1>5. LinkInv'
  BY <1>1, <1>2 DEF LinkInv
<1>6. QED
  BY <1>3, <1>4, <1>5 DEF ClientSide

\* The broker takes the next packet: what it has been told so far grows by the
\* packet's kind, and nothing is told out of order.
LEMMA ReceiveKeepsOrder ==
  ASSUME WInv, BrokerReceive
  PROVE  BrokerSide'
<1> DEFINE head == Head(uplink)
<1>0. /\ uplink # <<>> /\ uplink \in Seq(Packets) /\ BrokerTakes(head)
      /\ session # 0
  BY WireTypes DEF WInv, IInv, BrokerReceive, BrokerSide, BrokerInv
<1>1. Shortened(uplink, Tail(uplink)) /\ head = uplink[1]
  BY <1>0, TailShortens
<1> HIDE DEF head
<1>2. CASE head.kind = "disconnect"
  <2>1. session' = 0 /\ uplink' = <<>> /\ announced' = {} /\ availability' = availability
    BY <1>0, <1>2 DEF BrokerTakes
  <2>2. "offline" \in announced
    BY <1>1, <1>2 DEF WInv, BrokerSide, DisconnectConfirmed, Shortened
  <2>3. availability = "offline"
    BY <2>2 DEF WInv, BrokerSide, BrokerInv
  <2>4. QED
    BY <2>1, <2>3 DEF BrokerSide, BrokerInv, BootstrapOrder, NoGhostOnline,
       DisconnectConfirmed, OfflineIsFinal, StatesInOrder
<1>3. CASE head.kind # "disconnect"
  <2>1. /\ uplink' = Tail(uplink) /\ announced' = announced \cup {head.kind}
        /\ availability' = IF head.kind \in {"online", "offline"} THEN head.kind ELSE availability
        /\ session' = session
    BY <1>0, <1>3 DEF BrokerTakes
  <2>2. \A i \in DOMAIN uplink' : i \in Nat \ {0} /\ i + 1 \in DOMAIN uplink /\ uplink'[i] = uplink[i + 1]
    BY <1>1, <2>1 DEF Shortened
  <2>3. "offline" \notin announced
    BY <1>1, <1>3 DEF WInv, BrokerSide, OfflineIsFinal, Shortened
  <2>4. BrokerInv' /\ NoGhostOnline'
    BY <1>0, <2>1, <2>3 DEF BrokerInv, NoGhostOnline
  <2>5. BootstrapOrder' /\ DisconnectConfirmed'
    BY <2>1, <2>2 DEF WInv, BrokerSide, BootstrapOrder, DisconnectConfirmed
  <2>6. OfflineIsFinal'
    <3>1. head.kind = "offline" => \A i \in DOMAIN uplink : i # 1 => uplink[i].kind = "disconnect"
      <4>1. \A i \in DOMAIN uplink : i # 1 => 1 < i
        BY <1>0
      <4>2. 1 \in DOMAIN uplink
        BY <1>1 DEF Shortened
      <4>3. QED
        BY <1>1, <4>1, <4>2 DEF WInv, BrokerSide, OfflineIsFinal
    <3>2. "offline" \in announced' => \A i \in DOMAIN uplink' : uplink'[i].kind = "disconnect"
      BY <2>1, <2>2, <2>3, <3>1
    <3>3. \A i, j \in DOMAIN uplink' :
            i < j /\ uplink'[i].kind = "offline" => uplink'[j].kind = "disconnect"
      BY <2>2 DEF WInv, BrokerSide, OfflineIsFinal
    <3>4. QED
      BY <3>2, <3>3 DEF OfflineIsFinal
  <2>7. StatesInOrder'
    BY <2>2 DEF WInv, BrokerSide, StatesInOrder
  <2>8. QED
    BY <2>4, <2>5, <2>6, <2>7 DEF BrokerSide
<1>4. QED
  BY <1>2, <1>3

\* The broker takes the next packet: what the machine knows stays true.
LEMMA ReceiveKeepsLink ==
  ASSUME WInv, BrokerReceive, UNCHANGED <<supervisorVars, channelVars>>
  PROVE  ClientSide'
<1> DEFINE head == Head(uplink)
<1>0. /\ uplink # <<>> /\ uplink \in Seq(Packets) /\ BrokerTakes(head)
      /\ session # 0 /\ UNCHANGED <<queue, conn, inflight, pc, machine, states, unseen>>
      /\ downlink \in Seq(PacketIds)
  BY WireTypes DEF WInv, IInv, BrokerReceive, BrokerSide, BrokerInv, supervisorVars, channelVars
<1>1. Shortened(uplink, Tail(uplink)) /\ head = uplink[1]
  BY <1>0, TailShortens
<1>2. head.packet \in PacketIds \cup {NoPacket}
  BY <1>1, WireTypes DEF WInv, IInv, Shortened
<1> HIDE DEF head
<1>3. SeenInv'
  BY <1>0 DEF WInv, ClientSide, SeenInv
<1>4. CASE head.kind = "disconnect"
  BY <1>0, <1>3, <1>4 DEF WInv, ClientSide, BrokerTakes, ConnInv, LinkInv
<1>5. CASE head.kind # "disconnect" /\ session # conn
  <2>1. session' = session /\ downlink' = downlink
    BY <1>0, <1>5 DEF BrokerTakes
  <2>2. QED
    BY <1>0, <1>3, <1>5, <2>1 DEF WInv, ClientSide, ConnInv, LinkInv
<1>6. CASE head.kind # "disconnect" /\ session = conn
  <2>1. /\ uplink' = Tail(uplink) /\ announced' = announced \cup {head.kind}
        /\ session' = session
        /\ downlink' = IF head.packet # NoPacket THEN Append(downlink, head.packet) ELSE downlink
    BY <1>0, <1>6 DEF BrokerTakes, NoPacket
  <2>2. PacketsDistinct /\ AcksMean /\ Announced /\ OfflineLast /\ StatesBelow
    BY <1>0, <1>6 DEF WInv, ClientSide, LinkInv
  <2>3. /\ \A i \in DOMAIN uplink' :
             i \in Nat \ {0} /\ i + 1 \in DOMAIN uplink /\ uplink'[i] = uplink[i + 1]
        /\ 1 \in DOMAIN uplink /\ uplink[1] = head
    BY <1>1, <2>1 DEF Shortened
  <2>4. \A i \in DOMAIN uplink' : \E j \in DOMAIN uplink : j # 1 /\ uplink'[i] = uplink[j]
    BY <2>3
  <2>5. \/ downlink' = downlink /\ head.packet = NoPacket
        \/ Extended(downlink, downlink', head.packet) /\ head.packet # NoPacket
    BY <1>0, <1>2, <2>1, AppendExtends
  <2>6. \A i \in DOMAIN downlink' :
          \/ i \in DOMAIN downlink /\ downlink'[i] = downlink[i]
          \/ i \notin DOMAIN downlink /\ downlink'[i] = head.packet /\ head.packet # NoPacket
    BY <2>5 DEF Extended
  <2>7. PacketsDistinct'
    <3>1. \A i \in DOMAIN uplink' : uplink'[i].packet \in inflight' \cup {NoPacket}
      BY <1>0, <2>2, <2>4 DEF PacketsDistinct
    <3>2. \A i \in DOMAIN downlink' : downlink'[i] \in inflight'
      BY <1>0, <2>2, <2>3, <2>6 DEF PacketsDistinct
    <3>3. \A i, j \in DOMAIN uplink' :
            i # j /\ uplink'[i].packet # NoPacket => uplink'[i].packet # uplink'[j].packet
      BY <2>2, <2>3 DEF PacketsDistinct
    <3>4. \A i, j \in DOMAIN downlink' : i # j => downlink'[i] # downlink'[j]
      <4>1. CASE downlink' = downlink
        BY <2>2, <4>1 DEF PacketsDistinct
      <4>2. CASE Extended(downlink, downlink', head.packet)
        <5>1. PICK end \in Nat :
                /\ DOMAIN downlink' = DOMAIN downlink \cup {end}
                /\ downlink'[end] = head.packet
                /\ \A i \in DOMAIN downlink : downlink'[i] = downlink[i]
          BY <4>2 DEF Extended
        <5>2. \A i \in DOMAIN downlink : downlink[i] # head.packet
          BY <2>2, <2>3 DEF PacketsDistinct
        <5>3. QED
          BY <2>2, <5>1, <5>2 DEF PacketsDistinct
      <4>3. QED
        BY <2>5, <4>1, <4>2
    <3>5. \A i \in DOMAIN uplink', j \in DOMAIN downlink' : uplink'[i].packet # downlink'[j]
      <4>1. \A i \in DOMAIN uplink : i # 1 /\ head.packet # NoPacket => uplink[i].packet # head.packet
        BY <2>2, <2>3 DEF PacketsDistinct
      <4>2. QED
        BY <2>2, <2>4, <2>6, <4>1 DEF PacketsDistinct
    <3>6. QED
      BY <3>1, <3>2, <3>3, <3>4, <3>5 DEF PacketsDistinct
  <2>8. AcksMean'
    <3>1. ASSUME NEW kind, Awaits(kind) PROVE AwaitsNext(kind)
      BY <1>0, <2>1, <2>3, <2>4, <2>6, <3>1 DEF Awaits, AwaitsNext
    <3>2. QED
      BY <1>0, <2>2, <3>1 DEF AcksMean, Awaits, AwaitsNext
  <2>9. Announced'
    BY <1>0, <2>1, <2>2 DEF Announced
  <2>10. OfflineLast'
    BY <1>0, <2>1, <2>2, <2>3 DEF OfflineLast
  <2>11. StatesBelow'
    BY <1>0, <2>2, <2>3 DEF StatesBelow
  <2>12. ConnInv'
    BY <1>0, <1>6, <2>1 DEF WInv, ClientSide, ConnInv
  <2>13. QED
    BY <1>3, <2>7, <2>8, <2>9, <2>10, <2>11, <2>12 DEF ClientSide, LinkInv
<1>7. QED
  BY <1>4, <1>5, <1>6

\* Nothing else touches the wire; a state that is delivered is unseen.
LEMMA OthersWire ==
  ASSUME WInv, SourceStep \/ RequestShutdown \/ UNCHANGED vars
  PROVE  BrokerSide' /\ ClientSide'
<1>1. UNCHANGED <<supervisorVars, transportVars>>
  BY DEF SourceStep, RequestShutdown, vars
<1>2. unseen' \/ (states' = states /\ unseen' = unseen)
  BY DEF SourceStep, Schedule, Observe, Deliver, Abandon, SendState, RequestShutdown, vars,
     channelVars
<1>3. BrokerSide'
  BY <1>1, BrokerSideUnchanged DEF WInv, transportVars, brokerVars
<1>4. ConnInv' /\ SeenInv'
  BY <1>1, <1>2 DEF WInv, ClientSide, ConnInv, SeenInv, supervisorVars, transportVars
<1>5. LinkInv'
  BY <1>1 DEF WInv, ClientSide, LinkInv, PacketsDistinct, AcksMean, Awaits, Announced,
     OfflineLast, StatesBelow, supervisorVars, transportVars
<1>6. QED
  BY <1>3, <1>4, <1>5 DEF ClientSide

\* The invariant holds before the first connection.
LEMMA WireInit == Init => WInv
<1> SUFFICES ASSUME Init PROVE WInv
  OBVIOUS
<1>1. IInv
  BY InitInv
<1>2. BrokerSide
  BY DEF Init, InitBroker, BrokerSide, BrokerInv, BootstrapOrder, NoGhostOnline,
     DisconnectConfirmed, OfflineIsFinal, StatesInOrder
<1>3. ClientSide
  BY DEF Init, InitClient, InitSupervisor, ClientSide, ConnInv, LinkInv, SeenInv
<1>4. QED
  BY <1>1, <1>2, <1>3 DEF WInv

\* The invariant is inductive.
LEMMA WireNext == WInv /\ [Next]_vars => WInv'
<1> SUFFICES ASSUME WInv, [Next]_vars PROVE WInv'
  OBVIOUS
<1>1. IInv'
  BY NextInv DEF WInv
<1>2. BrokerSide' /\ ClientSide'
  <2>1. CASE SupervisorStep
    BY <2>1, ConnAckWire, HandlersWire, OutgoingWire, PubAckWire, EndingsWire DEF SupervisorStep
  <2>2. CASE NetworkStep
    BY <2>2, SessionWire, ReceiveKeepsOrder, ReceiveKeepsLink DEF NetworkStep, BrokerStep
  <2>3. CASE SourceStep \/ RequestShutdown \/ UNCHANGED vars
    BY <2>3, OthersWire
  <2>4. CASE Crash \/ Restart
    BY <2>4, EndingsWire
  <2>5. QED
    BY <2>1, <2>2, <2>3, <2>4 DEF Next
<1>3. QED
  BY <1>1, <1>2 DEF WInv

\* The invariant leaves no state behind that would still be published.
LEMMA SeenMeansNotLost == WInv => NoLostState
<1> SUFFICES ASSUME WInv, pc = "Loop", conn # 0, AcceptsState(machine), ~unseen
             PROVE  states = NoState \/ ~StateAllowed(machine, states.id)
  BY DEF NoLostState
<1>1. IF machine.phase \in {"StateQueued", "Online"}
        THEN states.id <= machine.last ELSE states.id < machine.required
  BY DEF WInv, ClientSide, SeenInv
<1>2. states.id \in Nat /\ machine.last \in Nat /\ machine.required \in Nat
  BY BasicTypes DEF WInv, IInv
<1>3. QED
  BY <1>1, <1>2 DEF StateAllowed

\* The invariant holds of every behaviour.
LEMMA Wire == Spec => []WInv
  BY WireInit, WireNext, PTL DEF Spec

-----------------------------------------------------------------------------
\* For any number of connections, on every one the broker has taken discovery
\* before "online" is sent and both before a state is (publish_acknowledged of
\* src/src/mqtt.rs), although acknowledgements can be late or of something else.
THEOREM BootstrapInOrder == Spec => []BootstrapOrder
<1>1. WInv => BootstrapOrder
  BY DEF WInv, BrokerSide
<1>2. QED
  BY <1>1, Wire, PTL

\* For any number of connections, processes and failures, a broker that serves
\* no session of this client does not show it as "online".
THEOREM NeverGhostOnline == Spec => []NoGhostOnline
<1>1. WInv => NoGhostOnline
  BY DEF WInv, BrokerSide
<1>2. QED
  BY <1>1, Wire, PTL

\* A DISCONNECT, which discards the will, is sent only after the broker took
\* "offline" on the same connection, whatever the shutdown overtook.
THEOREM DisconnectAfterOffline == Spec => []DisconnectConfirmed
<1>1. WInv => DisconnectConfirmed
  BY DEF WInv, BrokerSide
<1>2. QED
  BY <1>1, Wire, PTL

\* Nothing but the DISCONNECT follows "offline" on a connection.
THEOREM OfflineStays == Spec => []OfflineIsFinal
<1>1. WInv => OfflineIsFinal
  BY DEF WInv, BrokerSide
<1>2. QED
  BY <1>1, Wire, PTL

\* States reach the broker in the order of their requests and none twice, for
\* any number of collections and reconnects.
THEOREM StatesOrdered == Spec => []StatesInOrder
<1>1. WInv => StatesInOrder
  BY DEF WInv, BrokerSide
<1>2. QED
  BY <1>1, Wire, PTL

\* The supervisor never waits for a change of the states channel while the
\* latest state is one it would publish, whenever the worker's thread sent it.
THEOREM NoStateLost == Spec => []NoLostState
  BY SeenMeansNotLost, Wire, PTL
=============================================================================
