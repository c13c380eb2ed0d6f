------------------------ MODULE SupervisedPublishing ------------------------
(***************************************************************************)
(* The MQTT supervisor, its transport and a broker, fed by any collection  *)
(* side that keeps the promise of StateSource.  The stamp of an            *)
(* observation is the number of connections accepted when it began.  The   *)
(* process may die at any step and be started again by systemd.            *)
(***************************************************************************)
EXTENDS MqttSupervisor, StateSource

CONSTANT MaxTicks  \* bound: request counter above which no tick is issued

ASSUME TicksAssumption == MaxTicks \in Nat

vars == <<supervisorVars, channelVars, transportVars, sourceVars>>

Init ==
  /\ InitSupervisor
  /\ InitChannels
  /\ InitClient
  /\ InitBroker
  /\ InitSource


\* The collection side.  The scheduler shares the runtime's only thread with
\* the supervisor, so no tick falls into the CONNACK branch; the worker has a
\* thread of its own.
SourceStep ==
  /\ \/ pc # "ConnAck" /\ request < MaxTicks /\ Schedule
     \/ Observe(epoch)
     \/ Deliver
     \/ Abandon
  /\ UNCHANGED <<supervisorVars, transportVars>>

\* run_service asks everyone to stop.
RequestShutdown ==
  /\ ~shutdown /\ pc # "ConnAck"
  /\ SendShutdown
  /\ UNCHANGED <<request, states, unseen, supervisorVars, transportVars, sourceVars>>

\* The process is killed, aborts, or ends after its tasks; the kernel closes
\* its connection.
Crash ==
  /\ pc' = "Done" /\ status' = "Stopped"
  /\ ForgetProcess
  /\ work' = NoState /\ taken' = 0
  /\ UNCHANGED brokerVars

\* systemd starts a new process after the old one has ended (Restart=always).
Restart ==
  /\ pc \in {"Done", "Failed"}
  /\ pc' = "Loop" /\ status' = "Disconnected"
  /\ ForgetProcess
  /\ work' = NoState /\ taken' = 0
  /\ UNCHANGED brokerVars

Next ==
  \/ SupervisorStep /\ UNCHANGED sourceVars
  \/ NetworkStep /\ UNCHANGED sourceVars
  \/ SourceStep
  \/ RequestShutdown
  \/ Crash
  \/ Restart

Spec == Init /\ [][Next]_vars

-----------------------------------------------------------------------------
\* What each variable may hold.
TypeOK ==
  /\ TypeOKChannels
  /\ TypeOKSource
  /\ pc \in {"Loop", "ConnAck", "Backoff", "Drain", "Done", "Failed"}
  /\ machine \in Machines
  /\ status \in {"Disconnected", "Bootstrapping", "Online", "ShuttingDown", "Stopped"}
  /\ attempt \in 0..(RetrySteps - 1)
  /\ queue \in Seq([kind: ProtocolActions, message: Messages])
  /\ conn \in Nat /\ session \in Nat /\ epoch \in Nat
  /\ inflight \in SUBSET PacketIds
  /\ downlink \in Seq(PacketIds)
  /\ uplink \in Seq([kind: ProtocolActions, message: Messages,
                     packet: PacketIds \cup {NoPacket}])
  /\ availability \in {"none", "online", "offline"}
  /\ announced \in SUBSET ProtocolActions

-----------------------------------------------------------------------------
(***************************************************************************)
(* The inductive invariant behind ControlQueueAvailable and FreshState.    *)
(***************************************************************************)
LoopPhases  == {"Disconnected", "DiscoveryQueued", "DiscoveryAwaitAck", "OnlineQueued",
                "OnlineAwaitAck", "AwaitFreshState", "StateQueued", "Online"}
DrainPhases == {"ShutdownAwaitOfflineOutgoing", "ShutdownAwaitOfflineAck", "DisconnectQueued"}

\* The phase says exactly which requests wait in the channel.
QueueMatches ==
  /\ machine.phase \in {"Disconnected", "DiscoveryAwaitAck", "OnlineAwaitAck",
                        "AwaitFreshState", "Online", "ShutdownAwaitOfflineAck"}
       => queue = <<>>
  /\ machine.phase = "DiscoveryQueued" => Len(queue) = 1 /\ queue[1].kind = "discovery"
  /\ machine.phase = "OnlineQueued" => Len(queue) = 1 /\ queue[1].kind = "online"
  /\ machine.phase = "StateQueued" => Len(queue) = 1 /\ queue[1].kind = "state"
  /\ machine.phase = "DisconnectQueued" => Len(queue) = 1 /\ queue[1].kind = "disconnect"
  /\ machine.phase = "ShutdownAwaitOfflineOutgoing" /\ ~machine.skip
       => Len(queue) = 1 /\ queue[1].kind = "offline"
  /\ machine.phase = "ShutdownAwaitOfflineOutgoing" /\ machine.skip
       => /\ Len(queue) = 2 /\ queue[2].kind = "offline"
          /\ queue[1].kind \in {"discovery", "online", "state"}

QueueInv ==
  /\ pc # "Failed"
  /\ ~machine.becameOnline
  /\ pc \in {"ConnAck", "Backoff"} => machine.phase = "Disconnected"
  /\ pc = "Loop" => machine.phase \in LoopPhases
  /\ pc = "Loop" /\ conn = 0 => machine.phase = "Disconnected"
  /\ pc = "ConnAck" => conn # 0
  /\ pc = "Drain" => machine.phase \in DrainPhases
  /\ IF pc = "Done" THEN queue = <<>> ELSE QueueMatches

\* Any state that would satisfy the current connection's request was observed
\* since that connection was made.
Satisfies(message) == message.id >= machine.required => message.seen >= conn

SourceInv ==
  /\ conn <= epoch
  /\ work.id <= request /\ states.id <= request
  /\ pc \in {"Loop", "Drain"} => Satisfies(work) /\ Satisfies(states)
  /\ pc = "Backoff" => conn = 0
  /\ pc \in {"Loop", "Drain"} /\ conn # 0 => machine.required > 0
  /\ pc = "Loop" /\ machine.phase \in {"Online", "StateQueued"}
       => machine.last >= machine.required
-----------------------------------------------------------------------------
(***************************************************************************)
(* The inductive invariant behind the properties of the wire: what the     *)
(* broker holds, and what the machine knows of the connection as long as   *)
(* the broker serves it.                                                   *)
(***************************************************************************)

\* Without a session the broker keeps nothing of one, and the retained
\* availability follows an "offline" it took.
BrokerInv ==
  /\ session = 0 => uplink = <<>> /\ announced = {}
  /\ "offline" \in announced => availability = "offline"

\* While the client holds a connection nobody else connects, and a client
\* without one has no acknowledgement left to read.
ConnInv ==
  /\ conn # 0 => session \in {0, conn}
  /\ pc = "Done" => conn = 0
  /\ conn = 0 /\ pc # "Done" => downlink = <<>>

\* An identifier under way, in either direction, is in use and under way once.
PacketsDistinct ==
  /\ \A i \in DOMAIN uplink : uplink[i].packet \in inflight \cup {NoPacket}
  /\ \A i \in DOMAIN downlink : downlink[i] \in inflight
  /\ \A i, j \in DOMAIN uplink :
       i # j /\ uplink[i].packet # NoPacket => uplink[i].packet # uplink[j].packet
  /\ \A i, j \in DOMAIN downlink : i # j => downlink[i] # downlink[j]
  /\ \A i \in DOMAIN uplink, j \in DOMAIN downlink : uplink[i].packet # downlink[j]

\* The awaited identifier belongs to a publication of this kind: its
\* acknowledgement shows that the broker took one.
Awaits(kind) ==
  /\ \A i \in DOMAIN uplink : uplink[i].packet = machine.expected => uplink[i].kind = kind
  /\ \A i \in DOMAIN downlink : downlink[i] = machine.expected => kind \in announced

AcksMean ==
  /\ machine.phase \in AckPhases => machine.expected # NoPacket
  /\ machine.phase = "DiscoveryAwaitAck" => Awaits("discovery")
  /\ machine.phase = "OnlineAwaitAck" => Awaits("online")
  /\ machine.phase = "ShutdownAwaitOfflineAck" => Awaits("offline")

\* What the broker has taken by the time the machine is in a phase, and by the
\* time a publication waits in the channel.
Announced ==
  /\ machine.phase \in {"OnlineAwaitAck", "AwaitFreshState", "Online"} => "discovery" \in announced
  /\ machine.phase \in {"AwaitFreshState", "Online"} => "online" \in announced
  /\ \A i \in DOMAIN queue :
       /\ queue[i].kind = "online" => "discovery" \in announced
       /\ queue[i].kind = "state" => {"discovery", "online"} \subseteq announced
       /\ queue[i].kind = "disconnect" => "offline" \in announced

\* Before "offline" has left the client, neither it nor a DISCONNECT is on the
\* wire or with the broker.
OfflineLast ==
  machine.phase \notin {"ShutdownAwaitOfflineAck", "DisconnectQueued"} =>
    /\ "offline" \notin announced
    /\ \A i \in DOMAIN uplink : uplink[i].kind \notin {"offline", "disconnect"}

\* A state on the wire is no later than the last one offered and earlier than
\* one that waits; none is on the wire before the bootstrap asks for one.
StatesBelow ==
  /\ machine.phase \in {"Disconnected", "DiscoveryQueued", "DiscoveryAwaitAck",
                        "OnlineQueued", "OnlineAwaitAck", "AwaitFreshState"}
       => \A i \in DOMAIN uplink : uplink[i].kind # "state"
  /\ \A i \in DOMAIN uplink : uplink[i].kind = "state" => uplink[i].message.id <= machine.last
  /\ \A i \in DOMAIN queue : queue[i].kind = "state" =>
       /\ queue[i].message.id <= machine.last
       /\ \A j \in DOMAIN uplink : uplink[j].kind = "state"
                                     => uplink[j].message.id < queue[i].message.id

LinkInv ==
  conn # 0 /\ session = conn =>
    PacketsDistinct /\ AcksMean /\ Announced /\ OfflineLast /\ StatesBelow

\* A state the supervisor has marked seen is too old for the bootstrap, or has
\* been offered.
SeenInv ==
  pc = "Loop" /\ conn # 0 /\ ~unseen =>
    IF machine.phase \in {"StateQueued", "Online"}
      THEN states.id <= machine.last
      ELSE states.id < machine.required
=============================================================================
