---------------------------- MODULE DaemonProofs ----------------------------
(***************************************************************************)
(* The daemon implements SupervisedPublishing, for every number of         *)
(* connections, ticks and packet identifiers, and what is proved of        *)
(* SupervisedPublishing holds of the daemon.  Its scheduler and worker on  *)
(* their own implement StateSource, whoever else makes requests.           *)
(***************************************************************************)
EXTENDS Daemon, TLAPS

IInv == WorkerInv /\ SchedulerInv /\ SessionInv /\ MainInv /\ ExitedInv

-----------------------------------------------------------------------------
(***************************************************************************)
(* What the steps of the supervisor do to the state the invariant speaks   *)
(* of.                                                                     *)
(***************************************************************************)

\* Handling an event never leads into the CONNACK branch.
LEMMA HandledPlace ==
  ASSUME NEW q, NEW outcome, HandleEvent(q, outcome)
  PROVE  pc' \in {"Loop", "Drain", "Done", "Failed"}
<1>1. ASSUME NEW next \in {"Loop", "Drain", "Done"}, NEW r, NEW message, Perform(q, r, message, next)
      PROVE  pc' \in {"Loop", "Drain", "Done", "Failed"}
  BY <1>1 DEF Perform
<1> QED
  BY <1>1 DEF HandleEvent, EndDrainTurn, EndIteration, PublishCurrentState

\* A step of the supervisor outside the CONNACK branch.
Ordinary ==
  /\ request' = request /\ epoch' = epoch /\ session' = session /\ shutdown' = shutdown
  /\ pc' # "ConnAck"
  /\ session = 0 => uplink' = uplink

LEMMA OutgoingEffect ==
  ASSUME NEW packet, PollOutgoing(packet)
  PROVE  Ordinary
<1>1. request' = request /\ epoch' = epoch /\ session' = session /\ shutdown' = shutdown /\ conn # 0
  BY DEF PollOutgoing
<1>2. pc' # "ConnAck"
  BY HandledPlace DEF PollOutgoing
<1>3. session = 0 => uplink' = uplink
  BY <1>1 DEF PollOutgoing, Transmit
<1> QED
  BY <1>1, <1>2, <1>3 DEF Ordinary

LEMMA OrdinaryEffect ==
  ASSUME PollPubAck \/ PollError \/ BackoffElapsed \/ BackoffShutdown \/ StateChanged
           \/ GracefulShutdown \/ DrainAbandoned
  PROVE  Ordinary
<1> USE DEF brokerVars, channelVars, transportVars
<1>1. CASE PollPubAck
  <2>1. pc' # "ConnAck"
    BY <1>1, HandledPlace DEF PollPubAck
  <2> QED
    BY <1>1, <2>1 DEF PollPubAck, Ordinary
<1>2. CASE PollError
  BY <1>2 DEF PollError, Ordinary
<1>3. CASE BackoffElapsed
  BY <1>3 DEF BackoffElapsed, Ordinary
<1>4. CASE BackoffShutdown
  BY <1>4 DEF BackoffShutdown, Ordinary
<1>5. CASE StateChanged
  <2>1. pc' # "ConnAck"
    BY <1>5 DEF StateChanged, PublishCurrentState, Perform
  <2> QED
    BY <1>5, <2>1 DEF StateChanged, Ordinary
<1>6. CASE GracefulShutdown
  <2>1. pc' # "ConnAck"
    BY <1>6 DEF GracefulShutdown, Perform
  <2> QED
    BY <1>6, <2>1 DEF GracefulShutdown, Ordinary
<1>7. CASE DrainAbandoned
  BY <1>7 DEF DrainAbandoned, Ordinary
<1> QED
  BY <1>1, <1>2, <1>3, <1>4, <1>5, <1>6, <1>7

\* A step of the supervisor keeps the invariant.
LEMMA MqttTaskInv == IInv /\ MqttTask => IInv'
<1> SUFFICES ASSUME IInv, MqttTask PROVE IInv'
  OBVIOUS
<1> USE DEF IInv, WorkerInv, SchedulerInv, SessionInv, MainInv, ExitedInv
<1>1. /\ main # "Exited" /\ SupervisorStep
      /\ scheduler' = scheduler /\ worker' = worker /\ taken' = taken /\ job' = job /\ main' = main
  BY DEF MqttTask, Running, collectionVars, daemonVars
<1>2. CASE Ordinary
  BY <1>1, <1>2 DEF Ordinary
<1>3. CASE PollConnAck
  <2>1. /\ request' = request /\ shutdown' = shutdown /\ epoch < MaxConnections
        /\ epoch' = epoch + 1 /\ session' = epoch + 1
    BY <1>3 DEF PollConnAck, Accept
  <2> QED
    BY <1>1, <2>1, TransportAssumption
<1>4. CASE RequestFresh
  <2>1. /\ pc = "ConnAck" /\ request' = request + 1 /\ shutdown' = shutdown
        /\ epoch' = epoch /\ session' = session /\ uplink' = uplink
    BY <1>4 DEF RequestFresh, RequestCollection, brokerVars
  <2>2. pc' # "ConnAck"
    BY <1>4 DEF RequestFresh, Perform
  <2> QED
    BY <1>1, <2>1, <2>2
<1> QED
  BY <1>1, <1>2, <1>3, <1>4, OutgoingEffect, OrdinaryEffect DEF SupervisorStep

\* The scheduler and the worker keep it.
LEMMA SchedulerTaskInv == IInv /\ SchedulerTask => IInv'
<1> SUFFICES ASSUME IInv, SchedulerTask PROVE IInv'
  OBVIOUS
<1> USE DEF IInv, WorkerInv, SchedulerInv, SessionInv, MainInv, ExitedInv, supervisorVars,
            transportVars, daemonVars, channelVars, collectionVars
<1>1. main # "Exited" /\ pc # "ConnAck" /\ UNCHANGED <<supervisorVars, transportVars, daemonVars>>
  BY DEF SchedulerTask, Running
<1>2. CASE SchedulerStart
  BY <1>1, <1>2 DEF SchedulerStart, RequestCollection
<1>3. CASE SchedulerStop
  BY <1>1, <1>3 DEF SchedulerStop
<1>4. CASE SchedulerTick
  BY <1>1, <1>4 DEF SchedulerTick, RequestCollection
<1> QED
  BY <1>2, <1>3, <1>4 DEF SchedulerTask, SchedulerStep

LEMMA WorkerThreadInv == IInv /\ WorkerThread => IInv'
<1> SUFFICES ASSUME IInv, WorkerThread PROVE IInv'
  OBVIOUS
<1> USE DEF IInv, WorkerInv, SchedulerInv, SessionInv, MainInv, ExitedInv, supervisorVars,
            transportVars, daemonVars, channelVars
<1>1. main # "Exited" /\ UNCHANGED <<supervisorVars, transportVars, daemonVars>>
  BY DEF WorkerThread, Running
<1>2. CASE WorkerTake(epoch)
  <2>1. /\ UNCHANGED channelVars /\ scheduler' = scheduler /\ taken' = request /\ taken # request
        /\ job' = [id |-> request, seen |-> epoch]
    BY <1>2 DEF WorkerTake
  <2>2. job'.id # 0
    BY <2>1
  <2>3. job' # NoState
    BY <2>2 DEF NoState
  <2> QED
    BY <1>1, <2>1, <2>3
<1>3. CASE WorkerMarkBusy
  BY <1>1, <1>3 DEF WorkerMarkBusy
<1>4. CASE WorkerSend
  BY <1>1, <1>4 DEF WorkerSend
<1>5. CASE WorkerCollectFails
  BY <1>1, <1>5 DEF WorkerCollectFails
<1>6. CASE WorkerClearBusy
  BY <1>1, <1>6 DEF WorkerClearBusy
<1>7. CASE WorkerStop(MqttSender)
  BY <1>1, <1>7 DEF WorkerStop
<1> QED
  BY <1>2, <1>3, <1>4, <1>5, <1>6, <1>7 DEF WorkerThread, WorkerStep

\* The network and the broker keep it.
LEMMA NetworkInv == IInv /\ NetworkStep /\ UNCHANGED <<collectionVars, daemonVars>> => IInv'
<1> SUFFICES ASSUME IInv, NetworkStep, UNCHANGED <<collectionVars, daemonVars>> PROVE IInv'
  OBVIOUS
<1> USE DEF IInv, WorkerInv, SchedulerInv, SessionInv, MainInv, ExitedInv, supervisorVars,
            daemonVars, channelVars, collectionVars
<1>1. CASE BrokerReceive /\ UNCHANGED <<supervisorVars, channelVars>>
  <2>1. uplink # <<>> /\ session # 0 /\ UNCHANGED <<epoch, queue, conn, inflight>>
    BY <1>1 DEF BrokerReceive
  <2>2. session' = 0 => uplink' = <<>>
    BY <1>1, <2>1 DEF BrokerReceive, BrokerTakes
  <2>3. conn = 0 => downlink' = downlink
    BY <1>1, <2>1 DEF BrokerReceive, BrokerTakes
  <2> QED
    BY <1>1, <2>1, <2>2, <2>3
<1>2. CASE BrokerDrops /\ UNCHANGED <<supervisorVars, channelVars>>
  BY <1>2 DEF BrokerDrops
<1>3. CASE HandshakeAbandoned
  <2>1. /\ pc = "Loop" /\ epoch < MaxConnections /\ epoch' = epoch + 1 /\ session' = epoch + 1
        /\ UNCHANGED <<supervisorVars, channelVars>>
    BY <1>3 DEF HandshakeAbandoned, Accept
  <2> QED
    BY <2>1, TransportAssumption
<1> QED
  BY <1>1, <1>2, <1>3 DEF NetworkStep, BrokerStep

\* So does the main future, and every end of the process.
LEMMA MainStepInv ==
  IInv /\ (Signal \/ TaskEnds \/ DrainTimeout \/ Exit \/ Crash \/ Restart) => IInv'
<1> SUFFICES ASSUME IInv, Signal \/ TaskEnds \/ DrainTimeout \/ Exit \/ Crash \/ Restart PROVE IInv'
  OBVIOUS
<1> USE DEF IInv, WorkerInv, SchedulerInv, SessionInv, MainInv, ExitedInv, supervisorVars,
            transportVars, channelVars, collectionVars, brokerVars
<1>1. ASSUME NEW cause, Completed(cause) PROVE IInv'
  BY <1>1 DEF Completed, SendShutdown
<1>2. CASE DrainTimeout
  BY <1>2 DEF DrainTimeout
<1>3. ASSUME NEW outcome, End(outcome) PROVE IInv'
  BY <1>3 DEF End, ForgetProcess, CloseClient
<1>4. CASE Restart
  BY <1>4 DEF Restart
<1> QED
  BY <1>1, <1>2, <1>3, <1>4 DEF Signal, TaskEnds, Exit, Crash

LEMMA InitInv == Init => IInv
  BY TransportAssumption
     DEF Init, InitSupervisor, InitChannels, InitClient, InitBroker, InitCollection,
         IInv, WorkerInv, SchedulerInv, SessionInv, MainInv, ExitedInv

LEMMA NextInv == IInv /\ [Next]_vars => IInv'
<1>1. IInv /\ UNCHANGED vars => IInv'
  BY DEF IInv, WorkerInv, SchedulerInv, SessionInv, MainInv, ExitedInv, vars, supervisorVars,
         transportVars, daemonVars, channelVars, collectionVars
<1> QED
  BY <1>1, MqttTaskInv, SchedulerTaskInv, WorkerThreadInv, NetworkInv, MainStepInv DEF Next

-----------------------------------------------------------------------------
(***************************************************************************)
(* Step by step, the daemon does what SupervisedPublishing allows.  The    *)
(* two share the supervisor, the client, the network and the broker; the   *)
(* tasks of the daemon take the place of StateSource.                      *)
(***************************************************************************)
Work == IF worker \in {"Taken", "Collecting"} THEN job ELSE NoState

LEMMA SameSupervisor == SupervisorStep => Publishing!SupervisorStep
  BY Zenon
     DEF Quiet, Publishing!Quiet, Emit, Publishing!Emit, Enter, Publishing!Enter, Await,
         Publishing!Await, Connected, Publishing!Connected, OutgoingPublish,
         Publishing!OutgoingPublish, PublishAcknowledged, Publishing!PublishAcknowledged,
         StateAllowed, Publishing!StateAllowed, StateAvailable, Publishing!StateAvailable,
         Shutdown, Publishing!Shutdown, Disconnected, Publishing!Disconnected, ConnectionLost,
         Publishing!ConnectionLost, AcceptsState, Publishing!AcceptsState, IsOnline,
         Publishing!IsOnline, IsStopped, Publishing!IsStopped, TakeBecameOnline,
         Publishing!TakeBecameOnline, QueuedPhases, Publishing!QueuedPhases, NoPacket,
         Publishing!NoPacket, SupervisorStep, Publishing!SupervisorStep, PollConnAck,
         Publishing!PollConnAck, RequestFresh, Publishing!RequestFresh, PollOutgoing,
         Publishing!PollOutgoing, PollPubAck, Publishing!PollPubAck, PollError,
         Publishing!PollError, BackoffElapsed, Publishing!BackoffElapsed, BackoffShutdown,
         Publishing!BackoffShutdown, StateChanged, Publishing!StateChanged, GracefulShutdown,
         Publishing!GracefulShutdown, DrainAbandoned, Publishing!DrainAbandoned, Perform,
         Publishing!Perform, HandleEvent, Publishing!HandleEvent, EndDrainTurn,
         Publishing!EndDrainTurn, EndIteration, Publishing!EndIteration, PublishCurrentState,
         Publishing!PublishCurrentState, Polling, Publishing!Polling, NextAttempt,
         Publishing!NextAttempt, NoState, Publishing!NoState, RequestCollection,
         Publishing!RequestCollection, Accept, Publishing!Accept, Will, Publishing!Will,
         CloseClient, Publishing!CloseClient, Transmit, Publishing!Transmit, supervisorVars,
         Publishing!supervisorVars, channelVars, Publishing!channelVars, transportVars,
         Publishing!transportVars, clientVars, Publishing!clientVars, brokerVars,
         Publishing!brokerVars

LEMMA SameNetwork == NetworkStep => Publishing!NetworkStep
  BY Zenon
     DEF NetworkStep, Publishing!NetworkStep, BrokerStep, Publishing!BrokerStep, BrokerReceive,
         Publishing!BrokerReceive, BrokerTakes, Publishing!BrokerTakes, BrokerDrops,
         Publishing!BrokerDrops, HandshakeAbandoned, Publishing!HandshakeAbandoned, Accept,
         Publishing!Accept, Will, Publishing!Will, supervisorVars, Publishing!supervisorVars,
         channelVars, Publishing!channelVars, clientVars, Publishing!clientVars

\* What StateSource's two variables are here.
LEMMA SourceKept ==
  ASSUME worker' = worker, job' = job, taken' = taken
  PROVE  UNCHANGED Publishing!sourceVars
  BY DEF Publishing!sourceVars

LEMMA MqttTaskSimulated == MqttTask => Publishing!Next
<1> SUFFICES ASSUME MqttTask PROVE Publishing!Next
  OBVIOUS
<1>1. UNCHANGED Publishing!sourceVars
  BY SourceKept DEF MqttTask, collectionVars
<1> QED
  BY <1>1, SameSupervisor DEF MqttTask, Publishing!Next

LEMMA NetworkSimulated == NetworkStep /\ UNCHANGED <<collectionVars, daemonVars>> => Publishing!Next
<1> SUFFICES ASSUME NetworkStep, UNCHANGED <<collectionVars, daemonVars>> PROVE Publishing!Next
  OBVIOUS
<1>1. UNCHANGED Publishing!sourceVars
  BY SourceKept DEF collectionVars
<1> QED
  BY <1>1, SameNetwork DEF Publishing!Next

\* The first request and every tick are a Schedule: the bound on ticks leaves
\* room for one request per connection before the first.
LEMMA SchedulerSimulated == IInv /\ SchedulerTask => Publishing!Next \/ UNCHANGED Publishing!vars
<1> SUFFICES ASSUME IInv, SchedulerTask PROVE Publishing!Next \/ UNCHANGED Publishing!vars
  OBVIOUS
<1> USE DEF supervisorVars, transportVars, daemonVars, channelVars, collectionVars,
            Publishing!supervisorVars, Publishing!transportVars
<1>1. pc # "ConnAck" /\ UNCHANGED <<supervisorVars, transportVars>>
  BY DEF SchedulerTask
<1>2. ASSUME request < MaxTicks + MaxConnections + 1, request' = request + 1,
             UNCHANGED <<states, unseen, shutdown>>, worker' = worker, job' = job, taken' = taken
      PROVE  Publishing!Next
  <2>1. UNCHANGED Publishing!sourceVars
    BY <1>2, SourceKept
  <2>2. Publishing!Schedule
    BY <1>2, <2>1 DEF Publishing!Schedule, Publishing!RequestCollection
  <2>3. Publishing!SourceStep
    BY <1>1, <1>2, <2>2 DEF Publishing!SourceStep
  <2> QED
    BY <2>3 DEF Publishing!Next
<1>3. CASE SchedulerStart
  <2>1. request < MaxTicks + MaxConnections + 1
    BY <1>3, TransportAssumption, TicksAssumption DEF SchedulerStart, IInv, WorkerInv, SchedulerInv
  <2> QED
    BY <1>2, <1>3, <2>1 DEF SchedulerStart, RequestCollection
<1>4. CASE request < MaxTicks /\ SchedulerTick
  <2>1. request < MaxTicks + MaxConnections + 1
    BY <1>4, TransportAssumption, TicksAssumption DEF IInv, WorkerInv
  <2> QED
    BY <1>2, <1>4, <2>1 DEF SchedulerTick, RequestCollection
<1>5. CASE SchedulerStop
  <2>1. UNCHANGED <<channelVars, worker, taken, job>>
    BY <1>5 DEF SchedulerStop
  <2>2. UNCHANGED Publishing!sourceVars
    BY <2>1, SourceKept
  <2> QED
    BY <1>1, <2>1, <2>2 DEF Publishing!vars, Publishing!channelVars
<1> QED
  BY <1>3, <1>4, <1>5 DEF SchedulerTask, SchedulerStep

\* Taking a request is Observe, sending the state Deliver and a failure Abandon.
LEMMA WorkerSimulated == IInv /\ WorkerThread => Publishing!Next \/ UNCHANGED Publishing!vars
<1> SUFFICES ASSUME IInv, WorkerThread PROVE Publishing!Next \/ UNCHANGED Publishing!vars
  OBVIOUS
<1>1. UNCHANGED <<supervisorVars, transportVars>>
  BY DEF WorkerThread
<1>2. /\ UNCHANGED <<pc, machine, status, attempt>>
      /\ UNCHANGED <<Publishing!supervisorVars, Publishing!transportVars>>
  BY <1>1 DEF supervisorVars, transportVars, Publishing!supervisorVars, Publishing!transportVars
<1>3. request \in Nat /\ taken \in Nat /\ taken <= request
  BY DEF IInv, WorkerInv
<1>4. worker \in {"Taken", "Collecting"} => job # NoState
  BY DEF IInv, WorkerInv
<1>5. ASSUME UNCHANGED <<channelVars, taken>>, Work' = Work PROVE UNCHANGED Publishing!vars
  BY <1>2, <1>5 DEF Publishing!vars, Publishing!channelVars, channelVars, Publishing!sourceVars, Work,
     Publishing!NoState, NoState
<1>6. CASE WorkerTake(epoch)
  <2>1. Publishing!Observe(epoch)
    BY <1>3, <1>6
       DEF WorkerTake, Publishing!Observe, Publishing!NoState, NoState, channelVars, Publishing!channelVars
  <2> QED
    BY <1>2, <2>1 DEF Publishing!Next, Publishing!SourceStep
<1>7. CASE WorkerMarkBusy
  BY <1>5, <1>7 DEF WorkerMarkBusy, Work
<1>8. CASE WorkerSend
  <2>1. Publishing!Deliver
    BY <1>4, <1>8
       DEF WorkerSend, SendState, Publishing!Deliver, Publishing!SendState, Publishing!NoState, NoState
  <2> QED
    BY <1>2, <2>1 DEF Publishing!Next, Publishing!SourceStep
<1>9. CASE WorkerCollectFails
  <2>1. Publishing!Abandon
    BY <1>4, <1>9
       DEF WorkerCollectFails, Publishing!Abandon, Publishing!NoState, NoState, channelVars,
           Publishing!channelVars
  <2> QED
    BY <1>2, <2>1 DEF Publishing!Next, Publishing!SourceStep
<1>10. CASE WorkerClearBusy
  BY <1>5, <1>10 DEF WorkerClearBusy, Work
<1>11. CASE WorkerStop(MqttSender)
  BY <1>5, <1>11 DEF WorkerStop, Work
<1> QED
  BY <1>6, <1>7, <1>8, <1>9, <1>10, <1>11 DEF WorkerThread, WorkerStep

\* The end of the select is RequestShutdown, every end of the process a Crash,
\* and a start after it finds nothing left: Restart.
LEMMA MainSimulated ==
  IInv /\ (Signal \/ TaskEnds \/ DrainTimeout \/ Exit \/ Crash \/ Restart)
    => Publishing!Next \/ UNCHANGED Publishing!vars
<1> SUFFICES ASSUME IInv, Signal \/ TaskEnds \/ DrainTimeout \/ Exit \/ Crash \/ Restart
             PROVE  Publishing!Next \/ UNCHANGED Publishing!vars
  OBVIOUS
<1> USE DEF supervisorVars, transportVars, channelVars, collectionVars, brokerVars,
            Publishing!supervisorVars, Publishing!transportVars, Publishing!channelVars,
            Publishing!brokerVars
<1>1. ASSUME NEW cause, Completed(cause) PROVE Publishing!Next
  <2>1. UNCHANGED Publishing!sourceVars
    BY <1>1, SourceKept DEF Completed
  <2>2. Publishing!RequestShutdown
    BY <1>1, <2>1
       DEF Completed, SendShutdown, Publishing!RequestShutdown, Publishing!SendShutdown, IInv, MainInv
  <2> QED
    BY <2>2 DEF Publishing!Next
<1>2. CASE DrainTimeout
  <2>1. UNCHANGED Publishing!sourceVars
    BY <1>2, SourceKept DEF DrainTimeout
  <2> QED
    BY <1>2, <2>1 DEF DrainTimeout, Publishing!vars
<1>3. ASSUME NEW outcome, End(outcome) PROVE Publishing!Next
  <2>1. Publishing!Crash
    BY <1>3
       DEF End, ForgetProcess, CloseClient, NewMachine, NoPacket, NoState, Publishing!Crash,
           Publishing!ForgetProcess, Publishing!CloseClient, Publishing!NewMachine,
           Publishing!NoPacket, Publishing!NoState
  <2> QED
    BY <2>1 DEF Publishing!Next
<1>4. CASE Restart
  <2>1. Publishing!Restart
    BY <1>4
       DEF Restart, IInv, ExitedInv, NewMachine, NoPacket, NoState, Publishing!Restart,
           Publishing!ForgetProcess, Publishing!CloseClient, Publishing!NewMachine,
           Publishing!NoPacket, Publishing!NoState
  <2> QED
    BY <2>1 DEF Publishing!Next
<1> QED
  BY <1>1, <1>2, <1>3, <1>4 DEF Signal, TaskEnds, Exit, Crash

LEMMA StutterSimulated == UNCHANGED vars => UNCHANGED Publishing!vars
<1> SUFFICES ASSUME UNCHANGED vars PROVE UNCHANGED Publishing!vars
  OBVIOUS
<1> USE DEF vars, supervisorVars, transportVars, channelVars, collectionVars
<1>1. UNCHANGED Publishing!sourceVars
  BY SourceKept
<1> QED
  BY <1>1 DEF Publishing!vars, Publishing!supervisorVars, Publishing!transportVars,
              Publishing!channelVars

\* The initial states agree.
LEMMA InitSimulated == Init => Publishing!Init
  BY DEF Init, InitSupervisor, InitChannels, InitClient, InitBroker, InitCollection, Publishing!Init,
         Publishing!InitSupervisor, Publishing!InitChannels, Publishing!InitClient,
         Publishing!InitBroker, Publishing!InitSource, NewMachine, NoPacket, NoState,
         Publishing!NewMachine, Publishing!NoPacket, Publishing!NoState

\* The whole process of src/src/daemon.rs, with its tasks, its worker thread, its
\* signals, crashes and restarts, behaves as a supervisor fed by a StateSource,
\* for every bound.
THEOREM Refinement == Spec => ImplementsPublishing
<1>1. IInv /\ [Next]_vars => [Publishing!Next]_(Publishing!vars)
  BY MqttTaskSimulated, NetworkSimulated, SchedulerSimulated, WorkerSimulated, MainSimulated,
     StutterSimulated DEF Next
<1>2. Spec => Publishing!Spec
  BY InitInv, NextInv, InitSimulated, <1>1, PTL DEF Spec, Publishing!Spec
<1> QED
  BY <1>2 DEF ImplementsPublishing

-----------------------------------------------------------------------------
(***************************************************************************)
(* What is proved of SupervisedPublishing, about the daemon.               *)
(***************************************************************************)
Proved == INSTANCE SupervisedProofs WITH
            work <- IF worker \in {"Taken", "Collecting"} THEN job ELSE NoState,
            MaxTicks <- MaxTicks + MaxConnections + 1

\* The theorems of SupervisedProofs need of the constants what the daemon has.
LEMMA ProvedAssumptions ==
  /\ Proved!PacketIdsAssumption /\ Proved!TransportAssumption
  /\ Proved!RetryAssumption /\ Proved!TicksAssumption
<1>1. Proved!PacketIdsAssumption
  BY PacketIdsAssumption DEF Proved!PacketIdsAssumption, Proved!NoPacket, NoPacket
<1>2. Proved!TransportAssumption
  BY TransportAssumption DEF Proved!TransportAssumption
<1>3. Proved!RetryAssumption
  BY RetryAssumption DEF Proved!RetryAssumption
<1>4. Proved!TicksAssumption
  BY TransportAssumption, TicksAssumption DEF Proved!TicksAssumption
<1> QED
  BY <1>1, <1>2, <1>3, <1>4

\* The specification they are about is the one the daemon implements.
LEMMA SameInit == Publishing!Init => Proved!Init
  BY Zenon
     DEF Publishing!Init, Proved!Init, Publishing!InitSupervisor, Proved!InitSupervisor,
         Publishing!InitChannels, Proved!InitChannels, Publishing!InitClient, Proved!InitClient,
         Publishing!InitBroker, Proved!InitBroker, Publishing!InitSource, Proved!InitSource,
         Publishing!NewMachine, Proved!NewMachine, Publishing!NoPacket, Proved!NoPacket,
         Publishing!NoState, Proved!NoState

LEMMA SameNext == [Publishing!Next]_(Publishing!vars) => [Proved!Next]_(Proved!vars)
  BY Zenon
     DEF Publishing!Next, Proved!Next, Publishing!SourceStep, Proved!SourceStep,
         Publishing!Schedule, Proved!Schedule, Publishing!Observe, Proved!Observe,
         Publishing!Deliver, Proved!Deliver, Publishing!Abandon, Proved!Abandon,
         Publishing!RequestShutdown, Proved!RequestShutdown, Publishing!Crash, Proved!Crash,
         Publishing!Restart, Proved!Restart, Publishing!ForgetProcess, Proved!ForgetProcess,
         Publishing!vars, Proved!vars, Publishing!sourceVars, Proved!sourceVars,
         Publishing!Quiet, Proved!Quiet, Publishing!Emit, Proved!Emit, Publishing!Enter,
         Proved!Enter, Publishing!Await, Proved!Await, Publishing!Connected, Proved!Connected,
         Publishing!OutgoingPublish, Proved!OutgoingPublish, Publishing!PublishAcknowledged,
         Proved!PublishAcknowledged, Publishing!StateAllowed, Proved!StateAllowed,
         Publishing!StateAvailable, Proved!StateAvailable, Publishing!Shutdown, Proved!Shutdown,
         Publishing!Disconnected, Proved!Disconnected, Publishing!ConnectionLost,
         Proved!ConnectionLost, Publishing!AcceptsState, Proved!AcceptsState,
         Publishing!IsOnline, Proved!IsOnline, Publishing!IsStopped, Proved!IsStopped,
         Publishing!TakeBecameOnline, Proved!TakeBecameOnline, Publishing!QueuedPhases,
         Proved!QueuedPhases, Publishing!NoPacket, Proved!NoPacket, Publishing!NewMachine,
         Proved!NewMachine, Publishing!SupervisorStep, Proved!SupervisorStep,
         Publishing!PollConnAck, Proved!PollConnAck, Publishing!RequestFresh,
         Proved!RequestFresh, Publishing!PollOutgoing, Proved!PollOutgoing,
         Publishing!PollPubAck, Proved!PollPubAck, Publishing!PollError, Proved!PollError,
         Publishing!BackoffElapsed, Proved!BackoffElapsed, Publishing!BackoffShutdown,
         Proved!BackoffShutdown, Publishing!StateChanged, Proved!StateChanged,
         Publishing!GracefulShutdown, Proved!GracefulShutdown, Publishing!DrainAbandoned,
         Proved!DrainAbandoned, Publishing!Perform, Proved!Perform, Publishing!HandleEvent,
         Proved!HandleEvent, Publishing!EndDrainTurn, Proved!EndDrainTurn,
         Publishing!EndIteration, Proved!EndIteration, Publishing!PublishCurrentState,
         Proved!PublishCurrentState, Publishing!Polling, Proved!Polling, Publishing!NextAttempt,
         Proved!NextAttempt, Publishing!NoState, Proved!NoState, Publishing!RequestCollection,
         Proved!RequestCollection, Publishing!SendState, Proved!SendState,
         Publishing!SendShutdown, Proved!SendShutdown, Publishing!Accept, Proved!Accept,
         Publishing!Will, Proved!Will, Publishing!CloseClient, Proved!CloseClient,
         Publishing!Transmit, Proved!Transmit, Publishing!NetworkStep, Proved!NetworkStep,
         Publishing!BrokerStep, Proved!BrokerStep, Publishing!BrokerReceive,
         Proved!BrokerReceive, Publishing!BrokerTakes, Proved!BrokerTakes,
         Publishing!BrokerDrops, Proved!BrokerDrops, Publishing!HandshakeAbandoned,
         Proved!HandshakeAbandoned, Publishing!supervisorVars, Proved!supervisorVars,
         Publishing!channelVars, Proved!channelVars, Publishing!transportVars,
         Proved!transportVars, Publishing!clientVars, Proved!clientVars, Publishing!brokerVars,
         Proved!brokerVars

LEMMA SpecProved == Spec => Proved!Spec
<1>1. Spec => Publishing!Spec
  BY Refinement DEF ImplementsPublishing
<1> QED
  BY <1>1, SameInit, SameNext, PTL DEF Publishing!Spec, Proved!Spec

\* What holds on the wire and in the request channel.
WireSafe ==
  /\ ControlQueueAvailable /\ FreshState /\ BootstrapOrder /\ NoGhostOnline
  /\ DisconnectConfirmed /\ OfflineIsFinal /\ StatesInOrder /\ NoLostState

\* Whatever the tasks of src/src/daemon.rs, signals, crashes and restarts do to
\* the process, for every bound: the request channel never fills, states are
\* fresh and in order, the bootstrap and the stop keep their order, no state is
\* overlooked and the broker never keeps "online" for a daemon without a session.
THEOREM DaemonWireSafe == Spec => []WireSafe
<1>1. /\ Proved!ControlQueueAvailable => ControlQueueAvailable
      /\ Proved!FreshState => FreshState
      /\ Proved!BootstrapOrder => BootstrapOrder
      /\ Proved!NoGhostOnline => NoGhostOnline
      /\ Proved!DisconnectConfirmed => DisconnectConfirmed
      /\ Proved!OfflineIsFinal => OfflineIsFinal
      /\ Proved!StatesInOrder => StatesInOrder
  BY Zenon
     DEF Proved!ControlQueueAvailable, ControlQueueAvailable, Proved!FreshState, FreshState,
         Proved!BootstrapOrder, BootstrapOrder, Proved!NoGhostOnline, NoGhostOnline,
         Proved!DisconnectConfirmed, DisconnectConfirmed, Proved!OfflineIsFinal, OfflineIsFinal,
         Proved!StatesInOrder, StatesInOrder
<1>2. Proved!NoLostState => NoLostState
  BY Zenon
     DEF Proved!NoLostState, NoLostState, Proved!AcceptsState, AcceptsState,
         Proved!StateAllowed, StateAllowed, Proved!NoState, NoState
<1>3. Spec => [](/\ Proved!ControlQueueAvailable /\ Proved!FreshState /\ Proved!BootstrapOrder
                /\ Proved!NoGhostOnline /\ Proved!DisconnectConfirmed /\ Proved!OfflineIsFinal
                /\ Proved!StatesInOrder /\ Proved!NoLostState)
  BY SpecProved, ProvedAssumptions, Proved!QueueNeverFull, Proved!StatesAreFresh,
     Proved!BootstrapInOrder, Proved!NeverGhostOnline, Proved!DisconnectAfterOffline,
     Proved!OfflineStays, Proved!StatesOrdered, Proved!NoStateLost, PTL
<1> QED
  BY <1>1, <1>2, <1>3, PTL DEF WireSafe

-----------------------------------------------------------------------------
(***************************************************************************)
(* The scheduler and the worker of CollectionService, which share their    *)
(* variables with those of the daemon.                                     *)
(***************************************************************************)
CONSTANT MaxRequests

VARIABLE mqttSender

Service == INSTANCE CollectionService

\* A step of the collection side as StateSource sees it.
SourceStep ==
  \/ Service!Source!Schedule
  \/ Service!Source!Observe(request)
  \/ Service!Source!Deliver
  \/ Service!Source!Abandon
  \/ UNCHANGED <<request, states, Service!Source!sourceVars>>

\* The worker's request is never ahead of the channel, and its job is a message.
LEMMA ServiceWorker == WorkerInv /\ [Service!Next]_(Service!vars) => WorkerInv'
<1> SUFFICES ASSUME WorkerInv, [Service!Next]_(Service!vars) PROVE WorkerInv'
  OBVIOUS
<1> USE DEF WorkerInv, Service!channelVars, Service!collectionVars
<1>1. CASE Service!WorkerTake(request)
  <2>1. job'.id # 0 /\ taken' = request /\ request' = request
    BY <1>1 DEF Service!WorkerTake
  <2> QED
    BY <2>1 DEF NoState
<1>2. CASE Service!WorkerMarkBusy \/ Service!WorkerSend \/ Service!WorkerCollectFails
             \/ Service!WorkerClearBusy \/ Service!WorkerStop(mqttSender)
  BY <1>2 DEF Service!WorkerMarkBusy, Service!WorkerSend, Service!WorkerCollectFails,
              Service!WorkerClearBusy, Service!WorkerStop
<1>3. CASE Service!SchedulerStep \/ Service!Tick
  BY <1>3 DEF Service!SchedulerStep, Service!Tick, Service!SchedulerStart, Service!SchedulerStop,
              Service!SchedulerTick, Service!RequestCollection
<1>4. CASE Service!ForeignRequest \/ Service!Read \/ Service!StopRequested
             \/ Service!SenderDropped \/ Service!Ended \/ UNCHANGED Service!vars
  BY <1>4 DEF Service!ForeignRequest, Service!Read, Service!StopRequested, Service!SenderDropped,
              Service!Ended, Service!vars, Service!RequestCollection
<1> QED
  BY <1>1, <1>2, <1>3, <1>4 DEF Service!Next, Service!WorkerStep

\* Every step of scheduler and worker is one of StateSource or invisible to it.
LEMMA ServiceStep == WorkerInv /\ [Service!Next]_(Service!vars) => SourceStep
<1> SUFFICES ASSUME WorkerInv, [Service!Next]_(Service!vars) PROVE SourceStep
  OBVIOUS
<1> USE DEF WorkerInv, Service!channelVars, Service!collectionVars, SourceStep,
            Service!Source!sourceVars, Service!Source!channelVars
<1>1. CASE Service!WorkerTake(request)
  BY <1>1 DEF Service!WorkerTake, Service!Source!Observe, Service!NoState, Service!Source!NoState
<1>2. CASE Service!WorkerSend
  BY <1>2 DEF Service!WorkerSend, Service!Source!Deliver, Service!SendState,
              Service!Source!SendState, Service!NoState, Service!Source!NoState, NoState
<1>3. CASE Service!WorkerCollectFails
  BY <1>3 DEF Service!WorkerCollectFails, Service!Source!Abandon, Service!NoState,
              Service!Source!NoState, NoState
<1>4. CASE Service!WorkerMarkBusy \/ Service!WorkerClearBusy \/ Service!WorkerStop(mqttSender)
  BY <1>4 DEF Service!WorkerMarkBusy, Service!WorkerClearBusy, Service!WorkerStop
<1>5. CASE Service!SchedulerStart \/ Service!Tick \/ Service!ForeignRequest
  BY <1>5 DEF Service!SchedulerStart, Service!Tick, Service!SchedulerTick, Service!ForeignRequest,
              Service!RequestCollection, Service!Source!Schedule, Service!Source!RequestCollection
<1>6. CASE Service!SchedulerStop \/ Service!Read \/ Service!StopRequested
             \/ Service!SenderDropped \/ Service!Ended \/ UNCHANGED Service!vars
  BY <1>6 DEF Service!SchedulerStop, Service!Read, Service!StopRequested, Service!SenderDropped,
              Service!Ended, Service!vars
<1> QED
  BY <1>1, <1>2, <1>3, <1>4, <1>5, <1>6 DEF Service!Next, Service!WorkerStep, Service!SchedulerStep

\* However scheduler, worker and other requests interleave, collection_worker of
\* src/src/daemon.rs takes ever later requests, answers each with a state
\* observed after it was taken, and delivers nothing else.
THEOREM SourceImplemented == Service!Spec => Service!ImplementsStateSource
<1>1. Service!Init => WorkerInv /\ Service!Source!InitSource
  BY DEF Service!Init, Service!InitChannels, Service!InitCollection, WorkerInv,
         Service!Source!InitSource, Service!NoState, Service!Source!NoState
<1> QED
  BY <1>1, ServiceWorker, ServiceStep, PTL
     DEF Service!Spec, Service!ImplementsStateSource, SourceStep
=============================================================================
