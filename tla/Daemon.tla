------------------------------- MODULE Daemon -------------------------------
(***************************************************************************)
(* run and run_service of src/src/daemon.rs: the main future spawns the    *)
(* collection worker, the scheduler and the MQTT supervisor, waits for the *)
(* first of a signal or an ended task, tells everyone to stop and joins    *)
(* them; systemd starts the process again after it ended.                  *)
(***************************************************************************)
EXTENDS MqttSupervisor, Collection

CONSTANT MaxTicks  \* bound: request counter above which no tick is issued

ASSUME TicksAssumption == MaxTicks \in Nat

VARIABLES
  main,        \* "Serving", "Joining", "Exited"
  completion,  \* what ended the select of run_service
  drained,     \* COLLECTOR_DRAIN_TIMEOUT expired before the worker ended
  result       \* what run returned: "none", "ok", "error"; "crash" if killed

daemonVars  == <<main, completion, drained, result>>
vars == <<supervisorVars, channelVars, transportVars, collectionVars, daemonVars>>

Init ==
  /\ InitSupervisor
  /\ InitChannels
  /\ InitClient
  /\ InitBroker
  /\ InitCollection
  /\ main = "Serving"
  /\ completion = "none"
  /\ drained = FALSE
  /\ result = "none"

-----------------------------------------------------------------------------
Running == main # "Exited"

SchedulerEnded == scheduler = "Stopped"
MqttEnded      == pc \in {"Done", "Failed"}
WorkerEnded    == worker \in {"Stopped", "Failed"}

\* The request channel keeps a sender as long as the supervisor's future lives.
MqttSender == ~MqttEnded

\* The tasks.  Main, scheduler and supervisor share the runtime's only thread,
\* so none of them runs inside the supervisor's CONNACK branch.
MqttTask == Running /\ SupervisorStep /\ UNCHANGED <<collectionVars, daemonVars>>

SchedulerTask ==
  /\ Running /\ pc # "ConnAck"
  /\ SchedulerStep \/ (request < MaxTicks /\ SchedulerTick)
  /\ UNCHANGED <<supervisorVars, transportVars, daemonVars>>

WorkerThread ==
  /\ Running
  /\ WorkerStep(epoch, MqttSender)
  /\ UNCHANGED <<supervisorVars, transportVars, daemonVars>>

\* The first branch of the biased select that is ready.
Completed(cause) ==
  /\ main = "Serving" /\ pc # "ConnAck"
  /\ main' = "Joining"
  /\ completion' = cause
  /\ SendShutdown
  /\ UNCHANGED <<request, states, unseen, drained, result,
                 supervisorVars, transportVars, collectionVars>>

\* shutdown_signal returns: a signal arrived, or its handler failed.
Signal == Completed("signal") \/ Completed("signalError")

\* Mutation of TaskEnds: nobody watches the collector task.
TaskEndsWithoutCollector ==
  /\ MqttEnded \/ SchedulerEnded
  /\ Completed(IF MqttEnded THEN "mqtt" ELSE "scheduler")

TaskEnds ==
  /\ MqttEnded \/ SchedulerEnded \/ WorkerEnded
  /\ Completed(CASE MqttEnded -> "mqtt"
                 [] ~MqttEnded /\ SchedulerEnded -> "scheduler"
                 [] OTHER -> "collector")

\* drain_collector gives up on a worker that has not ended.
DrainTimeout ==
  /\ main = "Joining" /\ pc # "ConnAck"
  /\ completion # "collector" /\ ~WorkerEnded /\ ~drained
  /\ drained' = TRUE
  /\ UNCHANGED <<main, completion, result, supervisorVars, channelVars,
                 transportVars, collectionVars>>

\* The process ends, with the worker's thread if it is still there, and what it
\* knew is gone.
End(outcome) ==
  /\ main' = "Exited" /\ result' = outcome
  /\ completion' = "none" /\ drained' = FALSE
  /\ pc' = "Done" /\ status' = "Stopped"
  /\ ForgetProcess
  /\ scheduler' = "Starting" /\ worker' = "Waiting"
  /\ taken' = 0 /\ job' = NoState /\ busy' = FALSE
  /\ UNCHANGED brokerVars

\* Every join has returned; run_service combines the results.  An error
\* of the worker counts only if it was joined.
Exit ==
  /\ main = "Joining"
  /\ MqttEnded /\ SchedulerEnded /\ (WorkerEnded \/ drained)
  /\ End(IF completion = "signal" /\ pc = "Done" /\ (drained \/ worker # "Failed")
         THEN "ok" ELSE "error")

\* The process is killed or aborts; the kernel closes its connection.
Crash == Running /\ End("crash")

\* Restart=always of the systemd unit.
Restart ==
  /\ main = "Exited"
  /\ main' = "Serving" /\ result' = "none"
  /\ pc' = "Loop" /\ status' = "Disconnected"
  /\ UNCHANGED <<completion, drained, machine, attempt, channelVars,
                 transportVars, collectionVars>>

Next ==
  \/ MqttTask
  \/ SchedulerTask
  \/ WorkerThread
  \/ NetworkStep /\ UNCHANGED <<collectionVars, daemonVars>>
  \/ Signal
  \/ TaskEnds
  \/ DrainTimeout
  \/ Exit
  \/ Crash
  \/ Restart

Spec == Init /\ [][Next]_vars

-----------------------------------------------------------------------------
\* What each variable may hold, for the variables this module adds.
TypeOK ==
  /\ TypeOKChannels
  /\ TypeOKCollection
  /\ main \in {"Serving", "Joining", "Exited"}
  /\ completion \in {"none", "signal", "signalError", "mqtt", "scheduler", "collector"}
  /\ drained \in BOOLEAN
  /\ result \in {"none", "ok", "error", "crash"}

\* The whole daemon behaves as a supervisor fed by an abstract StateSource: the
\* results stated and proved for SupervisedPublishing hold of it.
Publishing == INSTANCE SupervisedPublishing WITH
                work <- IF worker \in {"Taken", "Collecting"} THEN job ELSE NoState,
                MaxTicks <- MaxTicks + MaxConnections + 1

\* Every behaviour of the daemon is one of SupervisedPublishing.
ImplementsPublishing == Publishing!Spec

-----------------------------------------------------------------------------
(***************************************************************************)
(* Fairness.  The runtime polls ready tasks and timers fire; the broker    *)
(* can be reached again and again.  PeerFairness adds what others owe the  *)
(* runtime: collections end, the broker takes what it is sent and notices  *)
(* a closed connection.                                                    *)
(***************************************************************************)
SupervisorProgress ==
  \/ RequestFresh
  \/ \E packet \in PacketIds \cup {NoPacket} : PollOutgoing(packet)
  \/ PollPubAck
  \/ conn # 0 /\ session # conn /\ PollError
  \/ BackoffElapsed
  \/ StateChanged
  \/ GracefulShutdown
  \/ DrainAbandoned

Fairness ==
  /\ WF_vars(Running /\ SupervisorProgress /\ UNCHANGED <<collectionVars, daemonVars>>)
  /\ SF_vars(Running /\ PollConnAck /\ UNCHANGED <<collectionVars, daemonVars>>)
  /\ WF_vars(/\ Running /\ pc # "ConnAck" /\ SchedulerStep
             /\ UNCHANGED <<supervisorVars, transportVars, daemonVars>>)
  /\ WF_vars(TaskEnds)
  /\ WF_vars(DrainTimeout)
  /\ WF_vars(Exit)

PeerFairness ==
  /\ WF_vars(WorkerThread)
  /\ WF_vars(BrokerReceive /\ UNCHANGED <<supervisorVars, channelVars, collectionVars, daemonVars>>)
  /\ WF_vars(/\ session # conn /\ BrokerDrops
             /\ UNCHANGED <<supervisorVars, channelVars, collectionVars, daemonVars>>)

FairSpec == Spec /\ Fairness

\* A stop always completes, whatever the broker and the worker do: the
\* supervisor's three-second limit and the drain timeout bound the joins.  And a
\* failed collection ends the process instead of leaving a daemon that keeps
\* its connection but has nothing to publish.
ProcessEnds == main = "Joining" \/ worker = "Failed" ~> main = "Exited"

\* As long as the broker can still be reached, a serving daemon gets online:
\* discovery, "online" and a fresh state are all published.
EventuallyOnline ==
  PeerFairness =>
    (main = "Serving" /\ (epoch < MaxConnections \/ conn = MaxConnections)
       ~> status = "Online" \/ main # "Serving")

\* After the process has ended, the broker stops showing it as online, unless a
\* new process takes over.
EventuallyOffline ==
  PeerFairness => (main = "Exited" ~> availability # "online" \/ main = "Serving")

-----------------------------------------------------------------------------
(***************************************************************************)
(* The inductive invariant behind ImplementsPublishing.                    *)
(***************************************************************************)

\* The worker is never ahead of the requests, and what it collects answers one.
WorkerInv ==
  /\ request \in Nat /\ taken \in Nat /\ taken <= request
  /\ worker \in {"Taken", "Collecting"} => job # NoState

\* Before the scheduler's first request there is at most one per connection.
SchedulerInv ==
  /\ epoch \in Nat /\ epoch <= MaxConnections
  /\ scheduler = "Starting" => request <= epoch
  /\ scheduler = "Starting" /\ pc = "ConnAck" => request < epoch

\* The broker holds no packet of a session that has ended.
SessionInv == session = 0 => uplink = <<>>

\* Only the end of the select in run_service asks for a stop.
MainInv == main = "Serving" => shutdown = FALSE

\* Nothing of a process is left when the next one starts.
ExitedInv ==
  main = "Exited" =>
    /\ pc = "Done" /\ machine = NewMachine /\ attempt = 0
    /\ request = 0 /\ states = NoState /\ unseen = FALSE /\ shutdown = FALSE
    /\ conn = 0 /\ queue = <<>> /\ inflight = {} /\ downlink = <<>>
    /\ scheduler = "Starting" /\ worker = "Waiting" /\ taken = 0
=============================================================================
