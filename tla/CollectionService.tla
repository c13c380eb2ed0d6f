------------------------- MODULE CollectionService --------------------------
(***************************************************************************)
(* Scheduler and worker on their own.  The MQTT supervisor appears as the  *)
(* other sender of requests (it asks on every CONNACK and ends some time   *)
(* after shutdown), run_service as the sender of shutdown.  The stamp of   *)
(* an observation is the request counter when it began.                    *)
(***************************************************************************)
EXTENDS Collection

CONSTANT MaxRequests  \* bound on the request counter

ASSUME RequestsAssumption == MaxRequests \in Nat

VARIABLE mqttSender  \* the supervisor's end of the request channel exists

vars == <<channelVars, collectionVars, mqttSender>>

Init == InitChannels /\ InitCollection /\ mqttSender = TRUE

Tick == request < MaxRequests /\ SchedulerTick /\ UNCHANGED mqttSender

\* The supervisor's request_collection on a CONNACK.
ForeignRequest ==
  /\ mqttSender /\ request < MaxRequests
  /\ RequestCollection
  /\ UNCHANGED <<states, unseen, shutdown, collectionVars, mqttSender>>

\* The supervisor reads the latest state.
Read ==
  /\ unseen
  /\ unseen' = FALSE
  /\ UNCHANGED <<request, states, shutdown, collectionVars, mqttSender>>

StopRequested ==
  /\ ~shutdown
  /\ SendShutdown
  /\ UNCHANGED <<request, states, unseen, collectionVars, mqttSender>>

SenderDropped ==
  /\ shutdown /\ mqttSender
  /\ mqttSender' = FALSE
  /\ UNCHANGED <<channelVars, collectionVars>>

Ended ==
  /\ worker \in {"Stopped", "Failed"} /\ scheduler = "Stopped" /\ ~mqttSender
  /\ UNCHANGED vars

Next ==
  \/ SchedulerStep /\ UNCHANGED mqttSender
  \/ WorkerStep(request, mqttSender) /\ UNCHANGED mqttSender
  \/ Tick
  \/ ForeignRequest
  \/ Read
  \/ StopRequested
  \/ SenderDropped
  \/ Ended

\* The runtime polls a woken task and the kernel runs the worker's thread; a
\* collection ends: its file reads return and its commands have a deadline.
Fairness ==
  /\ WF_vars(SchedulerStep /\ UNCHANGED mqttSender)
  /\ WF_vars(WorkerStep(request, mqttSender) /\ UNCHANGED mqttSender)
  /\ WF_vars(SenderDropped)

Spec == Init /\ [][Next]_vars
FairSpec == Spec /\ Fairness

-----------------------------------------------------------------------------
\* What each variable may hold.
TypeOK == TypeOKChannels /\ TypeOKCollection /\ mqttSender \in BOOLEAN

\* No request is lost: one made while the worker is collecting, or just before
\* shutdown, is answered by a state at least as late, unless the worker fails.
RequestAnswered ==
  \A n \in 1..MaxRequests :
    request >= n ~> states.id >= n \/ worker = "Failed"

\* After shutdown the worker ends: requests.changed() returns an error once the
\* scheduler and the supervisor have dropped their senders.
WorkerEnds == shutdown ~> worker \in {"Stopped", "Failed"}

\* The abstract promise the MQTT supervisor relies on.
Source == INSTANCE StateSource WITH
            work <- IF worker \in {"Taken", "Collecting"} THEN job ELSE NoState

\* Every step is a step of StateSource, or invisible to it.
ImplementsStateSource ==
  /\ Source!InitSource
  /\ [][\/ Source!Schedule
        \/ Source!Observe(request)
        \/ Source!Deliver
        \/ Source!Abandon
        \/ UNCHANGED <<request, states, Source!sourceVars>>
       ]_<<request, states, Source!sourceVars>>
=============================================================================
