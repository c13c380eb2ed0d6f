----------------------------- MODULE Collection -----------------------------
(***************************************************************************)
(* The collection side of src/src/daemon.rs: collection_scheduler, an      *)
(* asynchronous task that asks for a collection at every tick, and         *)
(* collection_worker, a blocking thread that serves the latest request.    *)
(* Requests travel through a watch channel, so requests that arrive during *)
(* a collection are coalesced into the latest one.                         *)
(***************************************************************************)
EXTENDS Channels

VARIABLES
  scheduler,  \* "Starting", "Ticking", "Stopped"
  worker,     \* await point or step of the worker thread, see below
  taken,      \* the request value the worker's receiver last marked seen
  job,        \* the message being collected
  busy        \* the AtomicBool shared by the two

collectionVars == <<scheduler, worker, taken, job, busy>>

InitCollection ==
  /\ scheduler = "Starting"
  /\ worker = "Waiting"
  /\ taken = 0
  /\ job = NoState
  /\ busy = FALSE

-----------------------------------------------------------------------------
\* The first request is not periodic; shutdown may have come before it.
SchedulerStart ==
  /\ scheduler = "Starting" /\ ~shutdown
  /\ scheduler' = "Ticking"
  /\ RequestCollection
  /\ UNCHANGED <<states, unseen, shutdown, worker, taken, job, busy>>

\* interval.tick(): a tick during a collection is skipped.
SchedulerTick ==
  /\ scheduler = "Ticking" /\ ~shutdown
  /\ ~busy
  /\ RequestCollection
  /\ UNCHANGED <<states, unseen, shutdown, collectionVars>>

\* Mutation of SchedulerStop: shutdown is looked at before the first tick only.
SchedulerStopEarlyOnly ==
  /\ scheduler = "Starting" /\ shutdown
  /\ scheduler' = "Stopped"
  /\ UNCHANGED <<channelVars, worker, taken, job, busy>>

SchedulerStop ==
  /\ scheduler # "Stopped" /\ shutdown
  /\ scheduler' = "Stopped"
  /\ UNCHANGED <<channelVars, worker, taken, job, busy>>

-----------------------------------------------------------------------------
\* requests.changed() returned Ok: borrow_and_update reads the latest request.
\* now stamps the beginning of what this collection can observe.
WorkerTake(now) ==
  /\ worker = "Waiting"
  /\ taken # request
  /\ taken' = request
  /\ job' = [id |-> request, seen |-> now]
  /\ worker' = "Taken"
  /\ UNCHANGED <<channelVars, scheduler, busy>>

WorkerMarkBusy ==
  /\ worker = "Taken"
  /\ busy' = TRUE
  /\ worker' = "Collecting"
  /\ UNCHANGED <<channelVars, scheduler, taken, job>>

\* Mutation of WorkerSend: the state answers whatever was requested last.
WorkerSendLatest ==
  /\ worker = "Collecting"
  /\ SendState([id |-> request, seen |-> job.seen])
  /\ worker' = "Sent"
  /\ UNCHANGED <<request, shutdown, scheduler, taken, job, busy>>

\* collect_payload succeeds and the state replaces the latest one ...
WorkerSend ==
  /\ worker = "Collecting"
  /\ SendState(job)
  /\ worker' = "Sent"
  /\ UNCHANGED <<request, shutdown, scheduler, taken, job, busy>>

\* ... or the state cannot be serialised.
WorkerCollectFails ==
  /\ worker = "Collecting"
  /\ worker' = "Failing"
  /\ UNCHANGED <<channelVars, scheduler, taken, job, busy>>

\* Mutation of WorkerClearBusy: requests made meanwhile are marked seen.
WorkerClearBusyAndSeen ==
  /\ worker \in {"Sent", "Failing"}
  /\ busy' = FALSE
  /\ taken' = request
  /\ worker' = IF worker = "Sent" THEN "Waiting" ELSE "Failed"
  /\ UNCHANGED <<channelVars, scheduler, job>>

\* busy is cleared on both paths before the result is looked at.
WorkerClearBusy ==
  /\ worker \in {"Sent", "Failing"}
  /\ busy' = FALSE
  /\ worker' = IF worker = "Sent" THEN "Waiting" ELSE "Failed"
  /\ UNCHANGED <<channelVars, scheduler, taken, job>>

\* requests.changed() fails: nothing new and every sender is gone.
WorkerStop(mqttSender) ==
  /\ worker = "Waiting"
  /\ taken = request
  /\ scheduler = "Stopped" /\ ~mqttSender
  /\ worker' = "Stopped"
  /\ UNCHANGED <<channelVars, scheduler, taken, job, busy>>

SchedulerStep == SchedulerStart \/ SchedulerStop

WorkerStep(now, mqttSender) ==
  \/ WorkerTake(now)
  \/ WorkerMarkBusy
  \/ WorkerSend
  \/ WorkerCollectFails
  \/ WorkerClearBusy
  \/ WorkerStop(mqttSender)

TypeOKCollection ==
  /\ scheduler \in {"Starting", "Ticking", "Stopped"}
  /\ worker \in {"Waiting", "Taken", "Collecting", "Sent", "Failing", "Failed", "Stopped"}
  /\ taken \in Nat
  /\ job \in Messages
  /\ busy \in BOOLEAN
=============================================================================
