---------------------------- MODULE StateExpiry -----------------------------
(***************************************************************************)
(* Collection in time.  collection_scheduler and collection_worker of      *)
(* src/src/daemon.rs as in Collection, with the seconds that pass between  *)
(* their steps, and the expiry Home Assistant was told of in the discovery *)
(* document.  A connection may be lost and made again at any time; states  *)
(* of requests made before it are discarded (state_available of mqtt.rs).  *)
(*                                                                         *)
(* Time is counted down to what is due.  A step that is ready is not       *)
(* delayed, except that the scheduler's task may run Lateness seconds      *)
(* after its timer.                                                        *)
(***************************************************************************)
EXTENDS Timing

CONSTANTS
  Intervals,  \* bound: collector.interval_seconds to be tried
  Timeouts,   \* bound: collector.command_timeout_seconds to be tried
  Lateness,   \* the most a due tick waits for the runtime
  Overhead    \* the most a collection takes beside its waits

\* The margin a valid configuration leaves is one second.
ASSUME ExpiryAssumption ==
  /\ Intervals \subseteq Int /\ Timeouts \subseteq Int
  /\ Lateness \in Nat /\ Overhead \in Nat
  /\ Lateness + Overhead <= 1

VARIABLES
  interval, timeout,  \* the configuration, constant
  untilTick,  \* seconds to the next tick of the interval; negative when late
  requested,  \* the request channel holds a request not yet taken
  worker,     \* "waiting", "collecting", "overtaken": collecting what will be
              \* discarded, or "sent": done with busy still set
  left,       \* the most the collection under way may still take
  baseline,   \* previous_cpu is Some
  link,       \* "offline", "online", or "fresh": online and a state published
  age         \* seconds since the last state, or since the connection

schedule == <<interval, timeout, untilTick>>
expiryVars == <<schedule, requested, worker, left, baseline, link, age>>

Busy == worker # "waiting"
Collecting == worker \in {"collecting", "overtaken"}

\* The first request is made at once and the first tick comes a period later.
ExpiryInit ==
  /\ interval \in Intervals /\ timeout \in Timeouts
  /\ ValidateCollector(interval, timeout)
  /\ untilTick = interval
  /\ requested = TRUE
  /\ worker = "waiting" /\ left = 0 /\ baseline = FALSE
  /\ link = "offline" /\ age = 0

-----------------------------------------------------------------------------
\* interval.tick(): a tick is skipped while busy is set.  The ticks stay on the
\* multiples of the period (MissedTickBehavior::Skip).
SchedulerTick ==
  /\ untilTick <= 0
  /\ untilTick' = untilTick + interval
  /\ IF Busy THEN UNCHANGED requested ELSE requested' = TRUE
  /\ UNCHANGED <<interval, timeout, worker, left, baseline, link, age>>

\* borrow_and_update, and collect up to what it may wait for: the CPU counters
\* may be readable or not, the thermal zone there or not.
WorkerTake(readable, zone) ==
  /\ worker = "waiting" /\ requested
  /\ requested' = FALSE
  /\ worker' = IF link = "offline" THEN "overtaken" ELSE "collecting"
  /\ left' = Longest(timeout, readable /\ ~baseline, zone, Overhead)
  /\ baseline' = (baseline \/ readable)
  /\ UNCHANGED <<schedule, link, age>>

\* send_replace, and the supervisor publishes the state if it may.
WorkerSend ==
  /\ Collecting
  /\ worker' = "sent"
  /\ left' = 0
  /\ IF worker = "collecting"
     THEN link' = "fresh" /\ age' = 0
     ELSE UNCHANGED <<link, age>>
  /\ UNCHANGED <<schedule, requested, baseline>>

WorkerClearBusy ==
  /\ worker = "sent"
  /\ worker' = "waiting"
  /\ UNCHANGED <<schedule, requested, left, baseline, link, age>>

\* Mutation of Connect: the next tick will do.
ConnectWithoutRequest ==
  /\ link = "offline"
  /\ link' = "online" /\ age' = 0
  /\ UNCHANGED <<schedule, requested, worker, left, baseline>>

\* The bootstrap of a connection asks for a state of its own.
Connect ==
  /\ link = "offline"
  /\ link' = "online" /\ age' = 0
  /\ requested' = TRUE
  /\ UNCHANGED <<schedule, worker, left, baseline>>

\* What is under way answers no request of a later connection.
ConnectionLost ==
  /\ link # "offline"
  /\ link' = "offline" /\ age' = 0
  /\ worker' = IF Collecting THEN "overtaken" ELSE worker
  /\ UNCHANGED <<schedule, requested, left, baseline>>

\* A second passes, unless a step is due.
Pass ==
  /\ untilTick > -Lateness
  /\ worker = "waiting" => ~requested
  /\ Collecting => left > 0
  /\ worker # "sent"
  /\ untilTick' = untilTick - 1
  /\ left' = IF Collecting THEN left - 1 ELSE left
  /\ age' = IF link = "offline" THEN age ELSE age + 1
  /\ UNCHANGED <<interval, timeout, requested, worker, baseline, link>>

ExpiryNext ==
  \/ SchedulerTick
  \/ \E readable, zone \in BOOLEAN : WorkerTake(readable, zone)
  \/ WorkerSend
  \/ WorkerClearBusy
  \/ Connect
  \/ ConnectionLost
  \/ Pass

ExpirySpec == ExpiryInit /\ [][ExpiryNext]_expiryVars

-----------------------------------------------------------------------------
\* The longest collection of this configuration.
Slowest == Longest(timeout, TRUE, FALSE, Overhead)

\* What each variable may hold.
ExpiryTypeOK ==
  /\ ValidateCollector(interval, timeout)
  /\ interval \in Int /\ timeout \in Int
  /\ untilTick \in -Lateness..interval
  /\ requested \in BOOLEAN /\ baseline \in BOOLEAN
  /\ worker \in {"waiting", "collecting", "overtaken", "sent"}
  /\ left \in 0..Slowest
  /\ link \in {"offline", "online", "fresh"}
  /\ age \in Nat

\* While the service is connected and has published a state, Home Assistant
\* gets the next one before the last expires: with every configuration that
\* validate accepts, although ticks are skipped during a collection and both
\* firmware commands may run into their deadline (collection_scheduler,
\* expire_after_seconds).
NeverExpires == link = "fresh" => age <= ExpireAfterSeconds(interval)

\* A new connection gets its first state within two collections: the one under
\* way, whose state is discarded, and its own; it never waits for a tick.
RecoversSoon == link = "online" => age <= 2 * Slowest
=============================================================================
