----------------------------- MODULE StateSource ----------------------------
(***************************************************************************)
(* What the MQTT supervisor relies on in the collection side of the        *)
(* daemon: a request counter that others may advance, and a worker that    *)
(* takes the latest request, observes the machine from then on, and        *)
(* replaces the latest state.  Collection implements this specification.   *)
(***************************************************************************)
EXTENDS Channels

VARIABLES
  work,   \* the message being collected, or NoState
  taken   \* the last request identifier the worker took

sourceVars == <<work, taken>>

InitSource == work = NoState /\ taken = 0

\* The scheduler asks for a periodic collection.
Schedule ==
  /\ RequestCollection
  /\ UNCHANGED <<states, unseen, shutdown, sourceVars>>

\* The worker takes the latest request; what it reports is read from now on.
Observe(now) ==
  /\ work = NoState
  /\ taken < request
  /\ taken' = request
  /\ work' = [id |-> request, seen |-> now]
  /\ UNCHANGED channelVars

\* The collected state replaces the latest one.
Deliver ==
  /\ work # NoState
  /\ SendState(work)
  /\ work' = NoState
  /\ UNCHANGED <<request, shutdown, taken>>

\* A collection that fails delivers nothing.
Abandon ==
  /\ work # NoState
  /\ work' = NoState
  /\ UNCHANGED <<channelVars, taken>>

TypeOKSource == work \in Messages /\ taken \in Nat
=============================================================================
