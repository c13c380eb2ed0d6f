------------------------------ MODULE Channels ------------------------------
(***************************************************************************)
(* The watch channels run_service creates (src/src/daemon.rs): a counter   *)
(* of collection requests, the latest collected state and the shutdown     *)
(* flag.  A watch channel keeps only its latest value; a receiver knows    *)
(* whether the value changed since it last marked it seen.  The worker's   *)
(* receiver of requests is in Collection; the supervisor's receiver of     *)
(* states is the flag unseen.                                              *)
(***************************************************************************)
EXTENDS Naturals

VARIABLES
  request,   \* latest collection request identifier, 0 before the first
  states,    \* latest StateMessage, or NoState
  unseen,    \* the supervisor's receiver has not seen the latest state
  shutdown   \* the shutdown flag: set once, never cleared

channelVars == <<request, states, unseen, shutdown>>

\* A StateMessage: its request identifier and, in place of the payload, the
\* stamp of the moment from which the payload was observed.
Messages == [id: Nat, seen: Nat]

\* watch::channel(None).  Identifier 0 is never collected for, so the record
\* with id 0 stands for None.
NoState == [id |-> 0, seen |-> 0]

InitChannels ==
  /\ request = 0
  /\ states = NoState
  /\ unseen = FALSE
  /\ shutdown = FALSE

\* request_collection allocates the next identifier.  The code saturates at
\* 2^64 - 1, far beyond what a process can issue.
RequestCollection == request' = request + 1

\* Sender::send_replace of a new state: every receiver is notified.
SendState(message) == states' = message /\ unseen' = TRUE

\* run_service sets the flag once, whatever completed first.
SendShutdown == shutdown' = TRUE

TypeOKChannels ==
  /\ request \in Nat
  /\ states \in Messages
  /\ unseen \in BOOLEAN
  /\ shutdown \in BOOLEAN
=============================================================================
