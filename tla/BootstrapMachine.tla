-------------------------- MODULE BootstrapMachine --------------------------
(***************************************************************************)
(* The pure protocol machine of src/src/mqtt.rs (struct BootstrapMachine). *)
(* Every operator is one method: it takes the machine before the call and  *)
(* returns the machine after it together with the ProtocolAction, if any,  *)
(* that the caller has to perform.  Rust's phase payloads (the awaited     *)
(* packet identifier, skip_queued_publish) are the fields expected and     *)
(* skip, which are neutral in every phase that carries no payload.         *)
(***************************************************************************)
EXTENDS Naturals

CONSTANT PacketIds  \* the non-zero identifiers a QoS 1 publication can get

\* Identifier 0 marks a QoS 0 publication (mqtt.rs tests packet_id against 0).
NoPacket == 0

ASSUME PacketIdsAssumption == NoPacket \notin PacketIds

QueuedPhases == {"DiscoveryQueued", "OnlineQueued", "StateQueued"}
AckPhases    == {"DiscoveryAwaitAck", "OnlineAwaitAck", "ShutdownAwaitOfflineAck"}
Phases       == QueuedPhases \cup AckPhases \cup
                {"Disconnected", "AwaitFreshState", "Online",
                 "ShutdownAwaitOfflineOutgoing", "DisconnectQueued", "Stopped"}

ProtocolActions == {"discovery", "online", "state", "offline", "disconnect"}

Machines == [phase: Phases, expected: PacketIds \cup {NoPacket}, skip: BOOLEAN,
             required: Nat, last: Nat,
             bootstrapQueued: BOOLEAN, becameOnline: BOOLEAN]

NewMachine == [phase |-> "Disconnected", expected |-> NoPacket, skip |-> FALSE,
               required |-> 0, last |-> 0,
               bootstrapQueued |-> FALSE, becameOnline |-> FALSE]

\* The result of a method that returns None, and of one that returns an action.
Quiet(m)          == [machine |-> m, action |-> "none"]
Emit(m, action)   == [machine |-> m, action |-> action]

\* Assignment to self.phase: the payload of the old phase goes with it.
Enter(m, phase) ==
  [m EXCEPT !.phase = phase, !.expected = NoPacket, !.skip = FALSE]
Await(m, phase, packet) ==
  [m EXCEPT !.phase = phase, !.expected = packet, !.skip = FALSE]

-----------------------------------------------------------------------------
Connected(m, request) ==
  Emit([Enter(m, "DiscoveryQueued") EXCEPT !.required = request,
          !.bootstrapQueued = FALSE, !.becameOnline = FALSE], "discovery")

\* Mutation of OutgoingPublish: "online" counts as done once it is sent.
OutgoingOnlineIsEnough(m, packet) ==
  CASE m.phase = "DiscoveryQueued" /\ packet # NoPacket ->
         Await(m, "DiscoveryAwaitAck", packet)
    [] m.phase = "OnlineQueued" -> Enter(m, "AwaitFreshState")
    [] m.phase = "StateQueued" -> Enter(m, "Online")
    [] OTHER -> m

OutgoingPublish(m, packet) ==
  CASE m.phase = "DiscoveryQueued" /\ packet # NoPacket ->
         Await(m, "DiscoveryAwaitAck", packet)
    [] m.phase = "OnlineQueued" /\ packet # NoPacket ->
         Await(m, "OnlineAwaitAck", packet)
    [] m.phase = "StateQueued" /\ packet = NoPacket ->
         [Enter(m, "Online") EXCEPT !.becameOnline = m.bootstrapQueued,
                                    !.bootstrapQueued = FALSE]
    [] m.phase = "ShutdownAwaitOfflineOutgoing" /\ m.skip ->
         Enter(m, "ShutdownAwaitOfflineOutgoing")
    [] m.phase = "ShutdownAwaitOfflineOutgoing" /\ ~m.skip /\ packet # NoPacket ->
         Await(m, "ShutdownAwaitOfflineAck", packet)
    [] OTHER -> m

PublishAcknowledged(m, packet) ==
  CASE m.phase = "DiscoveryAwaitAck" /\ m.expected = packet ->
         Emit(Enter(m, "OnlineQueued"), "online")
    [] m.phase = "OnlineAwaitAck" /\ m.expected = packet ->
         Quiet(Enter(m, "AwaitFreshState"))
    [] m.phase = "ShutdownAwaitOfflineAck" /\ m.expected = packet ->
         Emit(Enter(m, "DisconnectQueued"), "disconnect")
    [] OTHER -> Quiet(m)

\* Mutations of StateAllowed: any state ends the bootstrap; a state is repeated.
AnyStateAllowed(m, request) ==
  \/ m.phase = "AwaitFreshState"
  \/ m.phase = "Online" /\ request > m.last
SameStateAllowed(m, request) ==
  \/ m.phase = "AwaitFreshState" /\ request >= m.required
  \/ m.phase = "Online" /\ request >= m.last

\* The two phases in which a state is wanted differ in what is fresh enough.
StateAllowed(m, request) ==
  \/ m.phase = "AwaitFreshState" /\ request >= m.required
  \/ m.phase = "Online" /\ request > m.last

\* Mutation of StateAvailable: the phase does not wait for the publication.
StateAvailableUnqueued(m, request) ==
  IF StateAllowed(m, request)
    THEN Emit([Enter(m, "Online") EXCEPT !.last = request], "state")
    ELSE Quiet(m)

StateAvailable(m, request) ==
  IF StateAllowed(m, request)
    THEN Emit([Enter(m, "StateQueued") EXCEPT
                 !.bootstrapQueued = (m.phase = "AwaitFreshState"),
                 !.last = request, !.becameOnline = FALSE], "state")
    ELSE Quiet(m)

\* Mutations of Shutdown: DISCONNECT without "offline"; a publication that is
\* still queued is taken for the "offline"; the phase stays as it was.
ShutdownAtOnce(m) ==
  IF m.phase = "Disconnected" THEN Quiet(Enter(m, "Stopped"))
                              ELSE Emit(Enter(m, "DisconnectQueued"), "disconnect")
ShutdownWithoutSkip(m) ==
  IF m.phase = "Disconnected" THEN Quiet(Enter(m, "Stopped"))
                              ELSE Emit(Enter(m, "ShutdownAwaitOfflineOutgoing"), "offline")
ShutdownKeepsPhase(m) ==
  IF m.phase = "Disconnected" THEN Quiet(Enter(m, "Stopped")) ELSE Emit(m, "offline")

Shutdown(m) ==
  CASE m.phase \in {"Disconnected", "Stopped"} -> Quiet(Enter(m, "Stopped"))
    [] m.phase \in {"ShutdownAwaitOfflineOutgoing", "ShutdownAwaitOfflineAck",
                    "DisconnectQueued"} -> Quiet(m)
    [] OTHER -> Emit([m EXCEPT !.phase = "ShutdownAwaitOfflineOutgoing",
                               !.expected = NoPacket,
                               !.skip = (m.phase \in QueuedPhases)], "offline")

Disconnected(m) == Enter(m, "Stopped")

ConnectionLost(m) ==
  [Enter(m, "Disconnected") EXCEPT !.bootstrapQueued = FALSE,
                                   !.becameOnline = FALSE]

AcceptsState(m) == m.phase \in {"AwaitFreshState", "Online"}

IsOnline(m) == m.phase = "Online"

IsStopped(m) == m.phase = "Stopped"

\* just_became_online takes the flag: the machine it leaves behind.
TakeBecameOnline(m) == [m EXCEPT !.becameOnline = FALSE]
=============================================================================
