-------------------------- MODULE MqttProbeProofs ---------------------------
(***************************************************************************)
(* OutcomeTrue and NoTakeover of MqttProbe, for any number of probes, any  *)
(* length of the identifier and any capacity of the request channel.       *)
(***************************************************************************)
EXTENDS MqttProbe, TLAPS, SequenceTheorems

\* Where probe_mqtt is says what it knows: nothing is in the request channel
\* before the CONNACK is read, and what was read is an acceptance.
Knows(p) ==
  /\ probe[p] \in {"idle", "dialing", "waiting"} => requests[p] = 0
  /\ probe[p] = "connected" => link[p] = "open"
  /\ link[p] = "open" => probe[p] \in {"connected", "ended"}
  /\ probe[p] \in {"idle", "dialing"} => link[p] = "none"
  /\ outcome[p] # "none" => probe[p] = "ended"

IInv == TypeOK /\ (\A p \in Probes : Knows(p)) /\ OutcomeTrue

\* It holds before the first probe.
LEMMA InitInv == Init => IInv
<1> SUFFICES ASSUME Init PROVE IInv
  OBVIOUS
<1>1. TypeOK
  BY DEF Init, InitProbe, TypeOK, Clients
<1>2. (\A p \in Probes : Knows(p)) /\ OutcomeTrue
  BY DEF Init, InitProbe, Knows, OutcomeTrue
<1> QED
  BY <1>1, <1>2 DEF IInv

\* Every step of a probe or of the broker keeps it.
LEMMA StepInv == IInv /\ [Next]_vars => IInv'
<1> SUFFICES ASSUME IInv, [Next]_vars PROVE IInv'
  OBVIOUS
<1> USE ProbeAssumption DEF IInv, TypeOK, Knows, OutcomeTrue, Polling, Failures, Clients
<1>1. ASSUME NEW p \in Probes, Start(p) PROVE IInv'
  BY <1>1 DEF Start
<1>2. ASSUME NEW p \in Probes, Dial(p) PROVE IInv'
  BY <1>2 DEF Dial
<1>3. ASSUME NEW p \in Probes, PollConnAck(p) PROVE IInv'
  BY <1>3 DEF PollConnAck, Return
<1>4. ASSUME NEW p \in Probes, PollDisconnect(p) PROVE IInv'
  BY <1>4 DEF PollDisconnect, Return
<1>5. ASSUME NEW p \in Probes, NEW error \in ErrorsOf(p), PollError(p, error) PROVE IInv'
  BY <1>5 DEF PollError, Return, ErrorsOf, ClassifyConnectionError
<1>6. ASSUME NEW p \in Probes, Timeout(p) PROVE IInv'
  BY <1>6 DEF Timeout, Return
<1>7. ASSUME NEW p \in Probes, BrokerAccepts(p) PROVE IInv'
  BY <1>7 DEF BrokerAccepts, TakeOver
<1>8. ASSUME NEW p \in Probes, NEW answer \in {"refused", "other"}, BrokerRefuses(p, answer) PROVE IInv'
  BY <1>8 DEF BrokerRefuses
<1>9. ASSUME NEW p \in Probes, BrokerCloses(p) PROVE IInv'
  BY <1>9 DEF BrokerCloses
<1>10. CASE DaemonConnects
  BY <1>10 DEF DaemonConnects, TakeOver
<1>11. CASE DaemonLeaves
  BY <1>11 DEF DaemonLeaves
<1>12. CASE UNCHANGED vars
  BY <1>12 DEF vars
<1> QED
  BY <1>1, <1>2, <1>3, <1>4, <1>5, <1>6, <1>7, <1>8, <1>9, <1>10, <1>11, <1>12 DEF Next, ProbeSteps

\* What probe_mqtt says of the credentials is what the broker said, for any
\* number of probes at once, wherever a connection breaks and an answer is lost.
THEOREM OutcomesTrue == Spec => []OutcomeTrue
<1>1. IInv => OutcomeTrue
  BY DEF IInv
<1> QED
  BY InitInv, StepInv, <1>1, PTL DEF Spec

-----------------------------------------------------------------------------
\* How much of the configured identifier unique_probe_client_id keeps.
Kept == IF IdLength < IdLimit - 3 THEN IdLength ELSE IdLimit - 3

LEMMA KeptBounds == Kept \in Nat /\ Kept <= IdLength
  BY ProbeAssumption DEF Kept

\* Whatever is cut off the configured identifier, the suffix of a probe's
\* identifier is whole and stands at the same place for every probe.
LEMMA ProbeIdShape ==
  ASSUME NEW p, NEW number
  PROVE  LET id == UniqueProbeClientId(p, number) IN
         Len(id) = Kept + 3 /\ id[Kept + 1] = "-check" /\ id[Kept + 2] = p
<1> DEFINE suffix == <<"-check", p, number>>
           S      == {"c", "-check", p, number}
           head   == SubSeq(ClientId, 1, Kept)
<1>1. ClientId \in Seq(S) /\ Len(ClientId) = IdLength
  BY ProbeAssumption DEF ClientId
<1>2. suffix \in Seq(S) /\ Len(suffix) = 3 /\ suffix[1] = "-check" /\ suffix[2] = p
  OBVIOUS
<1>3. head \in Seq(S) /\ Len(head) = Kept
  BY <1>1, KeptBounds, ProbeAssumption, SubSeqProperties
<1>4. UniqueProbeClientId(p, number) = head \o suffix
  BY <1>1, <1>2 DEF UniqueProbeClientId, Kept
<1> HIDE DEF suffix, S, head
<1>5. Len(head \o suffix) = Len(head) + Len(suffix)
      /\ \A i \in 1..(Len(head) + Len(suffix)) :
           (head \o suffix)[i] = IF i <= Len(head) THEN head[i] ELSE suffix[i - Len(head)]
  BY <1>2, <1>3, ConcatProperties
<1> QED
  BY <1>2, <1>3, <1>4, <1>5, KeptBounds

\* No two clients of the broker share an identifier.
LEMMA IdsDiffer ==
  ASSUME NEW x \in Clients, NEW y \in Clients, x # y
  PROVE  IdOf(x) # IdOf(y)
<1>1. ASSUME NEW p \in Probes PROVE IdOf(p) # ClientId
  <2>1. ClientId \in Seq({"c"}) /\ Len(ClientId) = IdLength /\ \A i \in 1..IdLength : ClientId[i] = "c"
    BY ProbeAssumption DEF ClientId
  <2>2. Len(IdOf(p)) = Kept + 3 /\ IdOf(p)[Kept + 1] = "-check"
    BY ProbeIdShape, ProbeAssumption DEF IdOf
  <2> QED
    BY <2>1, <2>2, KeptBounds, ProbeAssumption
<1>2. ASSUME NEW p \in Probes PROVE IdOf(p)[Kept + 2] = p
  BY ProbeIdShape, ProbeAssumption DEF IdOf
<1>3. IdOf(Daemon) = ClientId
  BY DEF IdOf
<1> QED
  BY <1>1, <1>2, <1>3 DEF Clients

\* Letting a client in leaves every open session open.
LEMMA TakeOverKeeps ==
  ASSUME NEW client \in Clients, serving \subseteq Clients
  PROVE  serving \subseteq TakeOver(client)
  BY IdsDiffer DEF TakeOver

Coexist == serving' \subseteq serving \/ serving \subseteq serving'

\* No step opens one session at the expense of another.
LEMMA StepCoexist == IInv /\ [Next]_vars => Coexist
<1> SUFFICES ASSUME IInv, [Next]_vars PROVE Coexist
  OBVIOUS
<1>1. serving \subseteq Clients
  BY DEF IInv, TypeOK
<1>2. ASSUME NEW p \in Probes, BrokerAccepts(p) PROVE Coexist
  BY <1>1, <1>2, TakeOverKeeps DEF BrokerAccepts, Coexist, Clients
<1>3. CASE DaemonConnects
  BY <1>1, <1>3, TakeOverKeeps DEF DaemonConnects, Coexist, Clients
<1>4. ASSUME NEW p \in Probes, BrokerCloses(p) PROVE Coexist
  BY <1>4 DEF BrokerCloses, Coexist
<1>5. CASE DaemonLeaves
  BY <1>5 DEF DaemonLeaves, Coexist
<1>6. CASE UNCHANGED serving
  BY <1>6 DEF Coexist
<1> QED
  BY <1>2, <1>3, <1>4, <1>5, <1>6
     DEF Next, ProbeSteps, Start, Dial, PollConnAck, PollDisconnect, PollError, Timeout,
         BrokerRefuses, vars

\* Any number of checks at once, beside the daemon: whatever the length of the
\* configured identifier, no CONNECT of a probe closes another client's session.
THEOREM SessionsCoexist == Spec => NoTakeover
<1>1. IInv /\ [Next]_vars => [Coexist]_serving
  BY StepCoexist
<1>2. Spec => [][Coexist]_serving
  BY InitInv, StepInv, <1>1, PTL DEF Spec
<1> QED
  BY <1>2 DEF NoTakeover, Coexist
=============================================================================
