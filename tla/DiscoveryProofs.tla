--------------------------- MODULE DiscoveryProofs --------------------------
(***************************************************************************)
(* What the discovery document promises Home Assistant, whatever the       *)
(* configurations RawConfig::validate accepts and whatever the sources of  *)
(* the board hold.                                                         *)
(*                                                                         *)
(* Fleet: TopicsAgree and EntitiesIdentified. FleetInv says that what the  *)
(* broker retains under a topic is the document of some accepted           *)
(* configuration with that topic, and that the services that run have ids  *)
(* of their own: so no start overwrites the document of another service.   *)
(* The rest is about the table of entities and the ids made of it: one of  *)
(* the last three words tells any two keys apart, so that no key ends in   *)
(* another, and a unique id gives away both its key and its device.        *)
(*                                                                         *)
(* Entities: EntitiesHonest. EntitiesInv says that a delivered message is  *)
(* the serialized telemetry of the board that was read. From there every   *)
(* entity is followed on its own: the field its template selects, the      *)
(* source the field was computed from, and the distance that the rounding  *)
(* in between can add.                                                     *)
(***************************************************************************)
EXTENDS Fleet, Entities, TLAPS, SequenceTheorems, FiniteSetTheorems


(***************************************************************************)
(* The topics of an accepted configuration.                                *)
(***************************************************************************)
\* The levels of a topic: texts, and the words the code adds.  (That these are
\* strings as any other is nothing the provers know.)
Levels ==
  Texts \cup {Text(<<"device">>, 6), Text(<<"config">>, 6), Text(<<"state">>, 5),
             Text(<<"availability">>, 12), Text(<<"homeassistant">>, 13)}

\* A topic, of one level or more.
Topics == Seq(Levels) \ {<<>>}

\* A configuration that a service may run with.
Accepted(config) ==
  /\ \E table \in Tables : Deserializable(table) /\ config = RawConfig(table)
  /\ Validate(config)

\* Sequences over a larger set.
LEMMA SeqWider == ASSUME NEW S, NEW T, S \subseteq T, NEW s \in Seq(S) PROVE s \in Seq(T)
  OBVIOUS

\* The words the code adds are levels.
LEMMA WordLevels ==
  /\ Text(<<"device">>, 6) \in Levels /\ Text(<<"config">>, 6) \in Levels
  /\ Text(<<"state">>, 5) \in Levels /\ Text(<<"availability">>, 12) \in Levels
  /\ Text(<<"homeassistant">>, 13) \in Levels
  BY DEF Levels

\* And so are the texts of a file.
LEMMA TextLevels == Texts \subseteq Levels /\ Seq(Texts) \subseteq Seq(Levels)
<1>1. Texts \subseteq Levels
  BY DEF Levels
<1> QED
  BY <1>1

\* The fields a topic is made of, as RawConfig fills them: the id is one of the
\* file's, the prefix may be the default one.
LEMMA AcceptedTypes ==
  ASSUME NEW config, Accepted(config)
  PROVE  /\ config.id \in Texts /\ config.base_topic \in Topics /\ config.discovery_prefix \in Topics
         /\ \E table \in Tables : "id" \in DOMAIN table /\ table["id"] = config.id
<1>1. PICK table \in Tables : Deserializable(table) /\ config = RawConfig(table)
  BY DEF Accepted
<1>2. /\ "id" \in DOMAIN table /\ "base_topic" \in DOMAIN table
      /\ config.id = table["id"] /\ config.base_topic = table["base_topic"]
      /\ config.discovery_prefix = IF "discovery_prefix" \in DOMAIN table
                                   THEN table["discovery_prefix"] ELSE DefaultedFields.discovery_prefix
  BY <1>1 DEF Deserializable, RawConfig, RequiredFields, DefaultedFields
<1>3. config.id \in Texts /\ config.base_topic \in Topics
  BY <1>2, TablesAssumption, TextLevels DEF Topics
<1>4. DefaultedFields.discovery_prefix \in Topics
  <2>1. Text(<<"homeassistant">>, 13) \in Levels
    BY WordLevels
  <2>2. DefaultedFields.discovery_prefix = <<Text(<<"homeassistant">>, 13)>>
    BY DEF DefaultedFields
  <2> QED
    BY <2>1, <2>2 DEF Topics
<1>5. config.discovery_prefix \in Topics
  <2>1. CASE "discovery_prefix" \in DOMAIN table
    BY <1>2, <2>1, TablesAssumption, TextLevels DEF Topics
  <2>2. CASE "discovery_prefix" \notin DOMAIN table
    BY <1>2, <1>4, <2>2
  <2> QED
    BY <2>1, <2>2
<1> QED
  BY <1>2, <1>3, <1>5

\* Validate, without its definition.
LEMMA AcceptedValid == ASSUME NEW config, Accepted(config) PROVE Validate(config)
  BY DEF Accepted

\* Nothing is trimmed from a topic without empty levels.
LEMMA NothingTrimmed ==
  ASSUME NEW levels \in Seq(Levels), \A i \in DOMAIN levels : levels[i].bytes > 0
  PROVE  TrimEnd(levels) = levels
<1> DEFINE S == {0} \cup {i \in DOMAIN levels : levels[i].bytes > 0}
<1>1. DOMAIN levels = 1..Len(levels) /\ Len(levels) \in Nat
  OBVIOUS
<1>2. S = 0..Len(levels)
  BY <1>1
<1> HIDE DEF S
<1>3. Max(S) = Len(levels)
  BY <1>1, <1>2 DEF Max
<1>4. TrimEnd(levels) = SubSeq(levels, 1, Len(levels))
  BY <1>3 DEF TrimEnd, S
<1> QED
  BY <1>4

\* A discovery topic tells the id: it is the last level but one.
LEMMA IdInTopic ==
  ASSUME NEW p \in Seq(Levels), NEW a \in Levels
  PROVE  LET topic == DiscoveryTopic(p, a) IN topic[Len(topic) - 1] = a
<1> DEFINE device == Text(<<"device">>, 6)
           word == Text(<<"config">>, 6)
           s == <<device, a, word>>
<1>1. device \in Levels /\ word \in Levels
  BY WordLevels
<1>2. DiscoveryTopic(p, a) = p \o s
  BY DEF DiscoveryTopic
<1> HIDE DEF device, word
<1>3. s \in Seq(Levels) /\ Len(s) = 3 /\ s[2] = a
  BY <1>1
<1> HIDE DEF s
<1>4. /\ Len(p \o s) = Len(p) + Len(s)
      /\ \A i \in 1..Len(p) + Len(s) : (p \o s)[i] = IF i <= Len(p) THEN p[i] ELSE s[i - Len(p)]
  BY <1>3, ConcatProperties
<1>5. Len(p) \in Nat
  OBVIOUS
<1>6. Len(p \o s) - 1 \in 1..Len(p) + Len(s) /\ ~(Len(p \o s) - 1 <= Len(p))
        /\ (Len(p \o s) - 1) - Len(p) = 2
  BY <1>3, <1>4, <1>5
<1> QED
  BY <1>2, <1>3, <1>4, <1>6

\* Services with different ids have different discovery topics.
LEMMA TopicTellsId ==
  ASSUME NEW p \in Seq(Levels), NEW q \in Seq(Levels), NEW a \in Levels, NEW b \in Levels,
         DiscoveryTopic(p, a) = DiscoveryTopic(q, b)
  PROVE  a = b
  BY IdInTopic

\* validate leaves no topic that MQTT forbids: its levels are checked one by
\* one, and its length with everything that is added to it.
LEMMA TopicsLegal ==
  ASSUME NEW config, Accepted(config)
  PROVE  /\ LegalTopic(DiscoveryTopic(config.discovery_prefix, config.id))
         /\ LegalTopic(StateTopic(config.base_topic))
         /\ LegalTopic(AvailabilityTopic(config.base_topic))
<1> DEFINE Fine(text) == text.bytes > 0 /\ text.has \cap {"wildcard", "control"} = {}
<1>1. /\ config.id \in Levels /\ config.base_topic \in Seq(Levels) /\ config.discovery_prefix \in Seq(Levels)
  BY AcceptedTypes, TextLevels DEF Topics
<1>2. /\ \A i \in DOMAIN config.base_topic : Fine(config.base_topic[i])
      /\ \A i \in DOMAIN config.discovery_prefix : Fine(config.discovery_prefix[i])
      /\ Fine(config.id)
  <2>1. /\ ValidateTopic(config.base_topic) /\ ValidateTopic(config.discovery_prefix)
        /\ ValidateIdentifier(config.id, 64, IdPunctuation)
    <3>1. Validate(config)
      BY AcceptedValid
    <3> QED
      BY <3>1 DEF Validate
  <2>2. \A levels : ValidateTopic(levels) => \A i \in DOMAIN levels : Fine(levels[i])
    BY DEF ValidateTopic
  <2>3. Fine(config.id)
    <3>1. config.id.has = {} /\ config.id.bytes \in 1..64
      BY <2>1, Zenon DEF ValidateIdentifier
    <3> QED
      BY <3>1
  <2> QED
    BY <2>1, <2>2, <2>3
<1>3. /\ Bytes(StateTopic(config.base_topic)) <= MaxMqttField
      /\ Bytes(AvailabilityTopic(config.base_topic)) <= MaxMqttField
      /\ Bytes(DiscoveryTopic(config.discovery_prefix, config.id)) <= MaxMqttField
  <2>1. Validate(config)
    BY AcceptedValid
  <2> QED
    BY <2>1 DEF Validate
<1>6. Fine(Text(<<"device">>, 6)) /\ Fine(Text(<<"config">>, 6)) /\ Fine(Text(<<"state">>, 5))
        /\ Fine(Text(<<"availability">>, 12))
  BY DEF Text
<1> HIDE DEF Fine
<1>5. ASSUME NEW base \in Seq(Levels), NEW text \in Levels, \A i \in DOMAIN base : Fine(base[i]), Fine(text)
      PROVE  \A i \in DOMAIN Append(base, text) : Fine(Append(base, text)[i])
  BY <1>5
<1>8. \A i \in DOMAIN StateTopic(config.base_topic) : Fine(StateTopic(config.base_topic)[i])
  BY <1>1, <1>2, <1>5, <1>6, WordLevels DEF StateTopic
<1>9. \A i \in DOMAIN AvailabilityTopic(config.base_topic) : Fine(AvailabilityTopic(config.base_topic)[i])
  BY <1>1, <1>2, <1>5, <1>6, WordLevels DEF AvailabilityTopic
<1>10. \A i \in DOMAIN DiscoveryTopic(config.discovery_prefix, config.id) :
         Fine(DiscoveryTopic(config.discovery_prefix, config.id)[i])
  <2> DEFINE p == config.discovery_prefix
             s == <<Text(<<"device">>, 6), config.id, Text(<<"config">>, 6)>>
  <2>1. s \in Seq(Levels) /\ Len(s) = 3 /\ \A i \in 1..3 : Fine(s[i])
    BY <1>1, <1>2, <1>6, WordLevels
  <2>2. DiscoveryTopic(p, config.id) = p \o s
    BY DEF DiscoveryTopic
  <2>3. p \in Seq(Levels) /\ \A i \in DOMAIN p : Fine(p[i])
    BY <1>1, <1>2
  <2> HIDE DEF p, s
  <2>4. \A i \in DOMAIN (p \o s) : Fine((p \o s)[i])
    <3>1. Len(p) \in Nat /\ DOMAIN p = 1..Len(p)
      BY <2>3
    <3>2. /\ DOMAIN (p \o s) = 1..Len(p) + 3
          /\ \A i \in 1..Len(p) + 3 : (p \o s)[i] = IF i <= Len(p) THEN p[i] ELSE s[i - Len(p)]
      <4>1. /\ p \o s \in Seq(Levels) /\ Len(p \o s) = Len(p) + Len(s)
            /\ \A i \in 1..Len(p) + Len(s) : (p \o s)[i] = IF i <= Len(p) THEN p[i] ELSE s[i - Len(p)]
        BY <2>1, <2>3, ConcatProperties
      <4>2. DOMAIN (p \o s) = 1..Len(p \o s)
        BY <4>1
      <4> QED
        BY <2>1, <4>1, <4>2
    <3>3. \A i \in 1..Len(p) + 3 : i \in 1..Len(p) \/ (i > Len(p) /\ i - Len(p) \in 1..3)
      BY <3>1
    <3> QED
      BY <2>1, <2>3, <3>1, <3>2, <3>3
  <2> QED
    BY <2>2, <2>4 DEF p
<1> QED
  BY <1>3, <1>8, <1>9, <1>10 DEF LegalTopic, Fine

-----------------------------------------------------------------------------
(***************************************************************************)
(* What the broker retains.                                                *)
(***************************************************************************)
\* The discovery topic of a configuration.
TopicOf(config) == DiscoveryTopic(config.discovery_prefix, config.id)

\* The document retained under the topic is the one of an accepted configuration.
Documents(topic, config) ==
  /\ Accepted(config)
  /\ topic = TopicOf(config)
  /\ retained[topic] = BuildDiscoveryMessage(config).document

\* Every service that runs has its own document retained under its topic, no
\* two have one id, and nothing else is retained but documents of accepted
\* configurations.
FleetInv ==
  /\ service = [b \in Boards |-> service[b]]
  /\ \A b \in Running :
       /\ Accepted(service[b])
       /\ TopicOf(service[b]) \in DOMAIN retained
       /\ retained[TopicOf(service[b])] = BuildDiscoveryMessage(service[b]).document
  /\ \A a, b \in Running : a # b => service[a].id # service[b].id
  /\ \A topic \in DOMAIN retained : \E config : Documents(topic, config)

\* No service runs and nothing is retained.
LEMMA FleetInitially == Init => FleetInv
  BY DEF Init, FleetInv, Running

\* A start overwrites the document of no other service, whose id is another.
LEMMA StartKeeps ==
  ASSUME FleetInv, NEW pi \in Boards, NEW table \in Tables, Start(pi, table)
  PROVE  FleetInv'
<1> DEFINE config == RawConfig(table)
<1>1. Accepted(config)
  BY DEF Start, Accepted
<1>2. /\ \A other \in Running \ {pi} : service[other].id # config.id
      /\ service' = [service EXCEPT ![pi] = config]
      /\ retained' = [t \in DOMAIN retained \cup {TopicOf(config)} |->
                        IF t = TopicOf(config) THEN BuildDiscoveryMessage(config).document ELSE retained[t]]
  BY DEF Start, TopicOf
<1> HIDE DEF config
<1>3. service' = [b \in Boards |-> service'[b]] /\ service'[pi] = config
        /\ \A b \in Boards \ {pi} : service'[b] = service[b]
  BY <1>2 DEF FleetInv
<1>4. Running' \ {pi} \subseteq Running
  BY <1>3 DEF Running
<1>5. ASSUME NEW b \in Running', b # pi
      PROVE  /\ Accepted(service'[b])
             /\ TopicOf(service'[b]) \in DOMAIN retained'
             /\ retained'[TopicOf(service'[b])] = BuildDiscoveryMessage(service'[b]).document
             /\ service'[b].id # config.id
  <2>1. service'[b] = service[b] /\ b \in Running
    BY <1>3, <1>4, <1>5 DEF Running
  <2>2. service[b].id # config.id /\ Accepted(service[b])
    BY <1>2, <1>5, <2>1 DEF FleetInv
  <2>3. TopicOf(service[b]) # TopicOf(config)
    BY <1>1, <2>2, AcceptedTypes, TextLevels, TopicTellsId DEF TopicOf, Topics
  <2> QED
    BY <1>2, <2>1, <2>2, <2>3 DEF FleetInv
<1>6. /\ TopicOf(config) \in DOMAIN retained'
      /\ retained'[TopicOf(config)] = BuildDiscoveryMessage(config).document
  BY <1>2
<1>7. \A b \in Running' :
       /\ Accepted(service'[b])
       /\ TopicOf(service'[b]) \in DOMAIN retained'
       /\ retained'[TopicOf(service'[b])] = BuildDiscoveryMessage(service'[b]).document
  BY <1>1, <1>3, <1>5, <1>6
<1>8. ASSUME NEW a \in Running', NEW b \in Running', a # b PROVE service'[a].id # service'[b].id
  <2>1. CASE a # pi /\ b # pi
    BY <1>3, <1>4, <1>8, <2>1 DEF FleetInv, Running
  <2>2. CASE a = pi \/ b = pi
    BY <1>3, <1>5, <1>8, <2>2
  <2> QED
    BY <2>1, <2>2
<1>9. ASSUME NEW topic \in DOMAIN retained' PROVE \E c : Documents(topic, c)'
  <2>1. CASE topic = TopicOf(config)
    BY <1>1, <1>6, <2>1 DEF Documents, Accepted, TopicOf
  <2>2. CASE topic # TopicOf(config)
    <3>1. topic \in DOMAIN retained /\ retained'[topic] = retained[topic]
      BY <1>2, <1>9, <2>2
    <3>2. PICK c : Documents(topic, c)
      BY <3>1 DEF FleetInv
    <3>3. Documents(topic, c)'
      BY <3>1, <3>2 DEF Documents, Accepted, TopicOf
    <3> QED
      BY <3>3
  <2> QED
    BY <2>1, <2>2
<1> QED
  BY <1>3, <1>7, <1>8, <1>9 DEF FleetInv, Accepted, TopicOf

\* A refused configuration stops the service; what it published is retained.
LEMMA RefuseKeeps ==
  ASSUME FleetInv, NEW pi \in Boards, NEW table \in Tables, Refuse(pi, table)
  PROVE  FleetInv'
<1>1. service' = [service EXCEPT ![pi] = Stopped] /\ retained' = retained
  BY DEF Refuse
<1>2. service' = [b \in Boards |-> service'[b]] /\ service'[pi] = Stopped
        /\ \A b \in Boards \ {pi} : service'[b] = service[b]
  BY <1>1 DEF FleetInv
<1>3. \A b \in Running' : b \in Running /\ service'[b] = service[b]
  BY <1>2 DEF Running, Stopped
<1>4. ASSUME NEW b \in Running'
      PROVE  /\ Accepted(service'[b])
             /\ TopicOf(service'[b]) \in DOMAIN retained'
             /\ retained'[TopicOf(service'[b])] = BuildDiscoveryMessage(service'[b]).document
  BY <1>1, <1>3 DEF FleetInv
<1>5. \A a, b \in Running' : a # b => service'[a].id # service'[b].id
  BY <1>3 DEF FleetInv
<1>6. \A topic \in DOMAIN retained' : \E c : Documents(topic, c)'
  BY <1>1 DEF FleetInv, Documents, Accepted, TopicOf
<1> QED
  BY <1>2, <1>4, <1>5, <1>6 DEF FleetInv, Accepted, TopicOf

\* FleetInv is inductive.
LEMMA FleetStep == FleetInv /\ [Next]_vars => FleetInv'
<1> SUFFICES ASSUME FleetInv, [Next]_vars PROVE FleetInv'
  OBVIOUS
<1>1. ASSUME NEW pi \in Boards, NEW table \in Tables, Refuse(pi, table) PROVE FleetInv'
  BY <1>1, RefuseKeeps
<1>2. ASSUME NEW pi \in Boards, NEW table \in Tables, Start(pi, table) PROVE FleetInv'
  BY <1>2, StartKeeps
<1>3. CASE UNCHANGED vars
  BY <1>3 DEF vars, FleetInv, Running, Documents, Accepted, TopicOf
<1> QED
  BY <1>1, <1>2, <1>3 DEF Next

\* child_topic and the discovery topic are trimmed at their end, the topics of
\* MqttConfig are not: validate leaves nothing to trim.
LEMMA AgreeFromInv == FleetInv => TopicsAgree
<1> SUFFICES ASSUME FleetInv, NEW b \in Running,
                    NEW config, config = service[b], NEW topic, topic = TopicOf(config)
             PROVE  /\ BuildDiscoveryMessage(config).topic = topic
                    /\ retained[topic].state_topic = StateTopic(config.base_topic)
                    /\ retained[topic].availability_topic = AvailabilityTopic(config.base_topic)
                    /\ \A t \in {topic, StateTopic(config.base_topic), AvailabilityTopic(config.base_topic)} :
                         LegalTopic(t)
  BY DEF TopicsAgree, TopicOf
<1>1. Accepted(config) /\ retained[topic] = BuildDiscoveryMessage(config).document
  BY DEF FleetInv
<1>2. TrimEnd(config.base_topic) = config.base_topic /\ TrimEnd(config.discovery_prefix) = config.discovery_prefix
  <2>1. config.base_topic \in Seq(Levels) /\ config.discovery_prefix \in Seq(Levels)
    BY <1>1, AcceptedTypes DEF Topics
  <2>2. Validate(config)
    BY <1>1, AcceptedValid
  <2>3. ValidateTopic(config.base_topic) /\ ValidateTopic(config.discovery_prefix)
    BY <2>2 DEF Validate
  <2>4. \A levels : ValidateTopic(levels) => \A i \in DOMAIN levels : levels[i].bytes > 0
    BY DEF ValidateTopic
  <2> QED
    BY <2>1, <2>3, <2>4, NothingTrimmed
<1>3. BuildDiscoveryMessage(config).topic = topic
  BY <1>2 DEF BuildDiscoveryMessage, TopicOf, DiscoveryTopic
<1>4. /\ retained[topic].state_topic = StateTopic(config.base_topic)
      /\ retained[topic].availability_topic = AvailabilityTopic(config.base_topic)
  BY <1>1, <1>2 DEF BuildDiscoveryMessage, ChildTopic, StateTopic, AvailabilityTopic
<1>5. /\ LegalTopic(topic) /\ LegalTopic(StateTopic(config.base_topic))
      /\ LegalTopic(AvailabilityTopic(config.base_topic))
  BY <1>1, TopicsLegal DEF TopicOf
<1> QED
  BY <1>3, <1>4, <1>5

\* Whatever configuration files are tried and however services are restarted,
\* the retained document names the topics its service publishes on, and MQTT
\* allows them (MqttConfig in config.rs, DiscoverySettings in discovery.rs).
THEOREM TopicsAlwaysAgree == Spec => []TopicsAgree
  BY FleetInitially, FleetStep, AgreeFromInv, PTL DEF Spec

-----------------------------------------------------------------------------
(***************************************************************************)
(* The table of the entities.                                              *)
(***************************************************************************)
\* The keys of build_components.
KeySet == {d.key : d \in COMPONENT_DEFINITIONS}

\* How many words a key has.
WordsOf(key) == Len(key)

\* The word of a key that is n words before its last.
FromEnd(key, n) == key[Len(key) - n]

\* No word of a key is a dash.
Dashless(key) == \A i \in DOMAIN key : key[i] # "-"

\* A key is a sequence of its words.
IsKey(key) == key \in Seq(ToSet(key))

\* The words of a key by their number, from the last: once for each length in
\* the table, so that the provers never look into a key again.
LEMMA OneWord ==
  ASSUME NEW a
  PROVE  /\ WordsOf(<<a>>) = 1 /\ FromEnd(<<a>>, 0) = a
         /\ IsKey(<<a>>) /\ (a # "-" => Dashless(<<a>>))
  BY DEF FromEnd, WordsOf, IsKey, Dashless, ToSet

\* The same of two words,
LEMMA TwoWords ==
  ASSUME NEW a, NEW b
  PROVE  /\ WordsOf(<<a, b>>) = 2 /\ FromEnd(<<a, b>>, 0) = b /\ FromEnd(<<a, b>>, 1) = a
         /\ IsKey(<<a, b>>) /\ (a # "-" /\ b # "-" => Dashless(<<a, b>>))
  BY DEF FromEnd, WordsOf, IsKey, Dashless, ToSet

\* of three,
LEMMA ThreeWords ==
  ASSUME NEW a, NEW b, NEW c
  PROVE  /\ WordsOf(<<a, b, c>>) = 3
         /\ FromEnd(<<a, b, c>>, 0) = c /\ FromEnd(<<a, b, c>>, 1) = b /\ FromEnd(<<a, b, c>>, 2) = a
         /\ IsKey(<<a, b, c>>) /\ (a # "-" /\ b # "-" /\ c # "-" => Dashless(<<a, b, c>>))
  BY DEF FromEnd, WordsOf, IsKey, Dashless, ToSet

\* of four,
LEMMA FourWords ==
  ASSUME NEW a, NEW b, NEW c, NEW d
  PROVE  /\ WordsOf(<<a, b, c, d>>) = 4
         /\ FromEnd(<<a, b, c, d>>, 0) = d /\ FromEnd(<<a, b, c, d>>, 1) = c
         /\ FromEnd(<<a, b, c, d>>, 2) = b
         /\ IsKey(<<a, b, c, d>>)
         /\ a # "-" /\ b # "-" /\ c # "-" /\ d # "-" => Dashless(<<a, b, c, d>>)
  BY DEF FromEnd, WordsOf, IsKey, Dashless, ToSet

\* and of five.
LEMMA FiveWords ==
  ASSUME NEW a, NEW b, NEW c, NEW d, NEW e
  PROVE  /\ WordsOf(<<a, b, c, d, e>>) = 5
         /\ FromEnd(<<a, b, c, d, e>>, 0) = e /\ FromEnd(<<a, b, c, d, e>>, 1) = d
         /\ FromEnd(<<a, b, c, d, e>>, 2) = c
         /\ IsKey(<<a, b, c, d, e>>)
         /\ a # "-" /\ b # "-" /\ c # "-" /\ d # "-" /\ e # "-" => Dashless(<<a, b, c, d, e>>)
  BY DEF FromEnd, WordsOf, IsKey, Dashless, ToSet

\* No key ends in another: one of the last three words tells two keys apart.
Apart(k, l) ==
  \/ FromEnd(k, 0) # FromEnd(l, 0)
  \/ WordsOf(k) >= 2 /\ WordsOf(l) >= 2 /\ FromEnd(k, 1) # FromEnd(l, 1)
  \/ WordsOf(k) >= 3 /\ WordsOf(l) >= 3 /\ FromEnd(k, 2) # FromEnd(l, 2)

\* This is so for every two keys of the table.
LEMMA KeysApart ==
  ASSUME NEW d \in COMPONENT_DEFINITIONS, NEW e \in COMPONENT_DEFINITIONS, d.key # e.key
  PROVE  Apart(d.key, e.key)
<1> USE OneWord, TwoWords, ThreeWords, FourWords, FiveWords
    DEF sensor, binary_sensor, Apart, ProcessorSensors, StorageSensors, ServiceSensors, FlagSensors
<1>1. CASE d \in ProcessorSensors
  BY <1>1 DEF COMPONENT_DEFINITIONS
<1>2. CASE d \in StorageSensors
  BY <1>2 DEF COMPONENT_DEFINITIONS
<1>3. CASE d \in ServiceSensors
  BY <1>3 DEF COMPONENT_DEFINITIONS
<1>4. CASE d \in FlagSensors
  BY <1>4 DEF COMPONENT_DEFINITIONS
<1> QED
  BY <1>1, <1>2, <1>3, <1>4 DEF COMPONENT_DEFINITIONS

\* No two entities show the same value of the state.
LEMMA PathsApart ==
  ASSUME NEW d \in COMPONENT_DEFINITIONS, NEW e \in COMPONENT_DEFINITIONS,
         d.template.path = e.template.path
  PROVE  d.key = e.key
<1> USE DEF sensor, binary_sensor, Plain, OrNone, Scaled, Count, OnOff,
            ProcessorSensors, StorageSensors, ServiceSensors, FlagSensors
<1>1. CASE d \in ProcessorSensors
  BY <1>1 DEF COMPONENT_DEFINITIONS
<1>2. CASE d \in StorageSensors
  BY <1>2 DEF COMPONENT_DEFINITIONS
<1>3. CASE d \in ServiceSensors
  BY <1>3 DEF COMPONENT_DEFINITIONS
<1>4. CASE d \in FlagSensors
  BY <1>4 DEF COMPONENT_DEFINITIONS
<1> QED
  BY <1>1, <1>2, <1>3, <1>4 DEF COMPONENT_DEFINITIONS

\* The keys and platforms of the table.
LEMMA KeysTyped ==
  ASSUME NEW d \in COMPONENT_DEFINITIONS
  PROVE  /\ IsKey(d.key) /\ Dashless(d.key) /\ WordsOf(d.key) \in 1..5
         /\ d.platform \in {"sensor", "binary_sensor"}
<1> USE OneWord, TwoWords, ThreeWords, FourWords, FiveWords DEF sensor, binary_sensor
<1>1. CASE d \in ProcessorSensors
  BY <1>1 DEF ProcessorSensors
<1>2. CASE d \in StorageSensors
  BY <1>2 DEF StorageSensors
<1>3. CASE d \in ServiceSensors
  BY <1>3 DEF ServiceSensors
<1>4. CASE d \in FlagSensors
  BY <1>4 DEF FlagSensors
<1> QED
  BY <1>1, <1>2, <1>3, <1>4 DEF COMPONENT_DEFINITIONS

-----------------------------------------------------------------------------
(***************************************************************************)
(* There are 26 keys.                                                      *)
(***************************************************************************)
\* A finite set and its size.
Counted(S, n) == IsFiniteSet(S) /\ Cardinality(S) = n

\* Counting one by one.
LEMMA CountedOne == ASSUME NEW x PROVE Counted({x}, 1)
  BY FS_Singleton DEF Counted

\* An element that is new adds one.
LEMMA CountedMore ==
  ASSUME NEW S, NEW n \in Nat, Counted(S, n), NEW x, x \notin S, NEW m, m = n + 1
  PROVE  Counted({x} \cup S, m)
<1>1. IsFiniteSet(S \cup {x}) /\ Cardinality(S \cup {x}) = Cardinality(S) + 1
  BY FS_AddElement DEF Counted
<1>2. S \cup {x} = {x} \cup S
  OBVIOUS
<1> QED
  BY <1>1, <1>2 DEF Counted

\* So distinct elements are counted one by one, two of them,
LEMMA Counted2 ==
  ASSUME NEW a, NEW b,
         a \notin {b}
  PROVE  Counted({a, b}, 2)
<1>1. Counted({b}, 1)
  BY CountedOne
<1>2. Counted({a} \cup {b}, 2)
  BY <1>1, CountedMore
<1>3. {a} \cup {b} = {a, b}
  OBVIOUS
<1> QED
  BY <1>2, <1>3

\* three,
LEMMA Counted3 ==
  ASSUME NEW a, NEW b, NEW c,
         a \notin {b, c}, b \notin {c}
  PROVE  Counted({a, b, c}, 3)
<1>1. Counted({b, c}, 2)
  BY Counted2
<1>2. Counted({a} \cup {b, c}, 3)
  BY <1>1, CountedMore
<1>3. {a} \cup {b, c} = {a, b, c}
  OBVIOUS
<1> QED
  BY <1>2, <1>3

\* four,
LEMMA Counted4 ==
  ASSUME NEW a, NEW b, NEW c, NEW d,
         a \notin {b, c, d}, b \notin {c, d}, c \notin {d}
  PROVE  Counted({a, b, c, d}, 4)
<1>1. Counted({b, c, d}, 3)
  BY Counted3
<1>2. Counted({a} \cup {b, c, d}, 4)
  BY <1>1, CountedMore
<1>3. {a} \cup {b, c, d} = {a, b, c, d}
  OBVIOUS
<1> QED
  BY <1>2, <1>3

\* five,
LEMMA Counted5 ==
  ASSUME NEW a, NEW b, NEW c, NEW d, NEW e,
         a \notin {b, c, d, e}, b \notin {c, d, e}, c \notin {d, e}, d \notin {e}
  PROVE  Counted({a, b, c, d, e}, 5)
<1>1. Counted({b, c, d, e}, 4)
  BY Counted4
<1>2. Counted({a} \cup {b, c, d, e}, 5)
  BY <1>1, CountedMore
<1>3. {a} \cup {b, c, d, e} = {a, b, c, d, e}
  OBVIOUS
<1> QED
  BY <1>2, <1>3

\* six,
LEMMA Counted6 ==
  ASSUME NEW a, NEW b, NEW c, NEW d, NEW e, NEW f,
         a \notin {b, c, d, e, f}, b \notin {c, d, e, f}, c \notin {d, e, f}, d \notin {e, f}, e \notin {f}
  PROVE  Counted({a, b, c, d, e, f}, 6)
<1>1. Counted({b, c, d, e, f}, 5)
  BY Counted5
<1>2. Counted({a} \cup {b, c, d, e, f}, 6)
  BY <1>1, CountedMore
<1>3. {a} \cup {b, c, d, e, f} = {a, b, c, d, e, f}
  OBVIOUS
<1> QED
  BY <1>2, <1>3

\* seven,
LEMMA Counted7 ==
  ASSUME NEW a, NEW b, NEW c, NEW d, NEW e, NEW f, NEW g,
         a \notin {b, c, d, e, f, g}, b \notin {c, d, e, f, g}, c \notin {d, e, f, g},
         d \notin {e, f, g}, e \notin {f, g}, f \notin {g}
  PROVE  Counted({a, b, c, d, e, f, g}, 7)
<1>1. Counted({b, c, d, e, f, g}, 6)
  BY Counted6
<1>2. Counted({a} \cup {b, c, d, e, f, g}, 7)
  BY <1>1, CountedMore
<1>3. {a} \cup {b, c, d, e, f, g} = {a, b, c, d, e, f, g}
  OBVIOUS
<1> QED
  BY <1>2, <1>3

\* or eight.
LEMMA Counted8 ==
  ASSUME NEW a, NEW b, NEW c, NEW d, NEW e, NEW f, NEW g, NEW h,
         a \notin {b, c, d, e, f, g, h}, b \notin {c, d, e, f, g, h}, c \notin {d, e, f, g, h}, d \notin {e, f, g, h},
         e \notin {f, g, h}, f \notin {g, h}, g \notin {h}
  PROVE  Counted({a, b, c, d, e, f, g, h}, 8)
<1>1. Counted({b, c, d, e, f, g, h}, 7)
  BY Counted7
<1>2. Counted({a} \cup {b, c, d, e, f, g, h}, 8)
  BY <1>1, CountedMore
<1>3. {a} \cup {b, c, d, e, f, g, h} = {a, b, c, d, e, f, g, h}
  OBVIOUS
<1> QED
  BY <1>2, <1>3

\* Counting part by part.
LEMMA CountedUnion ==
  ASSUME NEW S, NEW T, NEW n \in Nat, NEW m \in Nat, Counted(S, n), Counted(T, m), S \cap T = {},
         NEW k, k = n + m
  PROVE  Counted(S \cup T, k)
<1>1. /\ IsFiniteSet(S \cup T)
      /\ Cardinality(S \cup T) = Cardinality(S) + Cardinality(T) - Cardinality(S \cap T)
  BY FS_Union DEF Counted
<1>2. Cardinality(S \cap T) = 0
  BY FS_EmptySet
<1> QED
  BY <1>1, <1>2 DEF Counted

\* The keys of the four parts of the table: of the processor,
LEMMA ProcessorKeys == Counted({d.key : d \in ProcessorSensors}, 7)
<1>1. {d.key : d \in ProcessorSensors} =
        {<<"health", "status">>, <<"cpu", "temperature">>, <<"cpu", "usage">>,
         <<"load", "1">>, <<"load", "5">>, <<"load", "15">>, <<"cpu", "frequency">>}
  BY DEF ProcessorSensors, sensor, binary_sensor
<1>2. Counted(
        {<<"health", "status">>, <<"cpu", "temperature">>, <<"cpu", "usage">>,
         <<"load", "1">>, <<"load", "5">>, <<"load", "15">>, <<"cpu", "frequency">>}, 7)
  BY Counted7
<1> QED
  BY <1>1, <1>2

\* of memory, swap and disk,
LEMMA StorageKeys == Counted({d.key : d \in StorageSensors}, 6)
<1>1. {d.key : d \in StorageSensors} =
        {<<"memory", "usage">>, <<"memory", "available">>, <<"swap", "usage">>,
         <<"swap", "used">>, <<"disk", "usage">>, <<"disk", "available">>}
  BY DEF StorageSensors, sensor, binary_sensor
<1>2. Counted(
        {<<"memory", "usage">>, <<"memory", "available">>, <<"swap", "usage">>,
         <<"swap", "used">>, <<"disk", "usage">>, <<"disk", "available">>}, 6)
  BY Counted6
<1> QED
  BY <1>1, <1>2

\* of the service,
LEMMA ServiceKeys == Counted({d.key : d \in ServiceSensors}, 5)
<1>1. {d.key : d \in ServiceSensors} =
        {<<"uptime">>, <<"last", "observation">>, <<"throttled", "raw">>,
         <<"collection", "duration">>, <<"collector", "error", "count">>}
  BY DEF ServiceSensors, sensor, binary_sensor
<1>2. Counted(
        {<<"uptime">>, <<"last", "observation">>, <<"throttled", "raw">>,
         <<"collection", "duration">>, <<"collector", "error", "count">>}, 5)
  BY Counted5
<1> QED
  BY <1>1, <1>2

\* and of the firmware flags.
LEMMA FlagKeys == Counted({d.key : d \in FlagSensors}, 8)
<1>1. {d.key : d \in FlagSensors} =
        {<<"undervoltage", "now">>, <<"undervoltage", "since", "boot">>,
         <<"throttled", "now">>, <<"throttled", "since", "boot">>,
         <<"arm", "frequency", "capped", "now">>,
         <<"arm", "frequency", "capped", "since", "boot">>,
         <<"soft", "temperature", "limit", "now">>,
         <<"soft", "temperature", "limit", "since", "boot">>}
  BY DEF FlagSensors, sensor, binary_sensor
<1>2. Counted(
        {<<"undervoltage", "now">>, <<"undervoltage", "since", "boot">>,
         <<"throttled", "now">>, <<"throttled", "since", "boot">>,
         <<"arm", "frequency", "capped", "now">>,
         <<"arm", "frequency", "capped", "since", "boot">>,
         <<"soft", "temperature", "limit", "now">>,
         <<"soft", "temperature", "limit", "since", "boot">>}, 8)
  BY Counted8
<1> QED
  BY <1>1, <1>2

\* No key is in two parts.
LEMMA KeysCounted == Counted(KeySet, 26)
<1> DEFINE p == {d.key : d \in ProcessorSensors}
           s == {d.key : d \in StorageSensors}
           v == {d.key : d \in ServiceSensors}
           f == {d.key : d \in FlagSensors}
<1>1. KeySet = ((p \cup s) \cup v) \cup f
  BY DEF KeySet, COMPONENT_DEFINITIONS
<1>2. p \cap s = {} /\ (p \cup s) \cap v = {} /\ ((p \cup s) \cup v) \cap f = {}
  BY DEF ProcessorSensors, StorageSensors, ServiceSensors, FlagSensors, sensor, binary_sensor
<1>3. Counted(p, 7) /\ Counted(s, 6) /\ Counted(v, 5) /\ Counted(f, 8)
  BY ProcessorKeys, StorageKeys, ServiceKeys, FlagKeys
<1> HIDE DEF p, s, v, f
<1>4. Counted(p \cup s, 13)
  <2>1. p \cap s = {} /\ Counted(p, 7) /\ Counted(s, 6) /\ 13 = 7 + 6
    BY <1>2, <1>3
  <2> QED
    BY <2>1, CountedUnion
<1>5. Counted((p \cup s) \cup v, 18)
  BY <1>2, <1>3, <1>4, CountedUnion
<1>6. Counted(((p \cup s) \cup v) \cup f, 26)
  BY <1>2, <1>3, <1>5, CountedUnion
<1> QED
  BY <1>1, <1>6

-----------------------------------------------------------------------------
(***************************************************************************)
(* The ids of the entities.                                                *)
(***************************************************************************)
\* What to_ascii_lowercase may yield.
Lowered == {Lower[token] : token \in STRING}

\* The tokens of a document.
Words ==
  STRING \cup {Underscore, ".", "sensor", "binary_sensor"} \cup Lowered
         \cup UNION {ToSet(d.key) : d \in COMPONENT_DEFINITIONS}

\* A key as it is written has its words at the odd places.
LEMMA KeyWritten ==
  ASSUME NEW d \in COMPONENT_DEFINITIONS
  PROVE  /\ KeyTokens(d.key) \in Seq(Words)
         /\ Len(KeyTokens(d.key)) = 2 * WordsOf(d.key) - 1
         /\ \A j \in 0..WordsOf(d.key) - 1 :
              KeyTokens(d.key)[2 * WordsOf(d.key) - 1 - 2 * j] = FromEnd(d.key, j)
         /\ ToSet(KeyTokens(d.key)) \subseteq ToSet(d.key) \cup {Underscore}
<1> DEFINE key == d.key
           n == WordsOf(key)
           T == ToSet(key)
<1>1. IsKey(key) /\ n \in 1..5
  BY KeysTyped
<1> HIDE DEF key, n, T
<1>2. n = Len(key) /\ key \in Seq(T) /\ n \in Nat /\ n >= 1
  <2>1. n = Len(key)
    BY DEF WordsOf, n
  <2>2. key \in Seq(T)
    BY <1>1 DEF IsKey, T
  <2> QED
    BY <1>1, <2>1, <2>2
<1>3. KeyTokens(key) = [i \in 1..2 * n - 1 |-> IF i % 2 = 1 THEN key[(i + 1) \div 2] ELSE Underscore]
  BY <1>2 DEF KeyTokens
<1>4. T \subseteq Words /\ Underscore \in Words
  BY DEF Words, T, key
<1>5. \A j \in 0..n - 1 : FromEnd(key, j) = key[n - j]
  BY <1>2 DEF FromEnd
<1>6. \A i \in 1..2 * n - 1 : i % 2 = 1 => (i + 1) \div 2 \in 1..n
  BY <1>2
<1>7. \A i \in 1..n : key[i] \in T
  BY <1>2
<1>8. \A i \in 1..2 * n - 1 : KeyTokens(key)[i] \in T \cup {Underscore}
  BY <1>3, <1>6, <1>7
<1>9. 2 * n - 1 \in Nat /\ DOMAIN KeyTokens(key) = 1..2 * n - 1
  BY <1>2, <1>3
<1>10. KeyTokens(key) \in Seq(Words) /\ Len(KeyTokens(key)) = 2 * n - 1
  <2>1. \A i \in 1..2 * n - 1 : KeyTokens(key)[i] \in Words
    BY <1>4, <1>8
  <2>2. KeyTokens(key) \in [1..2 * n - 1 -> Words]
    BY <1>3, <2>1
  <2> QED
    BY <1>9, <2>2
<1>11. ASSUME NEW j \in 0..n - 1 PROVE KeyTokens(key)[2 * n - 1 - 2 * j] = FromEnd(key, j)
  <2>1. 2 * n - 1 - 2 * j \in 1..2 * n - 1 /\ (2 * n - 1 - 2 * j) % 2 = 1
          /\ (2 * n - 1 - 2 * j + 1) \div 2 = n - j
    BY <1>2
  <2> QED
    BY <1>3, <1>5, <2>1
<1>12. ToSet(KeyTokens(key)) \subseteq T \cup {Underscore}
  BY <1>8, <1>9 DEF ToSet
<1> QED
  BY <1>10, <1>11, <1>12 DEF key, n, T

\* An id of an entity has the key at its end.
EntityId(s, key) == s \o <<Underscore>> \o KeyTokens(key)

\* The words of a key are found from the end of the id it is in.
LEMMA IdWritten ==
  ASSUME NEW s \in Seq(Words), NEW d \in COMPONENT_DEFINITIONS
  PROVE  LET whole == EntityId(s, d.key) IN
         /\ Len(s) \in Nat /\ WordsOf(d.key) \in 1..5
         /\ Len(whole) = Len(s) + 2 * WordsOf(d.key)
         /\ \A i \in 1..Len(s) : whole[i] = s[i]
         /\ \A j \in 0..WordsOf(d.key) - 1 : whole[Len(whole) - 2 * j] = FromEnd(d.key, j)
<1> DEFINE whole == EntityId(s, d.key)
           u == <<Underscore>>
           k == KeyTokens(d.key)
           n == WordsOf(d.key)
<1>1. n \in 1..5
  BY KeysTyped
<1>2. /\ k \in Seq(Words) /\ Len(k) = 2 * n - 1
      /\ \A j \in 0..n - 1 : k[2 * n - 1 - 2 * j] = FromEnd(d.key, j)
  BY KeyWritten
<1>3. u \in Seq(Words) /\ Len(u) = 1
  BY DEF Words
<1> HIDE DEF whole, u, k, n
<1>4. /\ s \o u \in Seq(Words) /\ Len(s \o u) = Len(s) + Len(u)
      /\ \A i \in 1..Len(s) + Len(u) : (s \o u)[i] = IF i <= Len(s) THEN s[i] ELSE u[i - Len(s)]
  BY <1>3, ConcatProperties
<1>5. /\ Len((s \o u) \o k) = Len(s \o u) + Len(k)
      /\ \A i \in 1..Len(s \o u) + Len(k) :
           ((s \o u) \o k)[i] = IF i <= Len(s \o u) THEN (s \o u)[i] ELSE k[i - Len(s \o u)]
  <2>1. s \o u \in Seq(Words) /\ k \in Seq(Words)
    BY <1>2, <1>4
  <2> QED
    BY <2>1, ConcatProperties
<1>6. whole = (s \o u) \o k
  BY DEF whole, u, k, EntityId
<1>7. Len(s) \in Nat /\ Len(whole) = Len(s) + 2 * n
  BY <1>1, <1>2, <1>3, <1>4, <1>5, <1>6
<1>8. ASSUME NEW i \in 1..Len(s) PROVE whole[i] = s[i]
  <2>1. i \in 1..Len(s) + 1 /\ i \in 1..(Len(s) + 1) + (2 * n - 1) /\ i <= Len(s) + 1 /\ i <= Len(s)
    BY <1>1, <1>7
  <2> QED
    BY <1>2, <1>3, <1>4, <1>5, <1>6, <2>1
<1>9. ASSUME NEW j \in 0..n - 1 PROVE whole[Len(whole) - 2 * j] = FromEnd(d.key, j)
  <2> DEFINE i == Len(whole) - 2 * j
  <2>1. /\ i \in 1..(Len(s) + 1) + (2 * n - 1) /\ ~(i <= Len(s) + 1)
        /\ i - (Len(s) + 1) = 2 * n - 1 - 2 * j
    BY <1>1, <1>7
  <2> HIDE DEF i
  <2>2. whole[i] = k[i - (Len(s) + 1)]
    BY <1>2, <1>3, <1>4, <1>5, <1>6, <2>1
  <2> QED
    BY <1>2, <2>1, <2>2 DEF i
<1> QED
  BY <1>1, <1>7, <1>8, <1>9 DEF n, whole

\* Equal ids come of equal devices and equal keys.
LEMMA IdsApart ==
  ASSUME NEW s \in Seq(Words), NEW t \in Seq(Words),
         NEW d \in COMPONENT_DEFINITIONS, NEW e \in COMPONENT_DEFINITIONS,
         EntityId(s, d.key) = EntityId(t, e.key)
  PROVE  s = t /\ d.key = e.key
<1> DEFINE whole == EntityId(s, d.key)
           n == WordsOf(d.key)
           m == WordsOf(e.key)
<1>1. /\ Len(s) \in Nat /\ n \in 1..5 /\ Len(whole) = Len(s) + 2 * n
      /\ \A i \in 1..Len(s) : whole[i] = s[i]
      /\ \A j \in 0..n - 1 : whole[Len(whole) - 2 * j] = FromEnd(d.key, j)
  BY IdWritten
<1>2. /\ Len(t) \in Nat /\ m \in 1..5 /\ Len(whole) = Len(t) + 2 * m
      /\ \A i \in 1..Len(t) : whole[i] = t[i]
      /\ \A j \in 0..m - 1 : whole[Len(whole) - 2 * j] = FromEnd(e.key, j)
  BY IdWritten
<1> HIDE DEF whole, n, m
<1>3. ASSUME NEW j \in 0..2, n > j, m > j PROVE FromEnd(d.key, j) = FromEnd(e.key, j)
  <2>1. j \in 0..n - 1 /\ j \in 0..m - 1
    BY <1>1, <1>2, <1>3
  <2> QED
    BY <1>1, <1>2, <2>1
<1>4. ~Apart(d.key, e.key)
  <2>1. FromEnd(d.key, 0) = FromEnd(e.key, 0)
    BY <1>1, <1>2, <1>3
  <2>2. n >= 2 /\ m >= 2 => FromEnd(d.key, 1) = FromEnd(e.key, 1)
    BY <1>1, <1>2, <1>3
  <2>3. n >= 3 /\ m >= 3 => FromEnd(d.key, 2) = FromEnd(e.key, 2)
    BY <1>1, <1>2, <1>3
  <2> QED
    BY <2>1, <2>2, <2>3 DEF Apart, n, m
<1>5. d.key = e.key
  BY <1>4, KeysApart
<1>6. Len(s) = Len(t)
  BY <1>1, <1>2, <1>5 DEF n, m
<1>7. s = t
  <2>1. \A i \in 1..Len(s) : s[i] = t[i]
    BY <1>1, <1>2, <1>6
  <2> QED
    BY <1>6, <2>1, SeqEqual
<1> QED
  BY <1>5, <1>7

\* What a concatenation holds.
LEMMA TokensOfConcat ==
  ASSUME NEW s \in Seq(Words), NEW t \in Seq(Words)
  PROVE  s \o t \in Seq(Words) /\ ToSet(s \o t) \subseteq ToSet(s) \cup ToSet(t)
<1>1. /\ s \o t \in Seq(Words) /\ Len(s \o t) = Len(s) + Len(t)
      /\ \A i \in 1..Len(s) + Len(t) : (s \o t)[i] = IF i <= Len(s) THEN s[i] ELSE t[i - Len(s)]
  BY ConcatProperties
<1>2. /\ Len(s) \in Nat /\ Len(t) \in Nat /\ DOMAIN s = 1..Len(s) /\ DOMAIN t = 1..Len(t)
      /\ DOMAIN (s \o t) = 1..Len(s \o t)
  BY <1>1
<1>3. ASSUME NEW i \in DOMAIN (s \o t) PROVE (s \o t)[i] \in ToSet(s) \cup ToSet(t)
  <2>1. i \in 1..Len(s) + Len(t)
    BY <1>1, <1>2
  <2>2. CASE i <= Len(s)
    <3>1. i \in DOMAIN s /\ (s \o t)[i] = s[i]
      BY <1>1, <1>2, <2>1, <2>2
    <3> QED
      BY <3>1 DEF ToSet
  <2>3. CASE ~(i <= Len(s))
    <3>1. i - Len(s) \in DOMAIN t /\ (s \o t)[i] = t[i - Len(s)]
      BY <1>1, <1>2, <2>1, <2>3
    <3> QED
      BY <3>1 DEF ToSet
  <2> QED
    BY <2>2, <2>3
<1> QED
  BY <1>1, <1>3 DEF ToSet

\* A token Home Assistant admits in an entity id.
Admitted(token) == token # "-" /\ Lower[token] = token

\* normalize_device_slug leaves only tokens that Home Assistant admits.
LEMMA EntityIdAdmitted ==
  ASSUME NEW config, Accepted(config), NEW d \in COMPONENT_DEFINITIONS
  PROVE  \A token \in ToSet(ToConfig(d, config).default_entity_id) : Admitted(token)
<1> DEFINE head == <<d.platform, ".">>
           slug == NormalizeDeviceSlug(config.id)
           u == <<Underscore>>
           k == KeyTokens(d.key)
<1>1. PICK table \in Tables : "id" \in DOMAIN table /\ table["id"] = config.id
  BY AcceptedTypes
<1>2. config.id \in Texts
  BY AcceptedTypes
<1>3. config.id.tokens \in Seq(STRING)
  BY <1>2 DEF Texts
<1>4. Underscore # "-" /\ "." # "-"
  BY Zenon DEF Underscore
<1>5. \A word \in {"sensor", "binary_sensor", ".", Underscore} \cup ToSet(d.key) : Lower[word] = word
  BY LowerAssumption
<1>6. d.platform \in {"sensor", "binary_sensor"} /\ Dashless(d.key)
  BY KeysTyped
<1>7. head \in Seq(Words) /\ \A token \in ToSet(head) : Admitted(token)
  <2>1. d.platform \in Words /\ "." \in Words
    BY <1>6 DEF Words
  <2>2. ToSet(head) = {d.platform, "."}
    BY DEF ToSet
  <2>3. Admitted(d.platform) /\ Admitted(".")
    BY <1>4, <1>5, <1>6 DEF Admitted
  <2> QED
    BY <2>1, <2>2, <2>3
<1>8. slug \in Seq(Words) /\ \A token \in ToSet(slug) : Admitted(token)
  <2> DEFINE tokens == config.id.tokens
  <2>1. slug = [i \in DOMAIN tokens |-> IF tokens[i] = "-" THEN Underscore ELSE Lower[tokens[i]]]
    BY DEF NormalizeDeviceSlug
  <2>2. \A token \in ToSet(tokens) :
          /\ Lower[Lower[token]] = Lower[token]
          /\ Lower[token] = "-" => token = "-"
    BY <1>1, LowerAssumption
  <2>3. tokens \in Seq(STRING)
    BY <1>3
  <2> HIDE DEF slug, tokens
  <2>4. \A i \in DOMAIN tokens : slug[i] \in Words /\ Admitted(slug[i])
    <3> SUFFICES ASSUME NEW i \in DOMAIN tokens PROVE slug[i] \in Words /\ Admitted(slug[i])
      OBVIOUS
    <3>1. tokens[i] \in STRING /\ tokens[i] \in ToSet(tokens)
      BY <2>3 DEF ToSet
    <3>2. CASE tokens[i] = "-"
      BY <1>4, <1>5, <2>1, <3>2 DEF Words, Admitted
    <3>3. CASE tokens[i] # "-"
      <4>1. slug[i] = Lower[tokens[i]]
        BY <2>1, <3>3
      <4>2. slug[i] \in Words
        <5>1. Lower[tokens[i]] \in Lowered
          BY <3>1, Zenon DEF Lowered
        <5> QED
          BY <4>1, <5>1 DEF Words
      <4>3. Admitted(slug[i])
        BY <2>2, <3>1, <3>3, <4>1 DEF Admitted
      <4> QED
        BY <4>2, <4>3
    <3> QED
      BY <3>2, <3>3
  <2>5. DOMAIN slug = DOMAIN tokens /\ DOMAIN tokens = 1..Len(tokens) /\ Len(tokens) \in Nat
    BY <2>1, <2>3
  <2>6. slug \in [1..Len(tokens) -> Words]
    BY <2>1, <2>4, <2>5
  <2>7. slug \in Seq(Words)
    BY <2>5, <2>6
  <2> QED
    BY <2>4, <2>5, <2>7 DEF ToSet
<1>9. u \in Seq(Words) /\ \A token \in ToSet(u) : Admitted(token)
  <2>1. Underscore \in Words /\ Admitted(Underscore)
    BY <1>4, <1>5 DEF Words, Admitted
  <2>2. ToSet(u) = {Underscore}
    BY DEF ToSet
  <2> QED
    BY <2>1, <2>2
<1>10. k \in Seq(Words) /\ \A token \in ToSet(k) : Admitted(token)
  <2>1. k \in Seq(Words) /\ ToSet(k) \subseteq ToSet(d.key) \cup {Underscore}
    BY KeyWritten
  <2>2. \A token \in ToSet(d.key) : token # "-"
    BY <1>6 DEF Dashless, ToSet
  <2> QED
    BY <1>4, <1>5, <2>1, <2>2 DEF Admitted
<1>11. ToConfig(d, config).default_entity_id = ((head \o slug) \o u) \o k
  BY DEF ToConfig
<1> HIDE DEF head, slug, u, k
<1>12. head \o slug \in Seq(Words) /\ \A token \in ToSet(head \o slug) : Admitted(token)
  BY <1>7, <1>8, TokensOfConcat
<1>13. (head \o slug) \o u \in Seq(Words) /\ \A token \in ToSet((head \o slug) \o u) : Admitted(token)
  BY <1>9, <1>12, TokensOfConcat
<1>14. \A token \in ToSet(((head \o slug) \o u) \o k) : Admitted(token)
  BY <1>10, <1>13, TokensOfConcat
<1> QED
  BY <1>11, <1>14

-----------------------------------------------------------------------------
\* The components of a document.
LEMMA ComponentsOf ==
  ASSUME NEW topic, NEW config, Documents(topic, config),
         NEW components, components = retained[topic].components
  PROVE  /\ DOMAIN components = KeySet
         /\ \A key \in KeySet : \E d \in COMPONENT_DEFINITIONS :
              d.key = key /\ components[key] = ToConfig(d, config)
<1>1. components = BuildComponents(config)
  BY DEF Documents, BuildDiscoveryMessage
<1>2. /\ DOMAIN components = KeySet
      /\ \A key \in KeySet :
           components[key] = ToConfig(CHOOSE d \in COMPONENT_DEFINITIONS : d.key = key, config)
  BY <1>1 DEF BuildComponents, KeySet
<1>3. ASSUME NEW key \in KeySet
      PROVE  \E d \in COMPONENT_DEFINITIONS : d.key = key /\ components[key] = ToConfig(d, config)
  <2> DEFINE c == CHOOSE d \in COMPONENT_DEFINITIONS : d.key = key
  <2>1. c \in COMPONENT_DEFINITIONS /\ c.key = key
    BY DEF KeySet
  <2>2. components[key] = ToConfig(c, config)
    BY <1>2
  <2> QED
    BY <2>1, <2>2
<1> QED
  BY <1>2, <1>3

\* The unique ids of a document: the tokens of the id, and the key.
LEMMA UniqueIdOf ==
  ASSUME NEW config, Accepted(config), NEW d \in COMPONENT_DEFINITIONS
  PROVE  /\ ToConfig(d, config).unique_id = EntityId(config.id.tokens, d.key)
         /\ config.id.tokens \in Seq(Words)
         /\ ToConfig(d, config).template = d.template
<1>1. config.id.tokens \in Seq(STRING)
  BY AcceptedTypes DEF Texts
<1>2. STRING \subseteq Words
  BY DEF Words
<1>3. config.id.tokens \in Seq(Words)
  BY <1>1, <1>2, SeqWider
<1> QED
  BY <1>3 DEF ToConfig, EntityId

\* Documents that Home Assistant has under different topics have ids with
\* different tokens.
LEMMA TokensApart ==
  ASSUME NEW t \in Registry, NEW u \in Registry, NEW c, NEW e, Documents(t, c), Documents(u, e),
         c.id.tokens = e.id.tokens
  PROVE  t = u
<1>1. c.id = e.id
  <2>1. PICK x \in Tables : "id" \in DOMAIN x /\ x["id"] = c.id
    BY AcceptedTypes DEF Documents
  <2>2. PICK y \in Tables : "id" \in DOMAIN y /\ y["id"] = e.id
    BY AcceptedTypes DEF Documents
  <2>3. Validate(c) /\ Validate(e)
    BY AcceptedValid DEF Documents
  <2>4. ValidateIdentifier(c.id, 64, IdPunctuation) /\ ValidateIdentifier(e.id, 64, IdPunctuation)
    BY <2>3 DEF Validate
  <2>5. c.id.has = {} /\ e.id.has = {}
    BY <2>4, Zenon DEF ValidateIdentifier
  <2> QED
    BY <2>1, <2>2, <2>5, TablesAssumption
<1>2. t[Len(t) - 1] = c.id /\ u[Len(u) - 1] = e.id
  BY AcceptedTypes, TextLevels, IdInTopic DEF Documents, TopicOf, Topics
<1>3. t = DiscoveryTopic(HaPrefix, c.id) /\ u = DiscoveryTopic(HaPrefix, e.id)
  BY <1>2 DEF Registry
<1> QED
  BY <1>1, <1>3

\* Within a document the keys tell the entities apart, between documents the
\* ids do.
LEMMA IdentifiedFromInv == FleetInv => EntitiesIdentified
<1> SUFFICES ASSUME FleetInv, NEW topic \in Registry,
                    NEW components, components = retained[topic].components
             PROVE  /\ Cardinality(DOMAIN components) = 26
                    /\ \A k, l \in DOMAIN components :
                         k # l => /\ components[k].unique_id # components[l].unique_id
                                  /\ components[k].template.path # components[l].template.path
                    /\ \A other \in Registry \ {topic} : \A k, l \in DOMAIN components :
                         components[k].unique_id # retained[other].components[l].unique_id
                    /\ \A k \in DOMAIN components :
                         \A token \in ToSet(components[k].default_entity_id) : Admitted(token)
  BY DEF EntitiesIdentified, Admitted
<1>1. PICK config : Documents(topic, config)
  BY DEF FleetInv, Registry
<1>2. Accepted(config)
  BY <1>1 DEF Documents
<1>3. /\ DOMAIN components = KeySet
      /\ \A key \in KeySet : \E d \in COMPONENT_DEFINITIONS :
           d.key = key /\ components[key] = ToConfig(d, config)
  BY <1>1, ComponentsOf
<1>4. Cardinality(DOMAIN components) = 26
  BY <1>3, KeysCounted DEF Counted
<1>5. ASSUME NEW k \in DOMAIN components, NEW l \in DOMAIN components, k # l
      PROVE  /\ components[k].unique_id # components[l].unique_id
             /\ components[k].template.path # components[l].template.path
  <2>1. PICK d \in COMPONENT_DEFINITIONS : d.key = k /\ components[k] = ToConfig(d, config)
    BY <1>3
  <2>2. PICK e \in COMPONENT_DEFINITIONS : e.key = l /\ components[l] = ToConfig(e, config)
    BY <1>3
  <2>3. /\ components[k].unique_id = EntityId(config.id.tokens, d.key)
        /\ components[l].unique_id = EntityId(config.id.tokens, e.key)
        /\ components[k].template = d.template /\ components[l].template = e.template
        /\ config.id.tokens \in Seq(Words)
    BY <1>2, <2>1, <2>2, UniqueIdOf
  <2>4. EntityId(config.id.tokens, d.key) # EntityId(config.id.tokens, e.key)
    BY <1>5, <2>1, <2>2, <2>3, IdsApart
  <2>5. d.template.path # e.template.path
    BY <1>5, <2>1, <2>2, PathsApart
  <2> QED
    BY <2>3, <2>4, <2>5
<1>6. ASSUME NEW other \in Registry \ {topic}, NEW k \in DOMAIN components, NEW l \in DOMAIN components
      PROVE  components[k].unique_id # retained[other].components[l].unique_id
  <2>1. PICK c : Documents(other, c)
    BY DEF FleetInv, Registry
  <2>2. PICK d \in COMPONENT_DEFINITIONS : d.key = k /\ components[k] = ToConfig(d, config)
    BY <1>3
  <2>3. PICK e \in COMPONENT_DEFINITIONS :
          e.key = l /\ retained[other].components[l] = ToConfig(e, c)
    BY <1>3, <2>1, ComponentsOf
  <2>4. Accepted(c)
    BY <2>1 DEF Documents
  <2>5. /\ components[k].unique_id = EntityId(config.id.tokens, d.key)
        /\ config.id.tokens \in Seq(Words)
    BY <1>2, <2>2, UniqueIdOf
  <2>6. /\ retained[other].components[l].unique_id = EntityId(c.id.tokens, e.key)
        /\ c.id.tokens \in Seq(Words)
    BY <2>3, <2>4, UniqueIdOf
  <2>7. config.id.tokens # c.id.tokens
    BY <1>1, <2>1, TokensApart
  <2> QED
    BY <2>5, <2>6, <2>7, IdsApart
<1>7. ASSUME NEW k \in DOMAIN components
      PROVE  \A token \in ToSet(components[k].default_entity_id) : Admitted(token)
  <2>1. PICK d \in COMPONENT_DEFINITIONS : d.key = k /\ components[k] = ToConfig(d, config)
    BY <1>3
  <2> QED
    BY <1>2, <2>1, EntityIdAdmitted
<1> QED
  BY <1>4, <1>5, <1>6, <1>7

\* Whatever ids the boards are given, in whatever order their services start,
\* restart and are renamed, each document has its 26 entities (build_components
\* loses none), and no entity takes the unique id of another, of its own or of
\* another document Home Assistant has (ComponentDefinition::to_config).
THEOREM EntitiesStayIdentified == Spec => []EntitiesIdentified
  BY FleetInitially, FleetStep, IdentifiedFromInv, PTL DEF Spec

-----------------------------------------------------------------------------

(***************************************************************************)
(* Rounding.                                                               *)
(***************************************************************************)
\* The two factors rounded_metric is used with.
LEMMA Factors == Factor(1) = 10 /\ Factor(2) = 100
  BY DEF Factor

\* Division of whole numbers rounds down.
LEMMA Quotient ==
  ASSUME NEW x \in Nat, NEW y \in Nat \ {0}
  PROVE  x \div y \in Nat /\ (x \div y) * y <= x /\ x < (x \div y) * y + y
  OBVIOUS

\* f64::round is off by a half at most.
LEMMA RoundNear ==
  ASSUME NEW n \in Int, NEW d \in Nat \ {0}
  PROVE  /\ Round(n, d) \in Int
         /\ 2 * (Round(n, d) * d - n) <= d /\ -d <= 2 * (Round(n, d) * d - n)
<1>1. CASE n >= 0
  <2> DEFINE q == (2 * n + d) \div (2 * d)
  <2>1. 2 * n + d \in Nat /\ 2 * d \in Nat \ {0}
    BY <1>1
  <2>2. q \in Nat /\ q * (2 * d) <= 2 * n + d /\ 2 * n + d < q * (2 * d) + 2 * d
    BY <2>1, Quotient
  <2>3. Round(n, d) = q
    BY <1>1 DEF Round
  <2> HIDE DEF q
  <2>4. q * (2 * d) = 2 * (q * d) /\ q * d \in Int
    BY <2>2
  <2> QED
    BY <2>2, <2>3, <2>4
<1>2. CASE ~(n >= 0)
  <2> DEFINE q == (d - 2 * n) \div (2 * d)
  <2>1. d - 2 * n \in Nat /\ 2 * d \in Nat \ {0}
    BY <1>2
  <2>2. q \in Nat /\ q * (2 * d) <= d - 2 * n /\ d - 2 * n < q * (2 * d) + 2 * d
    BY <2>1, Quotient
  <2>3. Round(n, d) = -q
    BY <1>2 DEF Round
  <2> HIDE DEF q
  <2>4. q * (2 * d) = 2 * (q * d) /\ q * d \in Int /\ (-q) * d = -(q * d)
    BY <2>2
  <2> QED
    BY <2>2, <2>3, <2>4
<1> QED
  BY <1>1, <1>2

\* A number written with some decimals is within half of the last one.
LEMMA RoundedClose ==
  ASSUME NEW n \in Int, NEW d \in Nat \ {0}, NEW p \in {1, 2}
  PROVE  Close(RoundedTo(Ratio(n, d), p), Ratio(n, d), p)
<1> DEFINE f == Factor(p)
           r == Round(n * f, d)
           e == r * d - n * f
<1>1. f \in {10, 100}
  BY Factors
<1>2. n * f \in Int
  BY <1>1
<1>3. r \in Int /\ 2 * e <= d /\ -d <= 2 * e
  BY <1>2, RoundNear
<1>4. e \in Int
  BY <1>1, <1>2, <1>3
<1>5. RoundedTo(Ratio(n, d), p).n = r /\ RoundedTo(Ratio(n, d), p).d = f
        /\ Ratio(n, d).n = n /\ Ratio(n, d).d = d
  BY DEF RoundedTo, Ratio
<1> HIDE DEF f, r, e
<1>6. 2 * f * e <= f * d /\ -2 * f * e <= f * d
  BY <1>1, <1>3, <1>4
<1> QED
  BY <1>5, <1>6 DEF Close, f, e

\* A common factor of a ratio changes nothing.
LEMMA CommonFactor ==
  ASSUME NEW shown, shown.n \in Int, shown.d \in Int, NEW n \in Int, NEW d \in Int,
         NEW k \in Nat \ {0}, NEW p \in {1, 2}, Close(shown, Ratio(k * n, k * d), p)
  PROVE  Close(shown, Ratio(n, d), p)
<1> DEFINE f == Factor(p)
           e == shown.n * d - n * shown.d
           l == shown.d * d
<1>1. f \in {10, 100}
  BY Factors
<1>2. e \in Int /\ l \in Int
  OBVIOUS
<1>3. shown.n * (k * d) - (k * n) * shown.d = k * e /\ shown.d * (k * d) = k * l
  OBVIOUS
<1>4. 2 * f * (k * e) <= k * l /\ -2 * f * (k * e) <= k * l
  BY <1>3 DEF Close, Ratio
<1> HIDE DEF f, e, l
<1>5. 2 * f * e \in Int /\ -2 * f * e \in Int
  BY <1>1, <1>2
<1>6. k * (2 * f * e) <= k * l /\ k * (-2 * f * e) <= k * l
  BY <1>1, <1>2, <1>4
<1>7. \A x, y \in Int : k * x <= k * y => x <= y
  OBVIOUS
<1>8. 2 * f * e <= l /\ -2 * f * e <= l
  BY <1>2, <1>5, <1>6, <1>7
<1> QED
  BY <1>8 DEF Close, Ratio, f, e, l

-----------------------------------------------------------------------------
(***************************************************************************)
(* The table.                                                              *)
(***************************************************************************)
\* No two entities of the table have the same key.
LEMMA KeysUnique ==
  ASSUME NEW d \in COMPONENT_DEFINITIONS, NEW e \in COMPONENT_DEFINITIONS, d.key = e.key
  PROVE  d = e
<1> USE DEF sensor, binary_sensor, ProcessorSensors, StorageSensors, ServiceSensors, FlagSensors
<1>1. CASE d \in ProcessorSensors
  BY <1>1 DEF COMPONENT_DEFINITIONS
<1>2. CASE d \in StorageSensors
  BY <1>2 DEF COMPONENT_DEFINITIONS
<1>3. CASE d \in ServiceSensors
  BY <1>3 DEF COMPONENT_DEFINITIONS
<1>4. CASE d \in FlagSensors
  BY <1>4 DEF COMPONENT_DEFINITIONS
<1> QED
  BY <1>1, <1>2, <1>3, <1>4 DEF COMPONENT_DEFINITIONS

\* An entity of the document is found by its key.
LEMMA ComponentIs ==
  ASSUME NEW d \in COMPONENT_DEFINITIONS
  PROVE  Component(d.key) = d
<1>1. Component(d.key) \in COMPONENT_DEFINITIONS /\ Component(d.key).key = d.key
  BY DEF Component
<1> QED
  BY <1>1, KeysUnique

\* What Home Assistant shows of a sensor.
LEMMA SensorIs ==
  ASSUME NEW key, NEW unit, NEW precision, NEW template,
         sensor(key, unit, precision, template) \in COMPONENT_DEFINITIONS
  PROVE  /\ Component(key).unit = unit /\ Component(key).precision = precision
         /\ Shown(key) = Render(template)
<1> DEFINE d == sensor(key, unit, precision, template)
<1>1. d.key = key /\ d.unit = unit /\ d.precision = precision /\ d.template = template
  BY DEF sensor
<1>2. Component(key) = d
  <2>1. Component(d.key) = d
    BY ComponentIs
  <2> QED
    BY <1>1, <2>1
<1> HIDE DEF d
<1> QED
  BY <1>1, <1>2 DEF Shown

\* What Home Assistant shows of a firmware flag.
LEMMA FlagIs ==
  ASSUME NEW key, NEW path, binary_sensor(key, path) \in COMPONENT_DEFINITIONS
  PROVE  Shown(key) = Render(OnOff(path))
<1> DEFINE d == binary_sensor(key, path)
<1>1. d.key = key /\ d.template = OnOff(path)
  BY DEF binary_sensor
<1>2. Component(key) = d
  <2>1. Component(d.key) = d
    BY ComponentIs
  <2> QED
    BY <1>1, <2>1
<1> HIDE DEF d
<1> QED
  BY <1>1, <1>2 DEF Shown

\* What each template form makes of the value it selects.
LEMMA Rendered ==
  ASSUME NEW path, NEW v, v = ValueJson(path)
  PROVE  /\ Render(Plain(path)) = v
         /\ Render(OrNone(path)) = v
         /\ Render(Count(path)) = IF v = Null THEN Null ELSE <<Cardinality(v[1])>>
         /\ Render(OnOff(path)) = IF v = Null THEN Null ELSE <<IF v[1] THEN "ON" ELSE "OFF">>
         /\ \A divisor, digits :
              Render(Scaled(path, divisor, digits)) =
                IF v = Null THEN Null ELSE <<RoundedTo(Ratio(v[1], divisor), digits)>>
<1>1. Render(Plain(path)) = v
  BY DEF Render, Plain
<1>2. Render(OrNone(path)) = v
  BY DEF Render, OrNone
<1>3. Render(Count(path)) = IF v = Null THEN Null ELSE <<Cardinality(v[1])>>
  BY DEF Render, Count
<1>4. Render(OnOff(path)) = IF v = Null THEN Null ELSE <<IF v[1] THEN "ON" ELSE "OFF">>
  BY DEF Render, OnOff
<1>5. ASSUME NEW divisor, NEW digits
      PROVE  Render(Scaled(path, divisor, digits)) =
               IF v = Null THEN Null ELSE <<RoundedTo(Ratio(v[1], divisor), digits)>>
  BY DEF Render, Scaled
<1> QED
  BY <1>1, <1>2, <1>3, <1>4, <1>5

-----------------------------------------------------------------------------
(***************************************************************************)
(* The document.                                                           *)
(***************************************************************************)
\* The telemetry that one collection of the board makes.
State == TelemetryState(board, Clock.observed_at, Clock.duration_ms)

\* The last message is that telemetry, serialized.
Delivered == Serializable(State) /\ message = <<Serialized(State)>>

\* A field as it is written.
Written(value, places) == IF value = Null THEN Null ELSE <<RoundedTo(value[1], places)>>

\* The groups of the telemetry.
LEMMA GroupsOfState ==
  /\ State.cpu = CpuMetrics(board) /\ State.memory = MemoryMetrics(board)
  /\ State.swap = SwapMetrics(board) /\ State.disk = DiskMetrics(board)
  /\ State.power = PowerMetrics(board)
  /\ State.uptime_seconds = ParseUptimeSeconds(board.uptime)
  /\ State.observed_at = <<Clock.observed_at>>
  /\ State.service = [collection_duration_ms |-> <<Clock.duration_ms>>]
  /\ State.health = [status |-> <<Evaluate(IF board.throttled = Null THEN {} ELSE board.throttled[1],
                                           CollectorErrors(board) # {})>>,
                     collector_errors |-> <<CollectorErrors(board)>>]
  /\ DOMAIN State = {"observed_at", "uptime_seconds", "cpu", "memory", "swap", "disk", "power",
                     "health", "service"}
  BY DEF State, TelemetryState

\* A field that serialize_optional_f64 writes.
LEMMA FieldWritten ==
  ASSUME Delivered, NEW group \in DOMAIN Decimals, NEW field \in DOMAIN Decimals[group],
         group \in DOMAIN State, field \in DOMAIN State[group]
  PROVE  message[1][group][field] = Written(State[group][field], Decimals[group][field])
<1> DEFINE v == State[group][field]
           p == Decimals[group][field]
<1>1. message[1][group][field] = IF v # Null THEN RoundedMetric(v[1], p) ELSE v
  BY DEF Delivered, Serialized
<1>2. v # Null => RoundedMetric(v[1], p) # Null
  BY DEF Delivered, Serializable
<1> HIDE DEF v, p
<1>3. v # Null => RoundedMetric(v[1], p) = <<RoundedTo(v[1], p)>>
  BY <1>2 DEF RoundedMetric
<1> QED
  BY <1>1, <1>3 DEF Written, v, p

\* A field written as it is.
LEMMA FieldCopied ==
  ASSUME Delivered, NEW group \in DOMAIN Decimals, group \in DOMAIN State,
         NEW field \in DOMAIN State[group], field \notin DOMAIN Decimals[group]
  PROVE  message[1][group][field] = State[group][field]
  BY DEF Delivered, Serialized

\* A group without decimals is written as it is.
LEMMA GroupCopied ==
  ASSUME Delivered, NEW group \in DOMAIN State, group \notin DOMAIN Decimals
  PROVE  message[1][group] = State[group]
  BY DEF Delivered, Serialized

\* The decimals of every field that has them.
LEMMA DecimalsAre ==
  /\ DOMAIN Decimals = {"cpu", "memory", "swap", "disk"}
  /\ DOMAIN Decimals["cpu"] = {"usage_percent", "load_1", "load_5", "load_15", "temperature_c", "frequency_mhz"}
  /\ DOMAIN Decimals["memory"] = {"used_percent"}
  /\ DOMAIN Decimals["swap"] = {"used_percent"}
  /\ DOMAIN Decimals["disk"] = {"used_percent"}
  /\ \A field \in {"usage_percent", "temperature_c", "frequency_mhz"} : Decimals["cpu"][field] = 1
  /\ \A field \in {"load_1", "load_5", "load_15"} : Decimals["cpu"][field] = 2
  /\ \A group \in {"memory", "swap", "disk"} : Decimals[group]["used_percent"] = 1
  BY DEF Decimals

\* A value of the message itself.
LEMMA PathOne == ASSUME NEW a PROVE ValueJson(<<a>>) = message[1][a]
  BY DEF ValueJson

\* A value of one of its groups.
LEMMA PathTwo == ASSUME NEW a, NEW b PROVE ValueJson(<<a, b>>) = message[1][a][b]
  BY DEF ValueJson

\* What the message says of the processor.
LEMMA FieldsOfCpu ==
  ASSUME Delivered
  PROVE  LET cpu == CpuMetrics(board) IN
         /\ message[1]["cpu"]["usage_percent"] = Written(cpu.usage_percent, 1)
         /\ message[1]["cpu"]["temperature_c"] = Written(cpu.temperature_c, 1)
         /\ message[1]["cpu"]["frequency_mhz"] = Written(cpu.frequency_mhz, 1)
         /\ message[1]["cpu"]["load_1"] = Written(cpu.load_1, 2)
         /\ message[1]["cpu"]["load_5"] = Written(cpu.load_5, 2)
         /\ message[1]["cpu"]["load_15"] = Written(cpu.load_15, 2)
<1>1. State["cpu"] = CpuMetrics(board) /\ "cpu" \in DOMAIN State
  BY GroupsOfState
<1>2. DOMAIN State["cpu"] = DOMAIN Decimals["cpu"]
  BY <1>1, DecimalsAre DEF CpuMetrics
<1>3. \A field \in DOMAIN Decimals["cpu"] :
        message[1]["cpu"][field] = Written(CpuMetrics(board)[field], Decimals["cpu"][field])
  BY <1>1, <1>2, DecimalsAre, FieldWritten
<1> QED
  BY <1>3, DecimalsAre

\* What it says of memory, swap and disk.
LEMMA FieldsOfStorage ==
  ASSUME Delivered
  PROVE  /\ message[1]["memory"]["used_percent"] = Written(MemoryMetrics(board).used_percent, 1)
         /\ message[1]["memory"]["available_bytes"] = MemoryMetrics(board).available_bytes
         /\ message[1]["swap"]["used_percent"] = Written(SwapMetrics(board).used_percent, 1)
         /\ message[1]["swap"]["used_bytes"] = SwapMetrics(board).used_bytes
         /\ message[1]["disk"]["used_percent"] = Written(DiskMetrics(board).used_percent, 1)
         /\ message[1]["disk"]["available_bytes"] = DiskMetrics(board).available_bytes
<1>1. /\ State["memory"] = MemoryMetrics(board) /\ State["swap"] = SwapMetrics(board)
      /\ State["disk"] = DiskMetrics(board) /\ {"memory", "swap", "disk"} \subseteq DOMAIN State
  BY GroupsOfState
<1>2. /\ DOMAIN MemoryMetrics(board) = {"total_bytes", "available_bytes", "used_bytes", "used_percent"}
      /\ DOMAIN SwapMetrics(board) = {"total_bytes", "used_bytes", "used_percent"}
      /\ DOMAIN DiskMetrics(board) = {"total_bytes", "available_bytes", "used_bytes", "used_percent"}
  BY DEF MemoryMetrics, SwapMetrics, DiskMetrics
<1>3. ASSUME NEW group \in {"memory", "swap", "disk"}
      PROVE  message[1][group]["used_percent"] = Written(State[group]["used_percent"], 1)
  <2>1. "used_percent" \in DOMAIN State[group] /\ "used_percent" \in DOMAIN Decimals[group]
    BY <1>1, <1>2, DecimalsAre
  <2>2. group \in DOMAIN State /\ group \in DOMAIN Decimals /\ Decimals[group]["used_percent"] = 1
    BY <1>1, DecimalsAre
  <2> QED
    BY <2>1, <2>2, FieldWritten
<1>4. /\ message[1]["memory"]["available_bytes"] = State["memory"]["available_bytes"]
      /\ message[1]["swap"]["used_bytes"] = State["swap"]["used_bytes"]
      /\ message[1]["disk"]["available_bytes"] = State["disk"]["available_bytes"]
  BY <1>1, <1>2, DecimalsAre, FieldCopied
<1> QED
  BY <1>1, <1>3, <1>4

\* What it says of the firmware flags and of the service.
LEMMA FieldsOfRest ==
  ASSUME Delivered
  PROVE  /\ message[1]["power"] = PowerMetrics(board)
         /\ message[1]["uptime_seconds"] = ParseUptimeSeconds(board.uptime)
         /\ message[1]["observed_at"] # Null
         /\ message[1]["service"]["collection_duration_ms"] # Null
         /\ message[1]["health"]["collector_errors"] = <<CollectorErrors(board)>>
         /\ message[1]["health"]["status"] =
              <<Evaluate(IF board.throttled = Null THEN {} ELSE board.throttled[1],
                         CollectorErrors(board) # {})>>
<1>1. \A group \in {"power", "uptime_seconds", "observed_at", "service", "health"} :
        message[1][group] = State[group]
  BY GroupsOfState, DecimalsAre, GroupCopied
<1> QED
  BY <1>1, GroupsOfState DEF Null

-----------------------------------------------------------------------------
(***************************************************************************)
(* The board.                                                              *)
(***************************************************************************)
\* The sources the worker read are sources of their kinds.
BoardTyped ==
  /\ board = [source \in Sources |-> board[source]]
  /\ \A source \in Sources : board[source] \in SourceTypes[source]

\* An optional value is none, or one in a tuple.
LEMMA OptionalIs ==
  ASSUME NEW S, NEW v \in Optional(S), v # Null
  PROVE  v[1] \in S
<1>1. v \in Seq(S) /\ Len(v) <= 1 /\ Len(v) \in Nat /\ Len(v) # 0
  BY DEF Optional, Null
<1> QED
  BY <1>1

\* What each source may hold.
LEMMA TypesOfBoard ==
  ASSUME BoardTyped
  PROVE  /\ board.usage \in Optional([busy: Int, total: Nat])
         /\ board.load \in [1..3 -> Optional(Int)]
         /\ board.temperature \in Optional(Int)
         /\ board.frequency \in Seq(Optional(Int))
         /\ board.meminfo \in [Keys -> Nat \cup {Absent}]
         /\ board.statvfs \in [fragment: Nat, blocks: Nat, free: Nat, available: Nat]
         /\ board.uptime \in Optional(Int)
         /\ board.throttled \in Optional(SUBSET Nat)
<1>1. Sources = {"usage", "load", "temperature", "frequency", "meminfo", "statvfs", "uptime", "throttled"}
  BY DEF Sources, SourceTypes
<1>2. /\ SourceTypes["usage"] = Optional([busy: Int, total: Nat])
      /\ SourceTypes["load"] = [1..3 -> Optional(Int)]
      /\ SourceTypes["temperature"] = Optional(Int)
      /\ SourceTypes["frequency"] = Seq(Optional(Int))
      /\ SourceTypes["meminfo"] = [Keys -> Nat \cup {Absent}]
      /\ SourceTypes["statvfs"] = [fragment: Nat, blocks: Nat, free: Nat, available: Nat]
      /\ SourceTypes["uptime"] = Optional(Int)
      /\ SourceTypes["throttled"] = Optional(SUBSET Nat)
  BY DEF SourceTypes
<1>3. \A source \in Sources : board[source] \in SourceTypes[source]
  BY DEF BoardTyped
<1>4. /\ board["usage"] \in SourceTypes["usage"] /\ board["load"] \in SourceTypes["load"]
      /\ board["temperature"] \in SourceTypes["temperature"]
      /\ board["frequency"] \in SourceTypes["frequency"]
      /\ board["meminfo"] \in SourceTypes["meminfo"] /\ board["statvfs"] \in SourceTypes["statvfs"]
      /\ board["uptime"] \in SourceTypes["uptime"] /\ board["throttled"] \in SourceTypes["throttled"]
  BY <1>1, <1>3
<1> QED
  BY <1>2, <1>4

-----------------------------------------------------------------------------
(***************************************************************************)
(* The numbers.                                                            *)
(***************************************************************************)
\* EntitiesHonest, of one measurement.
Honest(m) ==
  /\ Component(m.key).unit = m.unit
  /\ Shown(m.key) = Null <=> m.value = Null
  /\ m.value # Null => Close(Shown(m.key)[1], m.value[1], Component(m.key).precision)

\* A sensor that shows a field as written is honest when the field was measured exactly.
LEMMA HonestWritten ==
  ASSUME NEW key, NEW unit, NEW p, NEW path, NEW field, NEW value,
         sensor(key, unit, p, OrNone(path)) \in COMPONENT_DEFINITIONS,
         ValueJson(path) = Written(field, p),
         field = Null <=> value = Null,
         value # Null => Close(RoundedTo(field[1], p), value[1], p)
  PROVE  Honest(Measured(key, unit, value))
<1>1. Component(key).unit = unit /\ Component(key).precision = p /\ Shown(key) = Render(OrNone(path))
  BY SensorIs
<1>2. Shown(key) = Written(field, p)
  BY <1>1, Rendered
<1>3. Shown(key) = Null <=> value = Null
  BY <1>2 DEF Written, Null
<1>4. value # Null => Shown(key)[1] = RoundedTo(field[1], p)
  BY <1>2 DEF Written
<1>5. Measured(key, unit, value).key = key /\ Measured(key, unit, value).unit = unit
        /\ Measured(key, unit, value).value = value
  BY DEF Measured
<1> QED
  BY <1>1, <1>3, <1>4, <1>5 DEF Honest

\* The same of a sensor whose template divides by a unit.
LEMMA HonestScaled ==
  ASSUME NEW key, NEW unit, NEW p, NEW path, NEW divisor, NEW field, NEW value,
         sensor(key, unit, p, Scaled(path, divisor, p)) \in COMPONENT_DEFINITIONS,
         ValueJson(path) = field,
         field = Null <=> value = Null,
         value # Null => Close(RoundedTo(Ratio(field[1], divisor), p), value[1], p)
  PROVE  Honest(Measured(key, unit, value))
<1>1. Component(key).unit = unit /\ Component(key).precision = p /\ Shown(key) = Render(Scaled(path, divisor, p))
  BY SensorIs
<1>2. Shown(key) = IF field = Null THEN Null ELSE <<RoundedTo(Ratio(field[1], divisor), p)>>
  BY <1>1, Rendered
<1>3. Shown(key) = Null <=> value = Null
  BY <1>2 DEF Null
<1>4. value # Null => Shown(key)[1] = RoundedTo(Ratio(field[1], divisor), p)
  BY <1>2
<1>5. Measured(key, unit, value).key = key /\ Measured(key, unit, value).unit = unit
        /\ Measured(key, unit, value).value = value
  BY DEF Measured
<1> QED
  BY <1>1, <1>3, <1>4, <1>5 DEF Honest

\* A field of thousandths is close to itself.
LEMMA ThousandthsClose ==
  ASSUME NEW field \in Optional(Int), NEW p \in {1, 2}, Thousandths(field) # Null
  PROVE  Close(RoundedTo(Thousandths(field)[1], p), Thousandths(field)[1], p)
<1>1. field # Null /\ Thousandths(field)[1] = Ratio(field[1], 1000)
  BY DEF Thousandths, Null
<1>2. field[1] \in Int
  BY <1>1, OptionalIs
<1>3. 1000 \in Nat \ {0}
  OBVIOUS
<1> QED
  BY <1>1, <1>2, <1>3, RoundedClose

\* The temperature.
LEMMA TemperatureHonest ==
  ASSUME Delivered, BoardTyped
  PROVE  Honest(Measured(<<"cpu", "temperature">>, "degC", Thousandths(board.temperature)))
<1>1. sensor(<<"cpu", "temperature">>, "degC", 1, OrNone(<<"cpu", "temperature_c">>)) \in COMPONENT_DEFINITIONS
  BY DEF COMPONENT_DEFINITIONS, ProcessorSensors
<1>2. ValueJson(<<"cpu", "temperature_c">>) = Written(Thousandths(board.temperature), 1)
  BY PathTwo, FieldsOfCpu DEF CpuMetrics, ParseTemperature
<1>3. Thousandths(board.temperature) # Null =>
        Close(RoundedTo(Thousandths(board.temperature)[1], 1), Thousandths(board.temperature)[1], 1)
  BY TypesOfBoard, ThousandthsClose
<1> QED
  BY <1>1, <1>2, <1>3, HonestWritten

\* The frequency.
LEMMA FrequencyHonest ==
  ASSUME Delivered, BoardTyped
  PROVE  Honest(Measured(<<"cpu", "frequency">>, "MHz", TrueFrequency))
<1>1. sensor(<<"cpu", "frequency">>, "MHz", 1, OrNone(<<"cpu", "frequency_mhz">>)) \in COMPONENT_DEFINITIONS
  BY DEF COMPONENT_DEFINITIONS, ProcessorSensors
<1>2. board.frequency # <<>> => board.frequency[1] \in Optional(Int) /\ Head(board.frequency) = board.frequency[1]
  BY TypesOfBoard
<1>3. ValueJson(<<"cpu", "frequency_mhz">>) = Written(TrueFrequency, 1)
  BY <1>2, PathTwo, FieldsOfCpu DEF CpuMetrics, ParseFrequencyKhz, TrueFrequency
<1>4. TrueFrequency # Null => Close(RoundedTo(TrueFrequency[1], 1), TrueFrequency[1], 1)
  BY <1>2, ThousandthsClose DEF TrueFrequency
<1> QED
  BY <1>1, <1>3, <1>4, HonestWritten

\* The three load averages.
LEMMA LoadHonest ==
  ASSUME Delivered, BoardTyped
  PROVE  /\ Honest(Measured(<<"load", "1">>, NoUnit, TrueLoad(1)))
         /\ Honest(Measured(<<"load", "5">>, NoUnit, TrueLoad(2)))
         /\ Honest(Measured(<<"load", "15">>, NoUnit, TrueLoad(3)))
<1>1. /\ sensor(<<"load", "1">>, NoUnit, 2, OrNone(<<"cpu", "load_1">>)) \in COMPONENT_DEFINITIONS
      /\ sensor(<<"load", "5">>, NoUnit, 2, OrNone(<<"cpu", "load_5">>)) \in COMPONENT_DEFINITIONS
      /\ sensor(<<"load", "15">>, NoUnit, 2, OrNone(<<"cpu", "load_15">>)) \in COMPONENT_DEFINITIONS
  BY DEF COMPONENT_DEFINITIONS, ProcessorSensors
<1>2. \A i \in 1..3 : TrueLoad(i) = IF ParseLoadavg(board.load) = Null THEN Null ELSE ParseLoadavg(board.load)[i]
  <2>1. CASE \A k \in 1..3 : NonNegative(board.load[k])
    <3>1. ParseLoadavg(board.load) = [i \in 1..3 |-> Thousandths(board.load[i])]
      BY <2>1 DEF ParseLoadavg
    <3>2. ParseLoadavg(board.load) # Null
      BY <3>1 DEF Null
    <3> QED
      BY <2>1, <3>1, <3>2 DEF TrueLoad
  <2>2. CASE ~\A k \in 1..3 : NonNegative(board.load[k])
    BY <2>2 DEF ParseLoadavg, TrueLoad, Null
  <2> QED
    BY <2>1, <2>2
<1>3. /\ ValueJson(<<"cpu", "load_1">>) = Written(TrueLoad(1), 2)
      /\ ValueJson(<<"cpu", "load_5">>) = Written(TrueLoad(2), 2)
      /\ ValueJson(<<"cpu", "load_15">>) = Written(TrueLoad(3), 2)
  BY <1>2, PathTwo, FieldsOfCpu DEF CpuMetrics
<1>4. \A i \in 1..3 : TrueLoad(i) # Null => Close(RoundedTo(TrueLoad(i)[1], 2), TrueLoad(i)[1], 2)
  BY TypesOfBoard, ThousandthsClose DEF TrueLoad
<1>5. /\ TrueLoad(1) # Null => Close(RoundedTo(TrueLoad(1)[1], 2), TrueLoad(1)[1], 2)
      /\ TrueLoad(2) # Null => Close(RoundedTo(TrueLoad(2)[1], 2), TrueLoad(2)[1], 2)
      /\ TrueLoad(3) # Null => Close(RoundedTo(TrueLoad(3)[1], 2), TrueLoad(3)[1], 2)
  BY <1>4
<1> QED
  BY <1>1, <1>3, <1>5, HonestWritten

\* The processor usage.
LEMMA UsageHonest ==
  ASSUME Delivered, BoardTyped
  PROVE  Honest(Measured(<<"cpu", "usage">>, "%", TrueUsage))
<1>1. sensor(<<"cpu", "usage">>, "%", 1, OrNone(<<"cpu", "usage_percent">>)) \in COMPONENT_DEFINITIONS
  BY DEF COMPONENT_DEFINITIONS, ProcessorSensors
<1>2. ValueJson(<<"cpu", "usage_percent">>) = Written(TrueUsage, 1)
  BY PathTwo, FieldsOfCpu DEF CpuMetrics, TrueUsage, Known, Percentage
<1>3. ASSUME TrueUsage # Null PROVE Close(RoundedTo(TrueUsage[1], 1), TrueUsage[1], 1)
  <2>1. board.usage # Null /\ board.usage[1].total # 0
          /\ TrueUsage[1] = Ratio(100 * board.usage[1].busy, board.usage[1].total)
    BY <1>3 DEF TrueUsage, Known
  <2>2. board.usage[1] \in [busy: Int, total: Nat]
    BY <2>1, TypesOfBoard, OptionalIs
  <2>3. 100 * board.usage[1].busy \in Int /\ board.usage[1].total \in Nat \ {0}
    BY <2>1, <2>2
  <2> QED
    BY <2>1, <2>3, RoundedClose
<1> QED
  BY <1>1, <1>2, <1>3, HonestWritten

\* A share of bytes is close to the share of the units counted.
LEMMA ShareClose ==
  ASSUME NEW n \in Int, NEW d \in Nat \ {0}, NEW k \in Nat \ {0}, NEW p \in {1, 2}
  PROVE  Close(RoundedTo(Ratio(k * n, k * d), p), Ratio(n, d), p)
<1> SUFFICES ASSUME NEW shown, shown = RoundedTo(Ratio(k * n, k * d), p)
             PROVE  Close(shown, Ratio(n, d), p)
  OBVIOUS
<1>1. k * n \in Int /\ k * d \in Nat \ {0} /\ d \in Int
  OBVIOUS
<1>2. Close(shown, Ratio(k * n, k * d), p)
  BY <1>1, RoundedClose
<1>3. shown.n \in Int /\ shown.d \in Int
  <2>1. Factor(p) \in {10, 100}
    BY Factors
  <2>2. (k * n) * Factor(p) \in Int
    BY <1>1, <2>1
  <2>3. Round((k * n) * Factor(p), k * d) \in Int
    BY <1>1, <2>2, RoundNear
  <2>4. shown.n = Round((k * n) * Factor(p), k * d) /\ shown.d = Factor(p)
    BY DEF RoundedTo, Ratio
  <2> QED
    BY <2>1, <2>3, <2>4
<1> QED
  BY <1>1, <1>2, <1>3, CommonFactor

\* The percentage of a total of zero.
LEMMA NothingClose == Close(RoundedTo(Ratio(0, 1), 1), Ratio(0, 1), 1)
<1>1. 0 \in Int /\ 1 \in Nat \ {0} /\ 1 \in {1, 2}
  OBVIOUS
<1> QED
  BY <1>1, RoundedClose

\* A value is known when every source of it is.
LEMMA KnownIs ==
  ASSUME NEW known, NEW n, NEW d
  PROVE  /\ ~known => Known(known, n, d) = Null
         /\ known => Known(known, n, d) # Null
         /\ known /\ d = 0 => Known(known, n, d)[1] = Ratio(0, 1)
         /\ known /\ d # 0 => Known(known, n, d)[1] = Ratio(n, d)
  BY DEF Known, Null

\* The amounts a parsed meminfo holds.
LEMMA MeminfoNumbers ==
  ASSUME BoardTyped, MeminfoOutcome(board.meminfo) = "ok"
  PROVE  /\ MemTotal \in Nat \ {0} /\ MemRest \in Nat
         /\ SwapTotal \in Nat /\ SwapUsed \in Nat
<1> DEFINE m == board.meminfo
<1>1. /\ m["MemTotal"] \in Nat \cup {Absent} /\ m["MemAvailable"] \in Nat \cup {Absent}
      /\ m["SwapTotal"] \in Nat \cup {Absent} /\ m["SwapFree"] \in Nat \cup {Absent}
      /\ m["MemFree"] \in Nat \cup {Absent} /\ m["Buffers"] \in Nat \cup {Absent}
      /\ m["Cached"] \in Nat \cup {Absent} /\ m["SReclaimable"] \in Nat \cup {Absent}
      /\ m["Shmem"] \in Nat \cup {Absent}
  BY TypesOfBoard DEF Keys, FallbackKeys
<1>2. /\ m["MemTotal"] # Absent /\ m["MemTotal"] # 0 /\ m["SwapTotal"] # Absent /\ m["SwapFree"] # Absent
      /\ m["MemAvailable"] = Absent => \A key \in FallbackKeys : m[key] # Absent
  BY DEF MeminfoOutcome
<1> HIDE DEF m
<1>3. m["MemAvailable"] = Absent =>
        /\ m["MemFree"] \in Nat /\ m["Buffers"] \in Nat /\ m["Cached"] \in Nat
        /\ m["SReclaimable"] \in Nat /\ m["Shmem"] \in Nat
  BY <1>1, <1>2 DEF FallbackKeys
<1>4. AvailableKib(m) \in Nat
  BY <1>1, <1>3 DEF AvailableKib, FallbackSum
<1>5. m["MemTotal"] \in Nat \ {0} /\ m["SwapTotal"] \in Nat /\ m["SwapFree"] \in Nat
  BY <1>1, <1>2
<1> QED
  BY <1>4, <1>5 DEF MemTotal, MemRest, SwapTotal, SwapUsed, Smaller, m

\* Memory: the amount in use and its percentage.
LEMMA MemoryHonest ==
  ASSUME Delivered, BoardTyped
  PROVE  /\ Honest(Measured(<<"memory", "usage">>, "%", TrueMemory(100 * (MemTotal - MemRest), MemTotal)))
         /\ Honest(Measured(<<"memory", "available">>, "GiB", TrueMemory(MemRest, KIB * KIB)))
<1> DEFINE known == MeminfoOutcome(board.meminfo) = "ok"
           percent == MemoryMetrics(board).used_percent
           bytes == MemoryMetrics(board).available_bytes
           share == TrueMemory(100 * (MemTotal - MemRest), MemTotal)
           rest == TrueMemory(MemRest, KIB * KIB)
<1>1. /\ sensor(<<"memory", "usage">>, "%", 1, OrNone(<<"memory", "used_percent">>)) \in COMPONENT_DEFINITIONS
      /\ sensor(<<"memory", "available">>, "GiB", 2, Scaled(<<"memory", "available_bytes">>, GIB, 2))
           \in COMPONENT_DEFINITIONS
  BY DEF COMPONENT_DEFINITIONS, StorageSensors
<1>2. ValueJson(<<"memory", "used_percent">>) = Written(percent, 1)
        /\ ValueJson(<<"memory", "available_bytes">>) = bytes
  BY PathTwo, FieldsOfStorage
<1>3. /\ ~known => percent = Null /\ bytes = Null /\ share = Null /\ rest = Null
      /\ known => percent # Null /\ bytes # Null /\ share # Null /\ rest # Null
  BY KnownIs DEF MemoryMetrics, TrueMemory, Null
<1>4. ASSUME known
      PROVE  /\ Close(RoundedTo(percent[1], 1), share[1], 1)
             /\ Close(RoundedTo(Ratio(bytes[1], GIB), 2), rest[1], 2)
  <2>1. /\ MemTotal \in Nat \ {0} /\ MemRest \in Nat /\ KIB \in Nat \ {0}
    BY <1>4, MeminfoNumbers, WidthAssumption
  <2>2. /\ percent[1] = Percentage(KIB * MemTotal - KIB * MemRest, KIB * MemTotal)
        /\ bytes[1] = KIB * MemRest
    BY <1>4 DEF MemoryMetrics, MemoryAmount, Amount, MemTotal, MemRest
  <2>3. /\ share[1] = Ratio(100 * (MemTotal - MemRest), MemTotal)
        /\ KIB * KIB # 0 /\ rest[1] = Ratio(MemRest, KIB * KIB)
    <3>1. KIB * KIB # 0 /\ MemTotal # 0
      BY <2>1
    <3> QED
      BY <1>4, <3>1, KnownIs DEF TrueMemory
  <2>4. /\ KIB * MemTotal # 0
        /\ 100 * (KIB * MemTotal - KIB * MemRest) = KIB * (100 * (MemTotal - MemRest))
        /\ 100 * (MemTotal - MemRest) \in Int /\ KIB * KIB \in Nat \ {0}
    BY <2>1
  <2>5. percent[1] = Ratio(KIB * (100 * (MemTotal - MemRest)), KIB * MemTotal)
    BY <2>2, <2>4 DEF Percentage
  <2>6. Ratio(bytes[1], GIB) = Ratio(KIB * MemRest, KIB * (KIB * KIB))
    BY <2>2 DEF GIB, MIB
  <2>7. 1 \in {1, 2} /\ 2 \in {1, 2} /\ MemRest \in Int
    BY <2>1
  <2> HIDE DEF percent, bytes, share, rest
  <2>8. Close(RoundedTo(percent[1], 1), share[1], 1)
    BY <2>1, <2>3, <2>4, <2>5, <2>7, ShareClose
  <2>9. Close(RoundedTo(Ratio(bytes[1], GIB), 2), rest[1], 2)
    BY <2>1, <2>3, <2>4, <2>6, <2>7, ShareClose
  <2> QED
    BY <2>8, <2>9
<1> HIDE DEF percent, bytes, share, rest, known
<1>5. Honest(Measured(<<"memory", "usage">>, "%", share))
  BY <1>1, <1>2, <1>3, <1>4, HonestWritten
<1>6. Honest(Measured(<<"memory", "available">>, "GiB", rest))
  BY <1>1, <1>2, <1>3, <1>4, HonestScaled
<1> QED
  BY <1>5, <1>6 DEF share, rest

\* Swap: the amount in use and its percentage.
LEMMA SwapHonest ==
  ASSUME Delivered, BoardTyped
  PROVE  /\ Honest(Measured(<<"swap", "usage">>, "%", TrueMemory(100 * SwapUsed, SwapTotal)))
         /\ Honest(Measured(<<"swap", "used">>, "MiB", TrueMemory(SwapUsed, KIB)))
<1> DEFINE known == MeminfoOutcome(board.meminfo) = "ok"
           percent == SwapMetrics(board).used_percent
           bytes == SwapMetrics(board).used_bytes
           share == TrueMemory(100 * SwapUsed, SwapTotal)
           used == TrueMemory(SwapUsed, KIB)
<1>1. /\ sensor(<<"swap", "usage">>, "%", 1, OrNone(<<"swap", "used_percent">>)) \in COMPONENT_DEFINITIONS
      /\ sensor(<<"swap", "used">>, "MiB", 1, Scaled(<<"swap", "used_bytes">>, MIB, 1))
           \in COMPONENT_DEFINITIONS
  BY DEF COMPONENT_DEFINITIONS, StorageSensors
<1>2. ValueJson(<<"swap", "used_percent">>) = Written(percent, 1)
        /\ ValueJson(<<"swap", "used_bytes">>) = bytes
  BY PathTwo, FieldsOfStorage
<1>3. /\ ~known => percent = Null /\ bytes = Null /\ share = Null /\ used = Null
      /\ known => percent # Null /\ bytes # Null /\ share # Null /\ used # Null
  BY KnownIs DEF SwapMetrics, TrueMemory, Null
<1>4. ASSUME known
      PROVE  /\ Close(RoundedTo(percent[1], 1), share[1], 1)
             /\ Close(RoundedTo(Ratio(bytes[1], MIB), 1), used[1], 1)
  <2> DEFINE free == Smaller(board.meminfo["SwapFree"], SwapTotal)
  <2>1. /\ SwapTotal \in Nat /\ SwapUsed \in Nat /\ KIB \in Nat \ {0}
    BY <1>4, MeminfoNumbers, WidthAssumption
  <2>2. /\ percent[1] = Percentage(KIB * SwapTotal - KIB * free, KIB * SwapTotal)
        /\ bytes[1] = KIB * SwapTotal - KIB * free
        /\ SwapUsed = SwapTotal - free
    BY <1>4 DEF SwapMetrics, SwapAmount, Amount, SwapTotal, SwapUsed
  <2>3. free \in Int
    <3>1. board.meminfo["SwapFree"] \in Nat \cup {Absent}
      BY TypesOfBoard DEF Keys
    <3> QED
      BY <2>1, <3>1 DEF Smaller, Absent
  <2>4. used[1] = Ratio(SwapUsed, KIB)
    BY <1>4, <2>1, KnownIs DEF TrueMemory
  <2> HIDE DEF free
  <2>5. KIB * SwapTotal - KIB * free = KIB * SwapUsed
    BY <2>1, <2>2, <2>3
  <2>6. /\ 100 * (KIB * SwapUsed) = KIB * (100 * SwapUsed) /\ 100 * SwapUsed \in Int
        /\ SwapUsed \in Int /\ (KIB * SwapTotal = 0 <=> SwapTotal = 0)
        /\ 1 \in {1, 2}
    BY <2>1
  <2>7. Close(RoundedTo(Ratio(bytes[1], MIB), 1), used[1], 1)
    <3>1. Ratio(bytes[1], MIB) = Ratio(KIB * SwapUsed, KIB * KIB)
      BY <2>2, <2>5 DEF MIB
    <3> HIDE DEF bytes, used
    <3> QED
      BY <2>1, <2>4, <2>6, <3>1, ShareClose
  <2>8. Close(RoundedTo(percent[1], 1), share[1], 1)
    <3>1. CASE SwapTotal = 0
      <4>1. percent[1] = Ratio(0, 1)
        BY <2>2, <2>6, <3>1 DEF Percentage
      <4>2. share[1] = Ratio(0, 1)
        BY <1>4, <3>1, KnownIs DEF TrueMemory
      <4> HIDE DEF percent, share
      <4> QED
        BY <4>1, <4>2, NothingClose
    <3>2. CASE SwapTotal # 0
      <4>1. percent[1] = Ratio(KIB * (100 * SwapUsed), KIB * SwapTotal)
        BY <2>2, <2>5, <2>6, <3>2 DEF Percentage
      <4>2. share[1] = Ratio(100 * SwapUsed, SwapTotal)
        BY <1>4, <3>2, KnownIs DEF TrueMemory
      <4>3. SwapTotal \in Nat \ {0}
        BY <2>1, <3>2
      <4> HIDE DEF percent, share
      <4> QED
        BY <2>1, <2>6, <4>1, <4>2, <4>3, ShareClose
    <3> QED
      BY <3>1, <3>2
  <2> QED
    BY <2>7, <2>8
<1> HIDE DEF percent, bytes, share, used, known
<1>5. Honest(Measured(<<"swap", "usage">>, "%", share))
  BY <1>1, <1>2, <1>3, <1>4, HonestWritten
<1>6. Honest(Measured(<<"swap", "used">>, "MiB", used))
  BY <1>1, <1>2, <1>3, <1>4, HonestScaled
<1> QED
  BY <1>5, <1>6 DEF share, used

\* Disk: the amount in use and its percentage.
LEMMA DiskHonest ==
  ASSUME Delivered, BoardTyped
  PROVE  /\ Honest(Measured(<<"disk", "usage">>, "%", TrueDisk(100 * BlocksUsed, BlocksUsable)))
         /\ Honest(Measured(<<"disk", "available">>, "GiB",
                            TrueDisk(board.statvfs.available * board.statvfs.fragment, GIB)))
<1> DEFINE s == board.statvfs
           known == DiskOutcome(s.fragment, s.blocks, s.free, s.available) = "ok"
           percent == DiskMetrics(board).used_percent
           bytes == DiskMetrics(board).available_bytes
           share == TrueDisk(100 * BlocksUsed, BlocksUsable)
           rest == TrueDisk(s.available * s.fragment, GIB)
<1>1. /\ sensor(<<"disk", "usage">>, "%", 1, OrNone(<<"disk", "used_percent">>)) \in COMPONENT_DEFINITIONS
      /\ sensor(<<"disk", "available">>, "GiB", 2, Scaled(<<"disk", "available_bytes">>, GIB, 2))
           \in COMPONENT_DEFINITIONS
  BY DEF COMPONENT_DEFINITIONS, StorageSensors
<1>2. ValueJson(<<"disk", "used_percent">>) = Written(percent, 1)
        /\ ValueJson(<<"disk", "available_bytes">>) = bytes
  BY PathTwo, FieldsOfStorage
<1>3. /\ ~known => percent = Null /\ bytes = Null /\ share = Null /\ rest = Null
      /\ known => percent # Null /\ bytes # Null /\ share # Null /\ rest # Null
  BY KnownIs DEF DiskMetrics, TrueDisk, Null
<1>4. ASSUME known
      PROVE  /\ Close(RoundedTo(percent[1], 1), share[1], 1)
             /\ Close(RoundedTo(Ratio(bytes[1], GIB), 2), rest[1], 2)
  <2>1. s.fragment \in Nat /\ s.blocks \in Nat /\ s.free \in Nat /\ s.available \in Nat
    BY TypesOfBoard
  <2>2. KIB \in Nat \ {0} /\ GIB \in Nat \ {0}
    <3>1. KIB \in Nat \ {0}
      BY WidthAssumption
    <3>2. KIB * KIB \in Nat \ {0}
      BY <3>1
    <3> QED
      BY <3>1, <3>2 DEF GIB, MIB
  <2>3. /\ percent[1] = Percentage(s.blocks * s.fragment - s.free * s.fragment,
                                   s.blocks * s.fragment - s.free * s.fragment + s.available * s.fragment)
        /\ bytes[1] = s.available * s.fragment
    BY <1>4 DEF DiskMetrics, DiskAmount, Amount
  <2>4. rest[1] = Ratio(s.available * s.fragment, GIB)
    BY <1>4, <2>2, KnownIs DEF TrueDisk
  <2>5. Close(RoundedTo(Ratio(bytes[1], GIB), 2), rest[1], 2)
    <3>1. s.available * s.fragment \in Int /\ 2 \in {1, 2}
      BY <2>1
    <3> HIDE DEF bytes, rest, s
    <3> QED
      BY <2>2, <2>3, <2>4, <3>1, RoundedClose
  <2>6. /\ s.blocks * s.fragment - s.free * s.fragment = s.fragment * BlocksUsed
        /\ s.blocks * s.fragment - s.free * s.fragment + s.available * s.fragment
             = s.fragment * (BlocksUsed + s.available)
        /\ BlocksUsed \in Int
    BY <2>1 DEF BlocksUsed
  <2>7. ~(s.free * s.fragment > s.blocks * s.fragment)
    BY <1>4 DEF DiskOutcome, AmountOutcome, DiskAmount, Amount
  <2>8. s.fragment # 0 => BlocksUsed \in Nat
    <3>1. s.fragment # 0 /\ s.free > s.blocks => s.free * s.fragment > s.blocks * s.fragment
      BY <2>1
    <3> QED
      BY <2>1, <2>7, <3>1 DEF BlocksUsed
  <2>9. Close(RoundedTo(percent[1], 1), share[1], 1)
    <3>1. CASE BlocksUsable = 0
      <4>1. s.fragment * (BlocksUsed + s.available) = 0
        BY <2>1, <2>6, <3>1 DEF BlocksUsable
      <4>2. percent[1] = Ratio(0, 1)
        BY <2>3, <2>6, <4>1 DEF Percentage
      <4>3. share[1] = Ratio(0, 1)
        BY <1>4, <3>1, KnownIs DEF TrueDisk
      <4> HIDE DEF percent, share
      <4> QED
        BY <4>2, <4>3, NothingClose
    <3>2. CASE BlocksUsable # 0
      <4>1. s.fragment \in Nat \ {0} /\ BlocksUsable = BlocksUsed + s.available /\ BlocksUsable \in Nat \ {0}
        BY <2>1, <2>8, <3>2 DEF BlocksUsable
      <4>2. s.fragment * BlocksUsable # 0 /\ 100 * (s.fragment * BlocksUsed) = s.fragment * (100 * BlocksUsed)
              /\ 100 * BlocksUsed \in Int /\ 1 \in {1, 2}
        BY <2>6, <4>1
      <4>3. percent[1] = Ratio(s.fragment * (100 * BlocksUsed), s.fragment * BlocksUsable)
        BY <2>3, <2>6, <4>1, <4>2 DEF Percentage
      <4>4. share[1] = Ratio(100 * BlocksUsed, BlocksUsable)
        BY <1>4, <3>2, KnownIs DEF TrueDisk
      <4> HIDE DEF percent, share, s
      <4> QED
        BY <4>1, <4>2, <4>3, <4>4, ShareClose
    <3> QED
      BY <3>1, <3>2
  <2> QED
    BY <2>5, <2>9
<1> HIDE DEF percent, bytes, share, rest, known
<1>5. Honest(Measured(<<"disk", "usage">>, "%", share))
  BY <1>1, <1>2, <1>3, <1>4, HonestWritten
<1>6. Honest(Measured(<<"disk", "available">>, "GiB", rest))
  BY <1>1, <1>2, <1>3, <1>4, HonestScaled
<1> QED
  BY <1>5, <1>6 DEF share, rest

\* All the measurements.
LEMMA TruthHonest == Delivered /\ BoardTyped => \A m \in Truth : Honest(m)
<1> SUFFICES ASSUME Delivered, BoardTyped, NEW m \in Truth PROVE Honest(m)
  OBVIOUS
<1> USE TemperatureHonest, UsageHonest, LoadHonest, FrequencyHonest, MemoryHonest, SwapHonest, DiskHonest
<1> QED
  BY Zenon DEF Truth

-----------------------------------------------------------------------------
(***************************************************************************)
(* The flags, the rest, and the status.                                    *)
(***************************************************************************)
\* A flag with the bit that FlagBit gives it.
LEMMA FlagShown ==
  ASSUME Delivered, NEW field \in DOMAIN FlagBit, NEW key,
         binary_sensor(key, <<"power", field>>) \in COMPONENT_DEFINITIONS
  PROVE  Shown(key) = TrueFlag(FlagBit[field])
<1>1. message[1]["power"] = PowerMetrics(board)
  BY FieldsOfRest
<1>2. ValueJson(<<"power", field>>) =
        IF board.throttled = Null THEN Null ELSE <<FlagBit[field] \in board.throttled[1]>>
  <2>1. field # "throttled_raw"
    BY DEF FlagBit
  <2> QED
    BY <1>1, <2>1, PathTwo DEF PowerMetrics
<1>3. Shown(key) = Render(OnOff(<<"power", field>>))
  BY FlagIs
<1>4. CASE board.throttled = Null
  BY <1>2, <1>3, <1>4, Rendered DEF TrueFlag
<1>5. CASE board.throttled # Null
  <2> DEFINE v == <<FlagBit[field] \in board.throttled[1]>>
  <2>1. v # Null /\ v[1] = (FlagBit[field] \in board.throttled[1])
    BY DEF Null
  <2>2. ValueJson(<<"power", field>>) = v
    BY <1>2, <1>5
  <2>3. Render(OnOff(<<"power", field>>)) = <<IF v[1] THEN "ON" ELSE "OFF">>
    BY <2>1, <2>2, Rendered
  <2> QED
    BY <1>3, <1>5, <2>1, <2>3 DEF TrueFlag
<1> QED
  BY <1>4, <1>5

\* The eight flags, each with its own bit.
LEMMA FlagsShown ==
  ASSUME Delivered
  PROVE  /\ Shown(<<"undervoltage", "now">>) = TrueFlag(0)
         /\ Shown(<<"undervoltage", "since", "boot">>) = TrueFlag(16)
         /\ Shown(<<"arm", "frequency", "capped", "now">>) = TrueFlag(1)
         /\ Shown(<<"arm", "frequency", "capped", "since", "boot">>) = TrueFlag(17)
         /\ Shown(<<"throttled", "now">>) = TrueFlag(2)
         /\ Shown(<<"throttled", "since", "boot">>) = TrueFlag(18)
         /\ Shown(<<"soft", "temperature", "limit", "now">>) = TrueFlag(3)
         /\ Shown(<<"soft", "temperature", "limit", "since", "boot">>) = TrueFlag(19)
<1>1. /\ binary_sensor(<<"undervoltage", "now">>, <<"power", "undervoltage_now">>) \in COMPONENT_DEFINITIONS
      /\ binary_sensor(<<"undervoltage", "since", "boot">>, <<"power", "undervoltage_since_boot">>)
           \in COMPONENT_DEFINITIONS
      /\ binary_sensor(<<"throttled", "now">>, <<"power", "throttled_now">>) \in COMPONENT_DEFINITIONS
      /\ binary_sensor(<<"throttled", "since", "boot">>, <<"power", "throttled_since_boot">>)
           \in COMPONENT_DEFINITIONS
      /\ binary_sensor(<<"arm", "frequency", "capped", "now">>, <<"power", "arm_frequency_capped_now">>)
           \in COMPONENT_DEFINITIONS
      /\ binary_sensor(<<"arm", "frequency", "capped", "since", "boot">>,
                       <<"power", "arm_frequency_capped_since_boot">>) \in COMPONENT_DEFINITIONS
      /\ binary_sensor(<<"soft", "temperature", "limit", "now">>, <<"power", "soft_temperature_limit_now">>)
           \in COMPONENT_DEFINITIONS
      /\ binary_sensor(<<"soft", "temperature", "limit", "since", "boot">>,
                       <<"power", "soft_temperature_limit_since_boot">>) \in COMPONENT_DEFINITIONS
  BY DEF COMPONENT_DEFINITIONS, FlagSensors
<1>2. /\ DOMAIN FlagBit = {"undervoltage_now", "arm_frequency_capped_now", "throttled_now",
                           "soft_temperature_limit_now", "undervoltage_since_boot",
                           "arm_frequency_capped_since_boot", "throttled_since_boot",
                           "soft_temperature_limit_since_boot"}
      /\ FlagBit["undervoltage_now"] = 0 /\ FlagBit["arm_frequency_capped_now"] = 1
      /\ FlagBit["throttled_now"] = 2 /\ FlagBit["soft_temperature_limit_now"] = 3
      /\ FlagBit["undervoltage_since_boot"] = 16 /\ FlagBit["arm_frequency_capped_since_boot"] = 17
      /\ FlagBit["throttled_since_boot"] = 18 /\ FlagBit["soft_temperature_limit_since_boot"] = 19
  BY DEF FlagBit
<1> QED
  BY <1>1, <1>2, FlagShown

\* The firmware flags.
LEMMA FlagsHonest == Delivered => \A flag \in FirmwareBits : Shown(flag.key) = TrueFlag(flag.bit)
<1> SUFFICES ASSUME Delivered, NEW flag \in FirmwareBits PROVE Shown(flag.key) = TrueFlag(flag.bit)
  OBVIOUS
<1>1. \A key, bit : FirmwareBit(key, bit).key = key /\ FirmwareBit(key, bit).bit = bit
  BY DEF FirmwareBit
<1> QED
  BY <1>1, FlagsShown DEF FirmwareBits

\* The firmware word itself.
LEMMA RawHonest ==
  ASSUME Delivered
  PROVE  Shown(<<"throttled", "raw">>) = board.throttled
<1>1. sensor(<<"throttled", "raw">>, NoUnit, 0, OrNone(<<"power", "throttled_raw">>)) \in COMPONENT_DEFINITIONS
  BY DEF COMPONENT_DEFINITIONS, ServiceSensors
<1>2. ValueJson(<<"power", "throttled_raw">>) = board.throttled
  BY PathTwo, FieldsOfRest DEF PowerMetrics
<1> QED
  BY <1>1, <1>2, SensorIs, Rendered

\* The uptime.
LEMMA UptimeHonest ==
  ASSUME Delivered, BoardTyped
  PROVE  LET uptime == Shown(<<"uptime">>) IN
         /\ uptime = ParseUptimeSeconds(board.uptime)
         /\ IF NonNegative(board.uptime) /\ board.uptime[1] < 1000 * MaxU64
            THEN 1000 * uptime[1] <= board.uptime[1] /\ board.uptime[1] < 1000 * uptime[1] + 1000
            ELSE uptime = Null
<1> DEFINE uptime == Shown(<<"uptime">>)
<1>1. sensor(<<"uptime">>, "s", 0, OrNone(<<"uptime_seconds">>)) \in COMPONENT_DEFINITIONS
  BY DEF COMPONENT_DEFINITIONS, ServiceSensors
<1>2. ValueJson(<<"uptime_seconds">>) = ParseUptimeSeconds(board.uptime)
  BY PathOne, FieldsOfRest
<1>3. uptime = ParseUptimeSeconds(board.uptime)
  BY <1>1, <1>2, SensorIs, Rendered
<1> HIDE DEF uptime
<1>4. CASE NonNegative(board.uptime) /\ board.uptime[1] < 1000 * MaxU64
  <2>1. board.uptime[1] \in Int /\ board.uptime[1] >= 0
    BY <1>4, TypesOfBoard, OptionalIs DEF NonNegative, Null
  <2>2. uptime[1] = board.uptime[1] \div 1000
    BY <1>3, <1>4 DEF ParseUptimeSeconds
  <2> QED
    BY <1>3, <1>4, <2>1, <2>2 DEF uptime
<1>5. CASE ~(NonNegative(board.uptime) /\ board.uptime[1] < 1000 * MaxU64)
  BY <1>3, <1>5 DEF ParseUptimeSeconds, Null, uptime
<1> QED
  BY <1>4, <1>5

\* Status and errors as they are shown.
LEMMA StatusShown ==
  ASSUME Delivered
  PROVE  /\ Shown(<<"health", "status">>)[1] =
              Evaluate(IF board.throttled = Null THEN {} ELSE board.throttled[1], CollectorErrors(board) # {})
         /\ Shown(<<"health", "status">>) # Null
         /\ Shown(<<"collector", "error", "count">>) = <<Cardinality(CollectorErrors(board))>>
<1>1. /\ sensor(<<"health", "status">>, NoUnit, 0, Plain(<<"health", "status">>)) \in COMPONENT_DEFINITIONS
      /\ sensor(<<"collector", "error", "count">>, NoUnit, 0, Count(<<"health", "collector_errors">>))
           \in COMPONENT_DEFINITIONS
  BY DEF COMPONENT_DEFINITIONS, ProcessorSensors, ServiceSensors
<1> DEFINE status == <<Evaluate(IF board.throttled = Null THEN {} ELSE board.throttled[1],
                                CollectorErrors(board) # {})>>
           errs == <<CollectorErrors(board)>>
<1>2. ValueJson(<<"health", "status">>) = status
        /\ ValueJson(<<"health", "collector_errors">>) = errs
  BY PathTwo, FieldsOfRest
<1>3. status # Null /\ errs # Null /\ errs[1] = CollectorErrors(board)
  BY DEF Null
<1>4. Shown(<<"health", "status">>) = status
  BY <1>1, <1>2, SensorIs, Rendered
<1>5. Shown(<<"collector", "error", "count">>) = Render(Count(<<"health", "collector_errors">>))
  BY <1>1, SensorIs
<1>6. Shown(<<"collector", "error", "count">>) = <<Cardinality(errs[1])>>
  BY <1>2, <1>3, <1>5, Rendered
<1> QED
  BY <1>3, <1>4, <1>6

\* The status follows from the errors.
LEMMA StatusIs ==
  ASSUME NEW bits, NEW failed \in BOOLEAN
  PROVE  /\ Evaluate(bits, failed) \in HEALTH_OPTIONS
         /\ Evaluate(bits, failed) \in {"ok", "warning"} => ~failed
  BY DEF Evaluate, HEALTH_OPTIONS

\* What was measured when nothing left an error.
LEMMA NoErrorMeasured ==
  ASSUME CollectorErrors(board) = {}
  PROVE  /\ ParseLoadavg(board.load) # Null /\ ParseTemperature(board.temperature) # Null
         /\ MeminfoOutcome(board.meminfo) = "ok" /\ ParseUptimeSeconds(board.uptime) # Null
         /\ DiskMetrics(board).total_bytes # Null /\ board.throttled # Null
<1>1. /\ ParseLoadavg(board.load) = Null => "load" \in CollectorErrors(board)
      /\ ParseTemperature(board.temperature) = Null => "temperature" \in CollectorErrors(board)
      /\ MeminfoOutcome(board.meminfo) # "ok" => "memory" \in CollectorErrors(board)
  BY DEF CollectorErrors
<1>2. /\ ParseUptimeSeconds(board.uptime) = Null => "uptime" \in CollectorErrors(board)
      /\ DiskMetrics(board).total_bytes = Null => "disk" \in CollectorErrors(board)
      /\ board.throttled = Null => "power" \in CollectorErrors(board)
  BY DEF CollectorErrors
<1> QED
  BY <1>1, <1>2

\* So no sensor is unknown when the status says ok.
LEMMA NothingUnknown ==
  ASSUME Delivered, BoardTyped, CollectorErrors(board) = {},
         NEW c \in COMPONENT_DEFINITIONS, Shown(c.key) = Null
  PROVE  c.key \in {<<"cpu", "usage">>, <<"cpu", "frequency">>}
<1>1. /\ ParseLoadavg(board.load) # Null /\ ParseTemperature(board.temperature) # Null
      /\ MeminfoOutcome(board.meminfo) = "ok" /\ ParseUptimeSeconds(board.uptime) # Null
      /\ DiskMetrics(board).total_bytes # Null /\ board.throttled # Null
  BY NoErrorMeasured
<1>2. DiskOutcome(board.statvfs.fragment, board.statvfs.blocks, board.statvfs.free,
                  board.statvfs.available) = "ok"
  BY <1>1 DEF DiskMetrics
<1>4. /\ Thousandths(board.temperature) # Null
      /\ TrueLoad(1) # Null /\ TrueLoad(2) # Null /\ TrueLoad(3) # Null
  <2>1. \A k \in 1..3 : NonNegative(board.load[k])
    BY <1>1 DEF ParseLoadavg, Null
  <2> QED
    BY <1>1, <2>1 DEF ParseTemperature, TrueLoad, Thousandths, NonNegative, Null
<1>5. \A n, d : TrueMemory(n, d) # Null /\ TrueDisk(n, d) # Null
  BY <1>1, <1>2, KnownIs DEF TrueMemory, TrueDisk
<1>6. \A key, unit, value : Honest(Measured(key, unit, value)) /\ value # Null => Shown(key) # Null
  <2> SUFFICES ASSUME NEW key, NEW unit, NEW value, Honest(Measured(key, unit, value)), value # Null
               PROVE  Shown(key) # Null
    OBVIOUS
  <2>1. Measured(key, unit, value).key = key /\ Measured(key, unit, value).value = value
    BY DEF Measured
  <2> QED
    BY <2>1 DEF Honest
<1>7. /\ Shown(<<"cpu", "temperature">>) # Null
      /\ Shown(<<"load", "1">>) # Null /\ Shown(<<"load", "5">>) # Null /\ Shown(<<"load", "15">>) # Null
      /\ Shown(<<"memory", "usage">>) # Null /\ Shown(<<"memory", "available">>) # Null
      /\ Shown(<<"swap", "usage">>) # Null /\ Shown(<<"swap", "used">>) # Null
      /\ Shown(<<"disk", "usage">>) # Null /\ Shown(<<"disk", "available">>) # Null
  <2>1. Shown(<<"cpu", "temperature">>) # Null
    BY <1>4, <1>6, TemperatureHonest
  <2>2. Shown(<<"load", "1">>) # Null /\ Shown(<<"load", "5">>) # Null /\ Shown(<<"load", "15">>) # Null
    BY <1>4, <1>6, LoadHonest
  <2>3. Shown(<<"memory", "usage">>) # Null /\ Shown(<<"memory", "available">>) # Null
    BY <1>5, <1>6, MemoryHonest
  <2>4. Shown(<<"swap", "usage">>) # Null /\ Shown(<<"swap", "used">>) # Null
    BY <1>5, <1>6, SwapHonest
  <2>5. Shown(<<"disk", "usage">>) # Null /\ Shown(<<"disk", "available">>) # Null
    BY <1>5, <1>6, DiskHonest
  <2> QED
    BY <2>1, <2>2, <2>3, <2>4, <2>5
<1>8. /\ Shown(<<"uptime">>) # Null /\ Shown(<<"throttled", "raw">>) # Null
      /\ Shown(<<"health", "status">>) # Null /\ Shown(<<"collector", "error", "count">>) # Null
  <2>1. Shown(<<"uptime">>) # Null
    BY <1>1, UptimeHonest
  <2>2. Shown(<<"throttled", "raw">>) # Null
    BY <1>1, RawHonest
  <2>3. Shown(<<"health", "status">>) # Null /\ Shown(<<"collector", "error", "count">>) # Null
    BY StatusShown DEF Null
  <2> QED
    BY <2>1, <2>2, <2>3
<1>9. Shown(<<"last", "observation">>) # Null /\ Shown(<<"collection", "duration">>) # Null
  <2>1. /\ sensor(<<"last", "observation">>, NoUnit, 0, Plain(<<"observed_at">>)) \in COMPONENT_DEFINITIONS
        /\ sensor(<<"collection", "duration">>, "ms", 0, Plain(<<"service", "collection_duration_ms">>))
             \in COMPONENT_DEFINITIONS
    BY DEF COMPONENT_DEFINITIONS, ServiceSensors
  <2>2. ValueJson(<<"observed_at">>) # Null /\ ValueJson(<<"service", "collection_duration_ms">>) # Null
    BY PathOne, PathTwo, FieldsOfRest
  <2> QED
    BY <2>1, <2>2, SensorIs, Rendered
<1>10. \A bit : TrueFlag(bit) # Null
  BY <1>1 DEF TrueFlag, Null
<1>11. CASE c \in ProcessorSensors
  BY <1>7, <1>8, <1>11 DEF ProcessorSensors, sensor
<1>12. CASE c \in StorageSensors
  BY <1>7, <1>12 DEF StorageSensors, sensor
<1>13. CASE c \in ServiceSensors
  BY <1>8, <1>9, <1>13 DEF ServiceSensors, sensor
<1>14. CASE c \in FlagSensors
  BY <1>10, <1>14, FlagsShown DEF FlagSensors, binary_sensor
<1> QED
  BY <1>11, <1>12, <1>13, <1>14 DEF COMPONENT_DEFINITIONS

\* The property, of a message of the board that was read.
LEMMA HonestWhenDelivered == Delivered /\ BoardTyped => EntitiesHonest
<1> SUFFICES ASSUME Delivered, BoardTyped PROVE EntitiesHonest
  OBVIOUS
<1>1. \A m \in Truth : /\ Component(m.key).unit = m.unit
                       /\ Shown(m.key) = Null <=> m.value = Null
                       /\ m.value # Null => Close(Shown(m.key)[1], m.value[1], Component(m.key).precision)
  BY TruthHonest DEF Honest
<1>2. \A flag \in FirmwareBits : Shown(flag.key) = TrueFlag(flag.bit)
  BY FlagsHonest
<1>3. Shown(<<"throttled", "raw">>) = board.throttled
  BY RawHonest
<1>4. LET uptime == Shown(<<"uptime">>) IN
         IF NonNegative(board.uptime) /\ board.uptime[1] < 1000 * MaxU64
         THEN 1000 * uptime[1] <= board.uptime[1] /\ board.uptime[1] < 1000 * uptime[1] + 1000
         ELSE uptime = Null
  BY UptimeHonest
<1>5. Shown(<<"health", "status">>)[1] \in HEALTH_OPTIONS
  BY StatusShown, StatusIs
<1>6. ASSUME Shown(<<"health", "status">>)[1] \in {"ok", "warning"} PROVE CollectorErrors(board) = {}
  BY <1>6, StatusShown, StatusIs
<1>7. ASSUME CollectorErrors(board) = {} PROVE Shown(<<"collector", "error", "count">>) = <<0>>
  <2>1. Cardinality(CollectorErrors(board)) = 0
    BY <1>7, FS_EmptySet
  <2> QED
    BY <2>1, StatusShown
<1>8. CollectorErrors(board) = {} =>
        \A c \in COMPONENT_DEFINITIONS :
          Shown(c.key) = Null => c.key \in {<<"cpu", "usage">>, <<"cpu", "frequency">>}
  BY NothingUnknown
<1> QED
  BY <1>1, <1>2, <1>3, <1>4, <1>5, <1>6, <1>7, <1>8, Zenon DEF EntitiesHonest

-----------------------------------------------------------------------------
\* What is delivered was collected from the board as it is now.
EntitiesInv == BoardTyped /\ (message # <<>> => Delivered)

\* It holds initially.
LEMMA EntitiesInitially == EntitiesInit => EntitiesInv
<1> SUFFICES ASSUME EntitiesInit PROVE EntitiesInv
  OBVIOUS
<1>1. board = [source \in Sources |-> board[source]]
  BY BoardAssumption DEF EntitiesInit
<1>2. \A source \in Sources : board[source] \in SourceTypes[source]
  BY BoardAssumption DEF EntitiesInit
<1> QED
  BY <1>1, <1>2 DEF EntitiesInit, EntitiesInv, BoardTyped

\* Every step keeps it.
LEMMA EntitiesStep == EntitiesInv /\ [EntitiesNext]_entitiesVars => EntitiesInv'
<1> SUFFICES ASSUME EntitiesInv, [EntitiesNext]_entitiesVars PROVE EntitiesInv'
  OBVIOUS
<1>1. ASSUME NEW source \in Sources, NEW value \in SourceValues[source], SourceChanges(source, value)
      PROVE  EntitiesInv'
  <2>1. value \in SourceTypes[source]
    BY <1>1, BoardAssumption
  <2>2. board' = [board EXCEPT ![source] = value] /\ message' = <<>>
    BY <1>1 DEF SourceChanges
  <2>3. BoardTyped'
    BY <2>1, <2>2 DEF EntitiesInv, BoardTyped
  <2> QED
    BY <2>2, <2>3 DEF EntitiesInv
<1>2. CASE CollectPayload
  <2>1. board' = board /\ (message' = message \/ (Serializable(State) /\ message' = <<Serialized(State)>>))
          /\ message = <<>>
    BY <1>2 DEF CollectPayload, State
  <2>2. State' = State
    BY <2>1 DEF State
  <2>3. message' # <<>> => Delivered'
    BY <2>1, <2>2 DEF Delivered
  <2> QED
    BY <2>1, <2>3 DEF EntitiesInv, BoardTyped
<1>3. CASE UNCHANGED entitiesVars
  BY <1>3 DEF entitiesVars, EntitiesInv, BoardTyped, Delivered, State
<1> QED
  BY <1>1, <1>2, <1>3 DEF EntitiesNext

\* What Home Assistant shows is what the board reported, within the digits it
\* displays, whatever the sources hold (EntitiesHonest): the tables of
\* discovery.rs, the collection of collector.rs and the rounding of model.rs
\* agree on every field, unit and bit.
THEOREM EntitiesStayHonest == EntitiesSpec => []EntitiesHonest
<1>1. EntitiesInv => EntitiesHonest
  <2>1. message = <<>> => EntitiesHonest
    BY DEF EntitiesHonest
  <2> QED
    BY <2>1, HonestWhenDelivered DEF EntitiesInv
<1> QED
  BY EntitiesInitially, EntitiesStep, <1>1, PTL DEF EntitiesSpec
=============================================================================
