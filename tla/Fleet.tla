------------------------------- MODULE Fleet --------------------------------
(***************************************************************************)
(* Boards that announce themselves to one Home Assistant.  A service       *)
(* starts with a configuration, which Configuration accepts or refuses;    *)
(* its discovery message (discovery_message of src/src/daemon.rs and       *)
(* build_discovery_message of src/src/discovery.rs) is retained by the     *)
(* broker under its topic, past the end of the service, and its supervisor *)
(* publishes under the topics of MqttSettings.  A service may be started   *)
(* again with another configuration.                                       *)
(***************************************************************************)
EXTENDS Configuration, Discovery

CONSTANTS
  Boards,     \* the boards
  Tables,     \* bound: the configuration files to be tried
  MaxStarts,  \* bound: starts of a service
  HaPrefix,   \* the discovery prefix Home Assistant listens under
  Lower       \* to_ascii_lowercase of a token

\* Texts as Configuration has them.
Texts == [tokens: Seq(STRING), bytes: Nat, has: SUBSET STRING]

\* A topic has at least one level, and a text with nothing but tokens is given
\* by them.
ASSUME TablesAssumption ==
  /\ \A table \in Tables :
       /\ "id" \in DOMAIN table => table["id"] \in Texts
       /\ \A field \in {"base_topic", "discovery_prefix"} \cap DOMAIN table :
            table[field] \in Seq(Texts) \ {<<>>}
  /\ \A s, t \in Tables :
       "id" \in DOMAIN s \cap DOMAIN t /\ s["id"].tokens = t["id"].tokens
         /\ s["id"].has = {} /\ t["id"].has = {} => s["id"] = t["id"]

Underscore == "_"

\* The words of a document are in lower case; to_ascii_lowercase has nothing
\* left to do the second time, and yields no punctuation.
ASSUME LowerAssumption ==
  /\ \A word \in {"sensor", "binary_sensor", ".", Underscore}
                 \cup UNION {ToSet(d.key) : d \in COMPONENT_DEFINITIONS} : Lower[word] = word
  /\ \A table \in Tables : "id" \in DOMAIN table =>
       \A token \in ToSet(table["id"].tokens) :
         /\ Lower[Lower[token]] = Lower[token]
         /\ Lower[token] = "-" => token = "-"

VARIABLES
  service,   \* board -> the configuration its service runs with, or Stopped
  retained,  \* discovery topic -> the document retained by the broker
  starts     \* number of starts so far

vars == <<service, retained, starts>>

Stopped == [field \in {} |-> {}]

Init ==
  /\ service = [b \in Boards |-> Stopped]
  /\ retained = [topic \in {} |-> {}]
  /\ starts = 0

Running == {b \in Boards : service[b] # Stopped}

-----------------------------------------------------------------------------
(***************************************************************************)
(* build_discovery_message.                                                *)
(***************************************************************************)
\* trim_end_matches('/').
TrimEnd(levels) == SubSeq(levels, 1, Max({0} \cup {i \in DOMAIN levels : levels[i].bytes > 0}))

\* child_topic.
ChildTopic(base, child) == Append(TrimEnd(base), child)

\* A key as it is written: its words with "_" between them.
KeyTokens(key) == [i \in 1..2 * Len(key) - 1 |-> IF i % 2 = 1 THEN key[(i + 1) \div 2] ELSE Underscore]

\* normalize_device_slug.
NormalizeDeviceSlug(id) ==
  [i \in DOMAIN id.tokens |-> IF id.tokens[i] = "-" THEN Underscore ELSE Lower[id.tokens[i]]]

\* Mutation of ToConfig: the slug makes the unique id too.
ToConfigSlug(definition, config) ==
  LET slug == NormalizeDeviceSlug(config.id) \o <<Underscore>> \o KeyTokens(definition.key) IN
  [platform |-> definition.platform, template |-> definition.template,
   unique_id |-> slug, default_entity_id |-> <<definition.platform, ".">> \o slug,
   expire_after |-> ExpireAfterSeconds(config.interval_seconds)]

\* ComponentDefinition::to_config.
ToConfig(definition, config) ==
  [platform |-> definition.platform, template |-> definition.template,
   unique_id |-> config.id.tokens \o <<Underscore>> \o KeyTokens(definition.key),
   default_entity_id |-> <<definition.platform, ".">>
                           \o NormalizeDeviceSlug(config.id) \o <<Underscore>> \o KeyTokens(definition.key),
   expire_after |-> ExpireAfterSeconds(config.interval_seconds)]

\* build_components: a map, so that of two components with a key one is lost.
BuildComponents(config) ==
  [key \in {d.key : d \in COMPONENT_DEFINITIONS} |->
     ToConfig(CHOOSE d \in COMPONENT_DEFINITIONS : d.key = key, config)]

BuildDiscoveryMessage(config) ==
  [topic |-> TrimEnd(config.discovery_prefix) \o <<Text(<<"device">>, 6), config.id, Text(<<"config">>, 6)>>,
   document |-> [identifier |-> config.id,
                 state_topic |-> ChildTopic(config.base_topic, Text(<<"state">>, 5)),
                 availability_topic |-> ChildTopic(config.base_topic, Text(<<"availability">>, 12)),
                 components |-> BuildComponents(config)]]

-----------------------------------------------------------------------------
\* Config::load fails, and with it the start.
Refuse(board, table) ==
  /\ starts < MaxStarts
  /\ ~(Deserializable(table) /\ Validate(RawConfig(table)))
  /\ starts' = starts + 1
  /\ service' = [service EXCEPT ![board] = Stopped]
  /\ UNCHANGED retained

\* run up to the bootstrap: the supervisor publishes the document, retained,
\* under its own idea of the topic.  Boards have ids of their own.
Start(board, table) ==
  /\ starts < MaxStarts
  /\ Deserializable(table) /\ Validate(RawConfig(table))
  /\ LET config == RawConfig(table)
         topic == DiscoveryTopic(config.discovery_prefix, config.id)
     IN  /\ \A other \in Running \ {board} : service[other].id # config.id
         /\ service' = [service EXCEPT ![board] = config]
         /\ retained' = [t \in DOMAIN retained \cup {topic} |->
                           IF t = topic THEN BuildDiscoveryMessage(config).document ELSE retained[t]]
  /\ starts' = starts + 1

Next == \E board \in Boards, table \in Tables : Refuse(board, table) \/ Start(board, table)

Spec == Init /\ [][Next]_vars

-----------------------------------------------------------------------------
\* The documents Home Assistant has, by topic: those of services that stopped
\* or changed their id are among them.
Registry == {topic \in DOMAIN retained : topic = DiscoveryTopic(HaPrefix, topic[Len(topic) - 1])}

\* A name MQTT allows to publish on.
LegalTopic(levels) ==
  /\ Bytes(levels) <= MaxMqttField
  /\ \A i \in DOMAIN levels : levels[i].bytes > 0 /\ levels[i].has \cap {"wildcard", "control"} = {}

\* The topics are put together twice, by MqttConfig for the supervisor and by
\* DiscoverySettings for Home Assistant.  For every configuration that validate
\* accepts, also after a restart with another one, the retained document names
\* the topics that its service publishes on, and all are legal.
TopicsAgree ==
  \A b \in Running :
    LET config == service[b]
        topic  == DiscoveryTopic(config.discovery_prefix, config.id)
    IN  /\ BuildDiscoveryMessage(config).topic = topic
        /\ retained[topic].state_topic = StateTopic(config.base_topic)
        /\ retained[topic].availability_topic = AvailabilityTopic(config.base_topic)
        /\ \A t \in {topic, StateTopic(config.base_topic), AvailabilityTopic(config.base_topic)} :
             LegalTopic(t)

\* All 26 components of a document stay apart: from each other, in their id and
\* in what they show, and from those of every other document Home Assistant
\* has, so that no board takes over an entity of another although an id may end
\* in the first words of a key; and their entity ids are in the alphabet Home
\* Assistant admits.
EntitiesIdentified ==
  \A topic \in Registry :
    LET components == retained[topic].components IN
    /\ Cardinality(DOMAIN components) = 26
    /\ \A k, l \in DOMAIN components :
         k # l => /\ components[k].unique_id # components[l].unique_id
                  /\ components[k].template.path # components[l].template.path
    /\ \A other \in Registry \ {topic} : \A k, l \in DOMAIN components :
         components[k].unique_id # retained[other].components[l].unique_id
    /\ \A k \in DOMAIN components : \A token \in ToSet(components[k].default_entity_id) :
         token # "-" /\ Lower[token] = token
=============================================================================
