---------------------------- MODULE Configuration ---------------------------
(***************************************************************************)
(* RawConfig::validate of src/src/config.rs, and the topics of MqttConfig. *)
(*                                                                         *)
(* A text is the sequence of its tokens (runs of letters and digits, and   *)
(* the punctuation "_", "-" and "." between them) with its length in bytes *)
(* and, in has, what else it contains:                                     *)
(*   "space before", "space after", "space within", "control",             *)
(*   "wildcard" (+ or #), "delimiter" (/ @ ? or #), "other"                *)
(* A topic or a path is the sequence of its levels, split at "/".          *)
(***************************************************************************)
EXTENDS Timing, FiniteSetsExt, SequencesExt

Text(tokens, bytes) == [tokens |-> tokens, bytes |-> bytes, has |-> {}]
Empty == Text(<<>>, 0)

\* The length in bytes of levels with "/" between them.
Bytes(levels) == MapThenSumSet(LAMBDA i : levels[i].bytes, DOMAIN levels) + Len(levels) - 1

MaxMqttField == 65535

\* u16::MAX.
MaxPort == 65535

-----------------------------------------------------------------------------
\* validate_identifier: ASCII letters, digits and the punctuation given.
ValidateIdentifier(text, maximum, punctuation) ==
  /\ text.bytes \in 1..maximum
  /\ ToSet(text.tokens) \cap {"_", "-", "."} \subseteq punctuation
  /\ text.has = {}

\* validate_text: trimmed, no control characters.
ValidateText(text, maximum) ==
  /\ text.bytes \in 1..maximum
  /\ text.has \cap {"space before", "space after", "control"} = {}

\* validate_host: a name or an address, not a URI.
ValidateHost(text) ==
  /\ text.bytes \in 1..253
  /\ text.has \cap {"space before", "space after", "space within", "control", "delimiter"} = {}

\* Mutation of ValidateTopic: a slash at the end goes unnoticed.
ValidateTopicOpenEnd(levels) ==
  /\ Bytes(levels) \in 1..MaxMqttField
  /\ "space before" \notin Head(levels).has /\ "space after" \notin Last(levels).has
  /\ \A i \in 1..Len(levels) - 1 : levels[i].bytes > 0
  /\ \A i \in DOMAIN levels : levels[i].has \cap {"wildcard", "control"} = {}

\* validate_topic: no slash at either end and none after another is no empty
\* level.
ValidateTopic(levels) ==
  /\ Bytes(levels) \in 1..MaxMqttField
  /\ "space before" \notin Head(levels).has /\ "space after" \notin Last(levels).has
  /\ \A i \in DOMAIN levels : levels[i].bytes > 0
  /\ \A i \in DOMAIN levels : levels[i].has \cap {"wildcard", "control"} = {}

\* validate_absolute.
ValidateAbsolute(levels) == Len(levels) > 1 /\ Head(levels) = Empty

-----------------------------------------------------------------------------
\* MqttConfig: the topics the supervisor uses.
StateTopic(base) == Append(base, Text(<<"state">>, 5))
AvailabilityTopic(base) == Append(base, Text(<<"availability">>, 12))
DiscoveryTopic(prefix, id) == prefix \o <<Text(<<"device">>, 6), id, Text(<<"config">>, 6)>>

\* The fields of a table, and those that may be left out with their defaults.
\* Unknown fields are refused.
DefaultedFields ==
  [host |-> Text(<<"127", ".", "0", ".", "0", ".", "1">>, 9), port |-> 1883,
   discovery_prefix |-> <<Text(<<"homeassistant">>, 13)>>, keep_alive_seconds |-> 30,
   interval_seconds |-> 30, root_filesystem |-> <<Empty, Empty>>,
   vcgencmd_path |-> <<Empty, Text(<<"usr">>, 3), Text(<<"bin">>, 3), Text(<<"vcgencmd">>, 8)>>,
   command_timeout_seconds |-> 2]
RequiredFields == {"id", "name", "client_id", "username", "password_file", "base_topic"}

\* Deserialization of RawConfig from a table with these fields.
Deserializable(table) ==
  RequiredFields \subseteq DOMAIN table /\ DOMAIN table \subseteq RequiredFields \cup DOMAIN DefaultedFields

RawConfig(table) ==
  [field \in RequiredFields \cup DOMAIN DefaultedFields |->
     IF field \in DOMAIN table THEN table[field] ELSE DefaultedFields[field]]

\* The punctuation of a device id and of a client id.
IdPunctuation == {"_", "-"}
ClientIdPunctuation == {".", "_", "-"}

\* RawConfig::validate.
Validate(raw) ==
  /\ ValidateIdentifier(raw.id, 64, IdPunctuation)
  /\ ValidateText(raw.name, 128)
  /\ ValidateHost(raw.host)
  /\ raw.port \in 1..MaxPort
  /\ ValidateIdentifier(raw.client_id, 128, ClientIdPunctuation)
  /\ ValidateText(raw.username, 256)
  /\ ValidateAbsolute(raw.password_file)
  /\ ValidateTopic(raw.base_topic)
  /\ ValidateTopic(raw.discovery_prefix)
  /\ ValidateSeconds(raw.keep_alive_seconds, 5, 3600)
  /\ ValidateCollector(raw.interval_seconds, raw.command_timeout_seconds)
  /\ ValidateAbsolute(raw.root_filesystem)
  /\ ValidateAbsolute(raw.vcgencmd_path)
  /\ Bytes(StateTopic(raw.base_topic)) <= MaxMqttField
  /\ Bytes(AvailabilityTopic(raw.base_topic)) <= MaxMqttField
  /\ Bytes(DiscoveryTopic(raw.discovery_prefix, raw.id)) <= MaxMqttField
=============================================================================
