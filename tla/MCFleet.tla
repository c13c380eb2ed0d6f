------------------------------ MODULE MCFleet -------------------------------
(* Configuration files: a complete one, and others that differ from it in    *)
(* one field, on either side of a limit or of a rule.                        *)
EXTENDS Fleet, TLC

MCLower == [token \in STRING |-> IF token = "Pi" THEN "pi" ELSE token]

Marked(mark) == [Text(<<"x">>, 3) EXCEPT !.has = {mark}]

\* About as long as a topic can be in a file of at most 64 KiB.
LongTopic == <<Text(<<"long">>, 65400)>>

Site == Text(<<"site">>, 4)
Secret == <<Empty, Text(<<"secret">>, 6)>>

Complete ==
  [id |-> Text(<<"pi">>, 2), name |-> Marked("space within"), client_id |-> Text(<<"pi", ".", "1">>, 4),
   username |-> Text(<<"pi">>, 2), password_file |-> Secret, base_topic |-> <<Site, Text(<<"pi">>, 2)>>]

With(field, value) == (field :> value) @@ Complete

\* Ids that differ in case or punctuation, or end in the first words of a key.
Ids ==
  {Text(<<"pi">> \o tail, 20) : tail \in
     {<<"-", "a">>, <<"_", "a">>} \cup
     UNION {{<<"_">> \o SubSeq(KeyTokens(d.key), 1, 2 * n - 1) : n \in 1..Len(d.key) - 1} :
              d \in COMPONENT_DEFINITIONS}}
  \cup {Text(<<"Pi">>, 2), Text(<<"long">>, 64), Text(<<"longer">>, 65), Text(<<"pi", ".", "a">>, 4), Empty,
        Marked("other")}

Topics ==
  {<<Site>>, <<Empty, Site>>, <<Site, Empty>>, <<Site, Empty, Site>>, <<Empty>>, <<Marked("wildcard")>>,
   <<Marked("space before")>>, <<Marked("space after"), Site>>, <<Marked("control")>>,
   LongTopic}

DiscoveryPrefixes == {<<Site>>, <<Site, Empty>>, LongTopic}

MCTables ==
  {Complete, [field \in DOMAIN Complete \ {"username"} |-> Complete[field]], With("password", Secret)}
  \cup {With("id", id) : id \in Ids}
  \cup {With("base_topic", topic) : topic \in Topics}
  \cup {With("discovery_prefix", prefix) : prefix \in DiscoveryPrefixes}
  \cup {With("host", host) : host \in {Marked("delimiter"), Text(<<"host">>, 254)}}
  \cup {With("port", 0), With("keep_alive_seconds", 4), With("interval_seconds", 2),
        With("vcgencmd_path", <<Site>>), With("name", Marked("space after"))}

MCHaPrefix == <<Text(<<"homeassistant">>, 13)>>
=============================================================================
