----------------------------- MODULE Discovery ------------------------------
(***************************************************************************)
(* The Device Discovery document of src/src/discovery.rs: the table of the *)
(* entities, with the field of the state document that each one shows.     *)
(*                                                                         *)
(* A key is the sequence of its words, so that what `_` joins can be taken *)
(* apart again.  Names, icons and classes are left out.                    *)
(***************************************************************************)
EXTENDS Measures, Sequences

HEALTH_OPTIONS == {"ok", "warning", "critical", "degraded"}

-----------------------------------------------------------------------------
\* The forms of value_template: {{ path }}; the path, or none if it is none; the
\* same divided by a power of 1024 and rounded; the number of elements; and ON
\* or OFF for a Boolean, none for anything else.
Plain(path)                   == [form |-> "plain", path |-> path]
OrNone(path)                  == [form |-> "or_none", path |-> path]
Scaled(path, divisor, digits) == [form |-> "scaled", path |-> path, divisor |-> divisor, digits |-> digits]
Count(path)                   == [form |-> "count", path |-> path]
OnOff(path)                   == [form |-> "on_off", path |-> path]

\* The divisors of the templates, 1048576 and 1073741824.
MIB == KIB * KIB
GIB == KIB * MIB

\* unit_of_measurement of None.
NoUnit == ""

sensor(key, unit, precision, template) ==
  [platform |-> "sensor", key |-> key, unit |-> unit, precision |-> precision, template |-> template]

binary_sensor(key, path) ==
  [platform |-> "binary_sensor", key |-> key, unit |-> NoUnit, precision |-> 0, template |-> OnOff(path)]

\* The first and the second half of COMPONENT_DEFINITIONS, and its flags.
ProcessorSensors ==
  {sensor(<<"health", "status">>, NoUnit, 0, Plain(<<"health", "status">>)),
   sensor(<<"cpu", "temperature">>, "degC", 1, OrNone(<<"cpu", "temperature_c">>)),
   sensor(<<"cpu", "usage">>, "%", 1, OrNone(<<"cpu", "usage_percent">>)),
   sensor(<<"load", "1">>, NoUnit, 2, OrNone(<<"cpu", "load_1">>)),
   sensor(<<"load", "5">>, NoUnit, 2, OrNone(<<"cpu", "load_5">>)),
   sensor(<<"load", "15">>, NoUnit, 2, OrNone(<<"cpu", "load_15">>)),
   sensor(<<"cpu", "frequency">>, "MHz", 1, OrNone(<<"cpu", "frequency_mhz">>))}

\* Mutation of StorageSensors: the row for swap was copied from memory.
StorageSensorsCopied ==
  {sensor(<<"memory", "usage">>, "%", 1, OrNone(<<"memory", "used_percent">>)),
   sensor(<<"memory", "available">>, "GiB", 2, Scaled(<<"memory", "available_bytes">>, GIB, 2)),
   sensor(<<"swap", "usage">>, "%", 1, OrNone(<<"memory", "used_percent">>)),
   sensor(<<"swap", "used">>, "MiB", 1, Scaled(<<"swap", "used_bytes">>, MIB, 1)),
   sensor(<<"disk", "usage">>, "%", 1, OrNone(<<"disk", "used_percent">>)),
   sensor(<<"disk", "available">>, "GiB", 2, Scaled(<<"disk", "available_bytes">>, GIB, 2))}

StorageSensors ==
  {sensor(<<"memory", "usage">>, "%", 1, OrNone(<<"memory", "used_percent">>)),
   sensor(<<"memory", "available">>, "GiB", 2, Scaled(<<"memory", "available_bytes">>, GIB, 2)),
   sensor(<<"swap", "usage">>, "%", 1, OrNone(<<"swap", "used_percent">>)),
   sensor(<<"swap", "used">>, "MiB", 1, Scaled(<<"swap", "used_bytes">>, MIB, 1)),
   sensor(<<"disk", "usage">>, "%", 1, OrNone(<<"disk", "used_percent">>)),
   sensor(<<"disk", "available">>, "GiB", 2, Scaled(<<"disk", "available_bytes">>, GIB, 2))}

ServiceSensors ==
  {sensor(<<"uptime">>, "s", 0, OrNone(<<"uptime_seconds">>)),
   sensor(<<"last", "observation">>, NoUnit, 0, Plain(<<"observed_at">>)),
   sensor(<<"throttled", "raw">>, NoUnit, 0, OrNone(<<"power", "throttled_raw">>)),
   sensor(<<"collection", "duration">>, "ms", 0, Plain(<<"service", "collection_duration_ms">>)),
   sensor(<<"collector", "error", "count">>, NoUnit, 0, Count(<<"health", "collector_errors">>))}

FlagSensors ==
  {binary_sensor(<<"undervoltage", "now">>, <<"power", "undervoltage_now">>),
   binary_sensor(<<"undervoltage", "since", "boot">>, <<"power", "undervoltage_since_boot">>),
   binary_sensor(<<"throttled", "now">>, <<"power", "throttled_now">>),
   binary_sensor(<<"throttled", "since", "boot">>, <<"power", "throttled_since_boot">>),
   binary_sensor(<<"arm", "frequency", "capped", "now">>, <<"power", "arm_frequency_capped_now">>),
   binary_sensor(<<"arm", "frequency", "capped", "since", "boot">>,
                 <<"power", "arm_frequency_capped_since_boot">>),
   binary_sensor(<<"soft", "temperature", "limit", "now">>, <<"power", "soft_temperature_limit_now">>),
   binary_sensor(<<"soft", "temperature", "limit", "since", "boot">>,
                 <<"power", "soft_temperature_limit_since_boot">>)}

COMPONENT_DEFINITIONS == ProcessorSensors \cup StorageSensors \cup ServiceSensors \cup FlagSensors
=============================================================================
