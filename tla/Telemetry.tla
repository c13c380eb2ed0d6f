------------------------------ MODULE Telemetry -----------------------------
(***************************************************************************)
(* The state document: TelemetryState of src/src/model.rs as collect of    *)
(* src/src/collector.rs fills it from what the sources hold, and its       *)
(* serialization.  An Option is a sequence, empty for None and null.       *)
(*                                                                         *)
(* A board is what the sources hold when they are read:                    *)
(*   usage        <<[busy, total]>>, the growth of the CPU counters, or    *)
(*                <<>> if they cannot be read or went back                 *)
(*   load         the three fields of /proc/loadavg                        *)
(*   temperature  the field of the zone, or of the firmware's answer       *)
(*   frequency    the fields of the frequency files that exist             *)
(*   meminfo      the values of the keys, as in Measures                   *)
(*   statvfs      its four numbers                                         *)
(*   uptime       the first field of /proc/uptime                          *)
(*   throttled    <<bits>>, or <<>> if the command failed                  *)
(***************************************************************************)
EXTENDS Measures, Health, Sequences

CONSTANT MaxFloat  \* f64::MAX

ASSUME FloatAssumption == MaxFloat \in Nat

Null == <<>>
Optional(S) == {value \in Seq(S) : Len(value) <= 1}

-----------------------------------------------------------------------------
\* collect_cpu_usage, collect_load_average, collect_temperature and
\* collect_frequency: the fields of CpuMetrics.
CpuMetrics(board) ==
  LET load == ParseLoadavg(board.load) IN
  [usage_percent |-> IF board.usage = Null \/ board.usage[1].total = 0 THEN Null
                     ELSE <<Percentage(board.usage[1].busy, board.usage[1].total)>>,
   load_1        |-> IF load = Null THEN Null ELSE load[1],
   load_5        |-> IF load = Null THEN Null ELSE load[2],
   load_15       |-> IF load = Null THEN Null ELSE load[3],
   temperature_c |-> ParseTemperature(board.temperature),
   frequency_mhz |-> IF board.frequency = <<>> THEN Null
                     ELSE ParseFrequencyKhz(Head(board.frequency))]

\* collect_memory: both groups or neither.
MemoryMetrics(board) ==
  LET memory == MemoryAmount(board.meminfo) IN
  IF MeminfoOutcome(board.meminfo) = "ok"
  THEN [total_bytes |-> <<memory.total>>, available_bytes |-> <<memory.rest>>,
        used_bytes |-> <<memory.used>>,
        used_percent |-> <<Percentage(memory.used, memory.whole)>>]
  ELSE [field \in {"total_bytes", "available_bytes", "used_bytes", "used_percent"} |-> Null]

SwapMetrics(board) ==
  LET swap == SwapAmount(board.meminfo) IN
  IF MeminfoOutcome(board.meminfo) = "ok"
  THEN [total_bytes |-> <<swap.total>>, used_bytes |-> <<swap.used>>,
        used_percent |-> <<Percentage(swap.used, swap.whole)>>]
  ELSE [field \in {"total_bytes", "used_bytes", "used_percent"} |-> Null]

\* collect_disk, or DiskMetrics::unavailable.
DiskMetrics(board) ==
  LET s == board.statvfs
      disk == DiskAmount(s.fragment, s.blocks, s.free, s.available)
  IN  IF DiskOutcome(s.fragment, s.blocks, s.free, s.available) = "ok"
      THEN [total_bytes |-> <<disk.total>>, available_bytes |-> <<s.available * s.fragment>>,
            used_bytes |-> <<disk.used>>, used_percent |-> <<Percentage(disk.used, disk.whole)>>]
      ELSE [field \in {"total_bytes", "available_bytes", "used_bytes", "used_percent"} |-> Null]

\* collect_power: the raw mask, normalised by raw_hex, and the eight flags.
PowerMetrics(board) ==
  IF board.throttled = Null
  THEN [field \in DOMAIN FlagBit \cup {"throttled_raw"} |-> Null]
  ELSE [field \in DOMAIN FlagBit \cup {"throttled_raw"} |->
          IF field = "throttled_raw" THEN board.throttled
          ELSE <<FlagBit[field] \in board.throttled[1]>>]

\* The metrics that leave an error: none for a CPU that did not move, nor for
\* a board without a frequency file.
CollectorErrors(board) ==
  {metric \in {"usage", "load", "temperature", "frequency", "memory", "uptime", "disk", "power"} :
     CASE metric = "usage"       -> board.usage = Null
       [] metric = "load"        -> ParseLoadavg(board.load) = Null
       [] metric = "temperature" -> ParseTemperature(board.temperature) = Null
       [] metric = "frequency"   -> board.frequency # <<>> /\ Head(board.frequency) = Null
       [] metric = "memory"      -> MeminfoOutcome(board.meminfo) # "ok"
       [] metric = "uptime"      -> ParseUptimeSeconds(board.uptime) = Null
       [] metric = "disk"        -> DiskMetrics(board).total_bytes = Null
       [] OTHER                  -> board.throttled = Null}

\* TelemetryState::new, ServiceMetrics::new and Health::evaluate.
TelemetryState(board, observed_at, duration_ms) ==
  [observed_at |-> <<observed_at>>,
   uptime_seconds |-> ParseUptimeSeconds(board.uptime),
   cpu |-> CpuMetrics(board), memory |-> MemoryMetrics(board), swap |-> SwapMetrics(board),
   disk |-> DiskMetrics(board), power |-> PowerMetrics(board),
   health |-> [status |-> <<Evaluate(IF board.throttled = Null THEN {} ELSE board.throttled[1],
                                     CollectorErrors(board) # {})>>,
               collector_errors |-> <<CollectorErrors(board)>>],
   service |-> [collection_duration_ms |-> <<duration_ms>>]]

-----------------------------------------------------------------------------
(***************************************************************************)
(* Serialization.                                                          *)
(***************************************************************************)
\* serialize_with: the decimals that each f64 field keeps.
Decimals ==
  [cpu |-> [usage_percent |-> 1, load_1 |-> 2, load_5 |-> 2, load_15 |-> 2,
            temperature_c |-> 1, frequency_mhz |-> 1],
   memory |-> [used_percent |-> 1], swap |-> [used_percent |-> 1], disk |-> [used_percent |-> 1]]

\* f64::round: to the nearest, halves away from zero.
Round(n, d) == IF n >= 0 THEN (2 * n + d) \div (2 * d) ELSE -((d - 2 * n) \div (2 * d))

Factor(places) == 10^places
RoundedTo(value, places) == Ratio(Round(value.n * Factor(places), value.d), Factor(places))

\* rounded_metric: None when the scaled value leaves the range of f64.
RoundedMetric(value, places) ==
  LET scaled == value.n * Factor(places) IN
  IF scaled > MaxFloat * value.d \/ -scaled > MaxFloat * value.d THEN Null
  ELSE <<RoundedTo(value, places)>>

\* serialize_optional_f64 on every field that has a precision; the rest of the
\* document is written as it is.
Serialized(state) ==
  [group \in DOMAIN state |->
     IF group \notin DOMAIN Decimals THEN state[group]
     ELSE [field \in DOMAIN state[group] |->
             IF field \in DOMAIN Decimals[group] /\ state[group][field] # Null
             THEN RoundedMetric(state[group][field][1], Decimals[group][field])
             ELSE state[group][field]]]

\* to_vec fails as a whole when one measurement cannot be written.
Serializable(state) ==
  \A group \in DOMAIN Decimals : \A field \in DOMAIN Decimals[group] :
    state[group][field] # Null =>
      RoundedMetric(state[group][field][1], Decimals[group][field]) # Null
=============================================================================
