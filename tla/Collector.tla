----------------------------- MODULE Collector ------------------------------
(***************************************************************************)
(* Collector::collect of src/src/collector.rs with usage_percent of        *)
(* src/src/metrics/cpu.rs and Health::evaluate of src/src/model.rs.  One   *)
(* collection reads eight sources in a fixed order; each may fail on its   *)
(* own.  CPU usage is the growth of the kernel's counters since the        *)
(* previous sample, which is kept from one collection to the next.         *)
(*                                                                         *)
(* A reading is abstracted to whether there is a value, except for CPU     *)
(* usage, which keeps its two integers, and for the firmware's mask of     *)
(* power flags, which is the set of the bits that are on.                  *)
(***************************************************************************)
EXTENDS Health, FiniteSetsExt, SequencesExt

CONSTANTS
  Counters,      \* the counters of the aggregate cpu line
  IdleCounters,  \* those of them that count idle time: idle and iowait
  MaxCounter,    \* u64::MAX
  Masks          \* bound: the power masks the firmware may report

ASSUME CountersAssumption ==
  /\ IsFiniteSet(Counters) /\ IdleCounters \subseteq Counters
  /\ MaxCounter \in Nat

VARIABLES
  previous,  \* previous_cpu: the baseline sample, or NoSample
  step,      \* "idle", "warmup", or the metric to be collected next
  readings,  \* metric -> "null" or "value"
  usage,     \* the two deltas behind cpu.usage_percent, or NoUsage
  mask,      \* the bits of power.throttled_raw
  errors,    \* health.collector_errors
  status,    \* health.status of the finished state, "none" before
  kernel,    \* the counters /proc/stat would show now
  growth,    \* history: growth of each counter since the last good sample
  observed   \* history: that growth when usage was computed

collectorVars == <<previous, step, readings, usage, mask, errors, status>>
vars == <<collectorVars, kernel, growth, observed>>

\* The order of collect.
Order == <<"usage", "load", "temperature", "frequency", "memory", "uptime", "disk", "power">>
Metrics == ToSet(Order)

After(metric) ==
  Append(Order, "finish")[1 + CHOOSE i \in DOMAIN Order : Order[i] = metric]

Samples == [Counters -> 0..MaxCounter]

\* None: counters before the first sample.
NoSample == [c \in Counters |-> -1]

\* usage_percent of None.  A delta of zero yields no usage, so the record with
\* total 0 is free to stand for it.
NoUsage == [busy |-> 0, total |-> 0]

Zero == [c \in Counters |-> 0]

Sum(delta, S) == MapThenSumSet(LAMBDA c : delta[c], S)

Error(metric, message) == [metric |-> metric, message |-> message]

Init ==
  /\ previous = NoSample
  /\ step = "idle"
  /\ readings = [metric \in Metrics |-> "null"]
  /\ usage = NoUsage /\ mask = {}
  /\ errors = <<>> /\ status = "none"
  /\ kernel = Zero /\ growth = Zero /\ observed = Zero

-----------------------------------------------------------------------------
(***************************************************************************)
(* The kernel: counters grow; iowait (and, after hotplug, any other) is    *)
(* known to go back.  The counters are looked at in two steps only, so     *)
(* they need not move during the others.                                   *)
(***************************************************************************)
CounterMoves(c) ==
  /\ step \in {"usage", "warmup"}
  /\ \E value \in 0..MaxCounter \ {kernel[c]} :
       /\ kernel' = [kernel EXCEPT ![c] = value]
       /\ growth' = [growth EXCEPT ![c] = @ + value - kernel[c]]
  /\ UNCHANGED <<collectorVars, observed>>

-----------------------------------------------------------------------------
\* A metric ends with a value, or with null and one error.
Finds(metric) ==
  /\ readings' = [readings EXCEPT ![metric] = "value"]
  /\ UNCHANGED errors

Fails(metric, message) ==
  /\ errors' = Append(errors, Error(metric, message))
  /\ UNCHANGED readings

\* TelemetryReadings::unavailable and an empty list of errors.
Begin ==
  /\ step = "idle"
  /\ step' = "usage"
  /\ readings' = [metric \in Metrics |-> "null"]
  /\ usage' = NoUsage /\ mask' = {} /\ errors' = <<>> /\ status' = "none"
  /\ UNCHANGED <<previous, kernel, growth, observed>>

\* usage_percent: an error when a counter moved backwards or a sum overflows.
UsagePercent(old, new) ==
  LET delta == [c \in Counters |-> new[c] - old[c]]
      total == Sum(delta, Counters)
      idle  == Sum(delta, IdleCounters)
      ok    == (\A c \in Counters : delta[c] >= 0) /\ total <= MaxCounter
  IN  [ok |-> ok,
       value |-> IF ok THEN [busy |-> total - idle, total |-> total] ELSE NoUsage]

\* What collect_cpu_usage makes of it: no growth is null, and no error.
ReportUsage(result) ==
  /\ usage' = result.value
  /\ CASE ~result.ok                            -> Fails("usage", "inconsistent")
       [] result.ok /\ result.value.total = 0   -> UNCHANGED <<readings, errors>>
       [] OTHER                                 -> Finds("usage")

\* collect_cpu_usage without a baseline: the first sample, then the warmup.
FirstSample(readable) ==
  /\ step = "usage" /\ previous = NoSample
  /\ \/ /\ readable
        /\ previous' = kernel /\ growth' = Zero
        /\ step' = "warmup"
        /\ UNCHANGED <<readings, errors>>
     \/ /\ ~readable
        /\ Fails("usage", "unavailable")
        /\ step' = After("usage")
        /\ UNCHANGED <<previous, growth>>
  /\ UNCHANGED <<usage, mask, status, kernel, observed>>

\* Mutation of SecondSample: the sample is kept only when the usage could be
\* computed.
SecondSampleKeepsOld(readable) ==
  /\ step = "warmup" \/ (step = "usage" /\ previous # NoSample)
  /\ readable
  /\ observed' = growth /\ growth' = Zero
  /\ LET result == UsagePercent(previous, kernel) IN
       ReportUsage(result) /\ previous' = (IF result.ok THEN kernel ELSE previous)
  /\ step' = After("usage")
  /\ UNCHANGED <<mask, status, kernel>>

\* The rest of collect_cpu_usage: a sample that can be read becomes the
\* baseline whatever comes of the comparison.
SecondSample(readable) ==
  /\ step = "warmup" \/ (step = "usage" /\ previous # NoSample)
  /\ \/ /\ readable
        /\ previous' = kernel
        /\ observed' = growth /\ growth' = Zero
        /\ ReportUsage(UsagePercent(previous, kernel))
     \/ /\ ~readable
        /\ Fails("usage", "unavailable")
        /\ UNCHANGED <<previous, usage, growth, observed>>
  /\ step' = After("usage")
  /\ UNCHANGED <<mask, status, kernel>>

\* collect_load_average, collect_memory, collect_uptime, collect_disk: read and
\* parse, or one error.
CollectPlain(metric, readable) ==
  /\ step = metric
  /\ IF readable THEN Finds(metric) ELSE Fails(metric, "unavailable")
  /\ step' = After(metric)
  /\ UNCHANGED <<previous, usage, mask, status, kernel, growth, observed>>

\* What a file, or a command, may turn out to be.
Sources == {"good", "malformed", "absent", "unreadable"}

\* collect_temperature: the firmware is asked only if there is no thermal zone.
CollectTemperature(zone, command) ==
  /\ step = "temperature"
  /\ LET source == IF zone = "absent" THEN command ELSE zone IN
     IF source = "good" THEN Finds("temperature") ELSE Fails("temperature", "unavailable")
  /\ step' = After("temperature")
  /\ UNCHANGED <<previous, usage, mask, status, kernel, growth, observed>>

\* collect_frequency: the first path that exists decides; none is no error.
CollectFrequency(paths) ==
  LET found == SelectSeq(paths, LAMBDA path : path # "absent") IN
  /\ step = "frequency"
  /\ CASE found = <<>>                            -> UNCHANGED <<readings, errors>>
       [] found # <<>> /\ Head(found) = "good"    -> Finds("frequency")
       [] OTHER                                   -> Fails("frequency", "unavailable")
  /\ step' = After("frequency")
  /\ UNCHANGED <<previous, usage, mask, status, kernel, growth, observed>>

\* collect_power: parse_throttled decodes the whole mask or fails.
CollectPower(readable, bits) ==
  /\ step = "power"
  /\ IF readable THEN Finds("power") /\ mask' = bits
                 ELSE Fails("power", "unavailable") /\ UNCHANGED mask
  /\ step' = After("power")
  /\ UNCHANGED <<previous, usage, status, kernel, growth, observed>>

\* TelemetryState::new.
Finish ==
  /\ step = "finish"
  /\ step' = "idle"
  /\ status' = Evaluate(mask, errors # <<>>)
  /\ UNCHANGED <<previous, readings, usage, mask, errors, kernel, growth, observed>>

Next ==
  \/ Begin
  \/ \E c \in Counters : CounterMoves(c)
  \/ \E readable \in BOOLEAN : FirstSample(readable)
  \/ \E readable \in BOOLEAN : SecondSample(readable)
  \/ \E metric \in {"load", "memory", "uptime", "disk"}, readable \in BOOLEAN :
       CollectPlain(metric, readable)
  \/ \E zone \in Sources, command \in Sources \ {"absent"} : CollectTemperature(zone, command)
  \/ \E first, second \in Sources : CollectFrequency(<<first, second>>)
  \/ \E readable \in BOOLEAN, bits \in Masks : CollectPower(readable, bits)
  \/ Finish

Spec == Init /\ [][Next]_vars

-----------------------------------------------------------------------------
\* The errors of the state that name the metric.
ErrorsOf(metric) == {i \in DOMAIN errors : errors[i].metric = metric}

\* A collected state has been handed over.
Complete == step = "idle" /\ status # "none"

\* What each variable may hold.
TypeOK ==
  /\ previous \in Samples \cup {NoSample}
  /\ step \in Metrics \cup {"idle", "warmup", "finish"}
  /\ readings \in [Metrics -> {"null", "value"}]
  /\ usage \in [busy: 0..MaxCounter, total: 0..MaxCounter]
  /\ mask \in Masks \cup {{}}
  /\ errors \in Seq([metric: Metrics, message: {"unavailable", "inconsistent"}])
  /\ status \in {"none", "ok", "warning", "critical", "degraded"}
  /\ kernel \in Samples

\* CPU usage in a state is exactly the growth of the counters between the last
\* two samples that could be read, also when reads between them failed and when
\* the comparison before it was refused; it is at most 100 percent.  The
\* counters are called inconsistent only if one of them did go back since the
\* last sample, or outgrew u64: one rollback costs one reading, and does not
\* spoil the ones after it.
UsageExact ==
  /\ Complete /\ readings["usage"] = "value" =>
       /\ usage.total = Sum(observed, Counters)
       /\ usage.busy = Sum(observed, Counters \ IdleCounters)
       /\ usage.busy <= usage.total
  /\ \A i \in DOMAIN errors :
       errors[i].message = "inconsistent" =>
         (\E c \in Counters : observed[c] < 0) \/ Sum(observed, Counters) > MaxCounter

\* The bits of the firmware's mask that report a problem of the moment.
NowBits == 0..3

\* A finished state names each failed metric once and no other: a value comes
\* without an error, and null with exactly one, except for a CPU that did not
\* move between the samples and a board that has no frequency file.  "ok" and
\* "warning" are only said of a state without a failed metric whose current
\* power flags are known and off, and no failure hides a known current problem.
SnapshotHonest ==
  Complete =>
    /\ \A metric \in Metrics :
         /\ readings[metric] = "value" => ErrorsOf(metric) = {}
         /\ Cardinality(ErrorsOf(metric)) <= 1
         /\ readings[metric] = "null" /\ ErrorsOf(metric) = {} =>
              metric = "frequency" \/ (metric = "usage" /\ observed = Zero)
    /\ status \in {"ok", "warning"} =>
         /\ readings["power"] = "value" /\ mask \cap NowBits = {}
         /\ \A metric \in Metrics : ErrorsOf(metric) = {}
    /\ mask \cap NowBits # {} => status = "critical"
=============================================================================
