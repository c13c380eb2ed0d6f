------------------------------ MODULE Measures ------------------------------
(***************************************************************************)
(* The calculations of src/src/metrics: what a number read from a source   *)
(* becomes, and which numbers are refused.  Text is abstracted to the      *)
(* number it holds.  u64 values are integers up to MaxU64, f64 values are  *)
(* ratios [n, d] of integers.                                              *)
(***************************************************************************)
EXTENDS Integers

CONSTANTS
  MaxU64,  \* u64::MAX
  KIB      \* BYTES_PER_KIBIBYTE, 1024 in the code

ASSUME WidthAssumption == MaxU64 \in Nat /\ KIB \in Nat \ {0}

Ratio(n, d) == [n |-> n, d |-> d]

\* percentage, and the end of calculate_disk_metrics.
Percentage(used, whole) == IF whole = 0 THEN Ratio(0, 1) ELSE Ratio(100 * used, whole)

-----------------------------------------------------------------------------
(***************************************************************************)
(* /proc/meminfo.                                                          *)
(***************************************************************************)
FallbackKeys == {"MemFree", "Buffers", "Cached", "SReclaimable", "Shmem"}

\* canonical_key: the keys that are looked at.
Keys == FallbackKeys \cup {"MemTotal", "MemAvailable", "SwapTotal", "SwapFree"}

\* A key that was not seen.
Absent == -1

Smaller(a, b) == IF a <= b THEN a ELSE b

\* checked_kib_sum of fallback_available_kib: a sum of numbers that are not
\* negative overflows as soon as the whole of it does.
FallbackSum(values) ==
  values["MemFree"] + values["Buffers"] + values["Cached"] + values["SReclaimable"]

\* The fallback subtracts what is shared and stops at zero.
AvailableKib(values) ==
  IF values["MemAvailable"] # Absent THEN values["MemAvailable"]
  ELSE IF FallbackSum(values) < values["Shmem"] THEN 0
  ELSE FallbackSum(values) - values["Shmem"]

\* An amount in bytes: the total, what is left of it, what is used, and what
\* the used share is a share of.
Amount(total, rest, used, whole) == [total |-> total, rest |-> rest, used |-> used, whole |-> whole]

Nothing == Amount(0, 0, 0, 0)

\* Mutation of MemoryAmount: the available memory is not clamped.
MemoryAmountUnclamped(values) ==
  LET total == KIB * values["MemTotal"]
      available == KIB * AvailableKib(values)
  IN  Amount(total, available, total - available, total)

\* parse_meminfo: what is available is at most all there is.
MemoryAmount(values) ==
  LET total == KIB * values["MemTotal"]
      available == KIB * Smaller(AvailableKib(values), values["MemTotal"])
  IN  Amount(total, available, total - available, total)

SwapAmount(values) ==
  LET total == KIB * values["SwapTotal"]
      free  == KIB * Smaller(values["SwapFree"], values["SwapTotal"])
  IN  Amount(total, free, total - free, total)

\* kib_to_bytes and checked_sub on an amount.
AmountOutcome(amount) ==
  IF amount.total > MaxU64 \/ amount.rest > MaxU64 THEN "overflow"
  ELSE IF amount.rest > amount.total THEN "inconsistent"
  ELSE "ok"

\* The first thing parse_meminfo has to complain about, or "ok".
MeminfoOutcome(values) ==
  IF values["MemTotal"] = Absent THEN "missing"
  ELSE IF values["MemTotal"] = 0 THEN "zero"
  ELSE IF values["MemAvailable"] = Absent /\ \E key \in FallbackKeys : values[key] = Absent
       THEN "missing"
  ELSE IF values["MemAvailable"] = Absent /\ FallbackSum(values) > MaxU64 THEN "overflow"
  ELSE IF values["SwapTotal"] = Absent \/ values["SwapFree"] = Absent THEN "missing"
  ELSE IF AmountOutcome(MemoryAmount(values)) # "ok" THEN AmountOutcome(MemoryAmount(values))
  ELSE AmountOutcome(SwapAmount(values))

-----------------------------------------------------------------------------
(***************************************************************************)
(* statvfs.                                                                *)
(***************************************************************************)
\* calculate_disk_metrics; used is a share of used plus available, as in df.
DiskAmount(fragment, blocks, free, available) ==
  LET used == blocks * fragment - free * fragment
  IN  Amount(blocks * fragment, free * fragment, used, used + available * fragment)

DiskOutcome(fragment, blocks, free, available) ==
  LET amount == DiskAmount(fragment, blocks, free, available) IN
  IF available * fragment > MaxU64 THEN "overflow"
  ELSE IF AmountOutcome(amount) # "ok" THEN AmountOutcome(amount)
  ELSE IF amount.whole > MaxU64 THEN "overflow"
  ELSE "ok"

-----------------------------------------------------------------------------
(***************************************************************************)
(* The other parsers.  A number is given in thousandths; <<>> is text that *)
(* is no finite number, which all of them refuse.                          *)
(***************************************************************************)
Thousandths(field) == IF field = <<>> THEN <<>> ELSE <<Ratio(field[1], 1000)>>

\* parse_non_negative_float.
NonNegative(field) == field # <<>> /\ field[1] >= 0

\* parse_loadavg: all three or none.
ParseLoadavg(fields) ==
  IF \A i \in 1..3 : NonNegative(fields[i])
  THEN [i \in 1..3 |-> Thousandths(fields[i])] ELSE <<>>

\* parse_uptime_seconds: whole seconds, up to the width of u64.
ParseUptimeSeconds(field) ==
  IF NonNegative(field) /\ field[1] < 1000 * MaxU64 THEN <<field[1] \div 1000>> ELSE <<>>

\* parse_frequency_khz and parse_millidegrees_celsius of a whole number, and
\* parse_vcgencmd_temperature: no range beside that of the type.
ParseFrequencyKhz(field) == Thousandths(field)
ParseTemperature(field) == Thousandths(field)
=============================================================================
