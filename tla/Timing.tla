------------------------------- MODULE Timing -------------------------------
(***************************************************************************)
(* The lengths of time, in whole seconds, that a configuration sets and    *)
(* others derive from it: validation in src/src/config.rs, the expiry of   *)
(* an entity in src/src/discovery.rs, and what one collection may take in  *)
(* src/src/collector.rs.                                                   *)
(***************************************************************************)
EXTENDS Integers

\* validate_seconds: the range is inclusive.
ValidateSeconds(value, minimum, maximum) == minimum <= value /\ value <= maximum

\* Mutation of ValidateCollector: the two may be equal.
ValidateCollectorInclusive(interval, timeout) ==
  /\ ValidateSeconds(interval, 5, 86400)
  /\ ValidateSeconds(timeout, 1, 30)
  /\ timeout <= interval

\* RawConfig::validate on the two fields of [collector].
ValidateCollector(interval, timeout) ==
  /\ ValidateSeconds(interval, 5, 86400)
  /\ ValidateSeconds(timeout, 1, 30)
  /\ timeout < interval

MINIMUM_EXPIRE_AFTER_SECONDS == 90

\* expire_after_seconds.  The multiplication saturates at u64, which a valid
\* interval cannot reach.
ExpireAfterSeconds(interval) ==
  IF 3 * interval > MINIMUM_EXPIRE_AFTER_SECONDS
  THEN 3 * interval ELSE MINIMUM_EXPIRE_AFTER_SECONDS

CPU_WARMUP == 1

\* What collect may wait for: the warmup after a first CPU sample, the firmware
\* command for the power flags, and a second one for the temperature if there
\* is no thermal zone.  overhead bounds the rest: reading files, statvfs, and
\* ending a command that passed its deadline.
Longest(timeout, warmup, zone, overhead) ==
    (IF warmup THEN CPU_WARMUP ELSE 0)
  + (IF zone THEN timeout ELSE 2 * timeout)
  + overhead
=============================================================================
