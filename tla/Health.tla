------------------------------- MODULE Health -------------------------------
(***************************************************************************)
(* The power flags of the firmware and what the health status makes of     *)
(* them: src/src/metrics/power.rs, PowerMetrics and HealthStatus of        *)
(* src/src/model.rs.  A mask is the set of the bits that are on.           *)
(***************************************************************************)
EXTENDS Integers

\* parse_throttled and has_bit, then power_metrics: the bit behind each flag.
FlagBit ==
  [undervoltage_now |-> 0, arm_frequency_capped_now |-> 1,
   throttled_now |-> 2, soft_temperature_limit_now |-> 3,
   undervoltage_since_boot |-> 16, arm_frequency_capped_since_boot |-> 17,
   throttled_since_boot |-> 18, soft_temperature_limit_since_boot |-> 19]

\* has_current_problem.  A mask that is not known has no bit on.
HasCurrentProblem(bits) ==
  \E flag \in {"undervoltage_now", "arm_frequency_capped_now", "throttled_now",
               "soft_temperature_limit_now"} : FlagBit[flag] \in bits

\* has_historical_problem.
HasHistoricalProblem(bits) ==
  \E flag \in {"undervoltage_since_boot", "arm_frequency_capped_since_boot",
               "throttled_since_boot", "soft_temperature_limit_since_boot"} :
    FlagBit[flag] \in bits

\* Mutation of Evaluate: a historical flag wins over a failure to collect.
EvaluateHistoryFirst(bits, failed) ==
  CASE HasCurrentProblem(bits) -> "critical"
    [] ~HasCurrentProblem(bits) /\ HasHistoricalProblem(bits) -> "warning"
    [] OTHER -> IF failed THEN "degraded" ELSE "ok"

\* HealthStatus::evaluate.
Evaluate(bits, failed) ==
  CASE HasCurrentProblem(bits) -> "critical"
    [] ~HasCurrentProblem(bits) /\ failed -> "degraded"
    [] OTHER -> IF HasHistoricalProblem(bits) THEN "warning" ELSE "ok"
=============================================================================
