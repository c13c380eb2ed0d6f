\* An interval at each side of the minimum of 90 seconds, and timeouts at their
\* limits; the whole margin is given to the scheduler.
SPECIFICATION ExpirySpec
CONSTANTS
  Intervals = {5, 30, 31}
  Timeouts = {4, 29, 30}
  Lateness = 1
  Overhead = 0
INVARIANTS
  NeverExpires
  RecoversSoon
