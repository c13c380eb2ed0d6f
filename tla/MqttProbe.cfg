SPECIFICATION FairSpec
CONSTANTS
  Probes = {"p1", "p2"}
  Daemon = "daemon"
  IdLength = 5
  IdLimit = 5
  Capacity = 4
INVARIANTS
  OutcomeTrue
PROPERTIES
  NoTakeover
  ProbeReturns
