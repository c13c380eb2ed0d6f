SPECIFICATION Spec
CONSTANTS
  Counters = {"user", "idle"}
  IdleCounters = {"idle"}
  MaxCounter = 2
  Masks = {{}, {0}, {16}, {3, 19}}
INVARIANTS
  UsageExact
  SnapshotHonest
