SPECIFICATION Spec
CONSTANTS
  p1 = p1
  p2 = p2
  PacketIds = {p1, p2}
  RequestCapacity = 3
  MaxConnections = 3
  RetrySteps = 2
  MaxTicks = 3
SYMMETRY PacketSymmetry
INVARIANTS
  TypeOK
  ControlQueueAvailable
  FreshState
  BootstrapOrder
  NoGhostOnline
  DisconnectConfirmed
  OfflineIsFinal
  StatesInOrder
  NoLostState
