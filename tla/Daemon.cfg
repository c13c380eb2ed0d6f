SPECIFICATION FairSpec
CONSTANTS
  PacketIds = {1, 2}
  RequestCapacity = 3
  MaxConnections = 2
  RetrySteps = 1
  MaxTicks = 1
PROPERTIES
  ImplementsPublishing
  ProcessEnds
  EventuallyOnline
  EventuallyOffline
