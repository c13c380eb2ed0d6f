SPECIFICATION FairSpec
CONSTANT MaxRequests = 5
PROPERTIES
  RequestAnswered
  WorkerEnds
  ImplementsStateSource
