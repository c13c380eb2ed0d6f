SPECIFICATION FairSpec
CONSTANTS
  MaxOutput = 3
  BufferSize = 2
  PipeSize = 2
  MaxWritten = 5
INVARIANTS
  OutputIsWhole
  NothingLeft
  OutcomeHonest
PROPERTY RunReturns
