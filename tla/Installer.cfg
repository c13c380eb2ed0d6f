SPECIFICATION Spec
CONSTANT Versions = {1, 2}
INVARIANTS
  AccountUsable
  RunningHasFiles
  InstalledIsComplete
  RemovedIsClean
PROPERTY UserFilesKept
