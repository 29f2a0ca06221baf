SPECIFICATION FairSpec
CONSTANTS
  Procs = {p1}
  NoProc = NoProc
  Versions = {1, 2}
  Keep = 1
  Commands = {"deploy", "rollback", "unpack", "prune"}
  FaultModels <- PowerOrDeath
  MaxGeneration = 2
PROPERTIES
  LockReleased
  SwapSettles
