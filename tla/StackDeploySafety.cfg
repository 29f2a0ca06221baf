SPECIFICATION Spec
CONSTANTS
  Procs = {p1, p2}
  NoProc = NoProc
  Versions = {1, 2}
  Keep = 1
  Commands = {"deploy", "rollback", "unpack", "prune"}
  FaultModels <- Crashes
  MaxGeneration = 2
SYMMETRY ProcSymmetry
INVARIANTS
  TypeOK
  MutualExclusion
  BootFindsRelease
  LinksResolve
  ActiveRunsItsLink
  TrafficOnActive
  RollbackTargetProven
PROPERTIES
  ImplementsBlueGreen
  OnlySettlingLosesTraffic
  TrafficNeverStopped
  RecordedNeverStopped
