SPECIFICATION Spec
CONSTANTS
  Procs = {p1}
  NoProc = NoProc
  Versions = {1, 2}
  Keep = 1
  Commands = {"deploy", "rollback"}
  FaultModels <- OnlyDeath
  MaxGeneration = 2
INVARIANTS
  FallbackReturnsToActive
