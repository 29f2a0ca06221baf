SPECIFICATION Spec
CONSTANTS
  Nodes = {1}
  Primary = 1
  Servers = {1}
  Trees = {1}
  Locking = {}
  Disks = {1}
  Resettable = {}
  FaultModels <- LateToken
INVARIANTS OnlyConvergedIsQuiet
CHECK_DEADLOCK FALSE
