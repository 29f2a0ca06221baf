SPECIFICATION Spec
CONSTANTS
  Nodes = {1}
  Primary = 1
  Servers = {1, 2}
  Trees = {1, 2, 3}
  Locking = {2}
  Disks = {1, 2}
  Resettable = {1, 2}
  FaultModels <- Reinstalled
INVARIANTS OwnHardware ExpectedKeys
CHECK_DEADLOCK FALSE
