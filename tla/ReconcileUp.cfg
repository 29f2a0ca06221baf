SPECIFICATION FairSpec
CONSTANTS
  Nodes = {1, 2}
  Primary = 1
  Servers = {1, 2}
  Trees = {1, 2, 3}
  Locking = {2}
  Disks = {1, 2}
  Resettable = {2}
  FaultModels <- CutShort
INVARIANTS TypeOK BoughtOnce OwnServer SwitchIsSafe NothingToDoIsTrue
PROPERTIES ProvisionedFirst NamedBoxServes RerunConverges
CHECK_DEADLOCK FALSE
