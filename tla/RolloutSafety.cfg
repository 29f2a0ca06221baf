SPECIFICATION Spec
CONSTANTS
  c1 = c1
  c2 = c2
  Clients = {c1, c2}
  NoClient = NoClient
  Nodes = {1, 2}
  Primary = 1
  Versions = {1, 2, 3}
  Bad = {3}
  Goal = 1
  Practices <- OverlapOrTurns
  Faults = {"cut", "fail", "flip"}
SYMMETRY ClientSymmetry
INVARIANTS
  BadNeverReachesPrimary
PROPERTIES
  SuccessMeansServed
