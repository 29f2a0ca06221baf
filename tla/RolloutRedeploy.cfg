SPECIFICATION Spec
CONSTANTS
  c1 = c1
  c2 = c2
  Clients = {c1}
  NoClient = NoClient
  Nodes = {1, 2}
  Primary = 1
  Versions = {1, 2}
  Bad = {}
  Goal = 1
  Practices <- Turns
  Faults = {}
PROPERTIES
  RollbackReturns
