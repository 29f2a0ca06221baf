SPECIFICATION FairSpec
CONSTANTS
  c1 = c1
  c2 = c2
  Clients = {c1}
  NoClient = NoClient
  Nodes = {1, 2}
  Primary = 1
  Versions = {1, 2}
  Bad = {2}
  Goal = 1
  Practices <- AllOrOne
  Faults = {"cut", "fail", "flip"}
INVARIANTS
  TypeOK
PROPERTIES
  RerunConverges
