SPECIFICATION Spec
CONSTANTS
  s1 = s1
  s2 = s2
  b1 = b1
  b2 = b2
  Sessions = {s1, s2}
  NoSession = NoSession
  Versions = {1, 2}
  Builds = {b1, b2}
  NoBuild = NoBuild
  Cut = Cut
  Keep = 1
  FaultModels <- AllOrWhole
SYMMETRY SessionSymmetry
INVARIANTS
  TypeOK
  WholeIsVerified
PROPERTIES
  PublishedNeverChanges
  LinkedIsLeftAlone
  UploadTellsTruth
