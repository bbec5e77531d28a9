SPECIFICATION Spec
CONSTANTS
  c1 = c1
  c2 = c2
  c3 = c3
  r1 = r1
  r2 = r2
  Configs = {c1, c2, c3}
  Revisions = {r1, r2}
  TypedRevision <- MCTypedRevision
  v1 = v1
  v2 = v2
  Versions = {v1, v2}
  Missing = Missing
  Damaged = Damaged
  None = None
  MaxGeneration = 3
  MaxDisturbances = 2
SYMMETRY Interchangeable
INVARIANTS
  RecoveryIsDecided
PROPERTIES
  AnchorHolds
  OneDamagedFileSurvives
  RepairKeepsChoice
  ImplementsRegister
