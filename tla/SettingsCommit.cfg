SPECIFICATION Spec
CONSTANTS
  l1 = l1
  l2 = l2
  l3 = l3
  Guard <- TwoGuards
  r1 = r1
  r2 = r2
  DefaultLive = DefaultLive
  DefaultRest = DefaultRest
  Broken = Broken
  NoFile = NoFile
  None = None
  Unusable = Unusable
  Live = {l1, l3}
  Rest = {r1}
  Raws = {x1}
  Proofs = {}
  StableReady = 1
  Sessions = {s1}
  Edits <- AllContents
  Faults = {"torn", "read", "start", "write", "restore", "damage"}
  Inherited <- SlotsOrNone
  x1 = x1
  s2 = s2
  s1 = s1
INVARIANTS
  ManagerIsCurrent
  CommitReplacesItsBase
PROPERTIES
  AdoptsOnlyWhatIsOnDisk
