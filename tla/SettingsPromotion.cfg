SPECIFICATION FairSpec
CONSTANTS
  l1 = l1
  l2 = l2
  l3 = l3
  Guard <- OneGuard
  r1 = r1
  r2 = r2
  DefaultLive = DefaultLive
  DefaultRest = DefaultRest
  Broken = Broken
  NoFile = NoFile
  None = None
  Unusable = Unusable
  Live = {l1, l2}
  Rest = {r1}
  Raws = {x1}
  Proofs = {"p1", "p2"}
  StableReady = 2
  Sessions = {}
  Edits <- FileEdits
  Faults = {"promote", "torn", "switched"}
  Inherited <- SlotsOrNone
  x1 = x1
  s2 = s2
  s1 = s1
INVARIANTS
  ReadyTimerIsHonest
  LastGoodWasProven
PROPERTIES
  ValidFileIsAdopted
  StableConfigIsPromoted
