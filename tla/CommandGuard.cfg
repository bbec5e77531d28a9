SPECIFICATION Spec
CONSTANTS
  Watts = {2}
  MinTarget = 2
  MinChange = 1
  Worlds <- GuardWorlds
  Reports <- Together
  Packets <- Together
INVARIANTS
  CommandsAreConsistent
  OppositeNeedsProof
PROPERTIES
  GuardHolds
  FlashProtected
