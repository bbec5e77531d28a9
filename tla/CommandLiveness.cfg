SPECIFICATION FairSpec
CONSTANTS
  Watts = {2}
  MinTarget = 2
  MinChange = 1
  Worlds <- LossyWorlds
  Reports <- Together
  Packets <- Together
PROPERTIES
  GuardNoLatch
  TargetTakesEffect
