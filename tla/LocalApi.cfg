SPECIFICATION AnsweringSpec
CONSTANTS
    a1 = a1
    a2 = a2
    Address = {a1, a2}
    NoAddress = NoAddress
    Settings <- AllSettings
    MaxGen = 3
CHECK_DEADLOCK FALSE
INVARIANTS
  WorkerIsInformed
PROPERTIES
  AppliedIsCurrent
  WorkerServes
