SPECIFICATION FairSpec
CONSTANTS
    Good = Good
    b1 = b1
    b2 = b2
    Bad = {b1, b2}
    n1 = n1
    g1 = g1
    Failures = {1, 2}
    Reserve <- TwoReserves
    Soc = {1, 3}
    Stages = {n1, g1}
    Quiet = {n1}
    None = None
    Moves <- OneMoves
    MaxFaults = 1
INVARIANTS
    JournalIsConsistent
PROPERTIES
    FailureIsClosedByProof
    FailureIsRecorded
    JournalFollowsState
