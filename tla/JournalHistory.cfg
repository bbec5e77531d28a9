SPECIFICATION FairSpec
CONSTANTS
    Good = Good
    b1 = b1
    b2 = b2
    Bad = {b1}
    n1 = n1
    g1 = g1
    Failures = {}
    Reserve <- TwoReserves
    Soc = {1}
    Stages = {n1, g1}
    Quiet = {n1}
    None = None
    Moves <- OnlyGrid
    MaxFaults = 0
PROPERTIES
    DiagnosisIsJournalled
