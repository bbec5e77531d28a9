SPECIFICATION Spec
CONSTANTS
    main = main
    fallback = fallback
    u1 = u1
    u2 = u2
    Path = {main, fallback}
    Kind <- RowKinds
    Steps = {2, 3}
    SetBacks = {3}
    Minute = 4
    JoinGap = 2
    BatchMax = 2
    MaxTime = 7
    MaxRun = 2
CHECK_DEADLOCK FALSE
INVARIANTS
  HistoryMatchesRows
  MinutesMatchSamples
