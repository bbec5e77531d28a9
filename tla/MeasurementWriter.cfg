SPECIFICATION LiveSpec
CONSTANTS
    main = main
    fallback = fallback
    N = 7
    Path = {main, fallback}
    Point <- SomeRows
    PathOf <- AwayAndBack
    QueueCap = 3
    BatchCap = 2
CHECK_DEADLOCK FALSE
INVARIANTS
  WriterIsConsistent
PROPERTIES
  ImplementsFifo
  WriterProgresses
