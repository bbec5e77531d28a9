SPECIFICATION FairSpec
CONSTANTS
    Soc = {1, 3, 5, 6}
    MinSoc = 1
    MaxSoc = 6
    EmergencySoc = 1
    TriggerSoc = 3
    Reserve = {5, 6}
    Configs <- AllConfigs
    MaxW = 2
INVARIANTS
  CareIsConsistent
PROPERTIES
  PersistedBeforeCommand
  StoppedStaysStopped
  EpisodeEndsAtItsReserve
  NoDirectReversal
  ReserveIsKept
  StopIsForgotten
