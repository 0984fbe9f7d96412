SPECIFICATION FairSpec
CONSTANTS
  TASK_MAX = 4
  KbdCap = 1
  SleepMs <- MCSleepMs
  MaxPid = 3
INVARIANTS
  TypeOK
  RunningIsCurrent
  LoadedContext
  AddressSpaceLive
  BlockedHasWaker
  EoiNeverLost
  PidsUnique
PROPERTIES
  ReadyRuns
  SleeperWakes
  RoundRobin
  SleepNotCut
