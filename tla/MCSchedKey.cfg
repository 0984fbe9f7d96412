SPECIFICATION Spec
CONSTANTS
  TASK_MAX = 3
  KbdCap = 1
  SleepMs <- MCSleepMs
  MaxPid = 2
INVARIANT KbdWaitReturnsKey
