SPECIFICATION Spec
CONSTANTS
  Tasks = {1, 2}
  NFrames = 10
  NSlots = 2
  SWAP_MAX_PER_TASK = 1
  Low = 1
  ImagePages = 0
  ScriptPages = 1
  StackPages = 0
  HeapMax = 1
  WinMax = 2
  DefaultBudget = 0
  Budgets = {1}
  CommitArgs = {1}
  U32 = 4
  U64 = 16
  MaxSpawns = 2
  SwapOutPages <- MCAllPages
INVARIANT EvictionSafe
CHECK_DEADLOCK FALSE
