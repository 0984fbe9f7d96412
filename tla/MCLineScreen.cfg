SPECIFICATION LineSpec
CONSTANTS
  CAP = 4
  HIST_LEN = 3
  HIST_SLOTS = 2
  Chars = {"a", "b"}
  Leftovers = {0}
  MaxLines = 4
INVARIANT ScreenShowsLine
CHECK_DEADLOCK FALSE
