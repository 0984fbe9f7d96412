SPECIFICATION CorpusSpec
CONSTANTS
  Programs = {"p", "q"}
  Base = 2
  NameDigits = 2
  MaxSeq = 6
  MaxFaults = 2
INVARIANT VersionsDurable
CHECK_DEADLOCK FALSE
