SPECIFICATION Spec
CONSTANTS
  tokens_of <- Source
  parse_of <- noc_parse
  compile_of <- noc_compile
  defs_of <- Defined
  plain <- Plain
  bit_and <- BitAnd
  bit_or <- BitOr
  bit_xor <- BitXor
  MaxArgs = 3
  W = 4
  MaxLocals = 4
  MaxStrings = 3
  MaxFuncs = 5
  StackSize = 8
  MaxFrames = 4
  MaxNest = 2
  Lower <- MCLower
  Addr <- MCAddr
  Files <- MCFiles
  Sessions <- MCSessions
  Drafts <- MCDrafts
  Seed <- MCSeed
  Long <- MCLong
  NewlineEnded <- MCNewlineEnded
  Builtins <- MCBuiltins
INVARIANTS NocTypeOK ParseExact CodeWellFormed RunMeansProgram StackBalanced NoInternalFault
CHECK_DEADLOCK FALSE
