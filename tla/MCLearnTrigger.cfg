SPECIFICATION Spec
CONSTANTS
  IL_RING_SIZE = 12
  IL_FILE_MAX = 7
  IL_CAP_MAX = 3
  NEW_MIN = 4
  TRAIN_MIN = 2
  Commands <- MCCommands
  Output = {"x", "nl", "error"}
  Seconds = {0}
  MaxQuiet = 2
  MaxCommands = 2
  MaxSteps = 3
  MaxEvents = 1
  MaxBoots = 1
  LastByte = 2
  Batches <- MCBatches
  Seeds = {0, 1}
  WMax = 3
  SatMax = 1
  MaxPasses = 2
  PassBytes = 5
  OutMax = 3
  MaxTrains = 4
  Programs = {"p", "q"}
  Base = 2
  NameDigits = 2
  MaxSeq = 6
  MaxFaults = 2
  HIST_MAX = 4
  Typed = {"a", "b", "c", "Predict"}
  Metas = {"Predict"}
  Pages = {0, 1, 2}
  MaxItems = 6
  TRANS_D_MIN = 16
  TRANS_D_MAX = 1024
  TRANS_LAYERS_MIN = 1
  TRANS_LAYERS_MAX = 32
  TRANS_CTX_MIN = 16
  TRANS_CTX_MAX = 8192
  TRANS_VOCAB = 256
  TRANS_HDR = 32
  TRANS_GEN_WIN = 32
  USER_MODEL_PAGES = 262144
  Rams = {12288, 65536, 131072}
  LayerArgs = {0, 3, 32}
  CtxArgs = {0, 20, 1024}
  CapArgs = {0, 1, 300, 2000, 40000}
  LogSizes = {3, 300}
  CAP = 4
  HIST_LEN = 3
  HIST_SLOTS = 2
  Chars = {"a", "b"}
  Leftovers = {0, 3}
  MaxLines = 4
INVARIANT NewBytesTrigger
CHECK_DEADLOCK FALSE
