SPECIFICATION TransSpec
CONSTANTS
  TRANS_D_MIN = 16
  TRANS_D_MAX = 1024
  TRANS_LAYERS_MIN = 1
  TRANS_LAYERS_MAX = 32
  TRANS_CTX_MIN = 16
  TRANS_CTX_MAX = 8192
  TRANS_VOCAB = 256
  TRANS_HDR = 32
  TRANS_GEN_WIN = 32
  USER_MODEL_PAGES = 262144
  Rams = {65536}
  LayerArgs = {0, 3, 32}
  CtxArgs = {0, 20, 1024}
  CapArgs = {0, 1, 300, 40000}
  LogSizes = {3, 300}
INVARIANT ModelFits
CHECK_DEADLOCK FALSE
