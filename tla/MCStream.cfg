SPECIFICATION FairSpec
CONSTANTS
  Targets = {"k8s", "hubble"}
  InChunks = 2
  ChunkSize = 2
  OutChunks = 2
  StdinCap = 1
  OutCap = 1
  MaxBreaks = 1
INVARIANTS OutputInOrder NormalCloseIsComplete StdinInOrder
PROPERTIES ClientTakesSessionDown SessionEndsRequest
CHECK_DEADLOCK FALSE
