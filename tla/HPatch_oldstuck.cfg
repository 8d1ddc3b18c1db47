SPECIFICATION PatchFairSpec
CONSTANTS
  Comp = {"old"}
  HInputs <- MCInputs
  HCaches <- MCCaches
  HOutputs <- MCOutputs
  StreamSize <- MCStreamSize
  OutSize <- MCOutSize
  Diffs <- GoodAndBad
  OldSize = 6
  MaxPos = 15
  Bufs = {b1, b2}
  NoBuf = NoBuf
  WorkBufSize = 2
  MaxRead = 2
  MaxWrite = 2
  CacheSize = 2
  Compressed = FALSE
  HasReset = FALSE
  Fails = TRUE
  Spurious = FALSE
PROPERTIES
  WokenWorkersEnd
CHECK_DEADLOCK FALSE
