SPECIFICATION PatchFairSpec
CONSTANTS
  Comp = {"diff", "dec", "old", "new"}
  HInputs <- MCInputs
  HCaches <- MCCaches
  HOutputs <- MCOutputs
  StreamSize <- MCStreamSize
  OutSize <- MCOutSize
  Diffs <- OnlyShortStep
  OldSize = 6
  MaxPos = 15
  Bufs = {b1, b2}
  NoBuf = NoBuf
  WorkBufSize = 2
  MaxRead = 1
  MaxWrite = 2
  CacheSize = 2
  Compressed = TRUE
  HasReset = FALSE
  Fails = FALSE
  Spurious = FALSE
PROPERTIES PatchSucceeds
CHECK_DEADLOCK FALSE
