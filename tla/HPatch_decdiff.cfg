SPECIFICATION PatchSpec
CONSTANTS
  Comp = {"diff", "dec"}
  HInputs <- MCInputs
  HCaches <- MCCaches
  HOutputs <- MCOutputs
  StreamSize <- MCStreamSize
  OutSize <- MCOutSize
  Diffs <- OnlyOneStep
  OldSize = 6
  MaxPos = 15
  Bufs = {b1, b2}
  NoBuf = NoBuf
  WorkBufSize = 2
  MaxRead = 2
  MaxWrite = 2
  CacheSize = 2
  Compressed = TRUE
  HasReset = FALSE
  Fails = TRUE
  Spurious = FALSE
SYMMETRY BufSymmetry
INVARIANTS
  NoThreadAfterReturn
CHECK_DEADLOCK FALSE
