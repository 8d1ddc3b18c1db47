SPECIFICATION PatchSpec
CONSTANTS
  Comp = {"old", "new"}
  HInputs <- MCInputs
  HCaches <- MCCaches
  HOutputs <- MCOutputs
  StreamSize <- MCStreamSize
  OutSize <- MCOutSize
  Diffs <- GoodAndBad
  OldSize = 6
  MaxPos = 15
  Bufs = {b1, b2}
  NoBuf = NoBuf
  WorkBufSize = 2
  MaxRead = 2
  MaxWrite = 2
  CacheSize = 2
  Compressed = FALSE
  HasReset = TRUE
  Fails = TRUE
  Spurious = TRUE
SYMMETRY BufSymmetry
INVARIANTS
  OldBytesAreTheCovers
  StepMemStable
  TrueMeansWritten
  CacheNoSleepOverWork
  PostFindsCacheEmpty
  ListenerHearsSteps
CHECK_DEADLOCK FALSE
