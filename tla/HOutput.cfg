SPECIFICATION OutputFairSpec
CONSTANTS
  Comp <- MCComp
  HOutputs <- MCComp
  OutSize <- MCOutSize
  Bufs = {b1, b2}
  NoBuf = NoBuf
  WorkBufSize = 2
  MaxWrite = 3
  Fails = TRUE
  Spurious = TRUE
INVARIANTS
  OutputBufsOwnedOnce
  OutputNoSleepOverWork
  OutputCloseSound
PROPERTIES
  OutputIsByteSink
  OutputWritesReturn
  OutputDrains
CHECK_DEADLOCK FALSE
