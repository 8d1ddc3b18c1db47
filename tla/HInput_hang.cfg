SPECIFICATION InputFairSpec
CONSTANTS
  Comp <- MCComp
  HInputs <- MCComp
  StreamSize <- MCStreamSize
  Bufs = {b1, b2}
  NoBuf = NoBuf
  WorkBufSize = 2
  MaxRead = 3
  Fails = TRUE
  Spurious = FALSE
PROPERTIES
  InputCloseReturns
CHECK_DEADLOCK FALSE
