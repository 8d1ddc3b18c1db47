SPECIFICATION FairSpec
CONSTANTS
  ThreadNum = 2
  BlockCount = 4
  BlockSize = 2
  BlockDictSize = 3
  InSize = 7
  Fails = {"start", "read", "compress", "write"}
  Spurious = TRUE
INVARIANTS
  CompressBufsOwnedOnce
  CompressDictIsDataBefore
  CompressWritesInOrder
  CompressQuietAtReturn
PROPERTIES
  CompressReturns
CHECK_DEADLOCK FALSE
