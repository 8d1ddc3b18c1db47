SPECIFICATION FairSpec
CONSTANTS
  Chunk <- MCChunk
  ThreadNums = {0, 1, 2}
  Releases <- PlainReleases
  QuietReleases <- FourChunks
  PakPatchModes = {"PakAware", "Binary"}
  HashCheck = TRUE
  MaxFaults = 2
  MaxCrashes = 1
  MaxCalls = 2
INVARIANTS
  TrueMeansVerified
  ChunkAllOrNothing
  NoVersionLost
  RunnerBounded
PROPERTIES
  PatchReturns
CHECK_DEADLOCK FALSE
