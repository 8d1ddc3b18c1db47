SPECIFICATION Spec
CONSTANTS
  Chunk <- MCChunk
  ThreadNums = {1}
  Releases <- CompanionReleases
  QuietReleases <- NoReleases
  PakPatchModes = {"PakAware", "Binary"}
  HashCheck = TRUE
  MaxFaults = 0
  MaxCrashes = 0
  MaxCalls = 1
INVARIANTS
  EntriesApplied
CHECK_DEADLOCK FALSE
