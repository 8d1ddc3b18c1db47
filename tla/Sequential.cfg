SPECIFICATION SequentialSpec
CONSTANTS
    LiteOldSize = 3
    LiteNewSize = 4
    LiteSpare = {0, 3}
    LitePages = {0, 2}
    LiteCuts = {0, 1}
    PathOrder <- MCPathOrder
    Parent <- MCParent
    DirReleases <- MCDirReleases
    DirMaxFaults = 2
    RefSizes <- MCRefSizes
    OpenLimits = {2, 4}
    MaxReads = 3
    OldMaxFaults = 1
    StreamOldSize = 12
    StreamNewSize = 5
    StreamInputs <- MCStreamInputs
    kMaxBytesRleLen = 3
    kAccessPageSize = 2
    kMinSpaceLen = 3
    OutCacheSizes = {1, 2, 3}
    MaxOutput = 7
INVARIANTS LiteInplaceWorks
           DirTrueMeansNew DirErrorKeepsOld DirNewNeverLost
           OldReadsJoined OldHandlesBounded
           StreamPatchWorks StreamCacheLoaded
           OutCacheRepeats
CHECK_DEADLOCK FALSE
