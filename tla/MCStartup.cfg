SPECIFICATION Spec
CONSTANTS
    Kernels = {k1, k2}
    MaxVersion = 2
    MaxMishaps = 1
    Instances = {a, b}
    NoInstance = nobody
    MaxUpdates = 3
    Libs = {lib1, lib2}
    Builtin = builtin
    Keys = {key1, key2}
    Ids = {id1, id2}
    Contents = {bytes1, bytes2}
    MaxDepth = 2
    MaxEvents = 1
    Indexes <- MCIndexes
    Ranges <- MCRanges
    Urls <- MCUrls
    Bodies <- MCBodies
    kBlock = 2
    Archives <- MCArchives
INVARIANTS
    SidecarRuns
    ProgramStaysWhole
    NothingIsPulledAway
    PickIsNewest
    DownloadIsWhatWasSent
    SameForAnyChunks
PROPERTIES
    RuntimeEventually
    HandedOver
CHECK_DEADLOCK FALSE
