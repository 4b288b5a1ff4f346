SPECIFICATION AllSpec
CONSTANTS
    MaxSessions = 2
    Numbers = {1, 2, 3}
    Capacity = 1
    MaxOutput = 1
    MaxWrites = 1
    MaxWatchers = 2
    MaxChanges = 2
    BatchLimit = 1
    Paths = {"a", "b"}
    MaxFiles = 3
    MaxLength = 3
    Threshold = 2
    MaxHandles = 2
    MaxCalls = 4
INVARIANTS
    WriteUsesLiveProc
    OutputIsWhole
    ReaderHasWatcher
    NothingLostOrRepeated
    ReadsFollow
PROPERTIES
    ProcessesComeToAnEnd
    WatchesProgress
CHECK_DEADLOCK FALSE
