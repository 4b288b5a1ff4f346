SPECIFICATION AllSpec
CONSTANTS
    Scenarios = {"session"}
    MaxRequests = 4
    StrayIds = {3}
    MaxWindows = 2
    CloseRequests = 1
    MaxEvents = 1
    PageEvents = {"own", "forwarded"}
    SessionWindows = 1
    SessionCalls = 3
    MaxDownloads = 1
    Setters = {"icon"}
    FindGuard = 2
    FindStable = 1
    Platforms = {"gtk", "mac", "win"}
    NativeCalls = 3
    Roots <- MCRoots
    Cwd <- MCCwd
    Files <- MCFiles
    Requests <- MCRequests
    Dotted = {"..", "a..f"}
    MaxAsked = 2
INVARIANTS
    DownloadsAreAnnounced
CHECK_DEADLOCK FALSE
