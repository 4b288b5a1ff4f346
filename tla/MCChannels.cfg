SPECIFICATION AllSpec
CONSTANTS
    Scenarios = {"outbox", "bridge", "linux", "win", "mac"}
    Emitters = {e1, e2}
    MaxOps = 2
    Frames = {main}
    Main = main
    Kinds = {"plain", "modal", "internal"}
    MaxLoads = 2
    BridgeCalls = 2
    SdkCalls = 3
    MaxEvents = 1
    Capacity = 10
    Clients = {c1, c2}
    NoClient = nobody
    MaxLines = 2
INVARIANTS
    NoLostFlush
    OwnLinesOwnAnswers
PROPERTIES
    ImplementsChannel
    KeepsContractWithoutReload
    EventuallySettled
    ImplementsContract
    AnsweredOrRejected
    StopReturns
CHECK_DEADLOCK FALSE
