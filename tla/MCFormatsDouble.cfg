SPECIFICATION Spec
CONSTANTS
    kMaxDepth = 3
    MaxIntegral = 120
    IdBits = 16
    WindowBits = 8
INVARIANT JsonFractionsSurvive
CHECK_DEADLOCK FALSE
