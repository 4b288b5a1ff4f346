SPECIFICATION AllSpec
CONSTANTS
  Main = main
  Workers = {w1, w2}
  FewWorkers = {w1}
  MaxPosts = 2
  MaxInput = 2
INVARIANTS NoLostWakeup
PROPERTIES PromiseSafety EventuallyRuns OthersKeepPromise
CHECK_DEADLOCK FALSE
