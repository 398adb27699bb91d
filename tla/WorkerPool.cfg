SPECIFICATION FairSpec
CONSTANTS
    Worker = {w1, w2, w3}
    Job = {j1, j2, j3}
    Capacity = 2
    Sentinel = Sentinel
CHECK_DEADLOCK FALSE
INVARIANTS QuitsLast
PROPERTY KeepsPromise
