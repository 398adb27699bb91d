SPECIFICATION ConnFairSpec
CONSTANTS
    Max = 3
    SendBuffer = 1
    RecvBuffer = 1
CHECK_DEADLOCK FALSE
INVARIANTS WorkersNeverBlock WaiterIsReleasable DestroyOnce
PROPERTIES KeepsPromise DeadClientIsReaped BackpressureEnds
