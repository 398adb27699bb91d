SPECIFICATION FairSpec
CONSTANTS
    Addr = {a1, a2}
    Conn = {c1, c2}
    Caller = {e1}
    Pinger = {p1}
    Pinged = {a1}
    PoolSize = 1
    Silent = {a2}
    None = None
INVARIANTS RightServer Monitored
PROPERTIES DeadConnIsClosed OperationsReturn
CHECK_DEADLOCK FALSE
