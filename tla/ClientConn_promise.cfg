SPECIFICATION RpcFairSpec
CONSTANTS
    Op = {o1, o2}
    Reader = {r1}
    Closer = {c1}
    IDSpace = 2
    None = None
    Uses = {{}, {o1, o2}}
CHECK_DEADLOCK FALSE
INVARIANTS OneOwner ErrorsStayLocal
PROPERTIES CloseReturns KeepsPromise RpcReturns CloseCleansUp
