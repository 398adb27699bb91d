SPECIFICATION FairSpec
CONSTANTS
    Listener = {l1}
    Conn = {c1, c2}
    Closer = {k1, k2}
    Capacity = 1
    Staffed = {"RSA", "ECDSA", "Other", "Limited"}
    None = None
INVARIANTS NoConnEscapes NoSubmitAfterDestroy ClosedIsQuiet
PROPERTIES CloseReturns EndedIsRemoved
CHECK_DEADLOCK FALSE
