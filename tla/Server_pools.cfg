SPECIFICATION Spec
CONSTANTS
    Listener = {l1}
    Conn = {c1}
    Closer = {k1}
    Capacity = 1
    Staffed = {"RSA", "ECDSA", "Other", "Limited"}
    None = None
INVARIANT PoolsAreDestroyed
CHECK_DEADLOCK FALSE
