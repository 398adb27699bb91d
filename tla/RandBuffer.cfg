SPECIFICATION BufferFairSpec
CONSTANTS
    Filler = {f1, f2}
    Signer = {s1, s2}
    RandBufferLen = 1
    Nonce = {n1, n2}
    Untracked = Untracked
INVARIANTS NoNonceTwice
PROPERTIES DestroyReturns SignReturns
CHECK_DEADLOCK FALSE
