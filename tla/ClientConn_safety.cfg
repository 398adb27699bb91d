SPECIFICATION Spec
CONSTANTS
    Op = {o1, o2, o3}
    Reader = {r1}
    Closer = {c1, c2}
    IDSpace = 2
    None = None
SYMMETRY CallSymmetry
CHECK_DEADLOCK FALSE
INVARIANTS SendsNeverBlock MatchedUntilWrap
