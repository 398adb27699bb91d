SPECIFICATION FairSpec
CONSTANTS
    None = None
    Torn = Torn
    Gen = {0, 1, 2, 3, 4, 5, 6}
    MaxFaults = 2
    MaxRuns = 2
INVARIANTS
    ManualPairFits InitGivesUsablePair
PROPERTIES
    GoodPairKept OneStartIsEnough
CHECK_DEADLOCK FALSE
