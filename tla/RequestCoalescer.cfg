SPECIFICATION FairSpec
CONSTANTS
    c1 = c1
    c2 = c2
    c3 = c3
    k1 = k1
    k2 = k2
    None = None
    Call = {c1, c2, c3}
    Key = {k1, k2}
CHECK_DEADLOCK FALSE
INVARIANTS NoLeakedEntry SingleExecution SharedOutcome
PROPERTY EveryCallEnds
