SPECIFICATION FairSpec
CONSTANTS
    k1 = k1
    k2 = k2
    None = None
    Caller = {k1, k2}
    MaxLogins = 2
    SessionAge = 1
    Day = 3
CHECK_DEADLOCK FALSE
INVARIANTS OneSession
PROPERTIES CallEnds DeadSessionReplaced
