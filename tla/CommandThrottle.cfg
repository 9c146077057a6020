SPECIFICATION FairSpec
CONSTANTS
    c1 = c1
    c2 = c2
    c3 = c3
    c4 = c4
    a1 = a1
    a2 = a2
    None = None
    Command = {c1, c2, c3}
    Address = {a1, a2}
    Interval = 2
    BurstThreshold = 1
    BurstWindow = 1
CHECK_DEADLOCK FALSE
INVARIANTS NoLostWakeup WaitersHeld AtMostOneInversion
PROPERTIES ImplementsQueue Served
