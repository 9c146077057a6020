CONSTANTS
    t1 = t1
    t2 = t2
    Task <- TwoTasks
    ErrorThreshold = 1
    MaxEvents = 4
SPECIFICATION Spec
SYMMETRY TaskSymmetry
INVARIANTS NoInvalidTransition DevicesFollowClient ConnectedIsTolerant
PROPERTIES StoppingNeverRegisters ImplementsClient
CHECK_DEADLOCK FALSE
