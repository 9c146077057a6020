SPECIFICATION Spec
CONSTANTS
    Store <- MCStore
    Item <- MCItem
    Channel <- MCChannel
    Task = {k1, k2}
    Device = {d1}
    None = None
    MaxOps = 3
    MaxCrashes = 1
    MaxFaults = 2
SYMMETRY Symmetry
CHECK_DEADLOCK FALSE
INVARIANTS
    SavedWhenIdle
    RegistryDescribed
    NeverStuck
PROPERTIES
    CreatesOnlySettled
