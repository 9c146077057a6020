CONSTANTS
    DayEnd = 4
    Slots = 3
    MinTemp = 1
    MaxTemp = 2
    Invalid = Invalid
    Empty = Empty
    p1 = p1
    p2 = p2
    Profile = {p1, p2}
    Weekday = {mon}
    Before <- AnyWeekday
    Inputs <- Asked
    Edits <- Edited
    MaxWrites = 2
    MaxReads = 2
    MaxFaults = 1
SPECIFICATION Spec
SYMMETRY ProfileSymmetry
INVARIANTS AskedIsPlayed ShownIsPlayed ShownIsWritable
CHECK_DEADLOCK FALSE
