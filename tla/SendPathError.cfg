SPECIFICATION Spec
CONSTANTS
    c1 = c1
    c2 = c2
    level = level
    ramp = ramp
    low = low
    high = high
    None = None
    NoCommand = NoCommand
    Command = {c1, c2}
    Key = {level, ramp}
    Value = {low, high}
    MaxAttempts = 2
    MaxChanges = 1
    Manual = {level}
    Sends <- TwoCommands
CHECK_DEADLOCK FALSE
INVARIANT ErrorRollsBack
