SPECIFICATION Spec
CONSTANTS
    Usages <- Letter
    ShiftUsages <- Shifts
    LeftShift = 225
    Unsupported <- None
    Buttons = {left}
    EnableInput = TRUE
    RateLimit = 1
    MaxEvents = 4
    MaxResizes = 0
    MaxSessions = 1
    UpCapacity = 2
INVARIANT NothingDropped
CHECK_DEADLOCK FALSE
