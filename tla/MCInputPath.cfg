SPECIFICATION Spec
CONSTANTS
    Usages <- LetterAndLeftShift
    ShiftUsages <- Shifts
    LeftShift = 225
    Unsupported <- None
    Buttons = {left}
    EnableInput = TRUE
    RateLimit = 2
    MaxEvents = 4
    MaxResizes = 1
    MaxSessions = 2
    UpCapacity = 1
INVARIANT NothingStuck
INVARIANT InOrder
INVARIANT NothingHeldUnfocused
PROPERTY GeometryMixedOnlyInResize
PROPERTY KeysComeUp
CHECK_DEADLOCK FALSE
