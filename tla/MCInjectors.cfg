SPECIFICATION Spec
CONSTANTS
    Platforms <- Both
    Keys <- LetterAndRightShift
    LeftCodes <- ShiftAndControl
    Buttons = {"left"}
    WheelButtons = {"up"}
    MaxClicks = 2
INVARIANT DesktopAsMeant
INVARIANT NotedIsDown
