SPECIFICATION Spec
CONSTANTS
    c1 = c1
    c2 = c2
    c3 = c3
    None = None
    Cells <- MCThreeCells
    Colors <- MCColors
    Blank = 0
    Geometries <- MCTwoOrThree
    Hash <- MCCollidingHash
    DirtyPercent = 60
    MaxRectangles = 3
    PartCapacity = 1
    MaxFrameParts = 2
    WireCapacity = 1
    MaxChanges = 1
    MaxRequests = 1
    MaxSessions = 2
INVARIANT HostFramesAlwaysApply
PROPERTY RequestAnswered
PROPERTY Converges
CHECK_DEADLOCK FALSE
