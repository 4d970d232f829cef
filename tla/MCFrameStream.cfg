SPECIFICATION Spec
CONSTANTS
    c1 = c1
    c2 = c2
    c3 = c3
    None = None
    Cells <- MCThreeCells
    Colors <- MCColors
    Blank = 0
    Geometries <- MCTwoOrThree
    Hash <- MCHash
    DirtyPercent = 60
    MaxRectangles = 3
    PartCapacity = 1
    MaxFrameParts = 2
    WireCapacity = 1
    MaxChanges = 2
    MaxRequests = 0
    MaxSessions = 1
INVARIANT TypeOK
INVARIANT HostFramesAlwaysApply
INVARIANT SecondOfferNeverWaits
PROPERTY ImplementsMirror
PROPERTY ConfigBringsFrame
CHECK_DEADLOCK FALSE
