SPECIFICATION Spec
CONSTANTS
    c1 = c1
    c2 = c2
    c3 = c3
    None = None
    Cells <- MCCells
    Colors = {0, 1}
    Blank = 0
    Geometries <- MCGeometries
    Generations = {1, 2}
    Sequences = {1, 2}
    PartCounts = {3}
    MaxRectangles = 3
INVARIANT TypeOK
INVARIANT StagedOverCommitted
INVARIANT OneAssembly
PROPERTY VisibleChangesOnCommit
PROPERTY AsksOncePerSequence
PROPERTY ImplementsAtomicDisplay
SYMMETRY Interchangeable
