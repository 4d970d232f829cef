SPECIFICATION Spec
CONSTANTS
    c1 = c1
    c2 = c2
    Conns <- Two
    MaxKeys = 1
    MayStop = TRUE
INVARIANT TypeOK
INVARIANT OneSession
INVARIANT OnlyALateKeyStays
INVARIANT NothingHangs
PROPERTY NoForeignRelease
SYMMETRY Interchangeable
CHECK_DEADLOCK FALSE
