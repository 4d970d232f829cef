SPECIFICATION Spec
CONSTANTS
    Builds <- BothBuilds
    Limited = {TRUE, FALSE}
PROPERTY EverythingStops
PROPERTY KeepsReconnecting
PROPERTY GivesUpInTime
CHECK_DEADLOCK FALSE
