SPECIFICATION Spec
CONSTANTS
    Builds <- Headless
    Limited <- WithTimeout
INVARIANT ConnectTimeoutOnlyConnects
CHECK_DEADLOCK FALSE
