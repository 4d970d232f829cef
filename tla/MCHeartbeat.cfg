SPECIFICATION Spec
CONSTANTS
    Interval = 6
    Timeout = 7
    Slack = 1
    MaxDelay = 1
    MaxData = 2
    MayHang <- Both
INVARIANT KeepsTheLiving
INVARIANT NoticedInTime
CHECK_DEADLOCK FALSE
