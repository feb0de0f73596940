SPECIFICATION Spec
CONSTANTS
    i1 = i1
    i2 = i2
    f1 = f1
    c1 = c1
    c2 = c2
    p1 = p1
    NoEnd = NoEnd
    Idle = Idle
    Torn = Torn
    Ids = {i1, i2}
    Findings = {f1}
    Ends = {1}
    Conns = {c1, c2}
    Permits = {p1}
    Configs = {{"hub"}, {"archive"}}
    MaxPending = 1
    Sizes = {1, 2}
    Capacity = 1
    MaxBatch = 1
    MaxAlerts = 2
    Received = 2
    MaxStarts = 2
SYMMETRY Symmetry
INVARIANTS
    TypeOK
    RecordedOnce
    ReloadGivesRing
    HubNeverBehind
    PendingInQueue
    StopLeavesNothing
PROPERTIES
    FirstCaptureKept
CHECK_DEADLOCK FALSE
