SPECIFICATION FairSpec
CONSTANTS
    i1 = i1
    f1 = f1
    c1 = c1
    p1 = p1
    i2 = i2
    c2 = c2
    NoEnd = NoEnd
    Idle = Idle
    Torn = Torn
    Ids = {i1}
    Findings = {f1}
    Ends = {}
    Conns = {c1}
    Permits = {p1}
    Configs = {{"hub", "archive"}}
    MaxPending = 1
    Sizes = {1}
    Capacity = 1
    MaxBatch = 1
    MaxAlerts = 1
    Received = 1
    MaxStarts = 1
PROPERTIES
    ShutdownEnds
CHECK_DEADLOCK FALSE
