SPECIFICATION Spec
CONSTANTS
    c1 = c1
    c2 = c2
    s1 = s1
    s2 = s2
    s3 = s3
    NoClient = NoClient
    Clients = {c1, c2}
    Signatures = {s1, s2, s3}
    Expiries = {0, 9}
    Never = 9
    MaxActiveAcks = 2
    MaxFileLines = 4
    Faults = {"cut"}
    MaxTime = 1
INVARIANT
    MapNeverAhead
CHECK_DEADLOCK FALSE
