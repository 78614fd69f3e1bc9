SPECIFICATION FairSpec
CONSTANTS
    p1 = p1
    p2 = p2
    r1 = r1
    r2 = r2
    r3 = r3
    r4 = r4
    Pods = {p1, p2}
    Rows = {r1, r2, r3}
    ProcessingCap = 2
    BatchSize = 1
    MaxFailures = 2
PROPERTIES
    EventuallySubmitted
CHECK_DEADLOCK FALSE
