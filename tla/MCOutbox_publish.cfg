SPECIFICATION Spec
CONSTANTS
    p1 = p1
    p2 = p2
    r1 = r1
    r2 = r2
    r3 = r3
    r4 = r4
    Pods = {p1, p2}
    Rows = {r1, r2, r3, r4}
    ProcessingCap = 3
    BatchSize = 2
    MaxFailures = 3
SYMMETRY PodRowSymmetry
INVARIANTS
    TypeOK
    MarkedWereSent
    ResentOnlyAfterFailure
CHECK_DEADLOCK FALSE
