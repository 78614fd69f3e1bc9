SPECIFICATION Spec
CONSTANTS
    p1 = p1
    p2 = p2
    r1 = r1
    r2 = r2
    r3 = r3
    a1 = a1
    a2 = a2
    f1 = f1
    Pods = {p1}
    Requests = {r1, r2}
    Agreements = {a1, a2}
    Claims = {a1}
    HoldGroups = {a1}
    Accounts = {f1}
    AgreementOf <- MCOtherAgreementOf
    ClaimOf <- MCShared
    HoldGroupOf <- MCShared
    AccountOf <- MCAccountOf
    Number <- MCNumber
    Value <- MCValue
    WithContract = {a1, a2}
    UseManualLedgerCheck = TRUE
    ProcessingCap = 2
    OrderedIntake = FALSE
    PromptEditor = TRUE
    OperatorHolds = {f1}
    MaxSchedules = 4
    MaxFailures = 1
    MaxRejections = 1
INVARIANTS
    PaidOncePerSchedule
PROPERTIES
    LedgerCheckNotBypassed
CHECK_DEADLOCK FALSE
