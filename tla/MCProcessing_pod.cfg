SPECIFICATION Spec
CONSTANTS
    p1 = p1
    p2 = p2
    r1 = r1
    r2 = r2
    r3 = r3
    a1 = a1
    a2 = a2
    f1 = f1
    Pods = {p1}
    Requests = {r1, r2, r3}
    Agreements = {a1, a2}
    Claims = {a1, a2}
    HoldGroups = {a1, a2}
    Accounts = {f1}
    AgreementOf <- MCAgreementOf
    ClaimOf <- MCOwn
    HoldGroupOf <- MCOwn
    AccountOf <- MCAccountOf
    Number <- MCNumber
    Value <- MCValue
    WithContract = {a1}
    UseManualLedgerCheck = FALSE
    ProcessingCap = 1
    OrderedIntake = TRUE
    PromptEditor = FALSE
    OperatorHolds = {}
    MaxSchedules = 4
    MaxFailures = 1
    MaxRejections = 2
INVARIANTS
    TypeOK
    OneOpenSchedule
    NoDoublePayment
    TotalIsLatestValue
    DebtHoldIsAnswered
CHECK_DEADLOCK FALSE
