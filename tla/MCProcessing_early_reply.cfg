SPECIFICATION Spec
CONSTANTS
    p1 = p1
    p2 = p2
    r1 = r1
    r2 = r2
    r3 = r3
    a1 = a1
    a2 = a2
    f1 = f1
    Pods = {p1}
    Requests = {r1, r2}
    Agreements = {a1}
    Claims = {a1}
    HoldGroups = {a1}
    Accounts = {f1}
    AgreementOf <- MCAgreementOf
    ClaimOf <- MCOwn
    HoldGroupOf <- MCOwn
    AccountOf <- MCAccountOf
    Number <- MCNumber
    Value <- MCValue
    WithContract = {a1}
    UseManualLedgerCheck = FALSE
    ProcessingCap = 2
    OrderedIntake = TRUE
    PromptEditor = TRUE
    OperatorHolds = {}
    MaxSchedules = 2
    MaxFailures = 0
    MaxRejections = 0
INVARIANTS
    DebtHoldIsAnswered
CHECK_DEADLOCK FALSE
