SPECIFICATION Spec
CONSTANTS
    Gross = {"G00"}
    Capital = {"G00"}
    Schemes = {"SFI", "SFI23", "BPS", "CS"}
    Claims <- MCClaims
    Instalments = {0, 4}
    UseManualLedgerCheck = TRUE
    MaxRequests = 3
    LastDate = 4
INVARIANTS
    TypeOK
    ClaimIsPaid
    RowsSumTheirLines
    DebtNotOverpaid
    SentUnlessZero
    DebtFollowsSettlement
    EndsWithSchedule
    OneDomesticFund
PROPERTIES
    CheckedIfLowered
CHECK_DEADLOCK FALSE
