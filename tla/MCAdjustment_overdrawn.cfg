SPECIFICATION Spec
CONSTANTS
    Gross = {"G00"}
    Capital = {"G00"}
    Schemes = {"SFI"}
    Claims <- MCClaims
    Instalments = {0}
    UseManualLedgerCheck = FALSE
    MaxRequests = 3
    LastDate = 0
PROPERTIES
    RecoveryWithinBalance
CHECK_DEADLOCK FALSE
