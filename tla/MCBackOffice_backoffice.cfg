SPECIFICATION Spec
CONSTANTS
    Payments = {"p1", "p2"}
    Resets = {"x1", "x2"}
    Rejections = {"a1", "a2"}
    Replies = {"b1", "b2"}
    Retentions = {"r1"}
    MaxTasks = 3
    MaxOutages = 1
    Invoices = {"i1", "i2"}
    PaymentOf <- MCPaymentOf
    OldClaims = {"i1"}
    Returns <- MCReturns
    Frns = {"f1", "f2"}
    HoldTypes = {"k1", "k2"}
    MaxHolds = 3
    NewSchemes = {"delinked", "sfi"}
    PpaSchemes = {"sfi"}
    MaxStops = 1
    Callers = {"c1", "c2", "c3"}
    Queries <- MCQueries
    MetricSchemes = {"FPTT", "SFI"}
    MonthsPerYear = 2
    Months = {3, 4}
    Now = 5
    MaxRequests = 2
    MaxCounted = 2
INVARIANTS
    TypeOK
    AcceptedIsSaved
    LinesOfOneReply
    RejectedIsHeld
    VoidedIsRescheduled
    RetentionFailsOnlyIfRaced
    SettledByNewest
    RemovedIsUnlisted
    MarkedIsAnnounced
    CategoriesForEveryScheme
    OneCalculationAtATime
    SavedIsCounted
    TotalsMatchSchemes
PROPERTIES
    EveryCallerAnswered
CHECK_DEADLOCK FALSE
