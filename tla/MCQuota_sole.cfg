\* One job charges; an admin moves the limit, overrides and resets beside it.
SPECIFICATION Spec
CONSTANTS
    j1 = j1
    j2 = j2
    s1 = s1
    a1 = a1
    Jobs <- OneJob
    Singles = {}
    Admins <- OneAdmin
    Processes <- OneServer
    MonthlyQuota = 1
    NewLimits = {0, 2}
    Batches = {2}
    LastMonth = 2
    MaxCharges = 2
    MaxFaults = 1
INVARIANTS
    WithinLimit
    CountExact
    AlertedOnce
    FlagMatchesCount
    RefusedOnlyWhenSpent
PROPERTIES
    ActsAsLedger
