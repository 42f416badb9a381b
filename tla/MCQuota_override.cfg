\* An admin enables the override for a job whose quota is spent.
SPECIFICATION Spec
CONSTANTS
    j1 = j1
    j2 = j2
    s1 = s1
    a1 = a1
    Jobs <- OneJob
    Singles = {}
    Admins <- OneAdmin
    Processes <- OneServer
    MonthlyQuota = 1
    NewLimits = {}
    Batches = {2}
    LastMonth = 1
    MaxCharges = 2
    MaxFaults = 0
INVARIANTS
    OverrideBypasses
