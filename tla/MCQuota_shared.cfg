\* A job of cmd/job and a single fetch in the server, with lost updates, rollover and faults.
SPECIFICATION Spec
CONSTANTS
    j1 = j1
    j2 = j2
    s1 = s1
    a1 = a1
    Jobs <- OneJob
    Singles <- OneSingle
    Admins = {}
    Processes <- JobAndServer
    MonthlyQuota = 2
    NewLimits = {}
    Batches = {2}
    LastMonth = 2
    MaxCharges = 3
    MaxFaults = 1
INVARIANTS
    NeverOvercounts
    RefusedOnlyWhenSpent
    MarkedOnlyAfterAlert
