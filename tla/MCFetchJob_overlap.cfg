\* A cron run and a requested one at the same time.
SPECIFICATION Spec
CONSTANTS
    r1 = r1
    r2 = r2
    s1 = s1
    NumEntries = 2
    Missing = {}
    Runs <- TwoRuns
    Singles = {}
    Web = {r2}
    Processes <- OneServer
    Overlap = TRUE
    Limit = 2
    BatchSize = 2
    RespectQuota = {TRUE}
    MaxRetries = 1
    RateLimited = FALSE
    MaxCalls = 9
    MaxApiErrors = 1
    MaxFaults = 1
    MaxAdmin = 0
INVARIANTS
    TypeOK
    NoDanglingKeys
    HistoryAddsUp
    NoOrphans
    FetchCountLags
