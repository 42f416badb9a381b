\* A cron run and a single fetch; both end, if the provider does not answer 429 for ever.
SPECIFICATION PatientSpec
CONSTANTS
    r1 = r1
    r2 = r2
    s1 = s1
    NumEntries = 2
    Missing <- LastMissing
    Runs <- OneRun
    Singles <- OneSingle
    Web <- OneSingle
    Processes <- WithSingle
    Overlap = TRUE
    Limit = 1
    BatchSize = 2
    RespectQuota = {TRUE, FALSE}
    MaxRetries = 2
    RateLimited = TRUE
    MaxCalls = 1
    MaxApiErrors = 0
    MaxFaults = 1
    MaxAdmin = 0
PROPERTIES
    EveryRunEnds
