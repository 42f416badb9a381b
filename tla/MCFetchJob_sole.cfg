\* Two runs, the second one by request, one after the other.
SPECIFICATION Spec
CONSTANTS
    r1 = r1
    r2 = r2
    s1 = s1
    NumEntries = 3
    Missing <- LastMissing
    Runs <- TwoRuns
    Singles = {}
    Web = {r2}
    Processes <- OneServer
    Overlap = FALSE
    Limit = 2
    BatchSize = 2
    RespectQuota = {TRUE}
    MaxRetries = 2
    RateLimited = FALSE
    MaxCalls = 9
    MaxApiErrors = 2
    MaxFaults = 1
    MaxAdmin = 1
INVARIANTS
    NoDanglingKeys
    FetchedOnce
    RunsAreRecorded
PROPERTIES
    SettledStaysSettled
    KeepsLedger
