\* Requests for two jobs, also at the same time, with a failure, a crash and a restart.
SPECIFICATION Spec
CONSTANTS
    fetcher = fetcher
    reset = reset
    a1 = a1
    a2 = a2
    x1 = x1
    x2 = x2
    daily = daily
    hourly = hourly
    Jobs <- TwoJobs
    Admins <- TwoAdmins
    Runs <- OneExec
    Schedules <- Both
    Default = daily
    Bad = Bad
    MaxRequests = 2
    MaxBoots = 2
    MaxFaults = 1
SYMMETRY Alike
INVARIANTS
    TypeOK
    EntriesAreMapped
    EnabledIsScheduled
    EnabledKeepsRunning
