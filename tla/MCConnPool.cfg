\* As many mutations as connections, beside a query and a job.
SPECIFICATION FairSpec
CONSTANTS
    m1 = m1
    m2 = m2
    q1 = q1
    j1 = j1
    Mutations <- Changes
    Others <- Readers
    Requests <- Clients
    MaxConns = 2
    MaxSteps = 2
INVARIANTS
    StuckOnlyWhenFull
PROPERTIES
    ServedWhenRoomy
    CancelledEnds
