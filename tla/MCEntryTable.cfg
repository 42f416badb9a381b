\* Two runs of the import and a statistics request; others change the table.
SPECIFICATION Spec
CONSTANTS
    u1 = u1
    u2 = u2
    reader1 = reader1
    Urns <- TwoUrns
    Lines <- File
    BatchSize = 2
    Readers <- OneReader
    MaxRuns = 2
    MaxChanges = 3
    MaxFaults = 1
INVARIANTS
    ImportAddsUp
    ImportedAll
    StatsOffByChanges
