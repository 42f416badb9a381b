\* Two runs of the script; two of its writes may fail.
SPECIFICATION FairSpec
CONSTANTS
    ann = ann
    bob = bob
    blank = blank
    Profiles <- Two
    Records <- File
    Blank = blank
    Limit = 2
    MaxTries = 2
    MaxPosts = 1
    FolderSize = 1
    MaxRuns = 2
    MaxFaults = 2
INVARIANTS
    ReportAddsUp
    CompletedIsStored
    FetchedOnce
PROPERTIES
    KeepsLedger
    RunEnds
