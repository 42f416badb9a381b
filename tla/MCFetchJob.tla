------------------------------- MODULE MCFetchJob -------------------------------
(* Small instances of FetchJob: r1 and r2 are runs, s1 a single fetch.         *)
EXTENDS FetchJob, TLC

CONSTANTS r1, r2, s1

OneRun      == {r1}
TwoRuns     == {r1, r2}
OneSingle   == {s1}
OneServer   == {{r1, r2}}
WithSingle  == {{r1, s1}}
LastMissing == {NumEntries}
===============================================================================
