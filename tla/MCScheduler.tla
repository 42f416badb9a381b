------------------------------- MODULE MCScheduler ------------------------------
(* Small instances of Scheduler: one or two jobs and requests, one execution.   *)
EXTENDS Scheduler, TLC

CONSTANTS fetcher, reset, a1, a2, x1, x2, daily, hourly

OneJob    == {fetcher}
TwoJobs   == {fetcher, reset}
OneAdmin  == {a1}
TwoAdmins == {a1, a2}
OneExec   == {x1}
Both      == {daily, hourly}

\* Neither the jobs nor the requests have a name that matters.
Alike     == Permutations(TwoJobs) \cup Permutations(TwoAdmins)
===============================================================================
