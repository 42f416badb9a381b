--------------------------------- MODULE MCQuota ---------------------------------
(* Small instances of Quota: every caller below lives in the server, except    *)
(* the job j2, which is the separate process of cmd/job.                       *)
EXTENDS Quota, TLC

CONSTANTS j1, j2, s1, a1

OneJob       == {j1}
OneSingle    == {s1}
OneAdmin     == {a1}
OneServer    == {{j1, a1}}
JobAndServer == {{j1}, {s1}}
===============================================================================
