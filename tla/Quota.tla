---------------------------------- MODULE Quota ----------------------------------
(***************************************************************************)
(* The monthly RapidAPI quota: QuotaManager                                *)
(* (pkg/usecase/usecase/apiquota/quota_manager.go) on top of               *)
(* APIQuotaTrackerRepository                                               *)
(* (pkg/adapter/repository/apiquotatrackerrepository/repository.go).       *)
(*                                                                         *)
(* Nothing serialises the callers: cron jobs, the cmd/job process, GraphQL *)
(* mutations and the scripts all run these functions at once.  Every       *)
(* statement sent to the database and every mail is therefore one step,    *)
(* and what a caller has read may be stale when it writes.                 *)
(***************************************************************************)
EXTENDS Integers, FiniteSets

CONSTANTS
    Jobs,          \* callers that ask CheckAndReserveQuota, then spend the grant
    Singles,       \* callers that charge without asking (fetchSingleProfileEntry)
    Admins,        \* GraphQL mutations on the quota, and the quota_reset cron job
    Processes,     \* sets of callers that live, and die, in one process
    MonthlyQuota,  \* config.C.RapidAPI.MonthlyQuota
    NewLimits,     \* arguments of UpdateLimit
    Batches,       \* batch sizes the jobs ask for
    LastMonth,     \* bound: the clock stops here
    MaxCharges,    \* bound: charges acknowledged per month before callers rest
    MaxFaults      \* bound: failed statements, failed mails and crashes

Callers == Jobs \cup Singles \cup Admins
Months  == 1 .. LastMonth

ASSUME QuotaAssumption ==
    /\ MonthlyQuota \in Nat \ {0}
    /\ NewLimits \subseteq Nat
    /\ Batches \subseteq Nat \ {0}
    /\ LastMonth \in Nat \ {0}
    /\ MaxCharges \in Nat
    /\ MaxFaults \in Nat
    /\ Processes \subseteq SUBSET Callers

VARIABLES
    month,    \* the wall clock, as time.Now().Month()
    stored,   \* months that have a tracker row (unique index on month, year)
    tracker,  \* the row of each month
    pc,       \* next statement of each caller
    op,       \* the QuotaManager function the caller is in
    arg,      \* its argument: batch size, call count or new limit
    id,       \* the tracker (its month) the caller works on
    seen,     \* the row getOrCreateCurrentTracker returned to a check or a charge
    read,     \* the row IncrementCallCount of the repository has read
    grant,    \* what is left of the last allowed batch
    ret,      \* how the caller's last call ended
    charged,  \* history: calls acknowledged by IncrementCallCount, per tracker
    alerts,   \* history: quota-exceeded mails sent, per tracker
    limits,   \* history: the limits the tracker of each month has had
    races,    \* history: checks of each job that lost the race for a month's tracker
    faults    \* history: failures so far

db      == <<stored, tracker>>
locals  == <<op, arg, id, seen, read, grant>>
history == <<charged, alerts, limits, races>>
vars    == <<month, db, pc, locals, ret, history, faults>>

Row == [callCount        : Nat,
        quotaLimit       : Nat \ {0},
        quotaExceeded    : BOOLEAN,
        overrideEnabled  : BOOLEAN,
        notificationSent : BOOLEAN]

Fresh == [callCount        |-> 0,
          quotaLimit       |-> MonthlyQuota,
          quotaExceeded    |-> FALSE,
          overrideEnabled  |-> FALSE,
          notificationSent |-> FALSE]

Init ==
    /\ month = 1
    /\ stored = {}
    /\ tracker = [m \in Months |-> Fresh]
    /\ pc = [c \in Callers |-> "idle"]
    /\ op = [c \in Callers |-> "none"]
    /\ arg = [c \in Callers |-> 0]
    /\ id = [c \in Callers |-> 1]
    /\ seen = [c \in Callers |-> Fresh]
    /\ read = [c \in Callers |-> Fresh]
    /\ grant = [c \in Callers |-> 0]
    /\ ret = [c \in Callers |-> "none"]
    /\ charged = [m \in Months |-> 0]
    /\ alerts = [m \in Months |-> 0]
    /\ limits = [m \in Months |-> {MonthlyQuota}]
    /\ races = [c \in Jobs |-> [m \in Months |-> 0]]
    /\ faults = 0

-------------------------------------------------------------------------------
(* Control: starting, leaving and failing a call. *)

Goto(c, label) == pc' = [pc EXCEPT ![c] = label]

Return(c, how) ==
    /\ Goto(c, "idle")
    /\ ret' = [ret EXCEPT ![c] = how]

\* A fault is counted whether it hits a statement, a mail or a process.
Fault ==
    /\ faults < MaxFaults
    /\ faults' = faults + 1

\* The statement c is about to send fails, and the call returns the error.
StatementFails(c) ==
    /\ pc[c] \in {"get", "create", "read", "update", "write"}
    /\ Fault
    /\ Return(c, "error")
    /\ UNCHANGED <<month, db, locals, history>>

\* A call reads the clock before its first statement.
Begin(c, what, n, first) ==
    /\ pc[c] = "idle"
    /\ Goto(c, first)
    /\ op' = [op EXCEPT ![c] = what]
    /\ arg' = [arg EXCEPT ![c] = n]
    /\ id' = [id EXCEPT ![c] = month]
    /\ ret' = [ret EXCEPT ![c] = "none"]
    /\ UNCHANGED <<month, db, seen, read, history, faults>>

\* A job asks for its next batch and forgets what was left of the last one.
CheckAndReserveQuota(c) ==
    /\ c \in Jobs
    /\ \E b \in Batches : Begin(c, "check", b, "get")
    /\ grant' = [grant EXCEPT ![c] = 0]

\* One fetched profile is charged; a job spends its grant, a single fetch has none.
IncrementCallCount(c) ==
    /\ charged[month] < MaxCharges
    /\ Begin(c, "charge", 1, "get")
    /\ \/ /\ c \in Jobs
          /\ grant[c] > 0
          /\ grant' = [grant EXCEPT ![c] = @ - 1]
       \/ /\ c \in Singles
          /\ UNCHANGED grant

SetQuotaOverride(c) ==
    /\ c \in Admins
    /\ \E what \in {"enable", "disable"} : Begin(c, what, 0, "get")
    /\ UNCHANGED grant

UpdateLimit(c) ==
    /\ c \in Admins
    /\ \E n \in NewLimits : Begin(c, "limit", n, "get")
    /\ UNCHANGED grant

GetCurrentQuotaStatus(c) ==
    /\ c \in Admins
    /\ Begin(c, "status", 0, "get")
    /\ UNCHANGED grant

\* The reset goes straight to the insert, without looking for a row first.
ResetMonthlyQuota(c) ==
    /\ c \in Admins
    /\ Begin(c, "reset", 0, "create")
    /\ UNCHANGED grant

-------------------------------------------------------------------------------
(* getOrCreateCurrentTracker, and what each function does with its result. *)

AllowedWithoutCap(row, batch) == batch  \* mutant: the cap is forgotten

AllButLast(row, batch) ==  \* mutant: the last call of the quota is held back
    LET remaining == row.quotaLimit - row.callCount - 1
    IN  IF remaining < batch THEN remaining ELSE batch

\* How many calls CheckAndReserveQuota allows, given the row it has read.
Allowed(row, batch) ==
    LET remaining == row.quotaLimit - row.callCount
    IN  IF remaining < batch THEN remaining ELSE batch

Blocked(row) == row.quotaExceeded /\ ~row.overrideEnabled

AlertAlways(row) == Blocked(row)  \* mutant: notification_sent is ignored
AlertDue(row)    == Blocked(row) /\ ~row.notificationSent

Decide(c, row) ==
    \/ /\ AlertDue(row)
       /\ Goto(c, "alert")
       /\ UNCHANGED <<grant, ret>>
    \/ /\ \/ Blocked(row) /\ ~AlertDue(row)
          \/ ~Blocked(row) /\ Allowed(row, arg[c]) <= 0
       /\ Return(c, "refused")
       /\ UNCHANGED grant
    \/ /\ ~Blocked(row)
       /\ Allowed(row, arg[c]) > 0
       /\ grant' = [grant EXCEPT ![c] = Allowed(row, arg[c])]
       /\ Return(c, "granted")

\* The functions of the admins use no more of the row than its id.
HaveTracker(c, row) ==
    /\ seen' = IF op[c] \in {"check", "charge"} THEN [seen EXCEPT ![c] = row] ELSE seen
    /\ \/ /\ op[c] = "check"
          /\ Decide(c, row)
       \/ /\ op[c] = "charge"
          /\ Goto(c, "read")
          /\ UNCHANGED <<grant, ret>>
       \/ /\ op[c] \in {"enable", "disable", "limit"}
          /\ Goto(c, "write")
          /\ UNCHANGED <<grant, ret>>
       \/ /\ op[c] = "status"
          /\ Return(c, "ok")
          /\ UNCHANGED grant

\* SELECT of the current month; when there is no row the clock is read again.
GetCurrent(c) ==
    /\ pc[c] = "get"
    /\ \/ /\ id[c] \in stored
          /\ HaveTracker(c, tracker[id[c]])
          /\ UNCHANGED id
       \/ /\ id[c] \notin stored
          /\ Goto(c, "create")
          /\ id' = [id EXCEPT ![c] = month]
          /\ UNCHANGED <<seen, grant, ret>>
    /\ UNCHANGED <<month, db, op, arg, read, history, faults>>

Upsert(m) ==  \* mutant: a second insert overwrites the row
    /\ stored' = stored \cup {m}
    /\ tracker' = [tracker EXCEPT ![m] = Fresh]

\* INSERT; the unique index on (month, year) turns a second one away.
Insert(m) ==
    IF m \in stored
    THEN UNCHANGED db
    ELSE /\ stored' = stored \cup {m}
         /\ tracker' = [tracker EXCEPT ![m] = Fresh]

\* A job whose check loses a race stops as if the quota were exhausted.
LostRace(c) ==
    IF op[c] = "check" THEN [races EXCEPT ![c][id[c]] = @ + 1] ELSE races

\* The loser of a race gets a constraint error, which only the reset forgives.
Create(c) ==
    /\ pc[c] = "create"
    /\ Insert(id[c])
    /\ \/ /\ op[c] = "reset"
          /\ Goto(c, "mail")
          /\ UNCHANGED <<seen, grant, ret, races>>
       \/ /\ op[c] # "reset"
          /\ id[c] \in stored
          /\ races' = LostRace(c)
          /\ Return(c, "error")
          /\ UNCHANGED <<seen, grant>>
       \/ /\ op[c] # "reset"
          /\ id[c] \notin stored
          /\ HaveTracker(c, Fresh)
          /\ UNCHANGED races
    /\ UNCHANGED <<month, op, arg, id, read, charged, alerts, limits, faults>>

-------------------------------------------------------------------------------
(* The writes. *)

\* IncrementCallCount of the repository: first statement, a plain read.
ReadTracker(c) ==
    /\ pc[c] = "read"
    /\ read' = [read EXCEPT ![c] = tracker[id[c]]]
    /\ Goto(c, "update")
    /\ UNCHANGED <<month, db, op, arg, id, seen, grant, ret, history, faults>>

CountTwice(row, n) == row.callCount + 2 * n  \* mutant: the call is added twice
NewCount(row, n)   == row.callCount + n

FlagTooLate(count, limit)  == count > limit        \* mutant: > for >=
FlagTooEarly(count, limit) == count + 1 >= limit   \* mutant: one call early
Exceeds(count, limit)      == count >= limit

\* Second statement: both columns are computed from the row read before.
UpdateTracker(c) ==
    LET newCount == NewCount(read[c], arg[c])
        exceeded == Exceeds(newCount, read[c].quotaLimit)
    IN  /\ pc[c] = "update"
        /\ tracker' = [tracker EXCEPT ![id[c]] =
                          [@ EXCEPT !.callCount = newCount, !.quotaExceeded = exceeded]]
        /\ charged' = [charged EXCEPT ![id[c]] = @ + arg[c]]
        /\ IF exceeded /\ ~seen[c].quotaExceeded
           THEN Goto(c, "alert") /\ UNCHANGED ret
           ELSE Return(c, "ok")
        /\ UNCHANGED <<month, stored, locals, alerts, limits, races, faults>>

Enabling(c) == op[c] = "enable"

SetOverride(c) ==
    /\ pc[c] = "write"
    /\ op[c] \in {"enable", "disable"}
    /\ tracker' = [tracker EXCEPT ![id[c]] = [@ EXCEPT !.overrideEnabled = Enabling(c)]]
    /\ Goto(c, "mail")
    /\ UNCHANGED <<month, stored, locals, ret, history, faults>>

ValidLimit(n) == n > 0

\* The schema refuses a limit that is not positive; the flag is left as it was.
UpdateQuotaLimit(c) ==
    /\ pc[c] = "write"
    /\ op[c] = "limit"
    /\ \/ /\ ValidLimit(arg[c])
          /\ tracker' = [tracker EXCEPT ![id[c]] = [@ EXCEPT !.quotaLimit = arg[c]]]
          /\ limits' = [limits EXCEPT ![id[c]] = @ \cup {arg[c]}]
          /\ Return(c, "ok")
       \/ /\ ~ValidLimit(arg[c])
          /\ UNCHANGED <<tracker, limits>>
          /\ Return(c, "error")
    /\ UNCHANGED <<month, stored, locals, charged, alerts, races, faults>>

-------------------------------------------------------------------------------
(* Mails. *)

\* A failed alert, or a failed mark, is printed and the call ends as it would have.
AlertDone(c) == Return(c, IF op[c] = "check" THEN "refused" ELSE "ok")

MarkAnyway(c) == Fault /\ Goto(c, "mark") /\ UNCHANGED ret  \* mutant: error dropped
AlertFails(c) == Fault /\ AlertDone(c)

SendQuotaExceededAlert(c) ==
    /\ pc[c] = "alert"
    /\ \/ /\ alerts' = [alerts EXCEPT ![id[c]] = @ + 1]
          /\ Goto(c, "mark")
          /\ UNCHANGED <<ret, faults>>
       \/ /\ AlertFails(c)
          /\ UNCHANGED alerts
    /\ UNCHANGED <<month, db, locals, charged, limits, races>>

SetNotificationSent(c) ==
    /\ pc[c] = "mark"
    /\ \/ /\ tracker' = [tracker EXCEPT ![id[c]] = [@ EXCEPT !.notificationSent = TRUE]]
          /\ UNCHANGED faults
       \/ /\ Fault
          /\ UNCHANGED tracker
    /\ AlertDone(c)
    /\ UNCHANGED <<month, stored, locals, history>>

\* The mails about an override and a reset: their failure changes nothing.
SendNotice(c) ==
    /\ pc[c] = "mail"
    /\ Return(c, "ok")
    /\ UNCHANGED <<month, db, locals, history, faults>>

-------------------------------------------------------------------------------
(* The environment. *)

NextMonth ==
    /\ month < LastMonth
    /\ month' = month + 1
    /\ UNCHANGED <<db, pc, locals, ret, history, faults>>

\* A process dies: its calls end where they are and its grants are forgotten.
Crash(p) ==
    /\ Fault
    /\ pc' = [c \in Callers |-> IF c \in p THEN "idle" ELSE pc[c]]
    /\ grant' = [c \in Callers |-> IF c \in p THEN 0 ELSE grant[c]]
    /\ ret' = [c \in Callers |-> IF c \in p THEN "none" ELSE ret[c]]
    /\ UNCHANGED <<month, db, op, arg, id, seen, read, history>>

Call(c) ==
    \/ CheckAndReserveQuota(c)
    \/ IncrementCallCount(c)
    \/ SetQuotaOverride(c)
    \/ UpdateLimit(c)
    \/ GetCurrentQuotaStatus(c)
    \/ ResetMonthlyQuota(c)

Step(c) ==
    \/ GetCurrent(c)
    \/ Create(c)
    \/ ReadTracker(c)
    \/ UpdateTracker(c)
    \/ SetOverride(c)
    \/ UpdateQuotaLimit(c)
    \/ SendQuotaExceededAlert(c)
    \/ SetNotificationSent(c)
    \/ SendNotice(c)

Next ==
    \/ \E c \in Callers : Call(c) \/ Step(c) \/ StatementFails(c)
    \/ \E p \in Processes : Crash(p)
    \/ NextMonth

Spec == Init /\ [][Next]_vars

-------------------------------------------------------------------------------
(* Properties. *)

Ops    == {"none", "check", "charge", "enable", "disable", "limit", "status", "reset"}
Labels == {"idle", "get", "create", "read", "update", "write", "alert", "mark", "mail"}

\* Type invariant of the quota module.
TypeOK ==
    /\ month \in Months
    /\ stored \subseteq Months
    /\ tracker \in [Months -> Row]
    /\ pc \in [Callers -> Labels]
    /\ op \in [Callers -> Ops]
    /\ arg \in [Callers -> Nat]
    /\ id \in [Callers -> Months]
    /\ seen \in [Callers -> Row]
    /\ read \in [Callers -> Row]
    /\ grant \in [Callers -> Nat]
    /\ ret \in [Callers -> {"none", "granted", "refused", "ok", "error"}]
    /\ charged \in [Months -> Nat]
    /\ alerts \in [Months -> Nat]
    /\ limits \in [Months -> SUBSET (Nat \ {0})]
    /\ races \in [Jobs -> [Months -> Nat]]
    /\ faults \in Nat

\* Whatever the interleaving of reads and writes of concurrent callers, a
\* tracker never claims more calls than were charged to it: the lost updates
\* of IncrementCallCount can only lose calls, and no insert races one back in.
NeverOvercounts ==
    \A m \in stored : tracker[m].callCount <= charged[m]

\* quota_exceeded agrees with call_count >= quota_limit in its stored row for the
\* limit the row has, or for one it has had: both columns are written from a row
\* read earlier while other callers charge and an admin moves the limit, which
\* leaves the flag as it was.
FlagMatchesCount ==
    \A m \in stored :
        IF tracker[m].quotaExceeded
        THEN \E l \in limits[m] : tracker[m].callCount >= l
        ELSE \E l \in limits[m] : tracker[m].callCount < l

\* CheckAndReserveQuota refuses a job only for a month in which the whole quota
\* has really been charged, under a limit the month has had: neither a lost update
\* nor a limit that is moved under a charge, nor the turn of the month, makes it say
\* so early.  A check that loses the race for a new month's tracker ends in an error,
\* which ExecuteFetchJob (fetcher.go:104) takes for an exhausted quota as well; that
\* is a refusal without a reason, and a job meets it once in a month at most.
Spent(m) == \E l \in limits[m] : charged[m] >= l

RefusedOnlyWhenSpent ==
    \A c \in Jobs :
        /\ ret[c] = "refused" => Spent(id[c])
        /\ \A m \in Months : races[c][m] <= 1

\* A tracker marked notification_sent has had its quota-exceeded mail.
MarkedOnlyAfterAlert ==
    \A m \in stored : tracker[m].notificationSent => alerts[m] >= 1

\* call_count is exactly the number of charged calls.
CountExact ==
    \A m \in stored : tracker[m].callCount = charged[m]

\* No month's calls go beyond its limit when every call is charged to a batch that
\* CheckAndReserveQuota has allowed, also while the override is enabled: what is left
\* of the quota caps the batch either way.  A batch allowed under another limit, of
\* this month or an earlier one, is spent to its end after the limit was lowered,
\* and after the turn of the month.
WithinLimit ==
    \A m \in stored : \E k \in 1 .. m : \E l \in limits[k] : charged[m] <= l

\* An enabled override lifts the quota: a check that finds it is not refused.
OverrideBypasses ==
    \A c \in Jobs : ret[c] = "refused" => ~seen[c].overrideEnabled

\* The quota-exceeded mail goes out once per month, and again only when a
\* failure (of the mark, or of the process) hid that it had been sent or the
\* limit was changed meanwhile.
Unchanged(m) == limits[m] = {MonthlyQuota}

AlertedOnce ==
    \A m \in Months : Unchanged(m) => alerts[m] <= 1 + faults

\* A stored tracker is never reset: the quota_reset job, lazy creation and
\* their races leave the calls already counted in a month alone.
UsageSurvives ==
    [][\A m \in stored : m \in stored' /\ tracker'[m].callCount >= tracker[m].callCount]_vars

\* With one job as the only caller that charges, the statements of QuotaManager
\* act as if each batch were reserved and each call charged in one step,
\* whatever admins, resets, failures, crashes and the turn of the month do in
\* between.  A job's credit is its grant and the call it is about to charge.
InFlight(c) == op[c] = "charge" /\ pc[c] \in {"get", "create", "read", "update"}

Credit(c) == grant[c] + (IF InFlight(c) THEN 1 ELSE 0)

Ledger == INSTANCE QuotaLedger WITH
    Customers <- Jobs,
    spent     <- [m \in Months |-> tracker[m].callCount],
    limit     <- [m \in Months |-> tracker[m].quotaLimit],
    credit    <- [c \in Jobs |-> Credit(c)]

ActsAsLedger == Ledger!Spec
===============================================================================
