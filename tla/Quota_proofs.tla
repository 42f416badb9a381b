------------------------------ MODULE Quota_proofs ------------------------------
(***************************************************************************)
(* What holds of Quota for every set of callers, quota, batch sizes and    *)
(* number of months.                                                       *)
(***************************************************************************)
EXTENDS Quota, TLAPS

(* The inductive invariants, one named part for each thing to be known. *)

\* A row read for an update may be stale, but never ahead of the charges.
CountInv ==
    /\ \A m \in Months : tracker[m].callCount <= charged[m]
    /\ \A c \in Callers :
           pc[c] = "update" => read[c].callCount <= charged[id[c]]

\* Rows, and the copies of them about to be written back, carry a limit that the
\* month has had, and so does the limit that the flag was last compared with.
FlagOf(m) ==
    IF tracker[m].quotaExceeded
    THEN \E l \in limits[m] : tracker[m].callCount >= l
    ELSE \E l \in limits[m] : tracker[m].callCount < l

LimitInv ==
    /\ \A m \in Months :
           /\ MonthlyQuota \in limits[m]
           /\ tracker[m].quotaLimit \in limits[m]
           /\ FlagOf(m)
    /\ \A c \in Callers :
           pc[c] = "update" => read[c].quotaLimit \in limits[id[c]]

\* The months whose limit was moved; in the others it is MonthlyQuota still.
Moved == {m \in Months : ~Unchanged(m)}

UnmovedInv ==
    \A m \in Months \ Moved :
        /\ tracker[m].quotaLimit = MonthlyQuota
        /\ tracker[m].quotaExceeded <=> tracker[m].callCount >= MonthlyQuota

\* A check that is refused, or will be once its alert is out, met a spent quota.
RefusalOf(c) ==
    /\ pc[c] \in {"read", "update"} => op[c] = "charge"
    /\ op[c] = "check" => arg[c] >= 1
    /\ ret[c] = "refused" => pc[c] = "idle" /\ Spent(id[c])
    /\ pc[c] \in {"alert", "mark"} /\ op[c] = "check" => Spent(id[c])

RefusalInv == \A c \in Callers : RefusalOf(c)

\* A check that lost a race leaves a stored month behind, which the job works on
\* or has passed: it goes to another race only in a month it has not raced for.
RaceOf(c) ==
    /\ id[c] <= month
    /\ \A m \in Months :
           /\ races[c][m] <= 1
           /\ races[c][m] > 0 => m \in stored /\ m <= month
           /\ races[c][m] > 0 /\ pc[c] = "get" => m <= id[c]
           /\ races[c][m] > 0 /\ pc[c] = "create" /\ op[c] # "reset" => m < id[c]

RaceInv == \A c \in Jobs : RaceOf(c)

\* A mail that is marked, or about to be, was sent.
MarkInv ==
    /\ \A m \in Months : tracker[m].notificationSent => alerts[m] >= 1
    /\ \A c \in Callers : pc[c] = "mark" => alerts[id[c]] >= 1

\* What a sole charging caller read last is still what the row says, a month
\* without a row has the one it starts with, and one call is charged at a time.
SoleOf(c) ==
    /\ pc[c] = "update" => read[c].callCount = tracker[id[c]].callCount
    /\ pc[c] \in {"read", "update", "write", "alert", "mark"} => id[c] \in stored
    /\ op[c] = "charge" => arg[c] = 1 /\ c \in Jobs \cup Singles

SoleInv ==
    /\ \A m \in Months \ stored : tracker[m] = Fresh
    /\ \A m \in Months : tracker[m].callCount = charged[m]
    /\ \A c \in Callers : SoleOf(c)

\* A number of calls that a limit of the month, or of an earlier one, allows.
Affordable(m, n) == \E k \in 1 .. m : \E l \in limits[k] : n <= l

\* The sole job can charge its credit to no month before the one it works on; what
\* that month or a later one then comes to is affordable.
SpendInv ==
    /\ \A m \in Months : Affordable(m, charged[m])
    /\ \A c \in Jobs :
           /\ id[c] <= month
           /\ \A m \in Months :
                  /\ m > id[c] => charged[m] = 0
                  /\ m >= id[c] => Affordable(m, charged[m] + Credit(c))

\* A mail that was sent is marked, is about to be, or is followed by a failure; and
\* the sole charging caller sends one only for a quota that is exceeded and unmarked.
Marking(m) == \E c \in Callers : pc[c] = "mark" /\ id[c] = m

AlertOf(c) ==
    /\ op[c] = "check" => c \in Jobs
    /\ pc[c] \in {"alert", "mark"} => op[c] \in {"check", "charge"}
    /\ id[c] \notin Moved =>
           LET row == tracker[id[c]]
           IN  /\ pc[c] \in {"alert", "mark"} => row.quotaExceeded
               /\ pc[c] = "alert" => ~row.notificationSent
               /\ pc[c] \in {"read", "update"} => seen[c].quotaExceeded = row.quotaExceeded

AlertsOf(m) ==
    m \notin Moved =>
        /\ tracker[m].notificationSent => tracker[m].quotaExceeded
        /\ alerts[m] <= faults + (IF tracker[m].notificationSent \/ Marking(m) THEN 1 ELSE 0)

AlertInv ==
    /\ \A m \in Months : AlertsOf(m)
    /\ \A c \in Callers : AlertOf(c)

-------------------------------------------------------------------------------
\* The fields of a row, and the row every month starts with.
LEMMA RowFields ==
  ASSUME NEW row \in Row
  PROVE  /\ row.callCount \in Nat
         /\ row.quotaLimit \in Nat \ {0}
         /\ row.quotaExceeded \in BOOLEAN
         /\ row.overrideEnabled \in BOOLEAN
         /\ row.notificationSent \in BOOLEAN
  BY DEF Row

\* What the four writes of the repository make of a row.
LEMMA RowCharged ==
  ASSUME NEW row \in Row, NEW n \in Nat, NEW b \in BOOLEAN
  PROVE  [row EXCEPT !.callCount = n, !.quotaExceeded = b] \in Row
  BY DEF Row

\* UpdateQuotaLimit keeps a row a row.
LEMMA RowLimited ==
  ASSUME NEW row \in Row, NEW n \in Nat \ {0}
  PROVE  [row EXCEPT !.quotaLimit = n] \in Row
  BY DEF Row

\* SetOverride keeps a row a row.
LEMMA RowOverridden ==
  ASSUME NEW row \in Row, NEW b \in BOOLEAN
  PROVE  [row EXCEPT !.overrideEnabled = b] \in Row
  BY DEF Row

\* SetNotificationSent keeps a row a row.
LEMMA RowMarked ==
  ASSUME NEW row \in Row
  PROVE  [row EXCEPT !.notificationSent = TRUE] \in Row
  BY DEF Row

\* Create inserts a row.
LEMMA FreshIsRow == Fresh \in Row
  BY QuotaAssumption DEF Fresh, Row

\* Every caller's next row, label and result stay in range: the type invariant.
LEMMA InitTypeOK == Init => TypeOK
  BY FreshIsRow, QuotaAssumption DEF Init, TypeOK, Months, Ops, Labels

\* Starting a call keeps the types.
LEMMA BeginTypeOK ==
  ASSUME TypeOK, NEW c \in Callers,
         NEW what \in Ops, NEW n \in Nat, NEW first \in Labels,
         Begin(c, what, n, first),
         grant' \in [Callers -> Nat]
  PROVE  TypeOK'
  BY DEF TypeOK, Begin, Goto, db, history

\* Each of the six calls keeps the types.
LEMMA CallTypeOK ==
  ASSUME TypeOK, NEW c \in Callers, Call(c)
  PROVE  TypeOK'
<1> USE DEF Ops, Labels
<1>1. CASE CheckAndReserveQuota(c)
  <2>1. PICK b \in Batches : Begin(c, "check", b, "get")
    BY <1>1 DEF CheckAndReserveQuota
  <2>2. grant' \in [Callers -> Nat]
    BY <1>1 DEF CheckAndReserveQuota, TypeOK
  <2>3. b \in Nat
    BY QuotaAssumption
  <2> QED
    BY <2>1, <2>2, <2>3, BeginTypeOK
<1>2. CASE IncrementCallCount(c)
  <2>1. grant' \in [Callers -> Nat]
    BY <1>2 DEF IncrementCallCount, TypeOK
  <2> QED
    BY <1>2, <2>1, BeginTypeOK DEF IncrementCallCount
<1>3. CASE SetQuotaOverride(c)
  BY <1>3, BeginTypeOK DEF SetQuotaOverride, TypeOK
<1>4. CASE UpdateLimit(c)
  BY <1>4, BeginTypeOK, QuotaAssumption DEF UpdateLimit, TypeOK
<1>5. CASE GetCurrentQuotaStatus(c)
  BY <1>5, BeginTypeOK DEF GetCurrentQuotaStatus, TypeOK
<1>6. CASE ResetMonthlyQuota(c)
  BY <1>6, BeginTypeOK DEF ResetMonthlyQuota, TypeOK
<1> QED
  BY <1>1, <1>2, <1>3, <1>4, <1>5, <1>6 DEF Call

\* So does what a call does with the tracker it has read or inserted.
LEMMA HaveTrackerTypeOK ==
  ASSUME TypeOK, NEW c \in Callers, NEW row \in Row, HaveTracker(c, row)
  PROVE  /\ seen' \in [Callers -> Row]
         /\ pc' \in [Callers -> Labels]
         /\ grant' \in [Callers -> Nat]
         /\ ret' \in [Callers -> {"none", "granted", "refused", "ok", "error"}]
<1> USE DEF TypeOK, HaveTracker, Goto, Return, Labels
<1>1. CASE op[c] # "check"
  BY <1>1
<1>2. CASE op[c] = "check"
  <2>1. Allowed(row, arg[c]) \in Int
    BY RowFields DEF Allowed
  <2>2. seen' \in [Callers -> Row]
    BY <1>2
  <2>3. Decide(c, row)
    BY <1>2
  <2>4. /\ pc' \in [Callers -> Labels]
        /\ grant' \in [Callers -> Nat]
        /\ ret' \in [Callers -> {"none", "granted", "refused", "ok", "error"}]
    <3>1. grant' \in [Callers -> Nat]
      BY <2>1, <2>3 DEF Decide
    <3>2. pc' \in [Callers -> Labels]
      BY <2>3 DEF Decide
    <3>3. ret' \in [Callers -> {"none", "granted", "refused", "ok", "error"}]
      BY <2>3 DEF Decide
    <3> QED
      BY <3>1, <3>2, <3>3
  <2> QED
    BY <2>2, <2>4
<1> QED
  BY <1>1, <1>2

\* Each statement and each mail keeps the types.
LEMMA StepTypeOK ==
  ASSUME TypeOK, NEW c \in Callers, Step(c)
  PROVE  TypeOK'
<1> USE DEF TypeOK, Goto, Return, db, locals, history, Fault, Labels
<1>1. CASE GetCurrent(c)
  <2>1. CASE id[c] \in stored
    <3>1. tracker[id[c]] \in Row
      OBVIOUS
    <3>2. HaveTracker(c, tracker[id[c]]) /\ UNCHANGED id
      <4> HIDE DEF HaveTracker
      <4> QED
        BY <1>1, <2>1 DEF GetCurrent
    <3>3. /\ seen' \in [Callers -> Row]
          /\ pc' \in [Callers -> Labels]
          /\ grant' \in [Callers -> Nat]
          /\ ret' \in [Callers -> {"none", "granted", "refused", "ok", "error"}]
      BY <3>1, <3>2, HaveTrackerTypeOK
    <3> QED
      BY <1>1, <3>2, <3>3 DEF GetCurrent
  <2>2. CASE id[c] \notin stored
    BY <1>1, <2>2 DEF GetCurrent
  <2> QED
    BY <2>1, <2>2
<1>2. CASE Create(c)
  <2>1. /\ stored' \subseteq Months
        /\ tracker' \in [Months -> Row]
    BY <1>2, FreshIsRow DEF Create, Insert
  <2>2. races' \in [Jobs -> [Months -> Nat]]
    <3>1. CASE op[c] = "check" /\ c \in Jobs
      <4>1. [races[c] EXCEPT ![id[c]] = @ + 1] \in [Months -> Nat]
        BY <3>1
      <4>2. races' = races \/ races' = [races EXCEPT ![c] = [races[c] EXCEPT ![id[c]] = @ + 1]]
        BY <1>2, <3>1 DEF Create, LostRace
      <4> QED
        BY <3>1, <4>1, <4>2
    <3>2. CASE ~(op[c] = "check" /\ c \in Jobs)
      BY <1>2, <3>2 DEF Create, LostRace
    <3> QED
      BY <3>1, <3>2
  <2> QED
    BY <1>2, <2>1, <2>2, HaveTrackerTypeOK, FreshIsRow DEF Create
<1>3. CASE ReadTracker(c)
  BY <1>3 DEF ReadTracker
<1>4. CASE UpdateTracker(c)
  <2>1. NewCount(read[c], arg[c]) \in Nat
    BY RowFields DEF NewCount
  <2> DEFINE n == NewCount(read[c], arg[c])
             row == [tracker[id[c]] EXCEPT !.callCount = n,
                                           !.quotaExceeded = Exceeds(n, read[c].quotaLimit)]
  <2>2. row \in Row
    <3>1. Exceeds(n, read[c].quotaLimit) \in BOOLEAN
      BY DEF Exceeds
    <3>2. tracker[id[c]] \in Row
      OBVIOUS
    <3> QED
      BY <2>1, <3>1, <3>2, RowCharged
  <2>3. tracker' = [tracker EXCEPT ![id[c]] = row]
    BY <1>4, Zenon DEF UpdateTracker
  <2>4. tracker' \in [Months -> Row]
    <3> HIDE DEF row
    <3> QED  BY <2>2, <2>3
  <2>5. charged' \in [Months -> Nat]
    BY <1>4 DEF UpdateTracker
  <2> QED
    BY <1>4, <2>4, <2>5 DEF UpdateTracker
<1>5. CASE SetOverride(c)
  <2> DEFINE row == [tracker[id[c]] EXCEPT !.overrideEnabled = Enabling(c)]
  <2>0. row \in Row
    BY <1>5, RowOverridden DEF Enabling
  <2>a. tracker' = [tracker EXCEPT ![id[c]] = row]
    BY <1>5 DEF SetOverride
  <2>1. tracker' \in [Months -> Row]
    <3> HIDE DEF row
    <3> QED  BY <2>0, <2>a
  <2> QED
    BY <1>5, <2>1 DEF SetOverride
<1>6. CASE UpdateQuotaLimit(c)
  <2> DEFINE row == [tracker[id[c]] EXCEPT !.quotaLimit = arg[c]]
  <2>0. ValidLimit(arg[c]) => row \in Row
    BY RowLimited DEF ValidLimit
  <2>1. tracker' \in [Months -> Row]
    BY <1>6, <2>0 DEF UpdateQuotaLimit
  <2>2. limits' \in [Months -> SUBSET (Nat \ {0})]
    BY <1>6 DEF UpdateQuotaLimit, ValidLimit
  <2> QED
    BY <1>6, <2>1, <2>2 DEF UpdateQuotaLimit
<1>7. CASE SendQuotaExceededAlert(c)
  <2>1. alerts' \in [Months -> Nat]
    BY <1>7 DEF SendQuotaExceededAlert
  <2>2. faults' \in Nat
    BY <1>7 DEF SendQuotaExceededAlert, AlertFails
  <2>3. pc' \in [Callers -> Labels]
    BY <1>7 DEF SendQuotaExceededAlert, AlertFails, AlertDone
  <2>4. ret' \in [Callers -> {"none", "granted", "refused", "ok", "error"}]
    <3>1. AlertDone(c) => ret' \in [Callers -> {"none", "granted", "refused", "ok", "error"}]
      BY DEF AlertDone
    <3> QED
      BY <1>7, <3>1 DEF SendQuotaExceededAlert, AlertFails
  <2> QED
    BY <1>7, <2>1, <2>2, <2>3, <2>4 DEF SendQuotaExceededAlert
<1>8. CASE SetNotificationSent(c)
  <2> DEFINE row == [tracker[id[c]] EXCEPT !.notificationSent = TRUE]
  <2>0. row \in Row
    BY <1>8, RowMarked 
  <2>1. tracker' \in [Months -> Row]
    BY <1>8, <2>0 DEF SetNotificationSent
  <2> QED
    BY <1>8, <2>1 DEF SetNotificationSent, AlertDone
<1>9. CASE SendNotice(c)
  BY <1>9 DEF SendNotice
<1> QED
  BY <1>1, <1>2, <1>3, <1>4, <1>5, <1>6, <1>7, <1>8, <1>9 DEF Step

\* The type invariant is inductive.
LEMMA NextTypeOK == TypeOK /\ [Next]_vars => TypeOK'
<1> SUFFICES ASSUME TypeOK, [Next]_vars
             PROVE  TypeOK'
  OBVIOUS
<1> USE DEF db, locals, history
<1>1. ASSUME NEW c \in Callers, StatementFails(c)
      PROVE  TypeOK'
  BY <1>1 DEF TypeOK, StatementFails, Fault, Return, Goto, Labels
<1>2. ASSUME NEW p \in Processes, Crash(p)
      PROVE  TypeOK'
  BY <1>2 DEF TypeOK, Crash, Fault, Labels
<1>3. CASE NextMonth
  BY <1>3, QuotaAssumption DEF TypeOK, NextMonth, Months
<1>4. CASE UNCHANGED vars
  BY <1>4 DEF TypeOK, vars
<1> QED
  BY <1>1, <1>2, <1>3, <1>4, CallTypeOK, StepTypeOK DEF Next

\* Type correctness of the quota module, for every value of its constants.
THEOREM TypeCorrect == Spec => []TypeOK
  BY InitTypeOK, NextTypeOK, PTL DEF Spec

-------------------------------------------------------------------------------
(* Who writes what: the case analysis on Next, done once. *)

\* The writes of the two columns that count, field by field.
LEMMA CallCountWrites ==
  ASSUME TypeOK, [Next]_vars, NEW m \in Months
  PROVE  \/ /\ tracker'[m].callCount = tracker[m].callCount
            /\ tracker'[m].quotaExceeded = tracker[m].quotaExceeded
            /\ charged'[m] = charged[m]
         \/ /\ m \notin stored
            /\ tracker'[m] = Fresh
            /\ charged'[m] = charged[m]
         \/ \E c \in Callers :
               /\ pc[c] = "update" /\ pc'[c] # "update" /\ id[c] = m
               /\ tracker'[m].callCount = read[c].callCount + arg[c]
               /\ tracker'[m].quotaExceeded
                     = (read[c].callCount + arg[c] >= read[c].quotaLimit)
               /\ charged'[m] = charged[m] + arg[c]
<1> USE DEF db, locals, history
<1>1. ASSUME NEW c \in Callers, Call(c)
      PROVE  UNCHANGED <<tracker, charged>>
  BY <1>1 DEF Call, Begin, CheckAndReserveQuota, IncrementCallCount,
     SetQuotaOverride, UpdateLimit, GetCurrentQuotaStatus, ResetMonthlyQuota
<1>2. ASSUME NEW c \in Callers, UpdateTracker(c), id[c] = m
      PROVE  /\ tracker'[m].callCount = read[c].callCount + arg[c]
             /\ tracker'[m].quotaExceeded
                   = (read[c].callCount + arg[c] >= read[c].quotaLimit)
             /\ charged'[m] = charged[m] + arg[c]
  <2>1. tracker[m] \in Row
    BY DEF TypeOK
  <2>2. tracker'[m] = [tracker[m] EXCEPT
                          !.callCount = NewCount(read[c], arg[c]),
                          !.quotaExceeded = Exceeds(NewCount(read[c], arg[c]),
                                                    read[c].quotaLimit)]
    BY <1>2 DEF UpdateTracker, TypeOK
  <2>3. charged'[m] = charged[m] + arg[c]
    BY <1>2 DEF UpdateTracker, TypeOK
  <2> QED
    BY <2>1, <2>2, <2>3 DEF Row, NewCount, Exceeds
<1>3. ASSUME NEW c \in Callers, UpdateTracker(c), id[c] # m
      PROVE  tracker'[m] = tracker[m] /\ charged'[m] = charged[m]
  BY <1>3 DEF UpdateTracker, TypeOK
<1>4. ASSUME NEW c \in Callers, Create(c)
      PROVE  /\ charged' = charged
             /\ \/ tracker'[m] = tracker[m]
                \/ m \notin stored /\ tracker'[m] = Fresh
  BY <1>4 DEF Create, Insert, TypeOK
<1>5. ASSUME NEW c \in Callers,
             SetOverride(c) \/ UpdateQuotaLimit(c) \/ SetNotificationSent(c)
      PROVE  /\ charged' = charged
             /\ tracker'[m].callCount = tracker[m].callCount
             /\ tracker'[m].quotaExceeded = tracker[m].quotaExceeded
  <2>1. tracker[m] \in Row
    BY DEF TypeOK
  <2>2. CASE SetOverride(c)
    BY <2>1, <2>2, SMTT(30) DEF SetOverride, TypeOK, Row
  <2>3. CASE UpdateQuotaLimit(c)
    BY <2>1, <2>3, SMTT(30) DEF UpdateQuotaLimit, TypeOK, Row
  <2>4. CASE SetNotificationSent(c)
    <3>1. charged' = charged
      BY <2>4 DEF SetNotificationSent
    <3>2. CASE UNCHANGED tracker
      BY <3>1, <3>2
    <3>3. CASE tracker' = [tracker EXCEPT ![id[c]] = [@ EXCEPT !.notificationSent = TRUE]]
      <4>1. CASE id[c] = m
        BY <2>1, <3>1, <3>3, <4>1 DEF TypeOK, Row
      <4>2. CASE id[c] # m
        BY <3>1, <3>3, <4>2 DEF TypeOK
      <4> QED
        BY <4>1, <4>2
    <3> QED
      BY <2>4, <3>2, <3>3 DEF SetNotificationSent
  <2> QED
    BY <1>5, <2>2, <2>3, <2>4
<1>6. ASSUME NEW c \in Callers,
             \/ GetCurrent(c) \/ ReadTracker(c)
             \/ SendQuotaExceededAlert(c) \/ SendNotice(c) \/ StatementFails(c)
      PROVE  UNCHANGED <<tracker, charged>>
  BY <1>6 DEF GetCurrent, ReadTracker, SendQuotaExceededAlert, SendNotice,
     StatementFails
<1>7. CASE NextMonth \/ (\E p \in Processes : Crash(p)) \/ UNCHANGED vars
  BY <1>7 DEF NextMonth, Crash, vars
<1>8. ASSUME NEW c \in Callers, UpdateTracker(c)
      PROVE  pc[c] = "update" /\ pc'[c] # "update"
  BY <1>8 DEF UpdateTracker, Goto, Return, TypeOK
<1> QED
  BY <1>1, <1>2, <1>3, <1>4, <1>5, <1>6, <1>7, <1>8 DEF Next, Step

\* A caller is about to update only with a row it read before, or reads now.
LEMMA UpdateEntry ==
  ASSUME TypeOK, [Next]_vars, NEW d \in Callers, pc'[d] = "update"
  PROVE  /\ id'[d] = id[d]
         /\ \/ pc[d] = "update" /\ read'[d] = read[d]
            \/ read'[d] = tracker[id[d]]
<1> USE DEF TypeOK, Goto, Return, db, locals, history
<1>1. ASSUME NEW c \in Callers, Call(c)
      PROVE  /\ c # d
             /\ pc'[d] = pc[d] /\ id'[d] = id[d] /\ read'[d] = read[d]
  BY <1>1 DEF Call, Begin, CheckAndReserveQuota, IncrementCallCount,
     SetQuotaOverride, UpdateLimit, GetCurrentQuotaStatus, ResetMonthlyQuota
<1>2. ASSUME NEW c \in Callers, NEW row, HaveTracker(c, row)
      PROVE  pc'[c] # "update" /\ (c # d => pc'[d] = pc[d])
  BY <1>2 DEF HaveTracker, Decide
<1>3. ASSUME NEW c \in Callers, GetCurrent(c) \/ Create(c)
      PROVE  c # d /\ pc'[d] = pc[d] /\ id'[d] = id[d] /\ read'[d] = read[d]
  BY <1>2, <1>3 DEF GetCurrent, Create
<1>4. ASSUME NEW c \in Callers, ReadTracker(c)
      PROVE  /\ id'[d] = id[d]
             /\ \/ pc[d] = "update" /\ read'[d] = read[d]
                \/ read'[d] = tracker[id[d]]
  BY <1>4 DEF ReadTracker
<1>5. ASSUME NEW c \in Callers,
             \/ UpdateTracker(c) \/ SetOverride(c) \/ UpdateQuotaLimit(c)
             \/ SendQuotaExceededAlert(c) \/ SetNotificationSent(c)
             \/ SendNotice(c) \/ StatementFails(c)
      PROVE  pc'[d] = pc[d] /\ id'[d] = id[d] /\ read'[d] = read[d]
  BY <1>5 DEF UpdateTracker, SetOverride, UpdateQuotaLimit, SendQuotaExceededAlert,
     AlertFails, AlertDone, SetNotificationSent, SendNotice, StatementFails
<1>6. CASE NextMonth \/ (\E p \in Processes : Crash(p)) \/ UNCHANGED vars
  BY <1>6 DEF NextMonth, Crash, vars
<1> QED
  BY <1>1, <1>3, <1>4, <1>5, <1>6 DEF Next, Step

-------------------------------------------------------------------------------
(* No overcount. *)

\* Before the first call nothing is counted.
LEMMA InitCountInv == Init => CountInv
  BY QuotaAssumption DEF Init, CountInv, Fresh, Months

\* The counts, stored and read, stay behind the charges: CountInv is inductive.
LEMMA NextCountInv == TypeOK /\ CountInv /\ [Next]_vars => CountInv'
<1> SUFFICES ASSUME TypeOK, CountInv, [Next]_vars
             PROVE  CountInv'
  OBVIOUS
<1>1. ASSUME NEW m \in Months
      PROVE  /\ tracker'[m].callCount <= charged'[m]
             /\ charged[m] <= charged'[m]
  <2>1. /\ tracker[m].callCount \in Nat
        /\ charged[m] \in Nat
        /\ \A c \in Callers : arg[c] \in Nat /\ read[c].callCount \in Nat
    BY RowFields DEF TypeOK
  <2> QED
    BY <2>1, CallCountWrites DEF CountInv, Fresh
<1>2. ASSUME NEW d \in Callers, pc'[d] = "update"
      PROVE  read'[d].callCount <= charged'[id'[d]]
  <2>1. /\ id[d] \in Months
        /\ read[d].callCount \in Nat
        /\ tracker[id[d]].callCount \in Nat
        /\ charged[id[d]] \in Nat
        /\ charged'[id[d]] \in Nat
    BY RowFields, NextTypeOK DEF TypeOK
  <2>2. read'[d].callCount <= charged[id[d]]
    BY <1>2, UpdateEntry, <2>1 DEF CountInv
  <2>3. read'[d].callCount \in Nat
    BY <1>2, UpdateEntry, <2>1
  <2> QED
    BY <1>1, <1>2, <2>1, <2>2, <2>3, UpdateEntry
<1> QED
  BY <1>1, <1>2 DEF CountInv

\* Lost updates only lose: for any callers, months, faults and crashes a stored
\* tracker never claims more calls than IncrementCallCount was asked to add.
THEOREM NoOvercount == Spec => []NeverOvercounts
<1>1. TypeOK /\ CountInv => NeverOvercounts
  BY DEF TypeOK, CountInv, NeverOvercounts
<1> QED
  BY InitTypeOK, NextTypeOK, InitCountInv, NextCountInv, <1>1, PTL DEF Spec

-------------------------------------------------------------------------------
(* The flag, and refusals, in months whose limit nobody moves. *)

\* UpdateQuotaLimit alone moves the limit of a row, and it is remembered.
LEMMA LimitWrites ==
  ASSUME TypeOK, LimitInv, [Next]_vars, NEW m \in Months
  PROVE  /\ limits[m] \subseteq limits'[m]
         /\ tracker'[m].quotaLimit \in limits'[m]
<1> USE DEF db, locals, history
<1>0. /\ tracker[m] \in Row
      /\ tracker[m].quotaLimit \in limits[m]
      /\ MonthlyQuota \in limits[m]
      /\ Fresh.quotaLimit = MonthlyQuota
  BY DEF LimitInv, TypeOK, Fresh
<1>1. ASSUME NEW c \in Callers, Call(c)
      PROVE  UNCHANGED <<tracker, limits>>
  BY <1>1 DEF Call, Begin, CheckAndReserveQuota, IncrementCallCount,
     SetQuotaOverride, UpdateLimit, GetCurrentQuotaStatus, ResetMonthlyQuota
<1>2. ASSUME NEW c \in Callers, UpdateTracker(c)
      PROVE  limits' = limits /\ tracker'[m].quotaLimit = tracker[m].quotaLimit
  <2>1. \/ tracker'[m] = tracker[m]
        \/ tracker'[m] = [tracker[m] EXCEPT
                            !.callCount = NewCount(read[c], arg[c]),
                            !.quotaExceeded = Exceeds(NewCount(read[c], arg[c]),
                                                      read[c].quotaLimit)]
    BY <1>2 DEF UpdateTracker, TypeOK
  <2>2. limits' = limits
    BY <1>2 DEF UpdateTracker
  <2> QED
    BY <1>0, <2>1, <2>2 DEF Row
<1>3. ASSUME NEW c \in Callers, SetOverride(c) \/ SetNotificationSent(c)
      PROVE  limits' = limits /\ tracker'[m].quotaLimit = tracker[m].quotaLimit
  <2>1. \/ tracker'[m] = tracker[m]
        \/ tracker'[m] = [tracker[m] EXCEPT !.overrideEnabled = Enabling(c)]
        \/ tracker'[m] = [tracker[m] EXCEPT !.notificationSent = TRUE]
    BY <1>3 DEF SetOverride, SetNotificationSent, TypeOK
  <2>2. limits' = limits
    BY <1>3 DEF SetOverride, SetNotificationSent
  <2> QED
    BY <1>0, <2>1, <2>2 DEF Row
<1>4. ASSUME NEW c \in Callers, Create(c)
      PROVE  limits' = limits /\ (tracker'[m] = tracker[m] \/ tracker'[m] = Fresh)
  BY <1>4 DEF Create, Insert, TypeOK
<1>5. ASSUME NEW c \in Callers, UpdateQuotaLimit(c)
      PROVE  \/ /\ tracker'[m] = tracker[m]
                /\ limits'[m] = limits[m]
             \/ /\ tracker'[m] = [tracker[m] EXCEPT !.quotaLimit = arg[c]]
                /\ limits'[m] = limits[m] \cup {arg[c]}
  BY <1>5 DEF UpdateQuotaLimit, TypeOK
<1>6. ASSUME NEW c \in Callers,
             \/ GetCurrent(c) \/ ReadTracker(c)
             \/ SendQuotaExceededAlert(c) \/ SendNotice(c) \/ StatementFails(c)
      PROVE  UNCHANGED <<tracker, limits>>
  BY <1>6 DEF GetCurrent, ReadTracker, SendQuotaExceededAlert, SendNotice,
     StatementFails
<1>7. CASE NextMonth \/ (\E p \in Processes : Crash(p)) \/ UNCHANGED vars
  BY <1>0, <1>7 DEF NextMonth, Crash, vars
<1>8. ASSUME NEW c \in Callers, UpdateQuotaLimit(c)
      PROVE  /\ limits[m] \subseteq limits'[m]
             /\ tracker'[m].quotaLimit \in limits'[m]
  BY <1>0, <1>5, <1>8 DEF Row
<1> QED
  BY <1>0, <1>1, <1>2, <1>3, <1>4, <1>6, <1>7, <1>8 DEF Next, Step

\* A month that is not moved was not moved before.
LEMMA MovedGrows ==
  ASSUME TypeOK, LimitInv, [Next]_vars
  PROVE  Moved \subseteq Moved'
<1> SUFFICES ASSUME NEW m \in Months, limits'[m] = {MonthlyQuota}
             PROVE  limits[m] = {MonthlyQuota}
  BY DEF Moved, Unchanged
<1> QED
  BY LimitWrites DEF LimitInv

\* In a month that is not moved, limit and flag are those of MonthlyQuota.
LEMMA UnmovedRows ==
  ASSUME TypeOK, LimitInv
  PROVE  UnmovedInv
<1>1. ASSUME NEW m \in Months \ Moved
      PROVE  /\ tracker[m].quotaLimit = MonthlyQuota
             /\ tracker[m].quotaExceeded <=> tracker[m].callCount >= MonthlyQuota
  <2>1. limits[m] = {MonthlyQuota} /\ tracker[m] \in Row
    BY DEF Moved, Unchanged, TypeOK
  <2> QED
    BY <2>1, RowFields, QuotaAssumption DEF LimitInv, FlagOf
<1> QED
  BY <1>1 DEF UnmovedInv

\* Every month starts with the configured limit.
LEMMA InitLimitInv == Init => LimitInv
  BY QuotaAssumption DEF Init, LimitInv, FlagOf, Fresh, Months

\* Limit and flag stay right in every row, and limits in every copy.
LEMMA NextLimitInv == TypeOK /\ LimitInv /\ [Next]_vars => LimitInv'
<1> SUFFICES ASSUME TypeOK, LimitInv, [Next]_vars
             PROVE  LimitInv'
  OBVIOUS
<1>1. ASSUME NEW m \in Months
      PROVE  FlagOf(m)'
  <2>1. /\ MonthlyQuota \in limits'[m]
        /\ \A l \in limits[m] : l \in limits'[m]
    BY LimitWrites DEF LimitInv
  <2>2. CASE /\ tracker'[m].callCount = tracker[m].callCount
             /\ tracker'[m].quotaExceeded = tracker[m].quotaExceeded
    BY <2>1, <2>2 DEF LimitInv, FlagOf
  <2>3. CASE tracker'[m] = Fresh
    BY <2>1, <2>3, QuotaAssumption DEF FlagOf, Fresh
  <2>4. ASSUME NEW c \in Callers, pc[c] = "update", id[c] = m,
               tracker'[m].callCount = read[c].callCount + arg[c],
               tracker'[m].quotaExceeded
                  = (read[c].callCount + arg[c] >= read[c].quotaLimit)
        PROVE  FlagOf(m)'
    <3>1. /\ read[c] \in Row /\ arg[c] \in Nat
          /\ read[c].quotaLimit \in limits'[m]
      BY <2>1, <2>4 DEF LimitInv, TypeOK
    <3>2. read[c].callCount \in Nat /\ read[c].quotaLimit \in Nat
      BY <3>1, RowFields
    <3>3. CASE tracker'[m].quotaExceeded
      BY <2>4, <3>1, <3>2, <3>3 DEF FlagOf
    <3>4. CASE ~tracker'[m].quotaExceeded
      <4>1. ~(read[c].callCount + arg[c] >= read[c].quotaLimit)
        BY <2>4, <3>4, Zenon
      <4>2. tracker'[m].callCount < read[c].quotaLimit
        BY <2>4, <3>1, <3>2, <4>1
      <4> QED
        BY <3>1, <3>4, <4>2 DEF FlagOf
    <3> QED
      BY <3>3, <3>4
  <2> QED
    BY <2>2, <2>3, <2>4, CallCountWrites
<1>2. ASSUME NEW d \in Callers, pc'[d] = "update"
      PROVE  read'[d].quotaLimit \in limits'[id'[d]]
  <2>1. id[d] \in Months
    BY DEF TypeOK
  <2>2. \/ id'[d] = id[d] /\ read'[d] = read[d] /\ pc[d] = "update"
        \/ id'[d] = id[d] /\ read'[d] = tracker[id[d]]
    BY <1>2, UpdateEntry
  <2> QED
    BY <2>1, <2>2, LimitWrites DEF LimitInv
<1>3. ASSUME NEW m \in Months
      PROVE  MonthlyQuota \in limits'[m] /\ tracker'[m].quotaLimit \in limits'[m]
  BY LimitWrites DEF LimitInv
<1> QED
  BY <1>1, <1>2, <1>3 DEF LimitInv

\* quota_exceeded agrees with call_count >= quota_limit for a limit the month has
\* had, however stale the rows are that writers start from and however often an
\* admin moves the limit under them.
THEOREM FlagAgrees == Spec => []FlagMatchesCount
<1>1. TypeOK /\ LimitInv => FlagMatchesCount
  BY DEF TypeOK, LimitInv, FlagOf, FlagMatchesCount
<1> QED
  BY InitTypeOK, NextTypeOK, InitLimitInv, NextLimitInv, <1>1, PTL DEF Spec

\* What a caller does with its tracker, when the call is a check.
LEMMA DecideRefusal ==
  ASSUME TypeOK, RefusalInv, NEW c \in Callers, NEW row \in Row, NEW spent \in BOOLEAN,
         pc[c] # "idle",
         HaveTracker(c, row),
         NEW batch \in Nat, batch = arg[c],
         ~spent /\ batch >= 1 => ~(Blocked(row) \/ Allowed(row, batch) <= 0)
  PROVE  /\ ret'[c] = "refused" => pc'[c] = "idle" /\ spent
         /\ pc'[c] \in {"alert", "mark"} => spent
         /\ pc'[c] \in {"read", "update"} => op[c] = "charge"
         /\ \A d \in Callers \ {c} : pc'[d] = pc[d] /\ ret'[d] = ret[d]
<1>1. /\ ret[c] # "refused"
      /\ op[c] = "check" => arg[c] >= 1
  BY DEF RefusalInv, RefusalOf
<1>2. CASE op[c] = "check"
  BY <1>1, <1>2 DEF HaveTracker, Decide, AlertDue, Goto, Return, TypeOK
<1>3. CASE op[c] # "check"
  BY <1>1, <1>3 DEF HaveTracker, Goto, Return, TypeOK
<1> QED
  BY <1>2, <1>3

\* A stored row stops a check only in a spent month; so does a new one, never.
LEMMA StoppedIsSpent ==
  ASSUME TypeOK, CountInv, LimitInv, NEW m \in Months, NEW batch \in Nat, batch >= 1,
         NEW row \in {tracker[m], Fresh},
         Blocked(row) \/ Allowed(row, batch) <= 0
  PROVE  Spent(m)
<1>1. CASE row = Fresh
  BY <1>1, QuotaAssumption DEF Fresh, Blocked, Allowed
<1>2. CASE row = tracker[m]
  <2>1. /\ row \in Row
        /\ row.quotaLimit \in limits[m]
        /\ FlagOf(m)
        /\ row.callCount <= charged[m]
        /\ charged[m] \in Nat
        /\ limits[m] \subseteq Nat
    BY <1>2 DEF TypeOK, LimitInv, CountInv
  <2>2. PICK l \in limits[m] : row.callCount >= l
    <3>1. CASE row.quotaExceeded
      BY <1>2, <2>1, <3>1 DEF FlagOf
    <3>2. CASE ~row.quotaExceeded
      BY <2>1, <3>2, RowFields DEF Blocked, Allowed
    <3> QED
      BY <3>1, <3>2
  <2>3. charged[m] >= l
    BY <2>1, <2>2, RowFields
  <2> QED
    BY <2>3 DEF Spent
<1> QED
  BY <1>1, <1>2

\* Nobody is refused at first.
LEMMA InitRefusalInv == Init => RefusalInv
  BY DEF Init, RefusalInv, RefusalOf

\* A month that is spent stays spent.
LEMMA SpentForGood ==
  ASSUME TypeOK, LimitInv, [Next]_vars, NEW m \in Months, Spent(m)
  PROVE  Spent(m)'
<1>1. /\ charged[m] \in Nat
      /\ \A c \in Callers : arg[c] \in Nat
  BY DEF TypeOK
<1>2. charged'[m] = charged[m] \/ \E c \in Callers : charged'[m] = charged[m] + arg[c]
  BY CallCountWrites
<1>3. PICK l \in limits[m] : charged[m] >= l
  BY DEF Spent
<1>4. l \in limits'[m] /\ l \in Nat
  BY LimitWrites DEF TypeOK
<1>5. charged'[m] >= l
  BY <1>1, <1>2, <1>3, <1>4
<1> QED
  BY <1>4, <1>5 DEF Spent

\* What is known of a refused check is preserved by every step.
LEMMA NextRefusalInv ==
  TypeOK /\ CountInv /\ LimitInv /\ RefusalInv /\ [Next]_vars => RefusalInv'
<1> SUFFICES ASSUME TypeOK, CountInv, LimitInv, RefusalInv, [Next]_vars,
                    NEW d \in Callers
             PROVE  RefusalOf(d)'
  BY DEF RefusalInv
<1> USE DEF db, locals, history
<1>0. /\ id[d] \in Months
      /\ id'[d] = id[d] /\ Spent(id[d]) => Spent(id[d])'
  BY SpentForGood DEF TypeOK
<1>1. RefusalOf(d)
  BY DEF RefusalInv
<1> USE DEF RefusalOf
<1>2. ASSUME NEW c \in Callers, Call(c)
      PROVE  RefusalOf(d)'
  <2>1. /\ \A e \in Callers \ {c} : UNCHANGED <<pc[e], op[e], arg[e], id[e], ret[e]>>
        /\ ret'[c] = "none" /\ pc'[c] \in {"get", "create"}
        /\ op'[c] = "check" => arg'[c] >= 1
    BY <1>2, QuotaAssumption DEF Call, Begin, Goto, CheckAndReserveQuota,
       IncrementCallCount, SetQuotaOverride, UpdateLimit, GetCurrentQuotaStatus,
       ResetMonthlyQuota, TypeOK
  <2> QED
    BY <1>0, <1>1, <2>1
<1>3. ASSUME NEW c \in Callers, NEW row \in Row, HaveTracker(c, row),
             row \in {tracker[id[c]], Fresh},
             pc[c] # "idle", UNCHANGED <<id, op, arg, charged, limits>>
      PROVE  RefusalOf(d)'
  <2>1. arg[c] \in Nat /\ id[c] \in Months
    BY DEF TypeOK
  <2>2. /\ ret'[c] = "refused" => pc'[c] = "idle" /\ Spent(id[c])
        /\ pc'[c] \in {"alert", "mark"} => Spent(id[c])
        /\ pc'[c] \in {"read", "update"} => op[c] = "charge"
        /\ \A e \in Callers \ {c} : pc'[e] = pc[e] /\ ret'[e] = ret[e]
    <3>1. ~Spent(id[c]) /\ arg[c] >= 1
            => ~(Blocked(row) \/ Allowed(row, arg[c]) <= 0)
      BY <1>3, <2>1, StoppedIsSpent
    <3>2. Spent(id[c]) \in BOOLEAN
      BY DEF Spent
    <3> HIDE DEF Spent
    <3> QED
      BY <1>3, <2>1, <3>1, <3>2, DecideRefusal
  <2>3. Spent(id[d])' <=> Spent(id[d])
    BY <1>3 DEF Spent
  <2> QED
    BY <1>1, <1>3, <2>2, <2>3
<1>4. ASSUME NEW c \in Callers, GetCurrent(c)
      PROVE  RefusalOf(d)'
  <2>1. CASE id[c] \in stored
    <3>1. tracker[id[c]] \in Row
      BY DEF TypeOK
    <3>2. HaveTracker(c, tracker[id[c]]) /\ pc[c] # "idle"
      BY <1>4, <2>1 DEF GetCurrent
    <3>3. UNCHANGED <<id, op, arg, charged, limits>>
      BY <1>4, <2>1 DEF GetCurrent
    <3> QED
      BY <1>3, <3>1, <3>2, <3>3
  <2>2. CASE id[c] \notin stored
    <3>1. /\ \A e \in Callers \ {c} : UNCHANGED <<pc[e], id[e]>>
          /\ pc'[c] = "create" /\ pc[c] = "get"
          /\ UNCHANGED <<op, arg, ret>>
      BY <1>4, <2>2 DEF GetCurrent, Goto, TypeOK
    <3> QED
      BY <1>0, <1>1, <3>1
  <2> QED
    BY <2>1, <2>2
<1>5. ASSUME NEW c \in Callers, Create(c)
      PROVE  RefusalOf(d)'
  <2>1. UNCHANGED <<id, op, arg, charged, limits>> /\ pc[c] = "create"
    BY <1>5 DEF Create
  <2>2. CASE HaveTracker(c, Fresh)
    BY <1>3, <2>1, <2>2, FreshIsRow
  <2>3. CASE ~HaveTracker(c, Fresh)
    <3>1. /\ pc'[c] \in {"mail", "idle"}
          /\ ret'[c] # ret[c] => ret'[c] = "error"
          /\ \A e \in Callers \ {c} : UNCHANGED <<pc[e], ret[e]>>
      BY <1>5, <2>3 DEF Create, Goto, Return, TypeOK
    <3> QED
      BY <1>0, <1>1, <2>1, <3>1
  <2> QED
    BY <2>2, <2>3
<1>6. ASSUME NEW c \in Callers, UpdateTracker(c)
      PROVE  RefusalOf(d)'
  <2>1. /\ ret'[d] = "refused" => ret[d] = "refused" /\ pc'[d] = pc[d]
        /\ pc'[d] \in {"alert", "mark"} => pc[d] = pc'[d] \/ op[d] # "check"
        /\ pc'[d] \in {"read", "update"} => pc[d] = pc'[d]
        /\ UNCHANGED <<op, arg, id>>
    BY <1>1, <1>6 DEF UpdateTracker, Goto, Return, TypeOK
  <2> QED
    BY <1>0, <1>1, <2>1
<1>7. ASSUME NEW c \in Callers,
             \/ ReadTracker(c) \/ SetOverride(c) \/ UpdateQuotaLimit(c)
             \/ SendQuotaExceededAlert(c) \/ SetNotificationSent(c)
             \/ SendNotice(c) \/ StatementFails(c)
      PROVE  RefusalOf(d)'
  <2>1. /\ UNCHANGED <<op, arg, id>>
        /\ pc'[d] \in {"read", "update"} => op[d] = "charge"
        /\ ret'[d] = "refused" => pc'[d] = "idle" /\ Spent(id[d])
        /\ pc'[d] \in {"alert", "mark"} /\ op[d] = "check" => Spent(id[d])
    <3> HIDE DEF Spent
    <3> QED
      BY <1>1, <1>7 DEF ReadTracker, SetOverride, UpdateQuotaLimit, StatementFails,
         SendQuotaExceededAlert, AlertFails, AlertDone, SetNotificationSent,
         SendNotice, Goto, Return, TypeOK
  <2> QED
    BY <1>0, <1>1, <2>1
<1>8. CASE NextMonth \/ (\E p \in Processes : Crash(p)) \/ UNCHANGED vars
  <2>1. /\ UNCHANGED <<op, arg, id>>
        /\ \/ pc'[d] = pc[d] /\ ret'[d] = ret[d]
           \/ pc'[d] = "idle" /\ ret'[d] = "none"
    BY <1>8 DEF NextMonth, Crash, vars
  <2> QED
    BY <1>0, <1>1, <2>1
<1> QED
  BY <1>2, <1>4, <1>5, <1>6, <1>7, <1>8 DEF Next, Step

\* Nobody has raced at first.
LEMMA InitRaceInv == Init => RaceInv
  BY QuotaAssumption DEF Init, RaceInv, RaceOf, Months, Callers

\* A race is lost once a month at most: the loser finds the month stored from then
\* on, and a call that goes on to an insert has met a month that is not.
LEMMA NextRaceInv == TypeOK /\ RaceInv /\ [Next]_vars => RaceInv'
<1> SUFFICES ASSUME TypeOK, RaceInv, [Next]_vars, NEW d \in Jobs
             PROVE  RaceOf(d)'
  BY DEF RaceInv
<1> USE DEF db, locals, history
<1>0. /\ d \in Callers /\ RaceOf(d) /\ id[d] \in Months
      /\ \A m \in Months : m \in Int /\ races[d][m] \in Nat
      /\ month \in Months
  BY QuotaAssumption DEF RaceInv, Callers, TypeOK, Months
<1>1. ASSUME NEW c \in Callers, Call(c)
      PROVE  RaceOf(d)'
  <2>1. /\ UNCHANGED <<races, stored, month>>
        /\ \/ UNCHANGED <<pc[d], op[d], id[d]>>
           \/ /\ id'[d] = month
              /\ pc'[d] = "get" \/ op'[d] = "reset"
              /\ pc'[d] \in {"get", "create"}
    BY <1>0, <1>1 DEF Call, Begin, Goto, CheckAndReserveQuota, IncrementCallCount,
       SetQuotaOverride, UpdateLimit, GetCurrentQuotaStatus, ResetMonthlyQuota, TypeOK
  <2> QED
    BY <1>0, <2>1 DEF RaceOf
<1>2. ASSUME NEW c \in Callers, GetCurrent(c)
      PROVE  RaceOf(d)'
  <2>1. /\ UNCHANGED <<races, stored, month, op>>
        /\ \/ UNCHANGED <<pc[d], id[d]>>
           \/ UNCHANGED id[d] /\ pc'[d] \notin {"get", "create"}
           \/ /\ pc[d] = "get" /\ pc'[d] = "create"
              /\ id[d] \notin stored /\ id'[d] = month
    BY <1>0, <1>2 DEF GetCurrent, HaveTracker, Decide, Goto, Return, TypeOK
  <2>2. CASE /\ pc[d] = "get" /\ pc'[d] = "create"
             /\ id[d] \notin stored /\ id'[d] = month
    <3>1. ASSUME NEW m \in Months, races[d][m] > 0
          PROVE  m < month
      BY <1>0, <2>2, <3>1 DEF RaceOf
    <3> QED
      BY <1>0, <2>1, <2>2, <3>1 DEF RaceOf
  <2> QED
    BY <1>0, <2>1, <2>2 DEF RaceOf
<1>3. ASSUME NEW c \in Callers, Create(c)
      PROVE  RaceOf(d)'
  <2>1. /\ UNCHANGED <<month, op, id>>
        /\ stored \subseteq stored'
        /\ pc'[d] = pc[d] \/ pc'[d] \notin {"get", "create"}
    BY <1>0, <1>3 DEF Create, Insert, HaveTracker, Decide, Goto, Return, TypeOK
  <2>2. CASE races'[d] = races[d]
    BY <1>0, <2>1, <2>2 DEF RaceOf
  <2>3. CASE races'[d] # races[d]
    <3>1. /\ c = d /\ pc[d] = "create" /\ op[d] # "reset" /\ id[d] \in stored
          /\ pc'[d] = "idle"
          /\ \A m \in Months :
                races'[d][m] = IF m = id[d] THEN races[d][m] + 1 ELSE races[d][m]
      BY <1>0, <1>3, <2>3 DEF Create, LostRace, HaveTracker, Return, Goto, TypeOK
    <3>2. races[d][id[d]] = 0
      BY <1>0, <3>1 DEF RaceOf
    <3> QED
      BY <1>0, <2>1, <3>1, <3>2 DEF RaceOf
  <2> QED
    BY <2>2, <2>3
<1>4. ASSUME NEW c \in Callers,
             \/ ReadTracker(c) \/ UpdateTracker(c) \/ SetOverride(c)
             \/ UpdateQuotaLimit(c) \/ SendQuotaExceededAlert(c)
             \/ SetNotificationSent(c) \/ SendNotice(c) \/ StatementFails(c)
      PROVE  RaceOf(d)'
  <2>1. /\ UNCHANGED <<races, stored, month, op, id>>
        /\ pc'[d] = pc[d] \/ pc'[d] \notin {"get", "create"}
    BY <1>0, <1>4 DEF ReadTracker, UpdateTracker, SetOverride, UpdateQuotaLimit,
       SendQuotaExceededAlert, AlertFails, AlertDone, SetNotificationSent, SendNotice,
       StatementFails, Goto, Return, TypeOK
  <2> QED
    BY <1>0, <2>1 DEF RaceOf
<1>5. CASE NextMonth \/ (\E p \in Processes : Crash(p)) \/ UNCHANGED vars
  <2>1. /\ UNCHANGED <<races, stored, op, id>>
        /\ pc'[d] = pc[d] \/ pc'[d] = "idle"
        /\ month' = month \/ month' = month + 1
    BY <1>0, <1>5 DEF NextMonth, Crash, vars
  <2> QED
    BY <1>0, <2>1 DEF RaceOf
<1> QED
  BY <1>1, <1>2, <1>3, <1>4, <1>5 DEF Next, Step

\* A job is refused only in a month in which the whole quota has been charged under
\* a limit the month has had: stale rows, lost updates, a limit moved meanwhile and
\* the turn of the month block no job early.  What does is the race for the tracker
\* of a new month, and that once in the month at most.
THEOREM NoEarlyRefusal == Spec => []RefusedOnlyWhenSpent
<1> DEFINE Inv == TypeOK /\ CountInv /\ LimitInv /\ RefusalInv /\ RaceInv
<1>1. Init => Inv
  BY InitTypeOK, InitCountInv, InitLimitInv, InitRefusalInv, InitRaceInv
<1>2. Inv /\ [Next]_vars => Inv'
  BY NextTypeOK, NextCountInv, NextLimitInv, NextRefusalInv, NextRaceInv
<1>3. Inv => RefusedOnlyWhenSpent
  BY DEF RefusalInv, RefusalOf, RaceInv, RaceOf, RefusedOnlyWhenSpent, Callers
<1> QED
  BY <1>1, <1>2, <1>3, PTL DEF Spec

-------------------------------------------------------------------------------
(* Marks. *)

\* No mail is marked at first.
LEMMA InitMarkInv == Init => MarkInv
  BY QuotaAssumption DEF Init, MarkInv, Fresh, Months

\* The mark is written only on the way out of a mail that went out.
LEMMA NextMarkInv == TypeOK /\ MarkInv /\ [Next]_vars => MarkInv'
<1> SUFFICES ASSUME TypeOK, MarkInv, [Next]_vars
             PROVE  MarkInv'
  OBVIOUS
<1> USE DEF db, locals, history
<1>0. /\ \A m \in Months : tracker[m] \in Row /\ alerts[m] \in Nat
      /\ \A c \in Callers : id[c] \in Months
      /\ Fresh.notificationSent = FALSE
  BY DEF TypeOK, Fresh
<1>1. ASSUME \A m \in Months : tracker'[m].notificationSent => tracker[m].notificationSent,
             UNCHANGED alerts,
             \A d \in Callers : pc'[d] = "mark" => pc[d] = "mark" /\ id'[d] = id[d]
      PROVE  MarkInv'
  BY <1>1 DEF MarkInv
<1>2. ASSUME NEW c \in Callers, Call(c)
      PROVE  MarkInv'
  BY <1>1, <1>2 DEF Call, Begin, Goto, CheckAndReserveQuota, IncrementCallCount,
     SetQuotaOverride, UpdateLimit, GetCurrentQuotaStatus, ResetMonthlyQuota, TypeOK
<1>3. ASSUME NEW c \in Callers, NEW row, HaveTracker(c, row)
      PROVE  pc'[c] # "mark" /\ \A d \in Callers \ {c} : pc'[d] = pc[d]
  BY <1>3 DEF HaveTracker, Decide, Goto, Return, TypeOK
<1>4. ASSUME NEW c \in Callers, GetCurrent(c)
      PROVE  MarkInv'
  BY <1>1, <1>3, <1>4 DEF GetCurrent, Goto, TypeOK
<1>5. ASSUME NEW c \in Callers, Create(c)
      PROVE  MarkInv'
  <2>1. \A m \in Months : tracker'[m] = tracker[m] \/ tracker'[m] = Fresh
    BY <1>5 DEF Create, Insert, TypeOK
  <2>2. /\ UNCHANGED <<alerts, id>>
        /\ \A d \in Callers : pc'[d] = "mark" => pc[d] = "mark"
    BY <1>3, <1>5 DEF Create, Goto, Return, TypeOK
  <2> QED
    BY <1>0, <1>1, <2>1, <2>2
<1>6. ASSUME NEW c \in Callers, UpdateTracker(c) \/ SetOverride(c) \/ UpdateQuotaLimit(c)
      PROVE  MarkInv'
  <2>1. ASSUME NEW m \in Months
        PROVE  tracker'[m].notificationSent = tracker[m].notificationSent
    <3>1. \/ tracker'[m] = tracker[m]
          \/ tracker'[m] = [tracker[m] EXCEPT
                              !.callCount = NewCount(read[c], arg[c]),
                              !.quotaExceeded = Exceeds(NewCount(read[c], arg[c]),
                                                        read[c].quotaLimit)]
          \/ tracker'[m] = [tracker[m] EXCEPT !.overrideEnabled = Enabling(c)]
          \/ tracker'[m] = [tracker[m] EXCEPT !.quotaLimit = arg[c]]
      BY <1>6 DEF UpdateTracker, SetOverride, UpdateQuotaLimit, TypeOK
    <3> QED
      BY <1>0, <3>1 DEF Row
  <2>2. /\ UNCHANGED <<alerts, id>>
        /\ \A d \in Callers : pc'[d] = "mark" => pc[d] = "mark"
    BY <1>6 DEF UpdateTracker, SetOverride, UpdateQuotaLimit, Goto, Return, TypeOK
  <2> QED
    BY <1>1, <2>1, <2>2
<1>7. ASSUME NEW c \in Callers, SendQuotaExceededAlert(c)
      PROVE  MarkInv'
  <2>1. /\ UNCHANGED <<tracker, id>>
        /\ \A m \in Months : alerts'[m] >= alerts[m]
    BY <1>7 DEF SendQuotaExceededAlert, TypeOK
  <2>2. \A d \in Callers : pc'[d] = "mark" => pc[d] = "mark" \/ alerts'[id[d]] >= 1
    BY <1>7 DEF SendQuotaExceededAlert, AlertFails, AlertDone, Goto, Return, TypeOK
  <2>3. \A m \in Months : alerts[m] \in Nat /\ alerts'[m] \in Nat
    BY <1>7 DEF SendQuotaExceededAlert, TypeOK
  <2> QED
    BY <1>0, <2>1, <2>2, <2>3 DEF MarkInv, TypeOK
<1>8. ASSUME NEW c \in Callers, SetNotificationSent(c)
      PROVE  MarkInv'
  <2>1. \A m \in Months : tracker'[m] = tracker[m] \/ m = id[c]
    BY <1>8 DEF SetNotificationSent, TypeOK
  <2>2. /\ UNCHANGED <<alerts, id>> /\ pc[c] = "mark"
        /\ \A d \in Callers : pc'[d] = "mark" => pc[d] = "mark"
    BY <1>8 DEF SetNotificationSent, AlertDone, Goto, Return, TypeOK
  <2> QED
    BY <2>1, <2>2 DEF MarkInv
<1>9. ASSUME NEW c \in Callers, ReadTracker(c) \/ SendNotice(c) \/ StatementFails(c)
      PROVE  MarkInv'
  BY <1>1, <1>9 DEF ReadTracker, SendNotice, StatementFails, Goto, Return, TypeOK
<1>10. CASE NextMonth \/ (\E p \in Processes : Crash(p)) \/ UNCHANGED vars
  BY <1>1, <1>10 DEF NextMonth, Crash, vars
<1> QED
  BY <1>2, <1>4, <1>5, <1>6, <1>7, <1>8, <1>9, <1>10 DEF Next, Step

\* A month is marked as notified only when its quota-exceeded mail has gone out:
\* no failure, crash or race marks a mail that was never sent.
THEOREM MarkFollowsMail == Spec => []MarkedOnlyAfterAlert
<1>1. TypeOK /\ MarkInv => MarkedOnlyAfterAlert
  BY DEF TypeOK, MarkInv, MarkedOnlyAfterAlert
<1> QED
  BY InitTypeOK, NextTypeOK, InitMarkInv, NextMarkInv, <1>1, PTL DEF Spec

-------------------------------------------------------------------------------
(* One job as the only caller that charges. *)

\* Before the first call the sole charger has read nothing.
LEMMA InitSoleInv == Init => SoleInv
  BY QuotaAssumption DEF Init, SoleInv, SoleOf, Fresh, Months

\* A stored month stays stored, and the other months keep their first row.
LEMMA StoredGrows ==
  ASSUME TypeOK, SoleInv, RefusalInv, [Next]_vars
  PROVE  /\ stored \subseteq stored'
         /\ \A m \in Months \ stored' : tracker'[m] = Fresh
<1> USE DEF db, locals, history
<1>1. ASSUME NEW c \in Callers, Call(c)
      PROVE  UNCHANGED <<stored, tracker>>
  BY <1>1 DEF Call, Begin, CheckAndReserveQuota, IncrementCallCount,
     SetQuotaOverride, UpdateLimit, GetCurrentQuotaStatus, ResetMonthlyQuota
<1>2. ASSUME NEW c \in Callers, Create(c)
      PROVE  stored \subseteq stored' /\ \A m \in Months \ stored' : tracker'[m] = tracker[m]
  BY <1>2 DEF Create, Insert, TypeOK
<1>3. ASSUME NEW c \in Callers,
             \/ UpdateTracker(c) \/ SetOverride(c)
             \/ UpdateQuotaLimit(c) \/ SetNotificationSent(c)
      PROVE  UNCHANGED stored /\ \A m \in Months \ stored : tracker'[m] = tracker[m]
  <2>1. pc[c] \in {"update", "write", "mark"} /\ UNCHANGED stored
    BY <1>3 DEF UpdateTracker, SetOverride, UpdateQuotaLimit, SetNotificationSent
  <2>2. id[c] \in stored
    BY <2>1 DEF SoleInv, SoleOf
  <2>3. \A m \in Months \ {id[c]} : tracker'[m] = tracker[m]
    BY <1>3 DEF UpdateTracker, SetOverride, UpdateQuotaLimit, SetNotificationSent, TypeOK
  <2> QED
    BY <2>1, <2>2, <2>3
<1>4. ASSUME NEW c \in Callers,
             \/ GetCurrent(c) \/ ReadTracker(c)
             \/ SendQuotaExceededAlert(c) \/ SendNotice(c) \/ StatementFails(c)
      PROVE  UNCHANGED <<stored, tracker>>
  BY <1>4 DEF GetCurrent, ReadTracker, SendQuotaExceededAlert, SendNotice,
     StatementFails
<1>5. ASSUME NextMonth \/ (\E p \in Processes : Crash(p)) \/ UNCHANGED vars
      PROVE  UNCHANGED <<stored, tracker>>
  BY <1>5 DEF NextMonth, Crash, vars
<1>6. \A m \in Months \ stored : tracker[m] = Fresh
  BY DEF SoleInv
<1>7. CASE UNCHANGED <<stored, tracker>>
  BY <1>6, <1>7
<1>8. CASE \E c \in Callers : Step(c)
  BY <1>2, <1>3, <1>4, <1>6, <1>8 DEF Step
<1> QED
  BY <1>1, <1>4, <1>5, <1>7, <1>8 DEF Next

\* A caller works on a stored month once it has its tracker, and charges one call.
LEMMA WorksOnStored ==
  ASSUME TypeOK, SoleInv, [Next]_vars, NEW d \in Callers
  PROVE  /\ pc'[d] \in {"read", "update", "write", "alert", "mark"} => id'[d] \in stored'
         /\ op'[d] = "charge" => arg'[d] = 1 /\ d \in Jobs \cup Singles
<1> USE DEF db, locals, history
<1> DEFINE Working == {"read", "update", "write", "alert", "mark"}
<1>0. /\ id[d] \in Months
      /\ pc[d] \in Working => id[d] \in stored
      /\ op[d] = "charge" => arg[d] = 1 /\ d \in Jobs \cup Singles
  BY DEF SoleInv, SoleOf, TypeOK
<1>1. ASSUME NEW c \in Callers, Call(c)
      PROVE  /\ pc'[d] \in Working => id'[d] \in stored'
             /\ op'[d] = "charge" => arg'[d] = 1 /\ d \in Jobs \cup Singles
  BY <1>0, <1>1 DEF Call, Begin, Goto, CheckAndReserveQuota, IncrementCallCount,
     SetQuotaOverride, UpdateLimit, GetCurrentQuotaStatus, ResetMonthlyQuota, TypeOK
<1>2. ASSUME NEW c \in Callers, GetCurrent(c)
      PROVE  pc'[d] \in Working => id'[d] \in stored'
  <2>1. CASE c = d
    BY <1>2, <2>1 DEF GetCurrent, Goto, TypeOK
  <2>2. CASE c # d
    BY <1>0, <1>2, <2>2 DEF GetCurrent, HaveTracker, Decide, Goto, Return, TypeOK
  <2> QED
    BY <2>1, <2>2
<1>3. ASSUME NEW c \in Callers, Create(c)
      PROVE  pc'[d] \in Working => id'[d] \in stored'
  <2>1. stored' = stored \cup {id[c]} /\ UNCHANGED id
    BY <1>3 DEF Create, Insert
  <2>2. c # d => pc'[d] = pc[d]
    BY <1>3 DEF Create, HaveTracker, Decide, Goto, Return, TypeOK
  <2> QED
    BY <1>0, <2>1, <2>2
<1>4. ASSUME NEW c \in Callers,
             \/ ReadTracker(c) \/ UpdateTracker(c) \/ SetOverride(c)
             \/ UpdateQuotaLimit(c) \/ SendQuotaExceededAlert(c)
             \/ SetNotificationSent(c) \/ SendNotice(c) \/ StatementFails(c)
      PROVE  pc'[d] \in Working => id'[d] \in stored'
  <2>1. /\ UNCHANGED <<id, stored>>
        /\ pc'[d] \in Working => pc[d] \in Working
    BY <1>4 DEF ReadTracker, UpdateTracker, SetOverride, UpdateQuotaLimit,
       SendQuotaExceededAlert, AlertFails, AlertDone, SetNotificationSent,
       SendNotice, StatementFails, Goto, Return, TypeOK
  <2> QED
    BY <1>0, <2>1
<1>5. CASE NextMonth \/ (\E p \in Processes : Crash(p)) \/ UNCHANGED vars
  BY <1>0, <1>5 DEF NextMonth, Crash, vars
<1>6. ASSUME NEW c \in Callers, Step(c) \/ StatementFails(c)
      PROVE  UNCHANGED <<op, arg>>
  BY <1>6 DEF Step, GetCurrent, Create, ReadTracker, UpdateTracker, SetOverride,
     UpdateQuotaLimit, SendQuotaExceededAlert, SetNotificationSent, SendNotice,
     StatementFails
<1>7. CASE NextMonth \/ (\E p \in Processes : Crash(p)) \/ UNCHANGED vars
  BY <1>0, <1>7 DEF NextMonth, Crash, vars
<1> QED
  BY <1>0, <1>1, <1>2, <1>3, <1>4, <1>5, <1>6, <1>7 DEF Next, Step

\* What the sole charger has read stays true until it has written.
LEMMA NextSoleInv ==
  ASSUME NEW j, Jobs = {j}, Singles = {},
         TypeOK, RefusalInv, SoleInv, [Next]_vars, RefusalInv'
  PROVE  SoleInv'
<1>0. /\ \A c \in Callers : pc[c] = "update" => c = j /\ arg[c] = 1
      /\ \A c \in Callers : pc[c] = "update" => read[c].callCount = tracker[id[c]].callCount
      /\ \A m \in Months : tracker[m].callCount = charged[m] /\ charged[m] \in Nat
      /\ \A c \in Callers : id[c] \in Months
  BY DEF RefusalInv, RefusalOf, SoleInv, SoleOf, TypeOK
<1>1. ASSUME NEW m \in Months
      PROVE  /\ tracker'[m].callCount = charged'[m]
             /\ \/ tracker'[m].callCount = tracker[m].callCount
                \/ \E c \in Callers : pc[c] = "update" /\ pc'[c] # "update"
  <2>1. m \notin stored => tracker[m] = Fresh
    BY DEF SoleInv
  <2> QED
    BY <1>0, <2>1, CallCountWrites
<1>2. ASSUME NEW d \in Callers, pc'[d] = "update"
      PROVE  read'[d].callCount = tracker'[id'[d]].callCount
  <2>1. d = j
    BY <1>2, WorksOnStored DEF RefusalInv, RefusalOf
  <2> QED
    BY <1>0, <1>1, <1>2, <2>1, UpdateEntry
<1> QED
  BY <1>1, <1>2, StoredGrows, WorksOnStored DEF SoleInv, SoleOf

\* All that is known when a single job charges.
SoleChargerInv == TypeOK /\ CountInv /\ LimitInv /\ RefusalInv /\ SoleInv

\* That knowledge is an invariant.
LEMMA SoleChargerInvariant ==
  ASSUME NEW j, Jobs = {j}, Singles = {}
  PROVE  Spec => []SoleChargerInv
<1>1. Init => SoleChargerInv
  BY InitTypeOK, InitCountInv, InitLimitInv, InitRefusalInv, InitSoleInv DEF SoleChargerInv
<1>2. SoleChargerInv /\ [Next]_vars => SoleChargerInv'
  BY NextTypeOK, NextCountInv, NextLimitInv, NextRefusalInv, NextSoleInv DEF SoleChargerInv
<1> QED
  BY <1>1, <1>2, PTL DEF Spec

\* With one charging job, call_count is exact, whatever quota, batches, admins,
\* resets, failures and crashes there are: the updates of IncrementCallCount are
\* lost to other charging callers only.
THEOREM SoleCountExact ==
  ASSUME NEW j, Jobs = {j}, Singles = {}
  PROVE  Spec => []CountExact
<1>1. SoleChargerInv => CountExact
  BY DEF SoleChargerInv, SoleInv, TypeOK, CountExact
<1> QED
  BY <1>1, SoleChargerInvariant, PTL

\* With one charging job no tracker ever loses a counted call, not even to the
\* quota_reset job or to a month created twice.
THEOREM SoleUsageSurvives ==
  ASSUME NEW j, Jobs = {j}, Singles = {}
  PROVE  Spec => UsageSurvives
<1>1. ASSUME SoleChargerInv, [Next]_vars, NEW m \in stored
      PROVE  m \in stored' /\ tracker'[m].callCount >= tracker[m].callCount
  <2>1. m \in Months /\ tracker[m].callCount \in Nat
    BY <1>1, RowFields DEF SoleChargerInv, TypeOK
  <2>2. \A c \in Callers : pc[c] = "update" /\ id[c] = m =>
            read[c].callCount = tracker[m].callCount /\ arg[c] \in Nat
    BY <1>1 DEF SoleChargerInv, SoleInv, SoleOf, TypeOK
  <2>3. tracker'[m].callCount >= tracker[m].callCount
    BY <1>1, <2>1, <2>2, CallCountWrites DEF SoleChargerInv
  <2> QED
    BY <1>1, <2>3, StoredGrows DEF SoleChargerInv
<1>2. SoleChargerInv /\ [Next]_vars
        => [\A m \in stored : m \in stored' /\ tracker'[m].callCount >= tracker[m].callCount]_vars
  BY <1>1
<1> QED
  BY <1>2, SoleChargerInvariant, PTL DEF Spec, UsageSurvives

-------------------------------------------------------------------------------
(* The ledger. *)

\* Rows whose count and limit stay are the same to the ledger.
SameRows ==
    \A m \in Months : /\ tracker'[m].callCount = tracker[m].callCount
                      /\ tracker'[m].quotaLimit = tracker[m].quotaLimit

\* The four ways in which a step moves the rows and the credit of the only
\* customer j: lapse or no move, reservation, charge, change of limit.
Moves(j) ==
    \/ SameRows /\ Credit(j)' \in 0 .. Credit(j)
    \/ /\ SameRows
       /\ id'[j] = id[j]
       /\ Credit(j)' \in 1 .. (tracker[id[j]].quotaLimit - tracker[id[j]].callCount)
    \/ /\ Credit(j) > 0 /\ Credit(j)' = Credit(j) - 1
       /\ id'[j] = id[j]
       /\ \A m \in Months : tracker'[m].quotaLimit = tracker[m].quotaLimit
       /\ tracker'[id[j]].callCount = tracker[id[j]].callCount + 1
       /\ \A m \in Months \ {id[j]} : tracker'[m].callCount = tracker[m].callCount
    \/ /\ Credit(j)' = Credit(j)
       /\ \A m \in Months : tracker'[m].callCount = tracker[m].callCount
       /\ \E n \in Months :
             /\ tracker'[n].quotaLimit > 0
             /\ \A m \in Months \ {n} : tracker'[m].quotaLimit = tracker[m].quotaLimit

\* Each of them is a step of the ledger.
LEMMA LedgerMoves ==
  ASSUME NEW j, Jobs = {j}, TypeOK, TypeOK', Moves(j)
  PROVE  Ledger!Next
<1> DEFINE spent  == [m \in Months |-> tracker[m].callCount]
           limit  == [m \in Months |-> tracker[m].quotaLimit]
           credit == [c \in Jobs |-> Credit(c)]
<1>1. CASE SameRows /\ Credit(j)' \in 0 .. Credit(j)
  <2>1. spent' = spent /\ limit' = limit
    BY <1>1 DEF SameRows
  <2>2. \A c \in Jobs : credit'[c] \in 0 .. credit[c]
    BY <1>1
  <2>3. credit' = [c \in Jobs |-> credit'[c]]
    OBVIOUS
  <2> QED
    BY <2>1, <2>2, <2>3 DEF Ledger!Next, Ledger!Lapse
<1>2. ASSUME SameRows,
             NEW n \in Months,
             Credit(j)' \in 1 .. (tracker[n].quotaLimit - tracker[n].callCount)
      PROVE  Ledger!Next
  <2>1. spent' = spent /\ limit' = limit
    BY <1>2 DEF SameRows
  <2>2. credit'[j] \in 1 .. (limit[n] - spent[n])
    BY <1>2
  <2>3. credit' = [credit EXCEPT ![j] = credit'[j]]
    OBVIOUS
  <2> QED
    BY <2>1, <2>2, <2>3 DEF Ledger!Next, Ledger!Reserve
<1>3. ASSUME Credit(j) > 0, Credit(j)' = Credit(j) - 1,
             \A m \in Months : tracker'[m].quotaLimit = tracker[m].quotaLimit,
             NEW n \in Months,
             tracker'[n].callCount = tracker[n].callCount + 1,
             \A m \in Months \ {n} : tracker'[m].callCount = tracker[m].callCount
      PROVE  Ledger!Next
  <2>1. limit' = limit
    BY <1>3
  <2>2. spent' = [spent EXCEPT ![n] = @ + 1]
    BY <1>3
  <2>3. credit[j] > 0 /\ credit' = [credit EXCEPT ![j] = @ - 1]
    BY <1>3
  <2> QED
    BY <2>1, <2>2, <2>3 DEF Ledger!Next, Ledger!Charge
<1>4. ASSUME Credit(j)' = Credit(j),
             \A m \in Months : tracker'[m].callCount = tracker[m].callCount,
             NEW n \in Months,
             tracker'[n].quotaLimit > 0,
             \A m \in Months \ {n} : tracker'[m].quotaLimit = tracker[m].quotaLimit
      PROVE  Ledger!Next
  <2>1. spent' = spent /\ credit' = credit
    BY <1>4
  <2>2. limit'[n] > 0 /\ limit' = [limit EXCEPT ![n] = limit'[n]]
    BY <1>4
  <2> QED
    BY <2>1, <2>2 DEF Ledger!Next, Ledger!ChangeLimit
<1>5. id[j] \in Months
  BY DEF TypeOK, Callers
<1> HIDE DEF spent, limit, credit
<1> QED
  BY <1>1, <1>2, <1>3, <1>4, <1>5 DEF Moves

\* A step that leaves the rows alone and does not raise the job's credit.
LEMMA RowsAlone ==
  ASSUME NEW j, Jobs = {j}, TypeOK, TypeOK', UNCHANGED tracker, Credit(j)' <= Credit(j)
  PROVE  Moves(j)
<1>1. Credit(j) \in Nat /\ Credit(j)' \in Nat
  BY DEF TypeOK, Callers, Credit
<1>2. Credit(j)' \in 0 .. Credit(j) /\ SameRows
  BY <1>1 DEF SameRows
<1> QED
  BY <1>2 DEF Moves

\* The calls: a check gives up what was left, a charge takes its call in flight.
LEMMA CallMoves ==
  ASSUME NEW j, Jobs = {j}, Singles = {}, TypeOK, TypeOK', NEW c \in Callers, Call(c)
  PROVE  Moves(j)
<1>1. UNCHANGED tracker
  BY DEF Call, Begin, CheckAndReserveQuota, IncrementCallCount, SetQuotaOverride,
     UpdateLimit, GetCurrentQuotaStatus, ResetMonthlyQuota, db
<1>2. j \in Callers /\ grant[j] \in Nat
  BY DEF Callers, TypeOK
<1>3. CASE c # j
  <2>1. UNCHANGED <<grant[j], op[j], pc[j]>>
    BY <1>2, <1>3 DEF Call, Begin, Goto, CheckAndReserveQuota, IncrementCallCount,
       SetQuotaOverride, UpdateLimit, GetCurrentQuotaStatus, ResetMonthlyQuota, TypeOK
  <2>2. Credit(j)' = Credit(j)
    BY <2>1 DEF Credit, InFlight
  <2>3. Credit(j) \in Nat
    BY <1>2 DEF Credit
  <2> QED
    BY <1>1, <2>2, <2>3, RowsAlone
<1>4. CASE c = j
  <2>1. pc[j] = "idle" /\ Credit(j) = grant[j]
    BY <1>2, <1>4 DEF Call, Begin, CheckAndReserveQuota, IncrementCallCount,
       SetQuotaOverride, UpdateLimit, GetCurrentQuotaStatus, ResetMonthlyQuota,
       Credit, InFlight
  <2>2. CASE IncrementCallCount(j)
    <3>1. grant[j] > 0 /\ grant'[j] = grant[j] - 1
      BY <1>2, <2>2 DEF IncrementCallCount, TypeOK
    <3>2. Credit(j)' <= grant[j]
      BY <1>2, <3>1 DEF Credit, InFlight
    <3> QED
      BY <1>1, <2>1, <3>2, RowsAlone
  <2>3. CASE ~IncrementCallCount(j)
    <3>1. op'[j] # "charge" /\ grant'[j] \in {0, grant[j]}
      BY <1>2, <1>4, <2>3 DEF Call, Begin, CheckAndReserveQuota, SetQuotaOverride,
         UpdateLimit, GetCurrentQuotaStatus, ResetMonthlyQuota, TypeOK
    <3>2. Credit(j)' <= grant[j]
      BY <1>2, <3>1 DEF Credit, InFlight
    <3> QED
      BY <1>1, <2>1, <3>2, RowsAlone
  <2> QED
    BY <2>2, <2>3
<1> QED
  BY <1>3, <1>4

\* A tracker, stored or just created, is where a batch is reserved.
LEMMA HaveTrackerMoves ==
  ASSUME NEW j, Jobs = {j}, Singles = {}, TypeOK, TypeOK', RefusalInv,
         NEW c \in Callers, pc[c] \in {"get", "create"},
         UNCHANGED <<tracker, op, arg, id>>,
         HaveTracker(c, tracker[id[c]])
  PROVE  Moves(j)
<1>1. j \in Callers /\ grant[j] \in Nat /\ id[c] \in Months /\ tracker[id[c]] \in Row
  BY DEF Callers, TypeOK
<1>2. CASE c # j
  <2>1. UNCHANGED <<grant[j], op[j], pc[j]>>
    BY <1>1, <1>2 DEF HaveTracker, Decide, Goto, Return, TypeOK
  <2>2. Credit(j)' = Credit(j) /\ Credit(j) \in Nat
    BY <1>1, <2>1 DEF Credit, InFlight
  <2> QED
    BY <2>2, RowsAlone
<1>3. CASE c = j /\ op[j] # "check"
  <2>1. /\ grant'[j] = grant[j] /\ op'[j] = op[j]
        /\ op[j] = "charge" => pc[j] \in {"get", "create"}
    BY <1>1, <1>3 DEF HaveTracker
  <2>2. Credit(j)' <= Credit(j)
    BY <1>1, <1>3, <2>1 DEF Credit, InFlight
  <2> QED
    BY <2>2, RowsAlone
<1>4. CASE c = j /\ op[j] = "check"
  <2>1. Credit(j) = grant[j] /\ Credit(j)' = grant'[j]
    BY <1>4 DEF Credit, InFlight, TypeOK
  <2>2. CASE grant'[j] = grant[j]
    BY <1>1, <2>1, <2>2, RowsAlone
  <2>3. CASE grant'[j] # grant[j]
    <3>1. /\ grant'[j] = Allowed(tracker[id[j]], arg[j])
          /\ Allowed(tracker[id[j]], arg[j]) > 0
      BY <1>1, <1>4, <2>3 DEF HaveTracker, Decide, TypeOK
    <3>2. Credit(j)' \in 1 .. (tracker[id[j]].quotaLimit - tracker[id[j]].callCount)
      BY <1>1, <1>4, <2>1, <3>1, RowFields DEF Allowed, TypeOK
    <3>3. SameRows
      BY DEF SameRows
    <3> QED
      BY <1>1, <1>4, <3>2, <3>3 DEF Moves
  <2> QED
    BY <2>2, <2>3
<1> QED
  BY <1>2, <1>3, <1>4

\* The statements and mails that leave the rows' counts and limits alone.
LEMMA QuietStepMoves ==
  ASSUME NEW j, Jobs = {j}, Singles = {}, TypeOK, TypeOK', RefusalInv,
         NEW c \in Callers,
         \/ ReadTracker(c) \/ SetOverride(c) \/ SendQuotaExceededAlert(c)
         \/ SetNotificationSent(c) \/ SendNotice(c) \/ StatementFails(c)
  PROVE  Moves(j)
<1>1. j \in Callers /\ grant[j] \in Nat /\ Credit(j) \in Nat /\ Credit(j)' \in Nat
  BY DEF Callers, TypeOK, Credit
<1>2. UNCHANGED <<grant, op>> /\ (InFlight(j)' => InFlight(j))
  <2>1. UNCHANGED <<grant, op>>
    BY DEF ReadTracker, SetOverride, SendQuotaExceededAlert, SetNotificationSent,
       SendNotice, StatementFails, locals
  <2>2. \/ pc'[j] = pc[j]
        \/ pc'[j] \in {"mail", "mark", "idle"}
        \/ pc[j] = "read" /\ pc'[j] = "update"
    BY <1>1 DEF ReadTracker, SetOverride, SendQuotaExceededAlert, AlertFails, AlertDone,
       SetNotificationSent, SendNotice, StatementFails, Goto, Return, TypeOK
  <2> QED
    BY <2>1, <2>2 DEF InFlight
<1>3. Credit(j)' \in 0 .. Credit(j)
  BY <1>1, <1>2 DEF Credit
<1>4. SameRows
  <2> SUFFICES ASSUME NEW m \in Months
               PROVE  /\ tracker'[m].callCount = tracker[m].callCount
                      /\ tracker'[m].quotaLimit = tracker[m].quotaLimit
    BY DEF SameRows
  <2>1. tracker[m] \in Row
    BY DEF TypeOK
  <2>2. \/ tracker'[m] = tracker[m]
        \/ tracker'[m] = [tracker[m] EXCEPT !.overrideEnabled = Enabling(c)]
        \/ tracker'[m] = [tracker[m] EXCEPT !.notificationSent = TRUE]
    BY DEF ReadTracker, SetOverride, SendQuotaExceededAlert, SetNotificationSent,
       SendNotice, StatementFails, TypeOK, db
  <2> QED
    BY <2>1, <2>2 DEF Row
<1> QED
  BY <1>3, <1>4 DEF Moves

\* The update of IncrementCallCount charges the call in flight.
LEMMA UpdateMoves ==
  ASSUME NEW j, Jobs = {j}, Singles = {}, TypeOK, TypeOK', RefusalInv, SoleInv,
         NEW c \in Callers, UpdateTracker(c)
  PROVE  Moves(j)
<1>1. pc[c] = "update" /\ op[c] = "charge" /\ UNCHANGED id
  BY DEF UpdateTracker, RefusalInv, RefusalOf, locals
<1>2. /\ c = j /\ arg[j] = 1
      /\ read[j].callCount = tracker[id[j]].callCount
      /\ id[j] \in Months /\ tracker[id[j]] \in Row
      /\ tracker[id[j]].callCount \in Nat
  BY <1>1, RowFields DEF SoleInv, SoleOf, TypeOK
<1>3. Credit(j) > 0 /\ Credit(j)' = Credit(j) - 1
  <2>1. /\ InFlight(j) /\ ~InFlight(j)'
        /\ grant'[j] = grant[j] /\ grant[j] \in Nat
    BY <1>1, <1>2 DEF UpdateTracker, InFlight, Goto, Return, locals, TypeOK
  <2> QED
    BY <2>1 DEF Credit
<1> DEFINE n == NewCount(read[j], arg[j])
           row == [tracker[id[j]] EXCEPT !.callCount = n,
                                         !.quotaExceeded = Exceeds(n, read[j].quotaLimit)]
<1>4. tracker' = [tracker EXCEPT ![id[j]] = row]
  BY <1>2, Zenon DEF UpdateTracker
<1>5. /\ row.callCount = tracker[id[j]].callCount + 1
      /\ row.quotaLimit = tracker[id[j]].quotaLimit
  BY <1>2 DEF NewCount, Row
<1> HIDE DEF row
<1>6. /\ tracker'[id[j]] = row
      /\ \A m \in Months \ {id[j]} : tracker'[m] = tracker[m]
  BY <1>2, <1>4 DEF TypeOK
<1> QED
  BY <1>1, <1>2, <1>3, <1>5, <1>6 DEF Moves

\* UpdateLimit changes the limit of one month.
LEMMA LimitMoves ==
  ASSUME NEW j, Jobs = {j}, Singles = {}, TypeOK, TypeOK',
         NEW c \in Callers, UpdateQuotaLimit(c)
  PROVE  Moves(j)
<1>1. /\ j \in Callers /\ id[c] \in Months /\ arg[c] \in Nat
      /\ \A m \in Months : tracker[m] \in Row
  BY DEF Callers, TypeOK
<1>2. /\ Credit(j)' = Credit(j) /\ Credit(j) \in Nat
  <2>1. grant'[j] = grant[j] /\ grant[j] \in Nat /\ (InFlight(j)' <=> InFlight(j))
    BY <1>1 DEF UpdateQuotaLimit, InFlight, Return, Goto, locals, TypeOK
  <2> QED
    BY <2>1 DEF Credit
<1>3. CASE UNCHANGED tracker
  BY <1>2, <1>3, RowsAlone
<1>4. CASE ~UNCHANGED tracker
  <2>1. arg[c] > 0
    BY <1>4 DEF UpdateQuotaLimit, ValidLimit
  <2>2. /\ tracker'[id[c]] = [tracker[id[c]] EXCEPT !.quotaLimit = arg[c]]
        /\ \A m \in Months \ {id[c]} : tracker'[m] = tracker[m]
    BY <1>1, <1>4 DEF UpdateQuotaLimit, TypeOK
  <2>3. /\ tracker'[id[c]].quotaLimit = arg[c]
        /\ tracker'[id[c]].callCount = tracker[id[c]].callCount
    BY <1>1, <2>2 DEF Row
  <2> QED
    BY <1>1, <1>2, <2>1, <2>2, <2>3 DEF Moves
<1> QED
  BY <1>3, <1>4

\* A lookup reserves, or goes on to the insert.
LEMMA GetMoves ==
  ASSUME NEW j, Jobs = {j}, Singles = {}, TypeOK, TypeOK', RefusalInv,
         NEW c \in Callers, GetCurrent(c)
  PROVE  Moves(j)
<1>1. pc[c] = "get" /\ UNCHANGED <<tracker, op, arg>>
  BY DEF GetCurrent, db
<1>2. CASE id[c] \in stored
  BY <1>1, <1>2, HaveTrackerMoves DEF GetCurrent
<1>3. CASE id[c] \notin stored
  <2>1. grant'[j] = grant[j] /\ grant[j] \in Nat /\ (InFlight(j)' <=> InFlight(j))
    BY <1>1, <1>3 DEF GetCurrent, InFlight, Goto, TypeOK, Callers
  <2> QED
    BY <1>1, <2>1, RowsAlone DEF Credit
<1> QED
  BY <1>2, <1>3

\* An insert gives a month the row it was taken to have; its loser charges nothing.
LEMMA CreateMoves ==
  ASSUME NEW j, Jobs = {j}, Singles = {}, TypeOK, TypeOK', RefusalInv, SoleInv,
         NEW c \in Callers, Create(c)
  PROVE  Moves(j)
<1>1. /\ pc[c] = "create" /\ UNCHANGED <<op, arg, id>>
      /\ j \in Callers /\ grant[j] \in Nat /\ id[c] \in Months
  BY DEF Create, Callers, TypeOK
<1>2. UNCHANGED tracker
  BY <1>1 DEF Create, Insert, SoleInv, TypeOK, db
<1>3. CASE op[c] # "reset" /\ id[c] \notin stored
  <2>1. tracker[id[c]] = Fresh
    BY <1>1, <1>3 DEF SoleInv
  <2> QED
    BY <1>1, <1>2, <1>3, <2>1, HaveTrackerMoves DEF Create
<1>4. CASE ~(op[c] # "reset" /\ id[c] \notin stored)
  <2>1. grant'[j] = grant[j] /\ (InFlight(j)' => InFlight(j))
    BY <1>1, <1>4 DEF Create, InFlight, Goto, Return, TypeOK
  <2>2. Credit(j)' <= Credit(j)
    BY <1>1, <2>1 DEF Credit
  <2> QED
    BY <1>2, <2>2, RowsAlone
<1> QED
  BY <1>3, <1>4

\* The environment: a crash forgets credit, the clock moves nothing.
LEMMA EnvironmentMoves ==
  ASSUME NEW j, Jobs = {j}, TypeOK, TypeOK',
         NextMonth \/ (\E p \in Processes : Crash(p)) \/ UNCHANGED vars
  PROVE  Moves(j)
<1>1. /\ UNCHANGED <<tracker, op>>
      /\ j \in Callers /\ grant[j] \in Nat
      /\ grant'[j] \in {0, grant[j]} /\ pc'[j] \in {"idle", pc[j]}
  BY DEF NextMonth, Crash, vars, db, locals, Callers, TypeOK
<1>2. Credit(j)' <= Credit(j)
  BY <1>1 DEF Credit, InFlight
<1> QED
  BY <1>1, <1>2, RowsAlone

\* Whatever the step, it moves rows and credit in one of the four ways.
LEMMA NextMoves ==
  ASSUME NEW j, Jobs = {j}, Singles = {}, SoleChargerInv, SoleChargerInv', [Next]_vars
  PROVE  Moves(j)
<1> USE DEF SoleChargerInv
<1>1. ASSUME NEW c \in Callers, Step(c) \/ StatementFails(c)
      PROVE  Moves(j)
  BY <1>1, GetMoves, CreateMoves, UpdateMoves, LimitMoves, QuietStepMoves DEF Step
<1> QED
  BY <1>1, CallMoves, EnvironmentMoves DEF Next

\* With one charging job, every run of the quota module is a run of QuotaLedger:
\* a batch is reserved out of what is left and its calls are charged one by one,
\* though between the read and the write of either anything may happen.
THEOREM ImplementsLedger ==
  ASSUME NEW j, Jobs = {j}, Singles = {}
  PROVE  Spec => ActsAsLedger
<1>1. Init => Ledger!Init
  BY QuotaAssumption DEF Init, Ledger!Init, Credit, InFlight, Fresh, Months, Callers
<1>2. ASSUME SoleChargerInv, SoleChargerInv', [Next]_vars
      PROVE  [Ledger!Next]_(Ledger!vars)
  BY <1>2, NextMoves, LedgerMoves DEF SoleChargerInv
<1> QED
  BY <1>1, <1>2, SoleChargerInvariant, PTL DEF Spec, ActsAsLedger, Ledger!Spec

-------------------------------------------------------------------------------
(* The monthly limit. *)

\* The clock and the month a caller works on only go forward.
LEMMA ClockForward ==
  ASSUME TypeOK, [Next]_vars, NEW d \in Callers, id[d] <= month
  PROVE  id[d] <= id'[d] /\ id'[d] <= month'
<1> USE DEF db, locals, history
<1>0. id[d] \in Int /\ month \in Int
  BY QuotaAssumption DEF TypeOK, Months
<1>1. ASSUME NEW c \in Callers, Call(c)
      PROVE  month' = month /\ id'[d] \in {id[d], month}
  BY <1>1 DEF Call, Begin, CheckAndReserveQuota, IncrementCallCount,
     SetQuotaOverride, UpdateLimit, GetCurrentQuotaStatus, ResetMonthlyQuota, TypeOK
<1>2. ASSUME NEW c \in Callers, Step(c) \/ StatementFails(c)
      PROVE  month' = month /\ id'[d] \in {id[d], month}
  BY <1>2 DEF Step, GetCurrent, Create, ReadTracker, UpdateTracker, SetOverride,
     UpdateQuotaLimit, SendQuotaExceededAlert, SetNotificationSent, SendNotice,
     StatementFails, TypeOK
<1>3. CASE NextMonth \/ (\E p \in Processes : Crash(p)) \/ UNCHANGED vars
  BY <1>0, <1>3 DEF NextMonth, Crash, vars
<1> QED
  BY <1>0, <1>1, <1>2, <1>3 DEF Next

\* At first every month has the configured limit and no charges.
LEMMA InitSpendInv == Init => SpendInv
  BY QuotaAssumption DEF Init, SpendInv, Affordable, Credit, InFlight, Fresh,
     Months, Callers

\* A reservation fits under the limit of the job's month, and what is charged was
\* reserved: SpendInv is inductive while one job charges.
LEMMA NextSpendInv ==
  ASSUME NEW j, Jobs = {j}, Singles = {},
         SoleChargerInv, SoleChargerInv', SpendInv, [Next]_vars
  PROVE  SpendInv'
<1>1. /\ TypeOK /\ TypeOK' /\ LimitInv /\ j \in Callers
      /\ \A m \in Months : m \in Int /\ tracker[m].callCount = charged[m]
      /\ \A m \in Months : tracker'[m].callCount = charged'[m]
  BY DEF SoleChargerInv, SoleInv, Callers, Months
<1>2. /\ \A m \in Months : charged[m] \in Nat /\ charged'[m] \in Nat
      /\ \A m \in Months : tracker[m].quotaLimit \in Nat
      /\ id[j] \in Months /\ id'[j] \in Months
      /\ MonthlyQuota \in Nat
      /\ \A m \in Months : limits[m] \subseteq Nat /\ limits'[m] \subseteq Nat
  BY <1>1, RowFields, QuotaAssumption DEF TypeOK
<1>3. Credit(j) \in Nat /\ Credit(j)' \in Nat
  BY <1>1 DEF TypeOK, Credit
<1>4. \A m \in Months : \A k \in 1 .. m : k \in Months /\ limits[k] \subseteq limits'[k]
  <2> SUFFICES ASSUME NEW m \in Months, NEW k \in 1 .. m
               PROVE  k \in Months /\ limits[k] \subseteq limits'[k]
    OBVIOUS
  <2>1. k \in Months
    BY QuotaAssumption DEF Months
  <2> QED
    BY <1>1, <2>1, LimitWrites
<1>5. ASSUME NEW m \in Months, NEW n \in Nat, NEW k \in Nat, k <= n, Affordable(m, n)
      PROVE  \E i \in 1 .. m : \E l \in limits'[i] : k <= l
  <2>1. PICK i \in 1 .. m : \E l \in limits[i] : n <= l
    BY <1>5 DEF Affordable
  <2>2. PICK l \in limits[i] : n <= l
    BY <2>1
  <2>3. l \in limits'[i] /\ l \in Nat
    BY <1>2, <1>4
  <2> QED
    BY <1>5, <2>2, <2>3
<1>7. id[j] <= id'[j] /\ id'[j] <= month'
  BY <1>1, ClockForward DEF SpendInv
<1>9. ASSUME NEW m \in Months
      PROVE  /\ Affordable(m, charged[m])'
             /\ m > id'[j] => charged'[m] = 0
             /\ m >= id'[j] => Affordable(m, charged[m] + Credit(j))'
  <2>1. /\ Affordable(m, charged[m])
        /\ m > id[j] => charged[m] = 0
        /\ m >= id[j] => Affordable(m, charged[m] + Credit(j))
        /\ tracker[id[j]].quotaLimit \in limits[id[j]]
    BY <1>1, <1>2 DEF SpendInv, LimitInv
  <2>2. m \in Int /\ id[j] \in Int /\ id'[j] \in Int
    BY <1>1, <1>2
  <2>3. CASE charged'[m] = charged[m] /\ Credit(j)' <= Credit(j)
    <3>1. m >= id[j] => Affordable(m, charged[m] + Credit(j))'
      BY <1>2, <1>3, <1>5, <2>1, <2>3 DEF Affordable
    <3> QED
      BY <1>2, <1>5, <1>7, <2>1, <2>2, <2>3, <3>1 DEF Affordable
  <2>4. CASE /\ charged'[m] = charged[m]
             /\ id'[j] = id[j]
             /\ Credit(j)' \in 1 .. (tracker[id[j]].quotaLimit - tracker[id[j]].callCount)
    <3>1. m >= id[j] => charged[m] + Credit(j)' <= tracker[id[j]].quotaLimit
      BY <1>1, <1>2, <1>3, <2>1, <2>2, <2>4
    <3>2. m >= id[j] => Affordable(m, charged[m] + Credit(j))'
      <4>1. m >= id[j] => id[j] \in 1 .. m
        BY <1>1, <1>2 DEF Months
      <4>2. tracker[id[j]].quotaLimit \in limits'[id[j]]
        BY <1>1, <1>2, <2>1, LimitWrites
      <4> HIDE DEF Credit
      <4> QED
        BY <2>4, <3>1, <4>1, <4>2 DEF Affordable
    <3> QED
      BY <1>2, <1>5, <2>1, <2>4, <3>2 DEF Affordable
  <2>5. CASE /\ Credit(j) > 0 /\ Credit(j)' = Credit(j) - 1
             /\ id'[j] = id[j]
             /\ charged'[m] = charged[m] + (IF m = id[j] THEN 1 ELSE 0)
    <3>1. CASE m >= id[j]
      <4>1. /\ charged'[m] + Credit(j)' <= charged[m] + Credit(j)
            /\ charged'[m] <= charged[m] + Credit(j)
            /\ charged'[m] + Credit(j)' \in Nat
            /\ charged[m] + Credit(j) \in Nat
        BY <1>2, <1>3, <2>5
      <4>2. Affordable(m, charged[m] + Credit(j))
        BY <2>1, <3>1
      <4> HIDE DEF Credit
      <4>3. Affordable(m, charged[m] + Credit(j))' /\ Affordable(m, charged[m])'
        BY <1>2, <1>5, <4>1, <4>2 DEF Affordable
      <4> QED
        BY <2>1, <2>2, <2>5, <3>1, <4>3
    <3>2. CASE m < id[j]
      <4>1. charged'[m] = charged[m]
        BY <1>2, <2>2, <2>5, <3>2
      <4> QED
        BY <1>2, <1>5, <2>1, <2>2, <2>5, <3>2, <4>1 DEF Affordable
    <3> QED
      BY <2>2, <3>1, <3>2
  <2> QED
    <3>1. Moves(j)
      BY NextMoves
    <3> HIDE DEF Credit
    <3> QED
      BY <1>1, <1>2, <1>3, <2>3, <2>4, <2>5, <3>1 DEF Moves, SameRows
<1> QED
  BY <1>7, <1>9 DEF SpendInv

\* With one charging job the month's calls stay within the limit, whatever admins,
\* resets, failures and crashes do: a batch is allowed out of what is left, and
\* nobody else spends it meanwhile.  A limit that was lowered, or left behind by the
\* turn of the month, is overspent by a batch allowed under the earlier one only.
THEOREM SoleWithinLimit ==
  ASSUME NEW j, Jobs = {j}, Singles = {}
  PROVE  Spec => []WithinLimit
<1>1. TypeOK /\ SpendInv => WithinLimit
  BY DEF TypeOK, SpendInv, Affordable, WithinLimit
<1>2. SoleChargerInv /\ SoleChargerInv' /\ SpendInv /\ [Next]_vars => SpendInv'
  BY NextSpendInv
<1>3. SoleChargerInv => TypeOK
  BY DEF SoleChargerInv
<1> QED
  BY <1>1, <1>2, <1>3, InitSpendInv, SoleChargerInvariant, PTL DEF Spec

-------------------------------------------------------------------------------
(* The quota-exceeded mail. *)

\* Before the first call no mail is out.
LEMMA InitAlertInv == Init => AlertInv
<1> SUFFICES ASSUME Init
             PROVE  AlertInv
  OBVIOUS
<1>1. Fresh.quotaExceeded = FALSE /\ Fresh.notificationSent = FALSE
  BY DEF Fresh
<1>2. ASSUME NEW m \in Months
      PROVE  AlertsOf(m)
  BY <1>1 DEF Init, AlertsOf
<1>3. ASSUME NEW c \in Callers
      PROVE  AlertOf(c)
  BY DEF Init, AlertOf
<1> QED
  BY <1>2, <1>3 DEF AlertInv

\* Only the job that charges is past its lookup of a check or a charge.
LEMMA SoleCharger ==
  ASSUME NEW j, Jobs = {j}, Singles = {}, SoleChargerInv, AlertInv,
         NEW c \in Callers, pc[c] \in {"read", "update", "alert", "mark"}
  PROVE  c = j
  BY DEF SoleChargerInv, RefusalInv, RefusalOf, SoleInv, SoleOf, AlertInv, AlertOf

\* A flag that is up in an unmoved month stays up.
LEMMA FlagStays ==
  ASSUME SoleChargerInv, SoleChargerInv', [Next]_vars, NEW m \in Months \ Moved'
  PROVE  /\ m \notin Moved
         /\ tracker[m].quotaExceeded => tracker'[m].quotaExceeded
<1>1. /\ TypeOK /\ TypeOK'
      /\ tracker[m].callCount \in Nat /\ tracker'[m].callCount \in Nat
  BY RowFields DEF SoleChargerInv, TypeOK
<1>2. m \notin Moved
  BY MovedGrows DEF SoleChargerInv
<1>3. tracker'[m].callCount >= tracker[m].callCount
  <2>1. /\ tracker[m].callCount = charged[m]
        /\ tracker'[m].callCount = charged'[m]
        /\ \A c \in Callers : arg[c] \in Nat
    BY DEF SoleChargerInv, SoleInv, TypeOK
  <2> QED
    BY <1>1, <2>1, CallCountWrites
<1>4. /\ tracker[m].quotaExceeded <=> tracker[m].callCount >= MonthlyQuota
      /\ tracker'[m].quotaExceeded <=> tracker'[m].callCount >= MonthlyQuota
  <2>1. LimitInv /\ LimitInv'
    BY DEF SoleChargerInv
  <2>2. UnmovedInv
    BY <1>1, <2>1, UnmovedRows
  <2>3. UnmovedInv'
    <3>1. TypeOK' /\ LimitInv'
      BY <1>1, <2>1
    <3> QED
      BY <3>1, UnmovedRows, PTL
  <2> QED
    BY <1>2, <2>2, <2>3 DEF UnmovedInv
<1> QED
  BY <1>1, <1>2, <1>3, <1>4, QuotaAssumption

\* What a step does to the caller d when it leaves alone all that d relies on.
LEMMA AlertOfKept ==
  ASSUME NEW d \in Callers, AlertOf(d), Moved \subseteq Moved',
         UNCHANGED <<op[d], id[d], seen[d]>>,
         \/ pc'[d] = pc[d]
         \/ pc'[d] \notin {"read", "update", "alert", "mark"}
         \/ pc[d] = "read" /\ pc'[d] = "update"
         \/ pc[d] = "alert" /\ pc'[d] = "mark",
         pc'[d] \in {"read", "update", "alert", "mark"} =>
             /\ tracker'[id[d]].quotaExceeded = tracker[id[d]].quotaExceeded
             /\ tracker'[id[d]].notificationSent = tracker[id[d]].notificationSent
  PROVE  AlertOf(d)'
  BY DEF AlertOf

\* A step that sends no mail of the month and marks none, and takes no caller away
\* from its mark but by a failure.
LEMMA AlertsOfKept ==
  ASSUME NEW m \in Months, AlertsOf(m), TypeOK, TypeOK',
         m \notin Moved' => m \notin Moved /\
             (tracker[m].quotaExceeded => tracker'[m].quotaExceeded),
         tracker'[m].notificationSent = tracker[m].notificationSent,
         alerts'[m] = alerts[m],
         faults' >= faults,
         \/ faults' > faults
         \/ \A d \in Callers : pc[d] = "mark" => pc'[d] = "mark" /\ id'[d] = id[d]
  PROVE  AlertsOf(m)'
<1> SUFFICES ASSUME m \notin Moved'
             PROVE  /\ tracker'[m].notificationSent => tracker'[m].quotaExceeded
                    /\ alerts'[m] <= faults' +
                           (IF tracker'[m].notificationSent \/ Marking(m)' THEN 1 ELSE 0)
  BY DEF AlertsOf
<1>1. /\ alerts[m] \in Nat /\ faults \in Nat /\ faults' \in Nat
      /\ tracker[m].notificationSent => tracker[m].quotaExceeded
      /\ alerts[m] <= faults + (IF tracker[m].notificationSent \/ Marking(m) THEN 1 ELSE 0)
  BY DEF TypeOK, AlertsOf
<1>2. faults' > faults \/ (Marking(m) => Marking(m)')
  BY DEF Marking
<1> QED
  BY <1>1, <1>2

\* The rows a step does not write, and the flags of the rows it does.
LEMMA FlagsKept ==
  ASSUME TypeOK, SoleInv, NEW c \in Callers, NEW m \in Months,
         \/ GetCurrent(c) \/ Create(c) \/ ReadTracker(c)
         \/ SetOverride(c) \/ UpdateQuotaLimit(c)
         \/ SendQuotaExceededAlert(c) \/ SendNotice(c) \/ StatementFails(c)
         \/ (UpdateTracker(c) \/ SetNotificationSent(c)) /\ id[c] # m
  PROVE  /\ tracker'[m].quotaExceeded = tracker[m].quotaExceeded
         /\ tracker'[m].notificationSent = tracker[m].notificationSent
<1>1. tracker[m] \in Row
  BY DEF TypeOK
<1>2. \/ tracker'[m] = tracker[m]
      \/ tracker'[m] = [tracker[m] EXCEPT !.overrideEnabled = Enabling(c)]
      \/ tracker'[m] = [tracker[m] EXCEPT !.quotaLimit = arg[c]]
  <2>1. CASE UpdateTracker(c) /\ id[c] # m
    BY <2>1 DEF UpdateTracker, TypeOK
  <2>2. CASE SetNotificationSent(c) /\ id[c] # m
    BY <2>2 DEF SetNotificationSent, TypeOK
  <2>3. CASE Create(c)
    BY <2>3 DEF Create, Insert, SoleInv, TypeOK, db
  <2>4. CASE SetOverride(c) \/ UpdateQuotaLimit(c)
    BY <2>4 DEF SetOverride, UpdateQuotaLimit, TypeOK
  <2>5. CASE GetCurrent(c) \/ ReadTracker(c) \/ SendQuotaExceededAlert(c)
             \/ SendNotice(c) \/ StatementFails(c)
    BY <2>5 DEF GetCurrent, ReadTracker, SendQuotaExceededAlert, SendNotice,
       StatementFails, db
  <2> QED
    BY <2>1, <2>2, <2>3, <2>4, <2>5
<1> QED
  BY <1>1, <1>2 DEF Row

\* What a step that writes no flag does to the callers and the months.
LEMMA AlertInvKept ==
  ASSUME TypeOK, TypeOK', AlertInv,
         Moved \subseteq Moved',
         \A m \in Months : /\ tracker'[m].quotaExceeded = tracker[m].quotaExceeded
                           /\ tracker'[m].notificationSent = tracker[m].notificationSent,
         UNCHANGED alerts,
         faults' >= faults,
         \A d \in Callers :
             AlertOf(d)' \/ UNCHANGED <<pc[d], op[d], id[d], seen[d]>>,
         \/ faults' > faults
         \/ \A d \in Callers : pc[d] = "mark" => pc'[d] = "mark" /\ id'[d] = id[d]
  PROVE  AlertInv'
<1>1. ASSUME NEW d \in Callers
      PROVE  AlertOf(d)'
  <2>1. AlertOf(d) /\ id[d] \in Months
    BY DEF AlertInv, TypeOK
  <2> QED
    BY <2>1, AlertOfKept
<1>2. ASSUME NEW m \in Months
      PROVE  AlertsOf(m)'
  <2>1. AlertsOf(m)
    BY DEF AlertInv
  <2> QED
    BY <2>1, AlertsOfKept
<1> QED
  BY <1>1, <1>2 DEF AlertInv

\* A call that starts is not past its lookup, and only a job starts a check.
LEMMA CallKeepsAlerts ==
  ASSUME TypeOK, TypeOK', AlertInv, NEW c \in Callers, Call(c)
  PROVE  AlertInv'
<1>1. /\ UNCHANGED <<tracker, Moved, alerts, faults, seen>>
      /\ pc[c] = "idle" /\ pc'[c] \in {"get", "create"}
      /\ op'[c] = "check" => c \in Jobs
      /\ \A d \in Callers \ {c} : UNCHANGED <<pc[d], op[d], id[d]>>
  BY DEF Call, Begin, Goto, CheckAndReserveQuota, IncrementCallCount,
     SetQuotaOverride, UpdateLimit, GetCurrentQuotaStatus, ResetMonthlyQuota, TypeOK, Moved, Unchanged,
     db, history
<1>2. AlertOf(c)'
  BY <1>1 DEF AlertOf
<1>3. faults \in Int /\ faults' = faults
  BY <1>1 DEF TypeOK
<1>4. \A d \in Callers : AlertOf(d)' \/ UNCHANGED <<pc[d], op[d], id[d], seen[d]>>
  BY <1>1, <1>2
<1>5. \A d \in Callers : pc[d] = "mark" => pc'[d] = "mark" /\ id'[d] = id[d]
  BY <1>1
<1> QED
  BY <1>1, <1>3, <1>4, <1>5, AlertInvKept

\* A tracker, stored or just created, sends a check on to its alert only when its
\* flag is up and the mail unmarked, and a charge on with the flag it has.
LEMMA HaveTrackerKeepsAlerts ==
  ASSUME TypeOK, TypeOK', SoleInv, AlertInv, NEW c \in Callers,
         pc[c] \in {"get", "create"},
         UNCHANGED <<tracker, op, arg, id, Moved, alerts, faults>>,
         HaveTracker(c, tracker[id[c]])
  PROVE  AlertInv'
<1>1. /\ op[c] = "check" => c \in Jobs
      /\ id[c] \in Months
  BY DEF AlertInv, AlertOf, TypeOK
<1>2. /\ op[c] \in {"check", "charge"} => seen'[c] = tracker[id[c]]
      /\ pc'[c] \in {"read", "update"} => op[c] = "charge"
      /\ \A d \in Callers \ {c} : UNCHANGED <<pc[d], seen[d]>>
      /\ pc'[c] # "mark"
      /\ pc'[c] = "alert" =>
             /\ op[c] = "check"
             /\ tracker[id[c]].quotaExceeded
             /\ ~tracker[id[c]].notificationSent
  BY DEF HaveTracker, Decide, AlertDue, Blocked, Goto, Return, TypeOK
<1>3. AlertOf(c)'
  BY <1>1, <1>2 DEF AlertOf
<1>4. \A d \in Callers : AlertOf(d)' \/ UNCHANGED <<pc[d], op[d], id[d], seen[d]>>
  BY <1>2, <1>3
<1>5. \A d \in Callers : pc[d] = "mark" => pc'[d] = "mark" /\ id'[d] = id[d]
  BY <1>2
<1>6. faults \in Int /\ faults' = faults
  BY DEF TypeOK
<1> QED
  BY <1>4, <1>5, <1>6, AlertInvKept

\* A lookup and an insert give the caller its tracker, or leave it before it.
LEMMA LookupKeepsAlerts ==
  ASSUME TypeOK, TypeOK', SoleInv, AlertInv, NEW c \in Callers, GetCurrent(c) \/ Create(c)
  PROVE  AlertInv'
<1>1. /\ pc[c] \in {"get", "create"} /\ id[c] \in Months
      /\ UNCHANGED <<tracker, op, arg, Moved, alerts, faults>>
  BY DEF GetCurrent, Create, Insert, SoleInv, TypeOK, db, history, Moved, Unchanged
<1>2. CASE UNCHANGED id /\ HaveTracker(c, tracker[id[c]])
  BY <1>1, <1>2, HaveTrackerKeepsAlerts
<1>3. CASE ~(UNCHANGED id /\ HaveTracker(c, tracker[id[c]]))
  <2>1. /\ pc'[c] \in {"create", "mail", "idle"}
        /\ UNCHANGED seen
        /\ \A d \in Callers \ {c} : UNCHANGED <<pc[d], id[d]>>
    BY <1>1, <1>3 DEF GetCurrent, Create, SoleInv, Goto, Return, TypeOK
  <2>2. op[c] = "check" => c \in Jobs
    BY DEF AlertInv, AlertOf
  <2>3. AlertOf(c)'
    BY <1>1, <2>1, <2>2 DEF AlertOf
  <2>4. \A d \in Callers : AlertOf(d)' \/ UNCHANGED <<pc[d], op[d], id[d], seen[d]>>
    BY <1>1, <2>1, <2>3
  <2>5. \A d \in Callers : pc[d] = "mark" => pc'[d] = "mark" /\ id'[d] = id[d]
    BY <1>1, <2>1
  <2>6. faults \in Int /\ faults' = faults
    BY <1>1 DEF TypeOK
  <2> QED
    BY <1>1, <2>4, <2>5, <2>6, AlertInvKept
<1> QED
  BY <1>2, <1>3

\* The statements and the mail that leave no caller with a flag to act on.
LEMMA QuietStepKeepsAlerts ==
  ASSUME TypeOK, TypeOK', SoleInv, AlertInv, LimitInv, [Next]_vars, NEW c \in Callers,
         \/ ReadTracker(c) \/ SetOverride(c) \/ UpdateQuotaLimit(c)
         \/ SendNotice(c) \/ StatementFails(c)
  PROVE  AlertInv'
<1>1. /\ UNCHANGED <<op, id, seen, alerts>>
      /\ faults' \in {faults, faults + 1}
      /\ pc[c] # "mark"
      /\ pc'[c] \in {"mail", "idle"} \/ (pc[c] = "read" /\ pc'[c] = "update")
      /\ \A d \in Callers \ {c} : UNCHANGED pc[d]
  BY DEF ReadTracker, SetOverride, UpdateQuotaLimit, SendNotice, StatementFails, Fault,
     Goto, Return, TypeOK, locals, history
<1>2. faults \in Int /\ faults' >= faults
  BY <1>1 DEF TypeOK
<1>3. /\ Moved \subseteq Moved'
      /\ \A m \in Months : /\ tracker'[m].quotaExceeded = tracker[m].quotaExceeded
                           /\ tracker'[m].notificationSent = tracker[m].notificationSent
  BY MovedGrows, FlagsKept
<1>4. AlertOf(c)'
  <2>1. AlertOf(c) /\ id[c] \in Months
    BY DEF AlertInv, TypeOK
  <2> QED
    BY <1>1, <1>3, <2>1, AlertOfKept
<1>5. \A d \in Callers : AlertOf(d)' \/ UNCHANGED <<pc[d], op[d], id[d], seen[d]>>
  BY <1>1, <1>4
<1>6. \A d \in Callers : pc[d] = "mark" => pc'[d] = "mark" /\ id'[d] = id[d]
  BY <1>1
<1> QED
  BY <1>1, <1>2, <1>3, <1>5, <1>6, AlertInvKept

\* The environment: a crash that takes a caller from its mark is a fault.
LEMMA EnvironmentKeepsAlerts ==
  ASSUME TypeOK, TypeOK', AlertInv,
         NextMonth \/ (\E p \in Processes : Crash(p)) \/ UNCHANGED vars
  PROVE  AlertInv'
<1>1. UNCHANGED <<tracker, op, id, seen, Moved, alerts>>
  BY DEF NextMonth, Crash, vars, db, locals, history, Moved, Unchanged
<1>2. \/ faults' = faults /\ UNCHANGED pc
      \/ faults' = faults + 1 /\ \A d \in Callers : pc'[d] \in {pc[d], "idle"}
  BY DEF NextMonth, Crash, Fault, vars
<1>3. faults \in Int
  BY DEF TypeOK
<1>4. \A d \in Callers : AlertOf(d)' \/ UNCHANGED <<pc[d], op[d], id[d], seen[d]>>
  <2> SUFFICES ASSUME NEW d \in Callers
               PROVE  AlertOf(d)' \/ UNCHANGED <<pc[d], op[d], id[d], seen[d]>>
    OBVIOUS
  <2>1. AlertOf(d)
    BY DEF AlertInv
  <2>2. CASE pc'[d] = "idle"
    BY <1>1, <2>1, <2>2 DEF AlertOf
  <2> QED
    BY <1>1, <1>2, <2>2
<1> QED
  BY <1>1, <1>2, <1>3, <1>4, AlertInvKept

\* The update raises the alert of a charge only in the month it first exceeds.
LEMMA UpdateKeepsAlerts ==
  ASSUME NEW j, Jobs = {j}, Singles = {},
         SoleChargerInv, SoleChargerInv', AlertInv, [Next]_vars,
         NEW c \in Callers, UpdateTracker(c)
  PROVE  AlertInv'
<1>0. TypeOK /\ TypeOK' /\ SoleInv /\ SoleInv' /\ RefusalInv
  BY DEF SoleChargerInv
<1>1. /\ UNCHANGED <<op, id, seen, alerts, Moved, faults>>
      /\ pc[c] = "update" /\ pc'[c] \in {"alert", "idle"}
      /\ \A d \in Callers \ {c} : UNCHANGED pc[d]
  BY <1>0 DEF UpdateTracker, Goto, Return, TypeOK, locals, Moved, Unchanged
<1>2. /\ c = j /\ op[c] = "charge" /\ id[c] \in Months
      /\ \A d \in Callers \ {c} : pc[d] \notin {"read", "update", "alert", "mark"}
  BY <1>0, <1>1, SoleCharger DEF RefusalInv, RefusalOf, TypeOK
<1>3. PICK m \in Months : m = id[c]
  BY <1>2
<1>4. /\ tracker'[m].notificationSent = tracker[m].notificationSent
      /\ pc'[c] = "alert" => tracker'[m].quotaExceeded /\ ~seen[c].quotaExceeded
  <2> DEFINE n == NewCount(read[c], arg[c])
             exceeded == Exceeds(n, read[c].quotaLimit)
             row == [tracker[m] EXCEPT !.callCount = n, !.quotaExceeded = exceeded]
  <2>1. tracker'[m] = row
    <3>1. tracker' = [tracker EXCEPT ![id[c]] = [@ EXCEPT !.callCount = n,
                                                         !.quotaExceeded = exceeded]]
      BY Zenon DEF UpdateTracker
    <3> QED
      BY <1>0, <1>3, <3>1 DEF TypeOK
  <2>2. pc'[c] = "alert" => exceeded /\ ~seen[c].quotaExceeded
    BY <1>0 DEF UpdateTracker, Return, Goto, TypeOK
  <2>3. tracker[m] \in Row
    BY <1>0 DEF TypeOK
  <2> HIDE DEF exceeded, n
  <2>4. row.notificationSent = tracker[m].notificationSent /\ row.quotaExceeded = exceeded
    BY <2>3 DEF Row
  <2> QED
    BY <2>1, <2>2, <2>4
<1>5. \A k \in Months \ {m} :
          /\ tracker'[k].quotaExceeded = tracker[k].quotaExceeded
          /\ tracker'[k].notificationSent = tracker[k].notificationSent
  BY <1>0, <1>3, FlagsKept
<1>6. ASSUME NEW d \in Callers
      PROVE  AlertOf(d)'
  <2>1. AlertOf(d)
    BY DEF AlertInv
  <2>2. CASE d # c
    BY <1>1, <1>2, <2>1, <2>2, AlertOfKept
  <2>3. CASE d = c
    <3>1. AlertsOf(m)
      BY DEF AlertInv
    <3>2. tracker[m].notificationSent => tracker[m].quotaExceeded \/ m \in Moved
      BY <3>1 DEF AlertsOf
    <3>3. m \notin Moved => seen[c].quotaExceeded = tracker[m].quotaExceeded
      BY <1>1, <1>3, <2>1, <2>3 DEF AlertOf
    <3> QED
      BY <1>1, <1>2, <1>3, <1>4, <2>1, <2>3, <3>2, <3>3 DEF AlertOf
  <2> QED
    BY <2>2, <2>3
<1>7. ASSUME NEW k \in Months
      PROVE  AlertsOf(k)'
  <2>1. AlertsOf(k) /\ tracker'[k].notificationSent = tracker[k].notificationSent
    BY <1>4, <1>5 DEF AlertInv
  <2>2. k \notin Moved' => k \notin Moved /\
            (tracker[k].quotaExceeded => tracker'[k].quotaExceeded)
    BY FlagStays
  <2>3. faults' >= faults
    BY <1>0, <1>1 DEF TypeOK
  <2>4. \A d \in Callers : pc[d] = "mark" => pc'[d] = "mark" /\ id'[d] = id[d]
    BY <1>1
  <2> QED
    BY <1>0, <1>1, <2>1, <2>2, <2>3, <2>4, AlertsOfKept
<1> QED
  BY <1>6, <1>7 DEF AlertInv

\* The mail goes out in a month that no mark hides, and its mark comes next.
LEMMA SendKeepsAlerts ==
  ASSUME NEW j, Jobs = {j}, Singles = {},
         SoleChargerInv, SoleChargerInv', AlertInv, [Next]_vars,
         NEW c \in Callers, SendQuotaExceededAlert(c)
  PROVE  AlertInv'
<1>0. TypeOK /\ TypeOK' /\ SoleInv
  BY DEF SoleChargerInv
<1>1. /\ UNCHANGED <<tracker, op, id, seen, Moved>>
      /\ pc[c] = "alert" /\ pc'[c] \in {"mark", "idle"}
      /\ \A d \in Callers \ {c} : UNCHANGED pc[d]
      /\ \/ alerts' = [alerts EXCEPT ![id[c]] = @ + 1] /\ pc'[c] = "mark" /\ faults' = faults
         \/ alerts' = alerts /\ faults' = faults + 1
  BY <1>0 DEF SendQuotaExceededAlert, AlertFails, AlertDone, Fault, Goto, Return, TypeOK,
     db, locals, Moved, Unchanged
<1>2. /\ id[c] \in Months /\ faults \in Nat /\ faults' \in Nat
      /\ \A m \in Months : alerts[m] \in Nat /\ alerts'[m] \in Nat
      /\ \A d \in Callers \ {c} : pc[d] \notin {"read", "update", "alert", "mark"}
  BY <1>0, <1>1, SoleCharger DEF TypeOK
<1>3. ASSUME NEW d \in Callers
      PROVE  AlertOf(d)'
  <2>1. AlertOf(d)
    BY DEF AlertInv
  <2> QED
    BY <1>1, <2>1, AlertOfKept
<1>4. ASSUME NEW m \in Months
      PROVE  AlertsOf(m)'
  <2>1. AlertsOf(m) /\ AlertOf(c)
    BY DEF AlertInv
  <2>2. \A d \in Callers : pc[d] # "mark"
    BY <1>1, <1>2
  <2>3. CASE alerts'[m] = alerts[m] /\ faults' >= faults
    <3>1. \A d \in Callers : pc[d] = "mark" => pc'[d] = "mark" /\ id'[d] = id[d]
      BY <2>2
    <3> QED
      BY <1>0, <1>1, <2>1, <2>3, <3>1, AlertsOfKept
  <2>4. CASE m = id[c] /\ m \notin Moved /\ pc'[c] = "mark" /\ faults' = faults
             /\ alerts'[m] = alerts[m] + 1
    <3>1. Marking(m)' /\ ~Marking(m)
      BY <1>1, <2>2, <2>4 DEF Marking
    <3>2. /\ ~tracker[m].notificationSent
          /\ tracker[m].notificationSent => tracker[m].quotaExceeded
          /\ alerts[m] <= faults
                  + (IF tracker[m].notificationSent \/ Marking(m) THEN 1 ELSE 0)
      BY <1>1, <2>1, <2>4 DEF AlertsOf, AlertOf
    <3>3. alerts'[m] <= faults' + 1
      BY <1>2, <2>4, <3>1, <3>2
    <3> QED
      BY <1>1, <3>1, <3>2, <3>3 DEF AlertsOf
  <2>5. CASE m \in Moved
    BY <1>1, <2>5 DEF AlertsOf
  <2> QED
    BY <1>0, <1>1, <1>2, <2>3, <2>4, <2>5 DEF TypeOK
<1> QED
  BY <1>3, <1>4 DEF AlertInv

\* The mark, if it does not fail, hides the month from the next check.
LEMMA MarkKeepsAlerts ==
  ASSUME NEW j, Jobs = {j}, Singles = {},
         SoleChargerInv, SoleChargerInv', AlertInv, [Next]_vars,
         NEW c \in Callers, SetNotificationSent(c)
  PROVE  AlertInv'
<1>0. TypeOK /\ TypeOK' /\ SoleInv
  BY DEF SoleChargerInv
<1>1. /\ UNCHANGED <<op, id, seen, Moved, alerts>>
      /\ pc[c] = "mark" /\ pc'[c] = "idle"
      /\ \A d \in Callers \ {c} : UNCHANGED pc[d]
  BY <1>0 DEF SetNotificationSent, AlertDone, Goto, Return, TypeOK, locals, history,
     Moved, Unchanged
<1>2. /\ id[c] \in Months /\ faults \in Nat /\ faults' \in Nat
      /\ \A m \in Months : alerts[m] \in Nat
      /\ \A d \in Callers \ {c} : pc[d] \notin {"read", "update", "alert", "mark"}
  BY <1>0, <1>1, SoleCharger DEF TypeOK
<1>3. \/ /\ tracker' = [tracker EXCEPT ![id[c]] = [@ EXCEPT !.notificationSent = TRUE]]
         /\ faults' = faults
      \/ tracker' = tracker /\ faults' = faults + 1
  BY DEF SetNotificationSent, Fault
<1>4. ASSUME NEW d \in Callers
      PROVE  AlertOf(d)'
  <2>1. AlertOf(d)
    BY DEF AlertInv
  <2>2. pc'[d] \notin {"read", "update", "alert", "mark"}
    BY <1>1, <1>2
  <2> QED
    BY <1>1, <2>1, <2>2, AlertOfKept
<1>5. ASSUME NEW m \in Months
      PROVE  AlertsOf(m)'
  <2>1. AlertsOf(m) /\ AlertOf(c)
    BY DEF AlertInv
  <2>2. CASE tracker' = tracker /\ faults' = faults + 1
    <3>1. faults' > faults /\ faults' >= faults
      BY <1>2, <2>2
    <3>2. /\ m \notin Moved' => m \notin Moved /\
                (tracker[m].quotaExceeded => tracker'[m].quotaExceeded)
          /\ tracker'[m].notificationSent = tracker[m].notificationSent
          /\ alerts'[m] = alerts[m]
      BY <1>1, <2>2
    <3> QED
      BY <1>0, <2>1, <3>1, <3>2, AlertsOfKept
  <2>3. CASE tracker' = [tracker EXCEPT ![id[c]] = [@ EXCEPT !.notificationSent = TRUE]]
             /\ faults' = faults
    <3>1. CASE m = id[c] /\ m \notin Moved
      <4>1. tracker'[m] = [tracker[m] EXCEPT !.notificationSent = TRUE]
        BY <1>0, <1>2, <2>3, <3>1 DEF TypeOK
      <4>2. tracker[m] \in Row
        BY <1>0 DEF TypeOK
      <4>3. /\ tracker'[m].notificationSent
            /\ tracker'[m].quotaExceeded = tracker[m].quotaExceeded
        BY <4>1, <4>2 DEF Row
      <4>4. tracker[m].quotaExceeded
        BY <1>1, <2>1, <3>1 DEF AlertOf
      <4>5. alerts[m] <= faults + 1
        BY <1>2, <2>1, <3>1 DEF AlertsOf
      <4> QED
        BY <1>1, <2>3, <4>3, <4>4, <4>5 DEF AlertsOf
    <3>2. CASE m # id[c] /\ m \notin Moved
      <4>1. tracker'[m] = tracker[m]
        BY <1>0, <2>3, <3>2 DEF TypeOK
      <4>2. Marking(m) => Marking(m)'
        BY <1>1, <3>2 DEF Marking
      <4>3. /\ tracker[m].notificationSent => tracker[m].quotaExceeded
            /\ alerts[m] <= faults
                   + (IF tracker[m].notificationSent \/ Marking(m) THEN 1 ELSE 0)
        BY <2>1, <3>2 DEF AlertsOf
      <4>4. alerts'[m] <= faults'
                   + (IF tracker'[m].notificationSent \/ Marking(m)' THEN 1 ELSE 0)
        BY <1>1, <1>2, <2>3, <4>1, <4>2, <4>3
      <4> QED
        BY <4>1, <4>3, <4>4 DEF AlertsOf
    <3>3. CASE m \in Moved
      BY <1>1, <3>3 DEF AlertsOf
    <3> QED
      BY <3>1, <3>2, <3>3
  <2> QED
    BY <1>3, <2>2, <2>3
<1> QED
  BY <1>4, <1>5 DEF AlertInv

\* AlertInv is inductive while one job charges.
LEMMA NextAlertInv ==
  ASSUME NEW j, Jobs = {j}, Singles = {},
         SoleChargerInv, SoleChargerInv', AlertInv, [Next]_vars
  PROVE  AlertInv'
<1>1. /\ TypeOK /\ TypeOK' /\ SoleInv /\ LimitInv
  BY DEF SoleChargerInv
<1>2. ASSUME NEW c \in Callers, Step(c) \/ StatementFails(c)
      PROVE  AlertInv'
  BY <1>1, <1>2, LookupKeepsAlerts, QuietStepKeepsAlerts, UpdateKeepsAlerts,
     SendKeepsAlerts, MarkKeepsAlerts DEF Step
<1> QED
  BY <1>1, <1>2, CallKeepsAlerts, EnvironmentKeepsAlerts DEF Next

\* With one charging job the quota-exceeded mail of an unmoved month goes out
\* once, and once more for each failure at most: neither the check nor the charge
\* that finds the quota exceeded sends it again while a mark says that it is out.
THEOREM SoleAlertedOnce ==
  ASSUME NEW j, Jobs = {j}, Singles = {}
  PROVE  Spec => []AlertedOnce
<1>1. TypeOK /\ AlertInv => AlertedOnce
  <2> SUFFICES ASSUME TypeOK, AlertInv, NEW m \in Months \ Moved
               PROVE  alerts[m] <= 1 + faults
    BY DEF AlertedOnce, Moved
  <2> QED
    BY DEF TypeOK, AlertInv, AlertsOf
<1>2. SoleChargerInv /\ SoleChargerInv' /\ AlertInv /\ [Next]_vars => AlertInv'
  BY NextAlertInv
<1>3. SoleChargerInv => TypeOK
  BY DEF SoleChargerInv
<1> QED
  BY <1>1, <1>2, <1>3, InitAlertInv, SoleChargerInvariant, PTL DEF Spec
===============================================================================
