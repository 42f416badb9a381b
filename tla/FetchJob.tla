--------------------------------- MODULE FetchJob --------------------------------
(***************************************************************************)
(* The profile fetching job: ProfileFetcher.ExecuteFetchJob, and the fetch *)
(* of one entry by fetchSingleProfileEntry                                 *)
(* (pkg/usecase/usecase/profilefetcher/fetcher.go), on top of the          *)
(* repositories of entries, profiles and job history.                      *)
(*                                                                         *)
(* A run may overlap another one: cron starts a run without looking        *)
(* whether the last one is over, cmd/job is a second process, and the      *)
(* triggerProfileFetch and fetchProfileEntry mutations run in the server.  *)
(* Every statement, upload and API request is one step.  The quota, whose  *)
(* own races are the subject of module Quota, is one atomic counter here.  *)
(***************************************************************************)
EXTENDS Integers, FiniteSets

CONSTANTS
    NumEntries,    \* entries 1 .. NumEntries, in the order of created_at
    Missing,       \* entries the provider answers 404 for
    Runs,          \* executions of ExecuteFetchJob
    Singles,       \* executions of fetchSingleProfileEntry
    Web,           \* those of a GraphQL request: cancellable, panics recovered
    Processes,     \* sets of executions that live, and die, in one process
    Overlap,       \* whether a run may start while another one is going on
    Limit,         \* quota_limit of the month
    BatchSize,     \* batch_size of the job's configuration
    RespectQuota,  \* settings of respect_quota
    MaxRetries,    \* config.C.RapidAPI.RateLimitMaxRetries
    RateLimited,   \* whether the provider may answer 429
    MaxCalls,      \* bound: API calls are counted up to here
    MaxApiErrors,  \* bound: errors of the provider other than 404 and 429
    MaxFaults,     \* bound: failed statements, uploads and crashes
    MaxAdmin       \* bound: entries set by hand or deleted during the runs

Workers == Runs \cup Singles
Entries == 1 .. NumEntries

ASSUME FetchJobAssumption ==
    /\ NumEntries \in Nat
    /\ Missing \subseteq Entries
    /\ Web \subseteq Workers
    /\ Processes \subseteq SUBSET Workers
    /\ Runs \cap Singles = {}
    /\ Overlap \in BOOLEAN
    /\ RateLimited \in BOOLEAN
    /\ RespectQuota \subseteq BOOLEAN
    /\ Limit \in Nat \ {0}
    /\ BatchSize \in Nat \ {0}
    /\ MaxRetries \in Nat \ {0}
    /\ {MaxCalls, MaxApiErrors, MaxFaults, MaxAdmin} \subseteq Nat

VARIABLES
    entry,      \* the row of each entry: status, S3 key and fetch count
    profile,    \* the S3 key in the profile row of each entry, 0 without a row
    raw,        \* keys of the raw objects in the bucket, per entry
    cleaned,    \* keys of the cleaned objects in the bucket, per entry
    used,       \* call_count of the month
    history,    \* the job_execution_history row of each run
    pc,         \* next step of each worker
    local,      \* its variables
    cancelled,  \* whether the context of its request is cancelled
    fetched,    \* history: successful fetches of each entry, the last key given
    unmarked,   \* history: marks FETCHING that were lost, per entry
    asked,      \* history: times a person asked for this entry again
    errors,     \* history: errors of the provider
    edited,     \* history: entries set by hand to another status than PENDING
    interventions,  \* history: entries set by hand or deleted
    faults      \* history: failures of our own side

db     == <<entry, profile, raw, cleaned, used, history>>
admin  == <<edited, interventions>>
counts == <<fetched, unmarked, asked, errors, admin>>
ghost  == <<counts, faults>>
vars   == <<db, pc, local, cancelled, ghost>>

NoHistory == [status |-> "none"]

Fresh == [respect   |-> TRUE,  \* jobConfig.RespectQuota
          allowed   |-> 0,     \* allowedBatchSize
          batch     |-> {},    \* entries of pendingEntries still to do, in their order
          size      |-> 0,     \* len(pendingEntries)
          tries     |-> 0,     \* nonRateLimitAttempts
          verdict   |-> "none",
          key       |-> 0,     \* timestamp in the S3 keys
          found     |-> FALSE, \* whether Upsert has found a profile
          count     |-> 0,     \* fetch_count read by UpdateAfterFetch
          total     |-> 0,
          ok        |-> 0,
          failed    |-> 0,
          calls     |-> 0,
          taken     |-> {},    \* processedEntryIDs
          limited   |-> FALSE, \* quotaLimited
          remaining |-> 0]     \* quotaRemaining

Init ==
    /\ entry = [e \in Entries |-> [status |-> "PENDING", key |-> 0, count |-> 0]]
    /\ profile = [e \in Entries |-> 0]
    /\ raw = [e \in Entries |-> {}]
    /\ cleaned = [e \in Entries |-> {}]
    /\ used = 0
    /\ history = [w \in Runs |-> NoHistory]
    /\ pc = [w \in Workers |-> "idle"]
    /\ local = [w \in Workers |-> Fresh]
    /\ cancelled = [w \in Workers |-> FALSE]
    /\ fetched = [e \in Entries |-> 0]
    /\ unmarked = [e \in Entries |-> 0]
    /\ asked = [e \in Entries |-> 0]
    /\ errors = 0
    /\ edited = {}
    /\ interventions = 0
    /\ faults = 0

-------------------------------------------------------------------------------
(* Control. *)

Live(w) == pc[w] \notin {"idle", "ended", "dead"}

Goto(w, label) == pc' = [pc EXCEPT ![w] = label]
Keep(w, r)     == local' = [local EXCEPT ![w] = r]
Least(S)       == CHOOSE e \in S : \A d \in S : e <= d
Current(w)     == Least(local[w].batch)

\* A call with a live context, and the two ways a call can fail.
Works(w) == ~cancelled[w] /\ UNCHANGED faults
Fault    == faults < MaxFaults /\ faults' = faults + 1
Fails(w) == \/ cancelled[w] /\ UNCHANGED faults
            \/ ~cancelled[w] /\ Fault

SetStatus(e, s) ==
    entry' = [entry EXCEPT ![e].status = IF @ = "GONE" THEN @ ELSE s]

\* The whole batch counts as processed, even if the loop was left early.
EndBatch(w, r) ==
    /\ Keep(w, [r EXCEPT !.batch = {}, !.total = @ + r.size])
    /\ Goto(w, IF w \in Runs THEN "check" ELSE "ended")

NextEntry(w, r) ==
    \/ /\ r.batch # {Current(w)}
       /\ Keep(w, [r EXCEPT !.batch = @ \ {Current(w)}])
       /\ Goto(w, "mark")
    \/ /\ r.batch = {Current(w)}
       /\ EndBatch(w, r)

GiveUp(w, r, verdict) ==
    /\ Keep(w, [r EXCEPT !.verdict = verdict])
    /\ Goto(w, "fail")

\* A panic is recovered in a request; in a cron job or in cmd/job it ends the process.
DieWith(w) == IF w \in Web THEN {w} ELSE {w} \cup UNION {p \in Processes : w \in p}
Kill(ws)   == pc' = [w \in Workers |-> IF w \in ws /\ Live(w) THEN "dead" ELSE pc[w]]

-------------------------------------------------------------------------------
(* ExecuteFetchJob, up to the choice of a batch. *)

OneRunAtATime(w) == \A v \in Runs \ {w} : ~Live(v)

\* GetByName of the job's configuration; without it the run ends at once.
StartRun(w) ==
    /\ w \in Runs
    /\ pc[w] = "idle"
    /\ Overlap \/ OneRunAtATime(w)
    /\ \/ /\ Works(w)
          /\ \E b \in RespectQuota : Keep(w, [Fresh EXCEPT !.respect = b])
          /\ Goto(w, "check")
       \/ /\ Fails(w)
          /\ Goto(w, "ended")
          /\ UNCHANGED local
    /\ UNCHANGED <<db, cancelled, counts>>

\* The caller of fetchSingleProfileEntry has read the entry, whatever its status.
StartSingle(w) ==
    /\ w \in Singles
    /\ pc[w] = "idle"
    /\ \E e \in Entries :
           /\ entry[e].status # "GONE"
           /\ Keep(w, [Fresh EXCEPT !.batch = {e}, !.size = 1])
           /\ asked' = [asked EXCEPT ![e] = @ + 1]
    /\ Goto(w, "mark")
    /\ UNCHANGED <<db, cancelled, fetched, unmarked, errors, admin, faults>>

WholeBatch(left) == BatchSize  \* mutant: the quota only refuses, it does not cap
Allowed(left) == IF left < BatchSize THEN left ELSE BatchSize

\* CheckAndReserveQuota: an exhausted quota and a failed statement look the same.
CheckQuota(w) ==
    LET r == local[w]
        Go(n) == Keep(w, [r EXCEPT !.allowed = n]) /\ Goto(w, "select")
    IN  /\ pc[w] = "check"
        /\ \/ /\ Works(w)
              /\ used < Limit
              /\ Go(Allowed(Limit - used))
           \/ /\ Fails(w) \/ (Works(w) /\ used >= Limit)
              /\ \/ ~r.respect /\ Go(BatchSize)
                 \/ /\ r.respect
                    /\ r.total = 0
                    /\ Goto(w, "refused")
                    /\ UNCHANGED local
                 \/ /\ r.respect
                    /\ r.total > 0
                    /\ Keep(w, [r EXCEPT !.limited = TRUE])
                    /\ Goto(w, "status")
        /\ UNCHANGED <<db, cancelled, counts>>

PendingOrFailed ==  \* mutant: failed entries are tried again
    {e \in Entries : entry[e].status \in {"PENDING", "FAILED"}}

Pending == {e \in Entries : entry[e].status = "PENDING"}

Oldest(n, S) == {e \in S : Cardinality({d \in S : d < e}) < n}

Poll(w)           == Goto(w, "check")  \* mutant: the run waits for entries
NothingPending(w) == Goto(w, "status")

\* GetPendingBatch; if the query fails the run is over and leaves no history.
GetPendingBatch(w) ==
    LET batch == Oldest(local[w].allowed, Pending)
    IN  /\ pc[w] = "select"
        /\ \/ /\ Works(w)
              /\ batch = {}
              /\ NothingPending(w)
              /\ UNCHANGED local
           \/ /\ Works(w)
              /\ batch # {}
              /\ Keep(w, [local[w] EXCEPT !.batch = batch, !.size = Cardinality(batch)])
              /\ Goto(w, "mark")
           \/ /\ Fails(w)
              /\ Goto(w, "ended")
              /\ UNCHANGED local
        /\ UNCHANGED <<db, cancelled, counts>>

-------------------------------------------------------------------------------
(* One entry: the same steps in a run and in a single fetch, which counts too *)
(* here although nobody reads its counts. *)

NoMark(e)  == UNCHANGED entry  \* mutant: the entry is not claimed
MarkRow(e) == SetStatus(e, "FETCHING")

\* Nobody looks whether the mark could be written.
MarkFetching(w) ==
    LET e == Current(w)
    IN  /\ pc[w] = "mark"
        /\ \/ /\ Works(w)
              /\ MarkRow(e)
              /\ UNCHANGED unmarked
           \/ /\ Fails(w)
              /\ unmarked' = [unmarked EXCEPT ![e] = @ + 1]
              /\ UNCHANGED entry
        /\ Keep(w, [local[w] EXCEPT !.tries = 0])
        /\ Goto(w, "fetch")
        /\ UNCHANGED <<profile, raw, cleaned, used, history, cancelled,
                       fetched, asked, errors, admin>>

\* One turn of the loop of fetchProfileWithRetry.
Counted(w) == [local[w] EXCEPT !.calls = IF @ < MaxCalls THEN @ + 1 ELSE @]

FetchSucceeds(w) ==
    LET e == Current(w)
    IN  /\ pc[w] = "fetch"
        /\ ~cancelled[w]
        /\ e \notin Missing
        /\ fetched' = [fetched EXCEPT ![e] = @ + 1]
        /\ Keep(w, [Counted(w) EXCEPT !.key = fetched'[e]])
        /\ Goto(w, "charge")
        /\ UNCHANGED <<db, cancelled, unmarked, asked, errors, admin, faults>>

FetchNotFound(w) ==
    /\ pc[w] = "fetch"
    /\ ~cancelled[w]
    /\ Current(w) \in Missing
    /\ GiveUp(w, Counted(w), "NOT_FOUND")
    /\ UNCHANGED <<db, cancelled, ghost>>

\* A rate limit is waited out, however often it comes.
FetchRateLimited(w) ==
    /\ pc[w] = "fetch"
    /\ ~cancelled[w]
    /\ RateLimited
    /\ Keep(w, Counted(w))
    /\ Goto(w, "wait")
    /\ UNCHANGED <<db, cancelled, ghost>>

FetchFails(w) ==
    LET tries == local[w].tries + 1
    IN  /\ pc[w] = "fetch"
        /\ \/ cancelled[w] /\ UNCHANGED errors
           \/ ~cancelled[w] /\ errors < MaxApiErrors /\ errors' = errors + 1
        /\ \/ /\ tries < MaxRetries
              /\ Keep(w, [Counted(w) EXCEPT !.tries = tries])
              /\ Goto(w, "wait")
           \/ tries >= MaxRetries /\ GiveUp(w, Counted(w), "FAILED")
        /\ UNCHANGED <<db, cancelled, fetched, unmarked, asked, admin, faults>>

WaitToRetry(w) ==
    /\ pc[w] = "wait"
    /\ \/ cancelled[w] /\ GiveUp(w, local[w], "FAILED")
       \/ ~cancelled[w] /\ Goto(w, "fetch") /\ UNCHANGED local
    /\ UNCHANGED <<db, cancelled, ghost>>

\* IncrementCallCount, for a fetched profile only; its failure is logged.
Charge(w) ==
    /\ pc[w] = "charge"
    /\ \/ Works(w) /\ used' = used + 1
       \/ Fails(w) /\ UNCHANGED used
    /\ Goto(w, "raw")
    /\ UNCHANGED <<entry, profile, raw, cleaned, history, local, cancelled, counts>>

CarryOn(w)  == Fails(w) /\ Goto(w, "cleaned") /\ UNCHANGED local  \* mutant: no return
RawFails(w) == Fails(w) /\ GiveUp(w, local[w], "FAILED")

UploadRaw(w) ==
    LET e == Current(w)
    IN  /\ pc[w] = "raw"
        /\ \/ /\ Works(w)
              /\ raw' = [raw EXCEPT ![e] = @ \cup {local[w].key}]
              /\ Goto(w, "cleaned")
              /\ UNCHANGED local
           \/ /\ RawFails(w)
              /\ UNCHANGED raw
        /\ UNCHANGED <<entry, profile, cleaned, used, history, cancelled, counts>>

UploadCleaned(w) ==
    LET e == Current(w)
    IN  /\ pc[w] = "cleaned"
        /\ \/ /\ Works(w)
              /\ cleaned' = [cleaned EXCEPT ![e] = @ \cup {local[w].key}]
              /\ Goto(w, "find")
              /\ UNCHANGED local
           \/ /\ Fails(w)
              /\ GiveUp(w, local[w], "FAILED")
              /\ UNCHANGED cleaned
        /\ UNCHANGED <<entry, profile, raw, used, history, cancelled, counts>>

\* Upsert of the profile, first statement.
FindProfile(w) ==
    /\ pc[w] = "find"
    /\ \/ /\ Works(w)
          /\ Keep(w, [local[w] EXCEPT !.found = profile[Current(w)] # 0])
          /\ Goto(w, "save")
       \/ Fails(w) /\ GiveUp(w, local[w], "FAILED")
    /\ UNCHANGED <<db, cancelled, counts>>

\* Second statement: an update, or an insert that another one may have overtaken.
SaveProfile(w) ==
    LET e == Current(w)
        taken == ~local[w].found /\ profile[e] # 0
    IN  /\ pc[w] = "save"
        /\ \/ /\ Works(w)
              /\ ~taken
              /\ profile' = [profile EXCEPT ![e] = local[w].key]
              /\ Goto(w, "reread")
              /\ UNCHANGED local
           \/ /\ Fails(w) \/ (Works(w) /\ taken)
              /\ GiveUp(w, local[w], "FAILED")
              /\ UNCHANGED profile
        /\ UNCHANGED <<entry, raw, cleaned, used, history, cancelled, counts>>

\* UpdateAfterFetch, first statement: OnlyX panics when the row cannot be read.
RereadEntry(w) ==
    LET e == Current(w)
    IN  /\ pc[w] = "reread"
        /\ \/ /\ Works(w)
              /\ entry[e].status # "GONE"
              /\ Keep(w, [local[w] EXCEPT !.count = entry[e].count])
              /\ Goto(w, "complete")
           \/ /\ Fails(w) \/ (Works(w) /\ entry[e].status = "GONE")
              /\ Kill(DieWith(w))
              /\ UNCHANGED local
        /\ UNCHANGED <<db, cancelled, counts>>

\* CountTwice is a mutant: IncrementFetchCount is called as well.
CountTwice(n) == n + 2
CountUp(n)    == n + 1

\* Second statement; the fetch counts as a success even if it fails.
CompleteEntry(w) ==
    LET e == Current(w)
        r == [local[w] EXCEPT !.taken = @ \cup {e}, !.ok = @ + 1]
        row == [status |-> "COMPLETED", key |-> r.key, count |-> CountUp(r.count)]
    IN  /\ pc[w] = "complete"
        /\ \/ /\ Works(w)
              /\ entry' = [entry EXCEPT ![e] = IF @.status = "GONE" THEN @ ELSE row]
           \/ Fails(w) /\ UNCHANGED entry
        /\ \/ r.batch # {e} /\ Keep(w, r) /\ Goto(w, "sleep")
           \/ r.batch = {e} /\ EndBatch(w, r)
        /\ UNCHANGED <<profile, raw, cleaned, used, history, cancelled, counts>>

LeaveIt(w)      == UNCHANGED entry  \* mutant: the verdict is only logged
WriteVerdict(w) == SetStatus(Current(w), local[w].verdict)

\* Whatever failed, the entry gets its verdict, if it can be written.
FailEntry(w) ==
    /\ pc[w] = "fail"
    /\ \/ Works(w) /\ WriteVerdict(w)
       \/ Fails(w) /\ UNCHANGED entry
    /\ NextEntry(w, [local[w] EXCEPT !.failed = @ + 1])
    /\ UNCHANGED <<profile, raw, cleaned, used, history, cancelled, counts>>

\* The pause after a success; a cancelled one leaves the batch, not the run.
Pause(w) ==
    /\ pc[w] = "sleep"
    /\ \/ cancelled[w] /\ EndBatch(w, local[w])
       \/ ~cancelled[w] /\ NextEntry(w, local[w])
    /\ UNCHANGED <<db, cancelled, ghost>>

-------------------------------------------------------------------------------
(* ExecuteFetchJob, the report. *)

Skimp(r)           == r.total = 0 \/ ~r.limited  \* mutant: || for &&
NothingToReport(r) == r.total = 0 /\ ~r.limited

\* GetCurrentQuotaStatus; when it fails, zero calls remain.
ReadQuotaStatus(w) ==
    LET r == local[w]
    IN  /\ pc[w] = "status"
        /\ \/ Works(w) /\ Keep(w, [r EXCEPT !.remaining = Limit - used])
           \/ Fails(w) /\ Keep(w, [r EXCEPT !.remaining = 0])
        /\ Goto(w, IF NothingToReport(r) THEN "ended" ELSE "record")
        /\ UNCHANGED <<db, cancelled, counts>>

Outcome(r) ==
    IF r.failed > 0 /\ r.ok = 0 THEN "FAILED"
    ELSE IF r.failed > 0 \/ r.limited THEN "PARTIAL" ELSE "SUCCESS"

Report(r, status) ==
    [status    |-> status,
     total     |-> r.total,
     ok        |-> r.ok,
     failed    |-> r.failed,
     calls     |-> r.calls,
     remaining |-> r.remaining]

Unvalidated(r) == TRUE  \* mutant: quota_remaining may be negative
Valid(r) == r.remaining >= 0

Detached(w)  == UNCHANGED faults  \* mutant: a context of its own for the report
Recorded(w) == Works(w)

\* Create of the history: the schema wants quota_remaining not negative, and
\* the row refers to the entries of processedEntryIDs.
RecordHistory(w) ==
    LET r == local[w]
        linked == \A e \in r.taken : entry[e].status # "GONE"
    IN  /\ pc[w] = "record"
        /\ \/ /\ Recorded(w)
              /\ Valid(r) /\ linked
              /\ history' = [history EXCEPT ![w] = Report(r, Outcome(r))]
           \/ /\ Fails(w) \/ (Works(w) /\ ~(Valid(r) /\ linked))
              /\ UNCHANGED history
        /\ Goto(w, "ended")
        /\ UNCHANGED <<entry, profile, raw, cleaned, used, local, cancelled, counts>>

\* The report of a run that was refused before its first batch.
RecordRefusal(w) ==
    /\ pc[w] = "refused"
    /\ \/ /\ Works(w)
          /\ history' = [history EXCEPT ![w] = Report(local[w], "QUOTA_EXCEEDED")]
       \/ Fails(w) /\ UNCHANGED history
    /\ Goto(w, "ended")
    /\ UNCHANGED <<entry, profile, raw, cleaned, used, local, cancelled, counts>>

-------------------------------------------------------------------------------
(* The environment. *)

\* The client of a request goes away; its statements and requests fail from now on.
Cancel(w) ==
    /\ w \in Web
    /\ Live(w)
    /\ ~cancelled[w]
    /\ cancelled' = [cancelled EXCEPT ![w] = TRUE]
    /\ UNCHANGED <<db, pc, local, ghost>>

Crash(p) ==
    /\ \E w \in p : Live(w)
    /\ Fault
    /\ Kill(p)
    /\ UNCHANGED <<db, local, cancelled, counts>>

Intervene ==
    /\ interventions < MaxAdmin
    /\ interventions' = interventions + 1

\* deleteProfileEntry.
DeleteEntry(e) ==
    /\ Intervene
    /\ entry[e].status # "GONE"
    /\ entry' = [entry EXCEPT ![e].status = "GONE"]
    /\ UNCHANGED <<profile, raw, cleaned, used, history, pc, local, cancelled,
                   fetched, unmarked, asked, edited, errors, faults>>

\* Update of an entry: a person sets its status, to PENDING to have it fetched once
\* more.  (The resolver of updateProfileEntry does not hand the id on, so that the
\* mutation finds no row; until it does, the row is edited in the database.)
Settable == {"PENDING", "FETCHING", "COMPLETED", "FAILED"}

UpdateEntry(e) ==
    /\ Intervene
    /\ entry[e].status # "GONE"
    /\ \E s \in Settable \ {entry[e].status} :
           /\ SetStatus(e, s)
           /\ \/ /\ s = "PENDING"
                 /\ asked' = [asked EXCEPT ![e] = @ + 1]
                 /\ UNCHANGED edited
              \/ /\ s # "PENDING"
                 /\ edited' = edited \cup {e}
                 /\ UNCHANGED asked
    /\ UNCHANGED <<profile, raw, cleaned, used, history, pc, local, cancelled,
                   fetched, unmarked, errors, faults>>

\* The steps a started worker takes by itself, but for the answers of the provider.
Step(w) ==
    \/ CheckQuota(w)
    \/ GetPendingBatch(w)
    \/ MarkFetching(w)
    \/ WaitToRetry(w)
    \/ Charge(w)
    \/ UploadRaw(w)
    \/ UploadCleaned(w)
    \/ FindProfile(w)
    \/ SaveProfile(w)
    \/ RereadEntry(w)
    \/ CompleteEntry(w)
    \/ FailEntry(w)
    \/ Pause(w)
    \/ ReadQuotaStatus(w)
    \/ RecordHistory(w)
    \/ RecordRefusal(w)

Answer(w) ==
    \/ FetchSucceeds(w)
    \/ FetchNotFound(w)
    \/ FetchFails(w)

Rest == (\A w \in Workers : ~Live(w)) /\ UNCHANGED vars

Next ==
    \/ \E w \in Workers :
           \/ StartRun(w)
           \/ StartSingle(w)
           \/ Step(w)
           \/ Answer(w)
           \/ FetchRateLimited(w)
           \/ Cancel(w)
    \/ \E p \in Processes : Crash(p)
    \/ \E e \in Entries : DeleteEntry(e) \/ UpdateEntry(e)
    \/ Rest

Spec == Init /\ [][Next]_vars

\* A started worker goes on, and each of its requests is answered somehow.
FairSpec ==
    /\ Spec
    /\ \A w \in Workers :
           WF_vars(Step(w)) /\ WF_vars(Answer(w) \/ FetchRateLimited(w))

\* The provider moreover stops answering 429 at some time.
PatientSpec == FairSpec /\ \A w \in Workers : SF_vars(Answer(w))

-------------------------------------------------------------------------------
(* Properties. *)

Statuses == {"PENDING", "FETCHING", "COMPLETED", "FAILED", "NOT_FOUND", "GONE"}
Labels   == {"idle", "check", "refused", "select", "mark", "fetch", "wait", "charge",
             "raw", "cleaned", "find", "save", "reread", "complete", "fail", "sleep",
             "status", "record", "ended", "dead"}

Reports == [status    : {"SUCCESS", "FAILED", "PARTIAL", "QUOTA_EXCEEDED"},
            total     : Nat,
            ok        : Nat,
            failed    : Nat,
            calls     : Nat,
            remaining : Nat]

Locals == [respect   : BOOLEAN,
           allowed   : Nat,
           batch     : SUBSET Entries,
           size      : Nat,
           tries     : Nat,
           verdict   : {"none", "FAILED", "NOT_FOUND"},
           key       : Nat,
           found     : BOOLEAN,
           count     : Nat,
           total     : Nat,
           ok        : Nat,
           failed    : Nat,
           calls     : Nat,
           taken     : SUBSET Entries,
           limited   : BOOLEAN,
           remaining : Int]

\* Type invariant of the fetch job.
TypeOK ==
    /\ entry \in [Entries -> [status : Statuses, key : Nat, count : Nat]]
    /\ profile \in [Entries -> Nat]
    /\ raw \in [Entries -> SUBSET Nat]
    /\ cleaned \in [Entries -> SUBSET Nat]
    /\ used \in Nat
    /\ history \in [Runs -> Reports \cup {NoHistory}]
    /\ pc \in [Workers -> Labels]
    /\ local \in [Workers -> Locals]
    /\ cancelled \in [Workers -> BOOLEAN]
    /\ fetched \in [Entries -> Nat]
    /\ unmarked \in [Entries -> Nat]
    /\ asked \in [Entries -> Nat]
    /\ errors \in Nat
    /\ edited \subseteq Entries
    /\ interventions \in Nat
    /\ faults \in Nat

\* An S3 key that stands in a profile or an entry names two uploaded objects,
\* and an entry completed by a fetch has its profile, whatever failed, died or
\* overlapped on the way (the order of the uploads, Upsert and UpdateAfterFetch).
\* Only a person who sets COMPLETED by hand can make an entry claim more.
Uploaded(e, key) == key \in raw[e] /\ key \in cleaned[e]

NoDanglingKeys ==
    \A e \in Entries :
        /\ profile[e] # 0 => Uploaded(e, profile[e])
        /\ entry[e].key # 0 => Uploaded(e, entry[e].key)
        /\ entry[e].status = "COMPLETED" /\ e \notin edited
           => profile[e] # 0 /\ entry[e].key # 0

\* The counts of a saved report add up: each entry of its batches was either
\* fetched or failed, though a cancelled pause leaves a batch in the middle.
HistoryAddsUp ==
    \A w \in Runs :
        LET h == history[w] IN h # NoHistory => h.ok + h.failed = h.total

\* Runs that do not overlap fetch an entry once, and once more only when
\* somebody asked for it or its mark FETCHING could not be written.
FetchedOnce ==
    \A e \in Entries : fetched[e] <= 1 + asked[e] + unmarked[e]

\* A month's quota is kept when nothing but runs that respect it, one at a
\* time, uses it: a batch never holds more entries than the quota allowed.
WithinQuota == used <= Limit

\* To the quota, such runs are the customers of QuotaLedger: what a run was
\* allowed and has not charged is its credit.  That is the whole allowance until
\* the batch is read, then the entries whose profile is still to be charged.
Uncharged == {"mark", "fetch", "wait", "charge"}
Done      == {"raw", "cleaned", "find", "save", "reread", "complete", "fail", "sleep"}

CreditAt(label, r) ==
    CASE label = "select"    -> r.allowed
      [] label \in Uncharged -> Cardinality(r.batch)
      [] label \in Done      -> Cardinality(r.batch) - 1
      [] OTHER               -> 0

Credit(w) == CreditAt(pc[w], local[w])

Ledger == INSTANCE QuotaLedger WITH
    Customers    <- Runs,
    Months       <- {1},
    MonthlyQuota <- Limit,
    spent        <- [m \in {1} |-> used],
    limit        <- [m \in {1} |-> Limit],
    credit       <- [w \in Runs |-> Credit(w)]

KeepsLedger == Ledger!Spec

\* UpdateAfterFetch may lose a count to a concurrent one, because it writes back
\* fetch_count + 1 of a row read before; it never counts a fetch that was not
\* made, and a completed entry counts one at least unless a person completed it.
FetchCountLags ==
    \A e \in Entries :
        /\ entry[e].count <= fetched[e]
        /\ entry[e].status = "COMPLETED" /\ e \notin edited => entry[e].count >= 1

\* Runs that do not overlap leave an entry that was completed, has failed or
\* was not found as it is, until somebody asks for it or sets its status by hand
\* (ExecuteFetchJob takes PENDING entries only).
Settled(e) == entry[e].status \in {"COMPLETED", "FAILED", "NOT_FOUND"}

SettledStaysSettled ==
    [][\A e \in Entries :
           Settled(e) /\ asked'[e] = 0 /\ e \notin edited'
           => entry'[e].status \in {entry[e].status, "GONE"}]_vars

\* An entry that reads FETCHING, and not by hand, is the current one of a worker
\* still at it.
FetchingMeansActive ==
    \A e \in Entries \ edited :
        entry[e].status = "FETCHING" =>
            \E w \in Workers : Live(w) /\ local[w].batch # {} /\ Current(w) = e

\* As long as nothing fails, dies or is cancelled, no entry is left FETCHING,
\* even when two runs process it at once and write its status in turns.
Undisturbed == faults = 0 /\ \A w \in Workers : ~cancelled[w] /\ pc[w] # "dead"

NoOrphans == Undisturbed => FetchingMeansActive

\* A run that has processed entries and ended leaves its report in the
\* history, unless a failure, a cancellation or a deleted entry prevents it.
Deleted == \E e \in Entries : entry[e].status = "GONE"

RunsAreRecorded ==
    \A w \in Runs :
        /\ pc[w] = "ended" /\ local[w].total > 0
        /\ Undisturbed /\ ~Deleted
        => history[w] # NoHistory

\* A started worker comes to its end: the loop over batches runs out of
\* entries or of quota, and the retries of one entry come to an end.
EveryRunEnds == \A w \in Workers : Live(w) ~> ~Live(w)
===============================================================================
