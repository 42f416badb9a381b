-------------------------------- MODULE Scheduler -------------------------------
(***************************************************************************)
(* The cron scheduler of the server                                        *)
(* (pkg/infrastructure/scheduler/cron.go), the dashboard's requests that   *)
(* change a job's configuration and reload its schedule                    *)
(* (pkg/adapter/controller/cronjob.go), and the server's boot and shutdown *)
(* around it (cmd/app/main.go).                                            *)
(*                                                                         *)
(* The configuration is in the database and survives the server; the cron  *)
(* entries and the map entryIDs do not.  The map is shared by the requests *)
(* without a lock, and a reload is several steps.  The cron library        *)
(* (robfig/cron) is modelled as the set of its entries: it starts every    *)
(* due entry in a goroutine of its own, and its Stop waits for them.       *)
(***************************************************************************)
EXTENDS Integers, FiniteSets

CONSTANTS
    Jobs,        \* job names, each of its own job type
    Admins,      \* requests updateCronJob and toggleCronJob
    Runs,        \* executions of a cron entry
    Schedules,   \* schedules that parse
    Default,     \* the configured schedule of initializeDefaultConfigs
    Bad,         \* a schedule that does not parse
    MaxRequests, \* bound: requests
    MaxBoots,    \* bound: starts of the server
    MaxFaults    \* bound: failed statements and crashes

ASSUME SchedulerAssumption ==
    /\ IsFiniteSet(Jobs)
    /\ Default \in Schedules
    /\ Bad \notin Schedules
    /\ {MaxRequests, MaxBoots, MaxFaults} \subseteq Nat

VARIABLES
    config,    \* the cron_job_configs row of each job
    server,    \* what the server is at: down, init, list, up, stopping
    todo,      \* jobs the booting server has still to initialise
    entries,   \* the entries of the cron library
    lastId,    \* the last entry id it has given
    entryIDs,  \* the scheduler's map from job names to entry ids, 0 if absent
    pc,        \* next step of each request
    req,       \* its arguments and variables
    run,       \* what each execution is at, and for which job
    requests,  \* history: requests so far
    boots,     \* history: starts of the server so far
    faults,    \* history: failures so far
    raced,     \* history: jobs with two requests at once since the server started
    broken     \* history: jobs of which a reload failed since then

cronState == <<entries, lastId, entryIDs>>
spoilt    == <<raced, broken>>
ghost     == <<requests, boots, faults, spoilt>>
vars      == <<config, server, todo, cronState, pc, req, run, ghost>>

NoRequest == [op       |-> "none",
              job      |-> "none",
              fields   |-> {},       \* the fields of the input that are present
              enabled  |-> FALSE,
              schedule |-> Default,  \* as asked for, later as reloaded
              id       |-> 0]        \* the cron entry looked up, later registered
NoRun     == [at |-> "none", job |-> "none"]

Init ==
    /\ config = [j \in Jobs |-> [stored |-> FALSE, enabled |-> FALSE, schedule |-> Default]]
    /\ server = "down"
    /\ todo = {}
    /\ entries = {}
    /\ lastId = 0
    /\ entryIDs = [j \in Jobs |-> 0]
    /\ pc = [a \in Admins |-> "idle"]
    /\ req = [a \in Admins |-> NoRequest]
    /\ run = [r \in Runs |-> NoRun]
    /\ requests = 0
    /\ boots = 0
    /\ faults = 0
    /\ raced = {}
    /\ broken = {}

-------------------------------------------------------------------------------
(* Control. *)

Goto(a, label) == pc' = [pc EXCEPT ![a] = label]

Works == UNCHANGED faults
Fault == faults < MaxFaults /\ faults' = faults + 1

AnySchedule(s) == TRUE  \* mutant: AddFunc's error is dropped
Parses(s)      == s \in Schedules

\* AddFunc gives the entry the next id.
Entry(j, id) == [job |-> j, schedule |-> config[j].schedule, id |-> id]

\* The process is gone: requests, executions, cron entries and the map with it.
Down ==
    /\ server' = "down"
    /\ todo' = {}
    /\ entries' = {}
    /\ lastId' = 0
    /\ entryIDs' = [j \in Jobs |-> 0]
    /\ pc' = [a \in Admins |-> "idle"]
    /\ req' = [a \in Admins |-> NoRequest]
    /\ run' = [r \in Runs |-> NoRun]
    /\ raced' = {}
    /\ broken' = {}

-------------------------------------------------------------------------------
(* Boot and shutdown. *)

Boot ==
    /\ server = "down"
    /\ boots < MaxBoots
    /\ boots' = boots + 1
    /\ server' = "init"
    /\ todo' = Jobs
    /\ UNCHANGED <<config, cronState, pc, req, run, requests, faults, spoilt>>

\* A job without a row gets the default one.  A failed look-up is passed over,
\* a failed insert ends the server.
InitializeDefaultConfig(j) ==
    /\ server = "init"
    /\ j \in todo
    /\ \/ /\ Works
          /\ config' = [config EXCEPT ![j] =
                           IF @.stored THEN @
                           ELSE [stored |-> TRUE, enabled |-> TRUE, schedule |-> Default]]
          /\ todo' = todo \ {j}
          /\ UNCHANGED <<server, cronState, pc, req, run, spoilt>>
       \/ /\ Fault
          /\ todo' = todo \ {j}
          /\ UNCHANGED <<config, server, cronState, pc, req, run, spoilt>>
       \/ /\ Fault
          /\ ~config[j].stored
          /\ Down
          /\ UNCHANGED config
    /\ UNCHANGED <<requests, boots>>

ListEnabled(j) == config[j].stored /\ config[j].enabled

\* Start registers the enabled jobs whose schedule parses; then requests come in.
RegisterEnabled ==
    LET js == {j \in Jobs : ListEnabled(j) /\ Parses(config[j].schedule)}
    IN  /\ server = "init"
        /\ todo = {}
        /\ \/ /\ Works
              /\ \E ids \in [js -> 1 .. Cardinality(js)] :
                     /\ \A j, k \in js : j # k => ids[j] # ids[k]
                     /\ entries' = {Entry(j, ids[j]) : j \in js}
                     /\ entryIDs' = [j \in Jobs |-> IF j \in js THEN ids[j] ELSE 0]
              /\ lastId' = Cardinality(js)
              /\ server' = "up"
              /\ UNCHANGED <<todo, pc, req, run, spoilt>>
           \/ Fault /\ Down
        /\ UNCHANGED <<config, requests, boots>>

\* SIGTERM: the library stops starting entries.
Stop ==
    /\ server = "up"
    /\ server' = "stopping"
    /\ UNCHANGED <<config, todo, cronState, pc, req, run, ghost>>

\* The process exits when the executions of cron entries have returned; requests,
\* and the fetches that requests have started, are cut off.
Exit ==
    /\ server = "stopping"
    /\ \A r \in Runs : run[r] = NoRun
    /\ Down
    /\ UNCHANGED <<config, requests, boots, faults>>

Crash ==
    /\ server # "down"
    /\ Fault
    /\ Down
    /\ UNCHANGED <<config, requests, boots>>

-------------------------------------------------------------------------------
(* Executions. *)

\* The library starts an entry, whether or not an execution of it is going on.
Fire(r) ==
    /\ server = "up"
    /\ run[r] = NoRun
    /\ \E x \in entries : run' = [run EXCEPT ![r] = [at |-> "stamp", job |-> x.job]]
    /\ UNCHANGED <<config, server, todo, cronState, pc, req, ghost>>

\* updateLastRun; its failure is logged.
UpdateLastRun(r) ==
    /\ run[r].at = "stamp"
    /\ Works \/ Fault
    /\ run' = [run EXCEPT ![r].at = "execute"]
    /\ UNCHANGED <<config, server, todo, cronState, pc, req, requests, boots, spoilt>>

\* ExecuteFetchJob or ResetMonthlyQuota returns, and so does the execution.
ExecuteJob(r) ==
    /\ run[r].at = "execute"
    /\ run' = [run EXCEPT ![r] = NoRun]
    /\ UNCHANGED <<config, server, todo, cronState, pc, req, ghost>>

-------------------------------------------------------------------------------
(* Requests: Update and Toggle of the controller, and ReloadSchedule. *)

Serving == server \in {"up", "stopping"}

Input(op, j, fields, enabled, schedule) ==
    [op |-> op, job |-> j, fields |-> fields, enabled |-> enabled, schedule |-> schedule,
     id |-> 0]

Inputs ==
    {Input("toggle", j, {"enabled"}, b, NoRequest.schedule) : j \in Jobs, b \in BOOLEAN}
    \cup {Input("update", j, {"enabled"}, b, NoRequest.schedule) :
             j \in Jobs, b \in BOOLEAN}
    \cup {Input("update", j, {"schedule"}, NoRequest.enabled, x) :
             j \in Jobs, x \in Schedules \cup {Bad}}
    \cup {Input("update", j, {"enabled", "schedule"}, b, x) :
             j \in Jobs, b \in BOOLEAN, x \in Schedules \cup {Bad}}

\* No request is being served for the job.
Resting(j) == \A a \in Admins : pc[a] # "idle" => req[a].job # j

Request(a) ==
    /\ Serving
    /\ pc[a] = "idle"
    /\ requests < MaxRequests
    /\ requests' = requests + 1
    /\ \E q \in Inputs :
           /\ req' = [req EXCEPT ![a] = q]
           /\ raced' = IF Resting(q.job) THEN raced ELSE raced \cup {q.job}
    /\ Goto(a, "load")
    /\ UNCHANGED <<config, server, todo, cronState, run, boots, faults, broken>>

LoadJob(a) ==
    /\ pc[a] = "load"
    /\ \/ Works /\ config[req[a].job].stored /\ Goto(a, "write")
       \/ Works /\ ~config[req[a].job].stored /\ Goto(a, "idle")
       \/ Fault /\ Goto(a, "idle")
    /\ UNCHANGED <<config, server, todo, cronState, req, run, requests, boots, spoilt>>

\* The schedule is stored as it comes; a reload follows unless an update leaves
\* the job disabled.
WriteConfig(a) ==
    LET q == req[a]
        row == [config[q.job] EXCEPT
                   !.enabled  = IF "enabled" \in q.fields THEN q.enabled ELSE @,
                   !.schedule = IF "schedule" \in q.fields THEN q.schedule ELSE @]
    IN  /\ pc[a] = "write"
        /\ \/ /\ Works
              /\ config' = [config EXCEPT ![q.job] = row]
              /\ Goto(a, IF q.op = "toggle" \/ row.enabled THEN "lookup" ELSE "idle")
           \/ Fault /\ Goto(a, "idle") /\ UNCHANGED config
        /\ UNCHANGED <<server, todo, cronState, req, run, requests, boots, spoilt>>

LookupEntry(a) ==
    /\ pc[a] = "lookup"
    /\ req' = [req EXCEPT ![a].id = entryIDs[req[a].job]]
    /\ Goto(a, "remove")
    /\ UNCHANGED <<config, server, todo, cronState, run, ghost>>

KeepEntry(id) == entries  \* mutant: the entry is forgotten, not removed
Without(id)   == {x \in entries : x.id # id}

RemoveEntry(a) ==
    LET id == req[a].id
    IN  /\ pc[a] = "remove"
        /\ entries' = Without(id)
        /\ entryIDs' = IF id = 0 THEN entryIDs ELSE [entryIDs EXCEPT ![req[a].job] = 0]
        /\ Goto(a, "reload")
        /\ UNCHANGED <<config, server, todo, lastId, req, run, ghost>>

Given(q)    == q.schedule              \* mutant: the input instead of the row
Reloaded(q) == config[q.job].schedule

\* Without the updated row the job is left unscheduled.
ReloadConfig(a) ==
    /\ pc[a] = "reload"
    /\ \/ /\ Works
          /\ req' = [req EXCEPT ![a].schedule = Reloaded(req[a])]
          /\ Goto(a, "register")
          /\ UNCHANGED broken
       \/ /\ Fault
          /\ broken' = broken \cup {req[a].job}
          /\ Goto(a, "idle")
          /\ UNCHANGED req
    /\ UNCHANGED <<config, server, todo, cronState, run, requests, boots, raced>>

\* registerJob, which does not look whether the job is enabled.
RegisterJob(a) ==
    LET q == req[a]
    IN  /\ pc[a] = "register"
        /\ \/ /\ Parses(q.schedule)
              /\ lastId' = lastId + 1
              /\ entries' = entries \cup {[job |-> q.job, schedule |-> q.schedule, id |-> lastId']}
              /\ req' = [req EXCEPT ![a].id = lastId']
              /\ Goto(a, "store")
           \/ /\ ~Parses(q.schedule)
              /\ Goto(a, "idle")
              /\ UNCHANGED <<lastId, entries, req>>
        /\ UNCHANGED <<config, server, todo, entryIDs, run, ghost>>

StoreEntryID(a) ==
    /\ pc[a] = "store"
    /\ entryIDs' = [entryIDs EXCEPT ![req[a].job] = req[a].id]
    /\ Goto(a, "idle")
    /\ UNCHANGED <<config, server, todo, entries, lastId, req, run, ghost>>

\* Two requests at the map at once: the Go runtime may end the process.
ConcurrentMapAccess ==
    /\ \E a, b \in Admins :
           /\ a # b
           /\ pc[a] \in {"remove", "store"}
           /\ pc[b] \in {"lookup", "remove", "store"}
    /\ Down
    /\ UNCHANGED <<config, requests, boots, faults>>

Rest ==
    /\ server = "down"
    /\ boots = MaxBoots
    /\ UNCHANGED vars

Next ==
    \/ Boot
    \/ \E j \in Jobs : InitializeDefaultConfig(j)
    \/ RegisterEnabled
    \/ Stop
    \/ Exit
    \/ Crash
    \/ \E r \in Runs : Fire(r) \/ UpdateLastRun(r) \/ ExecuteJob(r)
    \/ \E a \in Admins :
           \/ Request(a)
           \/ LoadJob(a)
           \/ WriteConfig(a)
           \/ LookupEntry(a)
           \/ RemoveEntry(a)
           \/ ReloadConfig(a)
           \/ RegisterJob(a)
           \/ StoreEntryID(a)
    \/ ConcurrentMapAccess
    \/ Rest

Spec == Init /\ [][Next]_vars

-------------------------------------------------------------------------------
(* Properties. *)

Rows     == [stored : BOOLEAN, enabled : BOOLEAN, schedule : Schedules \cup {Bad}]
Requests == [op       : {"none", "update", "toggle"},
             job      : Jobs \cup {"none"},
             fields   : SUBSET {"enabled", "schedule"},
             enabled  : BOOLEAN,
             schedule : Schedules \cup {Bad},
             id       : Nat]

\* Type invariant of the scheduler: only schedules that parse have cron entries.
TypeOK ==
    /\ config \in [Jobs -> Rows]
    /\ server \in {"down", "init", "up", "stopping"}
    /\ todo \subseteq Jobs
    /\ \A x \in entries :
           x.job \in Jobs /\ x.schedule \in Schedules /\ x.id \in 1 .. lastId
    /\ lastId \in Nat
    /\ entryIDs \in [Jobs -> 0 .. lastId]
    /\ pc \in [Admins -> {"idle", "load", "write", "lookup", "remove", "reload",
                          "register", "store"}]
    /\ req \in [Admins -> Requests]
    /\ run \in [Runs -> [at : {"none", "stamp", "execute"}, job : Jobs \cup {"none"}]]
    /\ requests \in Nat
    /\ boots \in Nat
    /\ faults \in Nat
    /\ raced \subseteq Jobs
    /\ broken \subseteq Jobs

\* The map entryIDs knows every entry of a job for which no request is being
\* served, so that the next reload can remove it; without it the job would fire
\* twice, and with its old schedule, until the server is restarted.  Failed
\* statements, crashes and the reloads of other jobs in the same unlocked map do
\* not harm; only two requests at once for this very job do.
EntriesAreMapped ==
    server = "up" =>
        \A x \in entries : x.job \notin raced /\ Resting(x.job) => entryIDs[x.job] = x.id

\* A job that is enabled runs on the schedule its row holds, and on no other, when
\* no request is being served for it: whatever happens to other jobs, also after
\* a crash between the update of the row and the reload, unless its own requests
\* have overlapped or its reload has failed since the server started.
Wanted(j) == config[j].enabled /\ Parses(config[j].schedule)

EnabledIsScheduled ==
    server = "up" =>
        \A j \in Jobs \ (raced \cup broken) :
            Wanted(j) /\ Resting(j) =>
                {x.schedule : x \in {y \in entries : y.job = j}} = {config[j].schedule}

\* Even when requests for the same job overlap, and overtake each other, the
\* schedule stored last is among those the enabled job runs on.
EnabledKeepsRunning ==
    server = "up" =>
        \A j \in Jobs \ broken :
            Wanted(j) /\ Resting(j) =>
                \E x \in entries : x.job = j /\ x.schedule = config[j].schedule

===============================================================================
