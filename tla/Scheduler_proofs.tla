----------------------------- MODULE Scheduler_proofs ----------------------------
(***************************************************************************)
(* Theorems about Scheduler, for any finite set of jobs, any requests,     *)
(* executions and schedules, and any bounds.                               *)
(***************************************************************************)
EXTENDS Scheduler, FiniteSetTheorems, TLAPS

(* The inductive invariants, one named part for each thing to be known. *)

\* A server that does not serve has no requests and no cron entries.
ServerInv ==
    ~Serving =>
        /\ entries = {} /\ lastId = 0 /\ \A j \in Jobs : entryIDs[j] = 0
        /\ \A a \in Admins : pc[a] = "idle"

\* A request is about a job, and holds ids that have been given.
RequestOf(a) ==
    /\ pc[a] # "idle" => req[a].job \in Jobs
    /\ pc[a] \notin {"idle", "load"} => config[req[a].job].stored
    /\ pc[a] = "remove" => req[a].id \in 0 .. lastId
    /\ pc[a] = "store" => req[a].id \in 1 .. lastId

RequestInv ==
    /\ \A j \in Jobs : config[j].enabled => config[j].stored
    /\ \A a \in Admins : RequestOf(a)

\* An id belongs to one job, in the library, the map and the requests.
OwnerInv ==
    \A x \in entries :
        /\ \A j \in Jobs : entryIDs[j] = x.id => x.job = j
        /\ \A a \in Admins :
               pc[a] \in {"remove", "store"} /\ req[a].id = x.id => x.job = req[a].job

\* Request a will register job j with the schedule its row holds then.
Pending(a, j) ==
    /\ req[a].job = j
    /\ \/ pc[a] \in {"lookup", "remove", "reload"}
       \/ pc[a] = "register" /\ req[a].schedule = config[j].schedule

Running(j) == \E x \in entries : x.job = j /\ x.schedule = config[j].schedule

\* An enabled job runs on its schedule, or a request is about to see to it.
KeepsInv ==
    Serving =>
        \A j \in Jobs \ broken :
            Wanted(j) => Running(j) \/ \E a \in Admins : Pending(a, j)

\* The requests of a job that is not raced come one after the other: there is one
\* at a time, ...
SoleRequest ==
    \A a, b \in Admins :
        a # b /\ pc[a] # "idle" /\ pc[b] # "idle" /\ req[a].job = req[b].job
        => req[a].job \in raced

\* ... which removes the entry of its job before it adds another one, ...
SoleOf(a) ==
    LET mine == {x \in entries : x.job = req[a].job}
    IN  /\ pc[a] = "remove" => req[a].id = entryIDs[req[a].job]
        /\ pc[a] \in {"reload", "register"} => mine = {}
        /\ pc[a] = "register" => req[a].schedule = config[req[a].job].schedule
        /\ pc[a] = "store" => \A x \in mine : x.id = req[a].id

MappedInv ==
    /\ SoleRequest
    /\ \A a \in Admins : req[a].job \notin raced => SoleOf(a)
    /\ \A x \in entries :
           \/ x.job \in raced
           \/ entryIDs[x.job] = x.id
           \/ \E a \in Admins : pc[a] = "store" /\ req[a].job = x.job

\* ... so that an enabled job runs on no other schedule either.
Fitting(j) == \A x \in entries : x.job = j => x.schedule = config[j].schedule

ExactInv ==
    Serving =>
        \A j \in Jobs \ (raced \cup broken) :
            Wanted(j) => Fitting(j) \/ \E a \in Admins : Pending(a, j)

-------------------------------------------------------------------------------
(* What each step does. *)

Labels == {"idle", "load", "write", "lookup", "remove", "reload", "register", "store"}

\* A step of request a leaves the others alone.
Mine(a) ==
    /\ pc' \in [Admins -> Labels]
    /\ req' \in [Admins -> Requests]
    /\ \A b \in Admins \ {a} : pc'[b] = pc[b] /\ req'[b] = req[b]

\* A request goes to a label.
LEMMA Going ==
  ASSUME TypeOK, NEW a \in Admins, NEW label \in Labels, Goto(a, label), UNCHANGED req
  PROVE  Mine(a) /\ pc'[a] = label /\ req'[a] = req[a]
BY DEF TypeOK, Labels, Goto, Mine

\* It goes there with other variables.
LEMMA GoingWith ==
  ASSUME TypeOK, NEW a \in Admins, NEW label \in Labels, Goto(a, label),
         NEW q \in Requests, req' = [req EXCEPT ![a] = q]
  PROVE  Mine(a) /\ pc'[a] = label /\ req'[a] = q
BY DEF TypeOK, Labels, Goto, Mine

\* The fields of a request.
LEMMA RequestFields ==
  ASSUME NEW q \in Requests
  PROVE  /\ q.op \in {"none", "update", "toggle"} /\ q.job \in Jobs \cup {"none"}
         /\ q.enabled \in BOOLEAN /\ q.schedule \in Schedules \cup {Bad} /\ q.id \in Nat
BY DEF Requests

\* The id of a request is set.
LEMMA SetId ==
  ASSUME NEW q \in Requests, NEW n \in Nat
  PROVE  /\ [q EXCEPT !.id = n] \in Requests
         /\ [q EXCEPT !.id = n].id = n
         /\ [q EXCEPT !.id = n].job = q.job
         /\ [q EXCEPT !.id = n].schedule = q.schedule
BY DEF Requests

\* The schedule of a request is set.
LEMMA SetSchedule ==
  ASSUME NEW q \in Requests, NEW x \in Schedules \cup {Bad}
  PROVE  /\ [q EXCEPT !.schedule = x] \in Requests
         /\ [q EXCEPT !.schedule = x].schedule = x
         /\ [q EXCEPT !.schedule = x].job = q.job
         /\ [q EXCEPT !.schedule = x].id = q.id
BY DEF Requests

\* The variables of a request that is not there.
LEMMA NoRequestType == NoRequest \in Requests
BY SchedulerAssumption DEF NoRequest, Requests

\* What a request may ask for.
LEMMA InputType ==
  ASSUME NEW op \in {"toggle", "update"}, NEW j \in Jobs,
         NEW fs \in SUBSET {"enabled", "schedule"}, NEW b \in BOOLEAN,
         NEW x \in Schedules \cup {Bad}
  PROVE  Input(op, j, fs, b, x) \in Requests /\ Input(op, j, fs, b, x).job = j
BY DEF Input, Requests

\* It is about a job.
LEMMA InputsAreRequests ==
  ASSUME NEW q \in Inputs
  PROVE  q \in Requests /\ q.job \in Jobs
<1>1. NoRequest.schedule \in Schedules \cup {Bad} /\ NoRequest.enabled \in BOOLEAN
  BY SchedulerAssumption DEF NoRequest
<1>2. CASE q \in {Input("toggle", j, {"enabled"}, b, NoRequest.schedule) : j \in Jobs, b \in BOOLEAN}
  <2>1. PICK j \in Jobs, b \in BOOLEAN : q = Input("toggle", j, {"enabled"}, b, NoRequest.schedule)
    BY <1>2
  <2> QED
    BY <1>1, <2>1, InputType
<1>3. CASE q \in {Input("update", j, {"enabled"}, b, NoRequest.schedule) : j \in Jobs, b \in BOOLEAN}
  <2>1. PICK j \in Jobs, b \in BOOLEAN : q = Input("update", j, {"enabled"}, b, NoRequest.schedule)
    BY <1>3
  <2> QED
    BY <1>1, <2>1, InputType
<1>4. CASE q \in {Input("update", j, {"schedule"}, NoRequest.enabled, x) :
                      j \in Jobs, x \in Schedules \cup {Bad}}
  <2>1. PICK j \in Jobs, x \in Schedules \cup {Bad} :
            q = Input("update", j, {"schedule"}, NoRequest.enabled, x)
    BY <1>4
  <2> QED
    BY <1>1, <2>1, InputType
<1>5. CASE q \in {Input("update", j, {"enabled", "schedule"}, b, x) :
                      j \in Jobs, b \in BOOLEAN, x \in Schedules \cup {Bad}}
  <2>1. PICK j \in Jobs, b \in BOOLEAN, x \in Schedules \cup {Bad} :
            q = Input("update", j, {"enabled", "schedule"}, b, x)
    BY <1>5
  <2> QED
    BY <1>1, <2>1, InputType
<1> QED
  BY <1>2, <1>3, <1>4, <1>5 DEF Inputs

\* A request comes in.
LEMMA Requesting ==
  ASSUME TypeOK, NEW a \in Admins, Request(a)
  PROVE  /\ Mine(a) /\ Serving /\ pc[a] = "idle" /\ pc'[a] = "load"
         /\ req'[a].job \in Jobs
         /\ raced' = raced \cup {req'[a].job} \/ (Resting(req'[a].job) /\ UNCHANGED raced)
         /\ UNCHANGED <<config, server, todo, cronState, faults, broken>>
<1>1. PICK q \in Inputs :
          /\ req' = [req EXCEPT ![a] = q]
          /\ raced' = IF Resting(q.job) THEN raced ELSE raced \cup {q.job}
  BY DEF Request
<1>2. Goto(a, "load") /\ "load" \in Labels
  BY DEF Request, Labels
<1>3. Mine(a) /\ pc'[a] = "load" /\ req'[a] = q
  BY <1>1, <1>2, InputsAreRequests, GoingWith
<1>4. raced' = raced \cup {req'[a].job} \/ (Resting(req'[a].job) /\ UNCHANGED raced)
  BY <1>1, <1>3 DEF Resting
<1> QED
  BY <1>3, <1>4, InputsAreRequests DEF Request

\* Its job is loaded.
LEMMA Loading ==
  ASSUME TypeOK, NEW a \in Admins, LoadJob(a)
  PROVE  /\ Mine(a) /\ pc[a] = "load" /\ req'[a] = req[a]
         /\ pc'[a] = "idle" \/ (pc'[a] = "write" /\ config[req[a].job].stored)
         /\ UNCHANGED <<config, server, todo, cronState>>
<1>1. PICK label \in {"idle", "write"} :
          Goto(a, label) /\ (label = "write" => config[req[a].job].stored)
  BY DEF LoadJob
<1>2. UNCHANGED <<config, server, todo, cronState, req>> /\ pc[a] = "load"
  BY DEF LoadJob
<1>3. Mine(a) /\ pc'[a] = label /\ req'[a] = req[a]
  BY <1>1, <1>2, Going DEF Labels
<1> QED
  BY <1>1, <1>2, <1>3

\* The row as an input changes it.
Changed(q) ==
    [config[q.job] EXCEPT
       !.enabled  = IF "enabled" \in q.fields THEN q.enabled ELSE @,
       !.schedule = IF "schedule" \in q.fields THEN q.schedule ELSE @]

\* The two fields of a row are set.
LEMMA SetRow ==
  ASSUME NEW w \in Rows, NEW b \in BOOLEAN, NEW x \in Schedules \cup {Bad}
  PROVE  /\ [w EXCEPT !.enabled = b, !.schedule = x] \in Rows
         /\ [w EXCEPT !.enabled = b, !.schedule = x].stored = w.stored
BY DEF Rows

\* It stays a row, and stored.
LEMMA ChangedRow ==
  ASSUME TypeOK, NEW q \in Requests, q.job \in Jobs
  PROVE  Changed(q) \in Rows /\ Changed(q).stored = config[q.job].stored
<1>1. config[q.job] \in Rows
  BY DEF TypeOK
<1>3. /\ (IF "enabled" \in q.fields THEN q.enabled ELSE config[q.job].enabled) \in BOOLEAN
      /\ (IF "schedule" \in q.fields THEN q.schedule ELSE config[q.job].schedule)
           \in Schedules \cup {Bad}
  BY <1>1, RequestFields DEF Rows
<1>4. PICK w, b, x :
          /\ w = config[q.job]
          /\ b = IF "enabled" \in q.fields THEN q.enabled ELSE config[q.job].enabled
          /\ x = IF "schedule" \in q.fields THEN q.schedule ELSE config[q.job].schedule
  OBVIOUS
<1>5. Changed(q) = [w EXCEPT !.enabled = b, !.schedule = x]
  BY <1>4 DEF Changed
<1>6. w \in Rows /\ b \in BOOLEAN /\ x \in Schedules \cup {Bad}
  BY <1>1, <1>3, <1>4
<1>7. /\ [w EXCEPT !.enabled = b, !.schedule = x] \in Rows
      /\ [w EXCEPT !.enabled = b, !.schedule = x].stored = w.stored
  BY <1>6, SetRow
<1> QED
  BY <1>4, <1>5, <1>7

\* The row is written; a reload follows unless the job is disabled.
LEMMA Writing ==
  ASSUME TypeOK, NEW a \in Admins, WriteConfig(a)
  PROVE  /\ Mine(a) /\ pc[a] = "write" /\ req'[a] = req[a]
         /\ UNCHANGED <<server, todo, cronState>>
         /\ \/ pc'[a] = "idle" /\ UNCHANGED config
            \/ /\ config' = [config EXCEPT ![req[a].job] = Changed(req[a])]
               /\ pc'[a] = "lookup" \/ (pc'[a] = "idle" /\ ~Changed(req[a]).enabled)
<1>1. UNCHANGED <<server, todo, cronState, req>> /\ pc[a] = "write"
  BY DEF WriteConfig
<1>2. CASE Goto(a, "idle") /\ UNCHANGED config
  BY <1>1, <1>2, Going DEF Labels
<1>3. CASE /\ config' = [config EXCEPT ![req[a].job] = Changed(req[a])]
           /\ Goto(a, IF req[a].op = "toggle" \/ Changed(req[a]).enabled
                      THEN "lookup" ELSE "idle")
  <2>1. PICK label \in {"lookup", "idle"} :
            Goto(a, label) /\ (label = "idle" => ~Changed(req[a]).enabled)
    BY <1>3
  <2>2. Mine(a) /\ pc'[a] = label /\ req'[a] = req[a]
    BY <1>1, <2>1, Going DEF Labels
  <2> QED
    BY <1>1, <1>3, <2>1, <2>2
<1> QED
  BY <1>2, <1>3 DEF WriteConfig, Changed

\* The id of the job's entry is looked up.
LEMMA Looking ==
  ASSUME TypeOK, NEW a \in Admins, LookupEntry(a), req[a].job \in Jobs
  PROVE  /\ Mine(a) /\ pc[a] = "lookup" /\ pc'[a] = "remove"
         /\ req'[a].job = req[a].job /\ req'[a].schedule = req[a].schedule
         /\ req'[a].id = entryIDs[req[a].job]
         /\ UNCHANGED <<config, server, todo, cronState, faults>>
<1>1. req[a] \in Requests /\ entryIDs[req[a].job] \in Nat
  BY DEF TypeOK
<1>2. /\ req' = [req EXCEPT ![a] = [req[a] EXCEPT !.id = entryIDs[req[a].job]]]
      /\ Goto(a, "remove") /\ "remove" \in Labels /\ pc[a] = "lookup"
      /\ UNCHANGED <<config, server, todo, cronState, faults>>
  BY DEF LookupEntry, Labels, ghost
<1>3. Mine(a) /\ pc'[a] = "remove"
      /\ req'[a] = [req[a] EXCEPT !.id = entryIDs[req[a].job]]
  BY <1>1, <1>2, SetId, GoingWith
<1>4. /\ req'[a].job = req[a].job /\ req'[a].schedule = req[a].schedule
      /\ req'[a].id = entryIDs[req[a].job]
  BY <1>1, <1>3, SetId
<1> QED
  BY <1>2, <1>3, <1>4

\* The entry is removed, from the library and from the map.
LEMMA Removing ==
  ASSUME TypeOK, NEW a \in Admins, RemoveEntry(a)
  PROVE  /\ Mine(a) /\ pc[a] = "remove" /\ pc'[a] = "reload" /\ req'[a] = req[a]
         /\ entries' = {x \in entries : x.id # req[a].id}
         /\ entryIDs' = IF req[a].id = 0 THEN entryIDs
                        ELSE [entryIDs EXCEPT ![req[a].job] = 0]
         /\ UNCHANGED <<config, server, todo, lastId, faults>>
<1>1. /\ Goto(a, "reload") /\ "reload" \in Labels /\ UNCHANGED req
  BY DEF RemoveEntry, Labels
<1> QED
  BY <1>1, Going DEF RemoveEntry, Without, ghost

\* The row is loaded again.
LEMMA Reloading ==
  ASSUME TypeOK, NEW a \in Admins, ReloadConfig(a), req[a].job \in Jobs
  PROVE  /\ Mine(a) /\ pc[a] = "reload"
         /\ req'[a].job = req[a].job /\ req'[a].id = req[a].id
         /\ \/ pc'[a] = "idle" /\ broken' = broken \cup {req[a].job}
            \/ /\ pc'[a] = "register" /\ UNCHANGED broken
               /\ req'[a].schedule = config[req[a].job].schedule
         /\ UNCHANGED <<config, server, todo, cronState>>
<1>1. UNCHANGED <<config, server, todo, cronState>> /\ pc[a] = "reload"
  BY DEF ReloadConfig
<1>2. req[a] \in Requests /\ config[req[a].job].schedule \in Schedules \cup {Bad}
  BY DEF TypeOK, Rows
<1>3. CASE Goto(a, "idle") /\ UNCHANGED req /\ broken' = broken \cup {req[a].job}
  BY <1>1, <1>3, Going DEF Labels
<1>4. CASE /\ Goto(a, "register") /\ UNCHANGED broken
           /\ req' = [req EXCEPT ![a].schedule = Reloaded(req[a])]
  <2>1. req' = [req EXCEPT ![a] = [req[a] EXCEPT !.schedule = config[req[a].job].schedule]]
    BY <1>4 DEF Reloaded
  <2>2. /\ Mine(a) /\ pc'[a] = "register"
        /\ req'[a] = [req[a] EXCEPT !.schedule = config[req[a].job].schedule]
    BY <1>2, <1>4, <2>1, SetSchedule, GoingWith DEF Labels
  <2>3. /\ req'[a].job = req[a].job /\ req'[a].id = req[a].id
        /\ req'[a].schedule = config[req[a].job].schedule
    BY <1>2, <2>2, SetSchedule
  <2> QED
    BY <1>1, <1>4, <2>2, <2>3
<1> QED
  BY <1>3, <1>4 DEF ReloadConfig

\* The entry that a request registers.
New(a) == [job |-> req[a].job, schedule |-> req[a].schedule, id |-> lastId + 1]

\* It is added, if its schedule parses.
LEMMA Registering ==
  ASSUME TypeOK, NEW a \in Admins, RegisterJob(a)
  PROVE  /\ Mine(a) /\ pc[a] = "register"
         /\ req'[a].job = req[a].job
         /\ \/ /\ pc'[a] = "store" /\ req[a].schedule \in Schedules
               /\ entries' = entries \cup {New(a)}
               /\ lastId' = lastId + 1 /\ req'[a].id = lastId + 1
            \/ /\ pc'[a] = "idle" /\ ~Parses(req[a].schedule)
               /\ UNCHANGED <<entries, lastId>>
         /\ UNCHANGED <<config, server, todo, entryIDs, faults>>
<1>1. UNCHANGED <<config, server, todo, entryIDs, faults>> /\ pc[a] = "register"
  BY DEF RegisterJob, ghost
<1>2. req[a] \in Requests /\ lastId + 1 \in Nat
  BY DEF TypeOK
<1>3. CASE ~Parses(req[a].schedule) /\ Goto(a, "idle") /\ UNCHANGED <<lastId, entries, req>>
  BY <1>1, <1>3, Going DEF Labels
<1>4. CASE /\ Parses(req[a].schedule)
           /\ lastId' = lastId + 1
           /\ entries' = entries \cup {[job |-> req[a].job, schedule |-> req[a].schedule,
                                        id |-> lastId']}
           /\ req' = [req EXCEPT ![a].id = lastId']
           /\ Goto(a, "store")
  <2>1. req' = [req EXCEPT ![a] = [req[a] EXCEPT !.id = lastId + 1]]
    BY <1>4
  <2>2. Mine(a) /\ pc'[a] = "store" /\ req'[a] = [req[a] EXCEPT !.id = lastId + 1]
    BY <1>2, <1>4, <2>1, SetId, GoingWith DEF Labels
  <2>3. entries' = entries \cup {New(a)} /\ req[a].schedule \in Schedules
    BY <1>4 DEF New, Parses
  <2>4. req'[a].job = req[a].job /\ req'[a].id = lastId + 1
    BY <1>2, <2>2, SetId
  <2> QED
    BY <1>1, <1>4, <2>2, <2>3, <2>4
<1> QED
  BY <1>3, <1>4 DEF RegisterJob

\* The fields of the new entry.
LEMMA NewFields ==
  ASSUME NEW a \in Admins
  PROVE  New(a).job = req[a].job /\ New(a).schedule = req[a].schedule
         /\ New(a).id = lastId + 1
BY DEF New

\* Its id goes into the map.
LEMMA Storing ==
  ASSUME TypeOK, NEW a \in Admins, StoreEntryID(a)
  PROVE  /\ Mine(a) /\ pc[a] = "store" /\ pc'[a] = "idle" /\ req'[a] = req[a]
         /\ entryIDs' = [entryIDs EXCEPT ![req[a].job] = req[a].id]
         /\ UNCHANGED <<config, server, todo, entries, lastId, faults>>
<1>1. Goto(a, "idle") /\ "idle" \in Labels /\ UNCHANGED req
  BY DEF StoreEntryID, Labels
<1> QED
  BY <1>1, Going DEF StoreEntryID, ghost

-------------------------------------------------------------------------------
(* Which steps there are. *)

\* The scheduler and the requests are as they were.
Idling == UNCHANGED <<config, cronState, pc, req, spoilt>> /\ (Serving' <=> Serving)

\* The default row of a job is stored.
Initialising(j) ==
    /\ ~Serving /\ ~Serving'
    /\ config' = [config EXCEPT ![j] =
                     IF @.stored THEN @
                     ELSE [stored |-> TRUE, enabled |-> TRUE, schedule |-> Default]]
    /\ UNCHANGED <<cronState, pc, req, spoilt>>

\* The jobs that a server which comes up registers.
Due == {j \in Jobs : ListEnabled(j) /\ Parses(config[j].schedule)}

\* It comes up.
Rising ==
    /\ ~Serving
    /\ server' = "up"
    /\ Works
    /\ lastId' = Cardinality(Due)
    /\ \E ids \in [Due -> 1 .. Cardinality(Due)] :
           /\ \A j, k \in Due : j # k => ids[j] # ids[k]
           /\ entries' = {Entry(j, ids[j]) : j \in Due}
           /\ entryIDs' = [j \in Jobs |-> IF j \in Due THEN ids[j] ELSE 0]
    /\ UNCHANGED <<config, todo, pc, req, run, requests, boots, spoilt>>

\* It comes up or does not.
LEMMA Registered ==
  ASSUME RegisterEnabled
  PROVE  /\ server = "init" /\ todo = {} /\ UNCHANGED <<config, requests, boots>>
         /\ Rising \/ (Fault /\ Down)
BY DEF RegisterEnabled, Rising, Due, Serving

\* A step of a request.
Asking(a) ==
    \/ Request(a) \/ LoadJob(a) \/ WriteConfig(a) \/ LookupEntry(a)
    \/ RemoveEntry(a) \/ ReloadConfig(a) \/ RegisterJob(a) \/ StoreEntryID(a)

\* The steps, by what they do to the scheduler.
LEMMA Steps ==
  ASSUME [Next]_vars
  PROVE  \/ Down /\ UNCHANGED config
         \/ Idling
         \/ \E j \in Jobs : Initialising(j)
         \/ Rising
         \/ \E a \in Admins : Asking(a)
<1>1. CASE Boot
  BY <1>1 DEF Boot, Idling, Serving
<1>2. CASE \E j \in Jobs : InitializeDefaultConfig(j)
  BY <1>2 DEF InitializeDefaultConfig, Initialising, Idling, Serving
<1>3. CASE RegisterEnabled
  BY <1>3, Registered
<1>4. CASE Stop
  BY <1>4 DEF Stop, Idling, Serving, ghost
<1>5. CASE Exit \/ Crash \/ ConcurrentMapAccess
  BY <1>5 DEF Exit, Crash, ConcurrentMapAccess
<1>6. CASE \E r \in Runs : Fire(r) \/ UpdateLastRun(r) \/ ExecuteJob(r)
  BY <1>6 DEF Fire, UpdateLastRun, ExecuteJob, Idling, Serving, ghost
<1>7. CASE \E a \in Admins : Asking(a)
  BY <1>7
<1>8. CASE Rest \/ UNCHANGED vars
  BY <1>8 DEF Rest, vars, Idling, Serving, ghost
<1> QED
  BY <1>1, <1>2, <1>3, <1>4, <1>5, <1>6, <1>7, <1>8 DEF Next, Asking

\* A step of a request ends no server.
LEMMA AskingServes ==
  ASSUME NEW a \in Admins, Asking(a)
  PROVE  UNCHANGED <<server, todo, run, boots>>
BY DEF Asking, Request, LoadJob, WriteConfig, LookupEntry, RemoveEntry, ReloadConfig,
       RegisterJob, StoreEntryID, ghost

\* It may spoil its job, and repairs none.
LEMMA AskingSpoils ==
  ASSUME TypeOK, NEW a \in Admins, Asking(a), req[a].job \in Jobs \/ Request(a)
  PROVE  /\ raced \subseteq raced' /\ broken \subseteq broken'
         /\ raced' \subseteq Jobs /\ broken' \subseteq Jobs
<1>1. raced \subseteq Jobs /\ broken \subseteq Jobs
  BY DEF TypeOK
<1>2. CASE Request(a)
  BY <1>1, <1>2, Requesting
<1>3. CASE ReloadConfig(a)
  <2>1. UNCHANGED raced /\ (UNCHANGED broken \/ broken' = broken \cup {req[a].job})
    BY <1>3 DEF ReloadConfig
  <2>2. req[a].job \in Jobs
    BY <1>3 DEF ReloadConfig, Request
  <2> QED
    BY <1>1, <2>1, <2>2
<1>4. CASE ~Request(a) /\ ~ReloadConfig(a)
  <2>1. UNCHANGED <<raced, broken>>
    BY <1>4 DEF Asking, LoadJob, WriteConfig, LookupEntry, RemoveEntry, RegisterJob,
       StoreEntryID, ghost, spoilt
  <2> QED
    BY <1>1, <2>1
<1> QED
  BY <1>2, <1>3, <1>4

-------------------------------------------------------------------------------
(* Types. *)

\* The counters only grow, so that what has failed stays failed.
LEMMA Counting ==
  ASSUME TypeOK, [Next]_vars
  PROVE  /\ requests' \in Nat /\ boots' \in Nat /\ faults' \in Nat
         /\ faults' >= faults
<1>1. requests \in Nat /\ boots \in Nat /\ faults \in Nat
  BY DEF TypeOK
<1>2. /\ requests' = requests \/ requests' = requests + 1
      /\ boots' = boots \/ boots' = boots + 1
      /\ faults' = faults \/ faults' = faults + 1
  <2>1. CASE Boot \/ RegisterEnabled \/ Stop \/ Exit \/ Crash \/ ConcurrentMapAccess \/ Rest
    BY <2>1 DEF Boot, RegisterEnabled, Stop, Exit, Crash, ConcurrentMapAccess, Rest,
       Works, Fault, ghost, vars
  <2>2. CASE \E j \in Jobs : InitializeDefaultConfig(j)
    BY <2>2 DEF InitializeDefaultConfig, Works, Fault
  <2>3. CASE \E r \in Runs : Fire(r) \/ UpdateLastRun(r) \/ ExecuteJob(r)
    BY <2>3 DEF Fire, UpdateLastRun, ExecuteJob, Works, Fault, ghost
  <2>4. CASE \E a \in Admins : Asking(a)
    BY <2>4 DEF Asking, Request, LoadJob, WriteConfig, LookupEntry, RemoveEntry,
       ReloadConfig, RegisterJob, StoreEntryID, Works, Fault, ghost
  <2> QED
    BY <2>1, <2>2, <2>3, <2>4 DEF Next, Asking, vars, ghost
<1> QED
  BY <1>1, <1>2

\* What a server that is not there has.
LEMMA DownType ==
  ASSUME TypeOK, RequestInv, Down, UNCHANGED config,
         requests' \in Nat, boots' \in Nat, faults' \in Nat
  PROVE  TypeOK' /\ ServerInv' /\ RequestInv'
<1>1. TypeOK'
  <2>1. /\ server' = "down" /\ todo' = {} /\ entries' = {} /\ lastId' = 0
        /\ entryIDs' = [j \in Jobs |-> 0] /\ pc' = [a \in Admins |-> "idle"]
        /\ req' = [a \in Admins |-> NoRequest] /\ run' = [r \in Runs |-> NoRun]
        /\ raced' = {} /\ broken' = {}
    BY DEF Down
  <2>2. req' \in [Admins -> Requests]
    BY <2>1, NoRequestType
  <2>3. run' \in [Runs -> [at : {"none", "stamp", "execute"}, job : Jobs \cup {"none"}]]
    BY <2>1 DEF NoRun
  <2> QED
    BY <2>1, <2>2, <2>3 DEF TypeOK
<1>2. ServerInv'
  BY DEF Down, ServerInv
<1>3. RequestInv'
  BY DEF Down, RequestInv, RequestOf
<1> QED
  BY <1>1, <1>2, <1>3

\* The jobs to be registered can be counted.
LEMMA DueIsFinite == Cardinality(Due) \in Nat
<1>1. Due \subseteq Jobs
  BY DEF Due
<1> QED
  BY <1>1, SchedulerAssumption, FS_Subset, FS_CardinalityType

\* The fields of an entry.
LEMMA EntryFields ==
  ASSUME NEW j, NEW id
  PROVE  /\ Entry(j, id).job = j /\ Entry(j, id).id = id
         /\ Entry(j, id).schedule = config[j].schedule
BY DEF Entry

\* The entries of a server that comes up.
LEMMA RisingEntries ==
  ASSUME Rising
  PROVE  /\ \A x \in entries' :
                /\ x.job \in Due /\ x.schedule = config[x.job].schedule
                /\ x.id \in 1 .. lastId'
                /\ entryIDs'[x.job] = x.id
                /\ \A j \in Jobs : entryIDs'[j] = x.id => x.job = j
         /\ \A j \in Due : \E x \in entries' : x.job = j
         /\ entryIDs' \in [Jobs -> 0 .. lastId']
<1>1. PICK ids \in [Due -> 1 .. Cardinality(Due)] :
          /\ \A j, k \in Due : j # k => ids[j] # ids[k]
          /\ entries' = {Entry(j, ids[j]) : j \in Due}
          /\ entryIDs' = [j \in Jobs |-> IF j \in Due THEN ids[j] ELSE 0]
  BY DEF Rising
<1>2. lastId' = Cardinality(Due)
  BY DEF Rising
<1>3. Due \subseteq Jobs
  BY DEF Due
<1>4. ASSUME NEW x \in entries'
      PROVE  /\ x.job \in Due /\ x.schedule = config[x.job].schedule
             /\ x.id \in 1 .. lastId'
             /\ entryIDs'[x.job] = x.id
             /\ \A j \in Jobs : entryIDs'[j] = x.id => x.job = j
  <2>1. PICK k \in Due : x = Entry(k, ids[k])
    BY <1>1
  <2>2. x.job = k /\ x.schedule = config[k].schedule /\ x.id = ids[k]
    BY <2>1, EntryFields
  <2>3. entryIDs'[k] = ids[k] /\ ids[k] \in 1 .. Cardinality(Due)
    BY <1>1, <1>3
  <2>4. ASSUME NEW j \in Jobs, entryIDs'[j] = ids[k]
        PROVE  k = j
    BY <1>1, <2>3, <2>4, DueIsFinite
  <2> QED
    BY <1>2, <2>2, <2>3, <2>4
<1>5. ASSUME NEW j \in Due
      PROVE  \E x \in entries' : x.job = j
  <2>1. Entry(j, ids[j]) \in entries' /\ Entry(j, ids[j]).job = j
    BY <1>1, EntryFields
  <2> QED
    BY <2>1
<1>6. entryIDs' \in [Jobs -> 0 .. lastId']
  BY <1>1, <1>2, DueIsFinite
<1> QED
  BY <1>4, <1>5, <1>6

\* What a server that comes up has.
LEMMA RisingType ==
  ASSUME TypeOK, ServerInv, RequestInv, Rising, faults' \in Nat
  PROVE  TypeOK' /\ ServerInv' /\ RequestInv'
<1>1. /\ UNCHANGED <<config, todo, pc, req, run, requests, boots, raced, broken>>
      /\ server' = "up"
  BY DEF Rising, spoilt
<1>2. lastId' \in Nat
  BY DueIsFinite DEF Rising
<1>3. \A x \in entries' :
          x.job \in Jobs /\ x.schedule \in Schedules /\ x.id \in 1 .. lastId'
  BY RisingEntries DEF Due, Parses
<1>4. entryIDs' \in [Jobs -> 0 .. lastId']
  BY RisingEntries
<1>5. TypeOK'
  BY <1>1, <1>2, <1>3, <1>4 DEF TypeOK
<1>6. ServerInv'
  BY <1>1 DEF ServerInv, Serving
<1>7. \A a \in Admins : pc[a] = "idle"
  BY DEF Rising, ServerInv
<1>8. RequestInv'
  BY <1>1, <1>7 DEF RequestInv, RequestOf
<1> QED
  BY <1>5, <1>6, <1>8

\* The other steps of the server and the executions.
LEMMA IdlingType ==
  ASSUME TypeOK, ServerInv, RequestInv, Idling, server' \in {"down", "init", "up", "stopping"},
         todo' \subseteq Jobs, requests' \in Nat, boots' \in Nat, faults' \in Nat,
         run' \in [Runs -> [at : {"none", "stamp", "execute"}, job : Jobs \cup {"none"}]]
  PROVE  TypeOK' /\ ServerInv' /\ RequestInv'
<1>1. TypeOK'
  BY DEF TypeOK, Idling, cronState, spoilt
<1>2. ServerInv'
  BY DEF ServerInv, Idling, cronState
<1>3. RequestInv'
  BY DEF RequestInv, RequestOf, Idling, cronState
<1> QED
  BY <1>1, <1>2, <1>3

\* The rows when a default is stored.
LEMMA Initialised ==
  ASSUME TypeOK, NEW j \in Jobs, Initialising(j)
  PROVE  /\ config' \in [Jobs -> Rows]
         /\ config'[j].stored
         /\ \A k \in Jobs : config'[k] = config[k] \/ (k = j /\ ~config[j].stored)
<1> DEFINE new == [stored |-> TRUE, enabled |-> TRUE, schedule |-> Default]
<1>1. new \in Rows /\ new.stored
  BY SchedulerAssumption DEF Rows
<1>2. config \in [Jobs -> Rows]
  BY DEF TypeOK
<1>3. config' = [config EXCEPT ![j] = IF config[j].stored THEN config[j] ELSE new]
  BY DEF Initialising
<1> HIDE DEF new
<1> QED
  BY <1>1, <1>2, <1>3

\* What a server has that stores a default.
LEMMA InitialisingType ==
  ASSUME TypeOK, ServerInv, RequestInv, NEW j \in Jobs, Initialising(j),
         UNCHANGED <<server, run, requests, boots>>, todo' \subseteq Jobs, faults' \in Nat
  PROVE  TypeOK' /\ ServerInv' /\ RequestInv'
<1>1. /\ UNCHANGED <<entries, lastId, entryIDs, pc, req, raced, broken>>
      /\ ~Serving /\ ~Serving'
  BY DEF Initialising, cronState, spoilt
<1>2. TypeOK'
  BY <1>1, Initialised DEF TypeOK
<1>3. ServerInv'
  BY <1>1 DEF ServerInv
<1>4. \A a \in Admins : pc[a] = "idle"
  BY <1>1 DEF ServerInv
<1>5. ASSUME NEW k \in Jobs, config'[k].enabled
      PROVE  config'[k].stored
  BY <1>5, Initialised DEF RequestInv
<1> QED
  BY <1>1, <1>2, <1>3, <1>4, <1>5 DEF RequestInv, RequestOf

\* Requests are served by a server that serves.
LEMMA AskingServer ==
  ASSUME ServerInv, NEW a \in Admins, Asking(a)
  PROVE  Serving /\ Serving' /\ ServerInv'
<1>1. Serving
  BY DEF ServerInv, Asking, Request, LoadJob, WriteConfig, LookupEntry, RemoveEntry,
     ReloadConfig, RegisterJob, StoreEntryID
<1> QED
  BY <1>1, AskingServes DEF ServerInv, Serving

\* What a request leaves behind has the right type if what it changes does.
LEMMA AskingType ==
  ASSUME TypeOK, NEW a \in Admins, Mine(a), UNCHANGED <<server, todo, run, boots>>,
         requests' \in Nat, faults' \in Nat, config' \in [Jobs -> Rows], lastId' \in Nat,
         \A x \in entries' :
             x.job \in Jobs /\ x.schedule \in Schedules /\ x.id \in 1 .. lastId',
         entryIDs' \in [Jobs -> 0 .. lastId'],
         raced' \subseteq Jobs, broken' \subseteq Jobs
  PROVE  TypeOK'
<1>1. pc' \in [Admins -> Labels] /\ req' \in [Admins -> Requests]
  BY DEF Mine
<1> QED
  BY <1>1 DEF TypeOK, Labels

\* The other requests do not notice.
LEMMA OthersType ==
  ASSUME TypeOK, RequestInv, NEW a \in Admins, Mine(a), lastId' \in Nat, lastId' >= lastId,
         \A j \in Jobs : config[j].stored => config'[j].stored,
         NEW b \in Admins \ {a}
  PROVE  RequestOf(b)'
<1>1. pc'[b] = pc[b] /\ req'[b] = req[b] /\ RequestOf(b) /\ lastId \in Nat
  BY DEF Mine, RequestInv, TypeOK
<1> QED
  BY <1>1 DEF RequestOf

\* A request that changes neither rows nor entries.
LEMMA ReadingType ==
  ASSUME TypeOK, ServerInv, RequestInv, NEW a \in Admins, Asking(a), Mine(a),
         requests' \in Nat, faults' \in Nat,
         UNCHANGED <<config, entries, lastId, entryIDs>>, RequestOf(a)',
         raced' \subseteq Jobs, broken' \subseteq Jobs
  PROVE  TypeOK' /\ ServerInv' /\ RequestInv'
<1>1. lastId \in Nat
  BY DEF TypeOK
<1>2. ServerInv'
  BY AskingServer
<1>3. TypeOK'
  <2>1. /\ config \in [Jobs -> Rows] /\ entryIDs \in [Jobs -> 0 .. lastId]
        /\ \A x \in entries :
               x.job \in Jobs /\ x.schedule \in Schedules /\ x.id \in 1 .. lastId
    BY DEF TypeOK
  <2> QED
    BY <1>1, <2>1, AskingServes, AskingType
<1>4. \A b \in Admins \ {a} : RequestOf(b)'
  BY <1>1, OthersType
<1>5. \A j \in Jobs : config'[j].enabled => config'[j].stored
  BY DEF RequestInv
<1> QED
  BY <1>2, <1>3, <1>4, <1>5 DEF RequestInv

\* What a request leaves behind.
LEMMA AskingInv ==
  ASSUME TypeOK, ServerInv, RequestInv, NEW a \in Admins, Asking(a),
         requests' \in Nat, faults' \in Nat
  PROVE  TypeOK' /\ ServerInv' /\ RequestInv'
<1>0. /\ RequestOf(a) /\ lastId \in Nat /\ ServerInv'
      /\ config \in [Jobs -> Rows] /\ entryIDs \in [Jobs -> 0 .. lastId]
      /\ \A x \in entries :
             x.job \in Jobs /\ x.schedule \in Schedules /\ x.id \in 1 .. lastId
      /\ req[a] \in Requests
      /\ \A j \in Jobs : config[j].enabled => config[j].stored
      /\ UNCHANGED <<server, todo, run, boots>>
      /\ raced' \subseteq Jobs /\ broken' \subseteq Jobs
  <2>1. RequestOf(a)
    BY DEF RequestInv
  <2>2. req[a].job \in Jobs \/ Request(a)
    BY <2>1 DEF Asking, LoadJob, WriteConfig, LookupEntry, RemoveEntry, ReloadConfig,
       RegisterJob, StoreEntryID, RequestOf
  <2>3. raced' \subseteq Jobs /\ broken' \subseteq Jobs
    BY <2>2, AskingSpoils
  <2> QED
    BY <2>1, <2>3, AskingServer, AskingServes DEF RequestInv, TypeOK
<1>1. CASE Request(a)
  <2>1. /\ Mine(a) /\ pc'[a] = "load" /\ req'[a].job \in Jobs
        /\ UNCHANGED <<config, entries, lastId, entryIDs>>
    BY <1>1, Requesting DEF cronState
  <2>2. RequestOf(a)'
    BY <2>1 DEF RequestOf
  <2> QED
    BY <1>0, <2>1, <2>2, ReadingType
<1>2. CASE LoadJob(a)
  <2>1. /\ Mine(a) /\ pc[a] = "load" /\ req'[a] = req[a]
        /\ pc'[a] = "idle" \/ (pc'[a] = "write" /\ config[req[a].job].stored)
        /\ UNCHANGED <<config, entries, lastId, entryIDs>>
    BY <1>2, Loading DEF cronState
  <2>2. RequestOf(a)'
    BY <1>0, <2>1 DEF RequestOf
  <2> QED
    BY <1>0, <2>1, <2>2, ReadingType
<1>3. CASE WriteConfig(a)
  <2>1. /\ Mine(a) /\ pc[a] = "write" /\ req'[a] = req[a]
        /\ UNCHANGED <<entries, lastId, entryIDs>>
        /\ \/ pc'[a] = "idle" /\ UNCHANGED config
           \/ /\ config' = [config EXCEPT ![req[a].job] = Changed(req[a])]
              /\ pc'[a] \in {"idle", "lookup"}
    BY <1>3, Writing DEF cronState
  <2>2. req[a].job \in Jobs /\ config[req[a].job].stored
    BY <1>0, <2>1 DEF RequestOf
  <2>3. Changed(req[a]) \in Rows /\ Changed(req[a]).stored
    BY <1>0, <2>2, ChangedRow
  <2>4. /\ config' \in [Jobs -> Rows]
        /\ \A j \in Jobs : config[j].stored => config'[j].stored
        /\ \A j \in Jobs : config'[j].enabled => config'[j].stored
        /\ config'[req[a].job].stored
    BY <1>0, <2>1, <2>2, <2>3
  <2>5. TypeOK'
    BY <1>0, <2>1, <2>4, AskingType
  <2>6. RequestOf(a)'
    BY <2>1, <2>2, <2>4 DEF RequestOf
  <2>7. \A b \in Admins \ {a} : RequestOf(b)'
    BY <1>0, <2>1, <2>4, OthersType
  <2> QED
    BY <1>0, <2>4, <2>5, <2>6, <2>7 DEF RequestInv
<1>4. CASE LookupEntry(a)
  <2>1. pc[a] = "lookup"
    BY <1>4 DEF LookupEntry
  <2>2. req[a].job \in Jobs /\ config[req[a].job].stored
    BY <1>0, <2>1 DEF RequestOf
  <2>3. /\ Mine(a) /\ pc'[a] = "remove" /\ req'[a].job = req[a].job
        /\ req'[a].id = entryIDs[req[a].job]
        /\ UNCHANGED <<config, entries, lastId, entryIDs>>
    BY <1>4, <2>2, Looking DEF cronState
  <2>4. RequestOf(a)'
    BY <1>0, <2>2, <2>3 DEF RequestOf
  <2> QED
    BY <1>0, <2>3, <2>4, ReadingType
<1>5. CASE RemoveEntry(a)
  <2>1. /\ Mine(a) /\ pc[a] = "remove" /\ pc'[a] = "reload" /\ req'[a] = req[a]
        /\ entries' = {x \in entries : x.id # req[a].id}
        /\ entryIDs' = IF req[a].id = 0 THEN entryIDs
                       ELSE [entryIDs EXCEPT ![req[a].job] = 0]
        /\ UNCHANGED <<config, lastId>>
    BY <1>5, Removing
  <2>2. req[a].job \in Jobs /\ config[req[a].job].stored
    BY <1>0, <2>1 DEF RequestOf
  <2>3. entryIDs' \in [Jobs -> 0 .. lastId']
    <3>1. 0 \in 0 .. lastId /\ lastId' = lastId
      BY <1>0, <2>1
    <3>2. entryIDs' = entryIDs \/ entryIDs' = [entryIDs EXCEPT ![req[a].job] = 0]
      BY <2>1
    <3> QED
      BY <1>0, <3>1, <3>2
  <2>4. TypeOK'
    BY <1>0, <2>1, <2>3, AskingType
  <2>5. RequestOf(a)'
    BY <2>1, <2>2 DEF RequestOf
  <2>6. \A b \in Admins \ {a} : RequestOf(b)'
    BY <1>0, <2>1, OthersType
  <2> QED
    BY <1>0, <2>1, <2>4, <2>5, <2>6 DEF RequestInv
<1>6. CASE ReloadConfig(a)
  <2>1. pc[a] = "reload"
    BY <1>6 DEF ReloadConfig
  <2>2. req[a].job \in Jobs /\ config[req[a].job].stored
    BY <1>0, <2>1 DEF RequestOf
  <2>3. /\ Mine(a) /\ pc'[a] \in {"idle", "register"} /\ req'[a].job = req[a].job
        /\ UNCHANGED <<config, entries, lastId, entryIDs>>
    BY <1>6, <2>2, Reloading DEF cronState
  <2>4. RequestOf(a)'
    BY <2>2, <2>3 DEF RequestOf
  <2> QED
    BY <1>0, <2>3, <2>4, ReadingType
<1>7. CASE RegisterJob(a)
  <2>1. /\ Mine(a) /\ pc[a] = "register" /\ req'[a].job = req[a].job
        /\ \/ /\ pc'[a] = "store" /\ req[a].schedule \in Schedules
              /\ entries' = entries \cup {New(a)}
              /\ lastId' = lastId + 1 /\ req'[a].id = lastId + 1
           \/ pc'[a] = "idle" /\ UNCHANGED <<entries, lastId>>
        /\ UNCHANGED <<config, entryIDs>>
    BY <1>7, Registering
  <2>2. req[a].job \in Jobs /\ config[req[a].job].stored
    BY <1>0, <2>1 DEF RequestOf
  <2>3. lastId' \in Nat /\ lastId' >= lastId
    BY <1>0, <2>1
  <2>4. entryIDs' \in [Jobs -> 0 .. lastId']
    BY <1>0, <2>1, <2>3
  <2>5. \A x \in entries' :
            x.job \in Jobs /\ x.schedule \in Schedules /\ x.id \in 1 .. lastId'
    <3>1. CASE UNCHANGED <<entries, lastId>>
      BY <1>0, <3>1
    <3>2. CASE /\ entries' = entries \cup {New(a)} /\ lastId' = lastId + 1
               /\ req[a].schedule \in Schedules
      BY <1>0, <2>2, <3>2, NewFields
    <3> QED
      BY <2>1, <3>1, <3>2
  <2>6. TypeOK'
    BY <1>0, <2>1, <2>3, <2>4, <2>5, AskingType
  <2>7. RequestOf(a)'
    BY <1>0, <2>1, <2>2, <2>3 DEF RequestOf
  <2>8. \A b \in Admins \ {a} : RequestOf(b)'
    BY <1>0, <2>1, <2>3, OthersType
  <2> QED
    BY <1>0, <2>1, <2>6, <2>7, <2>8 DEF RequestInv
<1>8. CASE StoreEntryID(a)
  <2>1. /\ Mine(a) /\ pc[a] = "store" /\ pc'[a] = "idle" /\ req'[a] = req[a]
        /\ entryIDs' = [entryIDs EXCEPT ![req[a].job] = req[a].id]
        /\ UNCHANGED <<config, entries, lastId>>
    BY <1>8, Storing
  <2>2. req[a].job \in Jobs /\ req[a].id \in 0 .. lastId
    BY <1>0, <2>1 DEF RequestOf
  <2>3. entryIDs' \in [Jobs -> 0 .. lastId']
    BY <1>0, <2>1, <2>2
  <2>4. TypeOK'
    BY <1>0, <2>1, <2>3, AskingType
  <2>5. RequestOf(a)'
    BY <2>1 DEF RequestOf
  <2>6. \A b \in Admins \ {a} : RequestOf(b)'
    BY <1>0, <2>1, OthersType
  <2> QED
    BY <1>0, <2>1, <2>4, <2>5, <2>6 DEF RequestInv
<1> QED
  BY <1>1, <1>2, <1>3, <1>4, <1>5, <1>6, <1>7, <1>8 DEF Asking

\* The types, what requests hold, and that a server which does not serve has
\* neither requests nor entries.
IInv == TypeOK /\ ServerInv /\ RequestInv

\* It holds when nothing has started, ...
LEMMA InitIInv == Init => IInv
<1> SUFFICES ASSUME Init PROVE IInv
  OBVIOUS
<1>1. TypeOK
  <2>1. config \in [Jobs -> Rows]
    BY SchedulerAssumption DEF Init, Rows
  <2>2. req \in [Admins -> Requests]
    BY NoRequestType DEF Init
  <2>3. run \in [Runs -> [at : {"none", "stamp", "execute"}, job : Jobs \cup {"none"}]]
    BY DEF Init, NoRun
  <2>4. /\ server = "down" /\ todo = {} /\ entries = {} /\ lastId = 0
        /\ entryIDs = [j \in Jobs |-> 0] /\ pc = [a \in Admins |-> "idle"]
        /\ requests = 0 /\ boots = 0 /\ faults = 0 /\ raced = {} /\ broken = {}
    BY DEF Init
  <2> QED
    BY <2>1, <2>2, <2>3, <2>4 DEF TypeOK
<1>2. ServerInv
  BY DEF Init, ServerInv
<1>3. RequestInv
  BY DEF Init, RequestInv, RequestOf
<1> QED
  BY <1>1, <1>2, <1>3 DEF IInv

\* ... and every step keeps it.
LEMMA NextIInv == IInv /\ [Next]_vars => IInv'
<1> SUFFICES ASSUME IInv, [Next]_vars PROVE TypeOK' /\ ServerInv' /\ RequestInv'
  BY DEF IInv
<1>0. /\ TypeOK /\ ServerInv /\ RequestInv
      /\ requests' \in Nat /\ boots' \in Nat /\ faults' \in Nat
  BY Counting DEF IInv
<1>1. CASE Down /\ UNCHANGED config
  BY <1>0, <1>1, DownType
<1>2. CASE Boot
  <2>1. Idling /\ server' = "init" /\ todo' = Jobs /\ UNCHANGED run
    BY <1>2 DEF Boot, Idling, Serving
  <2> QED
    BY <1>0, <2>1, IdlingType DEF TypeOK
<1>3. ASSUME NEW j \in Jobs, InitializeDefaultConfig(j)
      PROVE  TypeOK' /\ ServerInv' /\ RequestInv'
  <2>1. \/ Down /\ UNCHANGED config
        \/ Initialising(j) /\ UNCHANGED <<server, run>> /\ todo' = todo \ {j}
        \/ Idling /\ UNCHANGED <<server, run>> /\ todo' = todo \ {j}
    BY <1>3 DEF InitializeDefaultConfig, Initialising, Idling, Serving
  <2>2. UNCHANGED <<requests, boots>> /\ todo \subseteq Jobs
    BY <1>0, <1>3 DEF InitializeDefaultConfig, TypeOK
  <2>3. CASE Initialising(j) /\ UNCHANGED <<server, run>> /\ todo' = todo \ {j}
    BY <1>0, <2>2, <2>3, InitialisingType
  <2>4. CASE Idling /\ UNCHANGED <<server, run>> /\ todo' = todo \ {j}
    BY <1>0, <2>2, <2>4, IdlingType DEF TypeOK
  <2> QED
    BY <1>1, <2>1, <2>3, <2>4
<1>4. CASE RegisterEnabled
  BY <1>0, <1>1, <1>4, Registered, RisingType
<1>5. CASE Stop \/ Rest \/ UNCHANGED vars
  <2>1. Idling /\ UNCHANGED <<todo, run>> /\ (server' = server \/ server' = "stopping")
    BY <1>5 DEF Stop, Rest, vars, Idling, Serving, ghost
  <2> QED
    BY <1>0, <2>1, IdlingType DEF TypeOK
<1>6. CASE Exit \/ Crash \/ ConcurrentMapAccess
  BY <1>1, <1>6 DEF Exit, Crash, ConcurrentMapAccess
<1>7. ASSUME NEW r \in Runs, Fire(r) \/ UpdateLastRun(r) \/ ExecuteJob(r)
      PROVE  TypeOK' /\ ServerInv' /\ RequestInv'
  <2>1. Idling /\ UNCHANGED <<todo, server>>
    BY <1>7 DEF Fire, UpdateLastRun, ExecuteJob, Idling, Serving, ghost
  <2>2. run' \in [Runs -> [at : {"none", "stamp", "execute"}, job : Jobs \cup {"none"}]]
    BY <1>0, <1>7 DEF Fire, UpdateLastRun, ExecuteJob, TypeOK, NoRun
  <2> QED
    BY <1>0, <2>1, <2>2, IdlingType DEF TypeOK
<1>8. ASSUME NEW a \in Admins, Asking(a)
      PROVE  TypeOK' /\ ServerInv' /\ RequestInv'
  BY <1>0, <1>8, AskingInv
<1> QED
  BY <1>2, <1>3, <1>4, <1>5, <1>6, <1>7, <1>8 DEF Next, Asking

\* It holds throughout.
LEMMA IInvHolds == Spec => []IInv
BY InitIInv, NextIInv, PTL DEF Spec

\* The state of the server, its requests and the cron library is always of the
\* right type: only schedules that parse are ever registered, under ids that
\* have been given, whatever is asked for and fails.
THEOREM TypeCorrect == Spec => []TypeOK
<1>1. IInv => TypeOK
  BY DEF IInv
<1> QED
  BY <1>1, IInvHolds, PTL

-------------------------------------------------------------------------------
(* Whose an entry is. *)

\* An id belongs to one job when nothing has started, ...
LEMMA InitOwner == Init => OwnerInv
BY DEF Init, OwnerInv

\* ... and every step leaves it to that job.
LEMMA NextOwner == IInv /\ OwnerInv /\ [Next]_vars => OwnerInv'
<1> SUFFICES ASSUME IInv, OwnerInv, [Next]_vars PROVE OwnerInv'
  OBVIOUS
<1>0. TypeOK /\ ServerInv /\ RequestInv
  BY DEF IInv
<1>1. CASE Down
  BY <1>1 DEF Down, OwnerInv
<1>2. CASE UNCHANGED <<cronState, pc, req>>
  BY <1>2 DEF OwnerInv, cronState
<1>3. CASE Rising
  <2>1. \A a \in Admins : pc'[a] = "idle"
    BY <1>0, <1>3 DEF Rising, ServerInv
  <2> QED
    BY <1>3, <2>1, RisingEntries DEF OwnerInv
<1>4. ASSUME NEW a \in Admins, Asking(a)
      PROVE  OwnerInv'
  <2>0. /\ RequestOf(a) /\ lastId \in Nat /\ \A b \in Admins : RequestOf(b)
        /\ entryIDs \in [Jobs -> 0 .. lastId]
        /\ \A x \in entries : x.job \in Jobs /\ x.id \in 1 .. lastId
    BY <1>0 DEF RequestInv, TypeOK
  <2>1. ASSUME Mine(a), UNCHANGED <<entries, entryIDs>>,
               \/ pc'[a] \notin {"remove", "store"}
               \/ req'[a].job \in Jobs /\ req'[a].id = entryIDs[req'[a].job]
        PROVE  OwnerInv'
    BY <2>1 DEF OwnerInv, Mine
  <2>2. CASE Request(a)
    BY <1>0, <2>1, <2>2, Requesting DEF cronState
  <2>3. CASE LoadJob(a)
    BY <1>0, <2>1, <2>3, Loading DEF cronState
  <2>4. CASE WriteConfig(a)
    BY <1>0, <2>1, <2>4, Writing DEF cronState
  <2>5. CASE LookupEntry(a)
    <3>1. req[a].job \in Jobs
      BY <2>0, <2>5 DEF LookupEntry, RequestOf
    <3> QED
      BY <1>0, <2>1, <2>5, <3>1, Looking DEF cronState
  <2>6. CASE RemoveEntry(a)
    <3>1. /\ Mine(a) /\ pc[a] = "remove" /\ pc'[a] = "reload"
          /\ entries' = {x \in entries : x.id # req[a].id}
          /\ entryIDs' = entryIDs \/ entryIDs' = [entryIDs EXCEPT ![req[a].job] = 0]
      BY <1>0, <2>6, Removing
    <3>2. \A j \in Jobs : entryIDs'[j] = entryIDs[j] \/ entryIDs'[j] = 0
      BY <2>0, <3>1
    <3> QED
      BY <2>0, <3>1, <3>2 DEF OwnerInv, Mine
  <2>7. CASE ReloadConfig(a)
    <3>1. req[a].job \in Jobs
      BY <2>0, <2>7 DEF ReloadConfig, RequestOf
    <3> QED
      BY <1>0, <2>1, <2>7, <3>1, Reloading DEF cronState
  <2>8. CASE RegisterJob(a)
    <3>1. /\ Mine(a) /\ pc[a] = "register" /\ req'[a].job = req[a].job
          /\ UNCHANGED entryIDs
          /\ \/ /\ pc'[a] = "store" /\ req'[a].id = lastId + 1
                /\ entries' = entries \cup {New(a)}
             \/ pc'[a] = "idle" /\ UNCHANGED entries
      BY <1>0, <2>8, Registering
    <3>2. CASE pc'[a] = "idle" /\ UNCHANGED entries
      BY <2>1, <3>1, <3>2
    <3>3. CASE /\ pc'[a] = "store" /\ req'[a].id = lastId + 1
               /\ entries' = entries \cup {New(a)}
      <4>1. ASSUME NEW x \in entries
            PROVE  /\ x.id # lastId + 1
                   /\ \A j \in Jobs : entryIDs[j] = x.id => x.job = j
                   /\ \A b \in Admins :
                          pc'[b] \in {"remove", "store"} /\ req'[b].id = x.id
                          => x.job = req'[b].job
        BY <2>0, <3>1, <3>3 DEF OwnerInv, Mine
      <4>2. \A j \in Jobs : entryIDs[j] # lastId + 1
        BY <2>0
      <4>3. \A b \in Admins \ {a} :
                pc'[b] \in {"remove", "store"} => req'[b].id # lastId + 1
        BY <2>0, <3>1 DEF Mine, RequestOf
      <4>4. New(a).id = lastId + 1 /\ New(a).job = req'[a].job
        BY <3>1, NewFields
      <4> QED
        BY <3>1, <3>3, <4>1, <4>2, <4>3, <4>4 DEF OwnerInv
    <3> QED
      BY <3>1, <3>2, <3>3
  <2>9. CASE StoreEntryID(a)
    <3>1. /\ Mine(a) /\ pc[a] = "store" /\ pc'[a] = "idle" /\ UNCHANGED entries
          /\ entryIDs' = [entryIDs EXCEPT ![req[a].job] = req[a].id]
      BY <1>0, <2>9, Storing
    <3>2. \A j \in Jobs :
              entryIDs'[j] = entryIDs[j] \/ (j = req[a].job /\ entryIDs'[j] = req[a].id)
      BY <2>0, <3>1
    <3> QED
      BY <3>1, <3>2 DEF OwnerInv, Mine
  <2> QED
    BY <1>4, <2>2, <2>3, <2>4, <2>5, <2>6, <2>7, <2>8, <2>9 DEF Asking
<1> QED
  BY <1>1, <1>2, <1>3, <1>4, Steps DEF Idling, Initialising

-------------------------------------------------------------------------------
(* An enabled job keeps running. *)

\* A job runs, or is about to, as long as the step of one request sees to it.
LEMMA StillServed ==
  ASSUME KeepsInv, Serving, NEW a \in Admins, Mine(a), NEW j \in Jobs \ broken,
         config'[j] = config[j], Wanted(j)',
         Running(j) => Running(j)' \/ Pending(a, j)',
         Pending(a, j) => Running(j)' \/ Pending(a, j)'
  PROVE  Running(j)' \/ \E b \in Admins : Pending(b, j)'
<1>1. Wanted(j)
  BY DEF Wanted, Parses
<1>2. Running(j) \/ \E b \in Admins : Pending(b, j)
  BY <1>1 DEF KeepsInv
<1>3. ASSUME NEW b \in Admins \ {a}, Pending(b, j)
      PROVE  Pending(b, j)'
  BY <1>3 DEF Pending, Mine
<1> QED
  BY <1>2, <1>3

\* Nothing runs when nothing has started.
LEMMA InitKeeps == Init => KeepsInv
BY DEF Init, KeepsInv, Serving

\* Every step keeps an enabled job running, or leaves a request to see to it.
LEMMA NextKeeps == IInv /\ OwnerInv /\ KeepsInv /\ [Next]_vars => KeepsInv'
<1> SUFFICES ASSUME IInv, OwnerInv, KeepsInv, [Next]_vars, Serving',
                    NEW j \in Jobs, j \notin broken', Wanted(j)'
             PROVE  Running(j)' \/ \E b \in Admins : Pending(b, j)'
  BY DEF KeepsInv
<1>0. TypeOK /\ ServerInv /\ RequestInv
  BY DEF IInv
<1>2. CASE Down
  BY <1>2 DEF Down, Serving
<1>3. CASE Idling
  BY <1>3 DEF Idling, KeepsInv, Wanted, Running, Pending, Parses, cronState, spoilt
<1>4. ASSUME NEW k \in Jobs, Initialising(k)
      PROVE  FALSE
  BY <1>4 DEF Initialising
<1>5. CASE Rising
  <2>1. j \in Due /\ config'[j] = config[j]
    BY <1>0, <1>5 DEF Rising, Due, ListEnabled, Wanted, RequestInv, Parses
  <2>2. PICK x \in entries' : x.job = j /\ x.schedule = config[j].schedule
    BY <1>5, <2>1, RisingEntries
  <2> QED
    BY <2>1, <2>2 DEF Running
<1>6. ASSUME NEW a \in Admins, Asking(a)
      PROVE  Running(j)' \/ \E b \in Admins : Pending(b, j)'
  <2>0. RequestOf(a) /\ Serving /\ config \in [Jobs -> Rows] /\ j \in Jobs \ broken
    <3>1. RequestOf(a)
      BY <1>0 DEF RequestInv
    <3>2. req[a].job \in Jobs \/ Request(a)
      BY <1>6, <3>1 DEF Asking, LoadJob, WriteConfig, LookupEntry, RemoveEntry,
         ReloadConfig, RegisterJob, StoreEntryID, RequestOf
    <3>3. broken \subseteq broken'
      BY <1>0, <1>6, <3>2, AskingSpoils
    <3> QED
      BY <1>0, <1>6, <3>1, <3>3, AskingServer DEF TypeOK
  <2>1. CASE Request(a)
    <3>1. /\ Mine(a) /\ pc[a] = "idle" /\ UNCHANGED <<config, entries>>
      BY <1>0, <2>1, Requesting DEF cronState
    <3> QED
      BY <2>0, <3>1, StillServed DEF Running, Pending
  <2>2. CASE LoadJob(a)
    <3>1. /\ Mine(a) /\ pc[a] = "load" /\ UNCHANGED <<config, entries>>
      BY <1>0, <2>2, Loading DEF cronState
    <3> QED
      BY <2>0, <3>1, StillServed DEF Running, Pending
  <2>3. CASE WriteConfig(a)
    <3>1. /\ Mine(a) /\ pc[a] = "write" /\ req'[a] = req[a] /\ UNCHANGED entries
          /\ \/ pc'[a] = "idle" /\ UNCHANGED config
             \/ /\ config' = [config EXCEPT ![req[a].job] = Changed(req[a])]
                /\ pc'[a] = "lookup" \/ (pc'[a] = "idle" /\ ~Changed(req[a]).enabled)
      BY <1>0, <2>3, Writing DEF cronState
    <3>2. req[a].job \in Jobs
      BY <2>0, <3>1 DEF RequestOf
    <3>3. CASE config'[j] = config[j]
      BY <2>0, <3>1, <3>3, StillServed DEF Running, Pending
    <3>4. CASE config'[j] # config[j]
      <4>1. j = req[a].job /\ config'[j] = Changed(req[a])
        BY <2>0, <3>1, <3>2, <3>4
      <4>2. pc'[a] = "lookup"
        BY <3>1, <3>4, <4>1 DEF Wanted
      <4> QED
        BY <3>1, <4>1, <4>2 DEF Pending
    <3> QED
      BY <3>3, <3>4
  <2>4. CASE LookupEntry(a)
    <3>1. req[a].job \in Jobs
      BY <2>0, <2>4 DEF LookupEntry, RequestOf
    <3>2. /\ Mine(a) /\ pc[a] = "lookup" /\ pc'[a] = "remove" /\ req'[a].job = req[a].job
          /\ UNCHANGED <<config, entries>>
      BY <1>0, <2>4, <3>1, Looking DEF cronState
    <3> QED
      BY <2>0, <3>2, StillServed DEF Running, Pending
  <2>5. CASE RemoveEntry(a)
    <3>1. /\ Mine(a) /\ pc[a] = "remove" /\ pc'[a] = "reload" /\ req'[a] = req[a]
          /\ entries' = {x \in entries : x.id # req[a].id} /\ UNCHANGED config
      BY <1>0, <2>5, Removing
    <3>2. CASE j = req[a].job
      BY <3>1, <3>2 DEF Pending
    <3>3. CASE j # req[a].job
      <4>1. \A x \in entries : x.job = j => x \in entries'
        BY <3>1, <3>3 DEF OwnerInv
      <4> QED
        BY <2>0, <3>1, <3>3, <4>1, StillServed DEF Running, Pending
    <3> QED
      BY <3>2, <3>3
  <2>6. CASE ReloadConfig(a)
    <3>1. req[a].job \in Jobs
      BY <2>0, <2>6 DEF ReloadConfig, RequestOf
    <3>2. /\ Mine(a) /\ pc[a] = "reload" /\ req'[a].job = req[a].job
          /\ \/ req[a].job \in broken'
             \/ pc'[a] = "register" /\ req'[a].schedule = config[req[a].job].schedule
          /\ UNCHANGED <<config, entries>>
      BY <1>0, <2>6, <3>1, Reloading DEF cronState
    <3> QED
      BY <2>0, <3>2, StillServed DEF Running, Pending
  <2>7. CASE RegisterJob(a)
    <3>1. /\ Mine(a) /\ pc[a] = "register" /\ UNCHANGED config
          /\ \/ entries' = entries \cup {New(a)}
             \/ ~Parses(req[a].schedule) /\ UNCHANGED entries
      BY <1>0, <2>7, Registering
    <3>2. Running(j) => Running(j)'
      BY <3>1 DEF Running
    <3>3. ASSUME Pending(a, j)
          PROVE  Running(j)'
      <4>1. req[a].job = j /\ req[a].schedule = config[j].schedule
        BY <3>1, <3>3 DEF Pending
      <4>2. entries' = entries \cup {New(a)}
        BY <3>1, <4>1 DEF Wanted, Parses
      <4> QED
        BY <3>1, <4>1, <4>2, NewFields DEF Running
    <3> QED
      BY <2>0, <3>1, <3>2, <3>3, StillServed
  <2>8. CASE StoreEntryID(a)
    <3>1. Mine(a) /\ pc[a] = "store" /\ UNCHANGED <<config, entries>>
      BY <1>0, <2>8, Storing
    <3> QED
      BY <2>0, <3>1, StillServed DEF Running, Pending
  <2> QED
    BY <1>6, <2>1, <2>2, <2>3, <2>4, <2>5, <2>6, <2>7, <2>8 DEF Asking
<1> QED
  BY <1>2, <1>3, <1>4, <1>5, <1>6, Steps

\* Both hold throughout.
LEMMA KeepsHolds == Spec => [](OwnerInv /\ KeepsInv)
BY IInvHolds, InitOwner, NextOwner, InitKeeps, NextKeeps, PTL DEF Spec

\* However requests for the same job overlap and overtake each other, whatever else
\* fails, and after every restart: the schedule that its row holds between requests
\* is among those an enabled job runs on, unless a reload of this very job has
\* failed since the start.
THEOREM EnabledKeepsRunningHolds == Spec => []EnabledKeepsRunning
<1>1. KeepsInv => EnabledKeepsRunning
  <2> SUFFICES ASSUME KeepsInv, server = "up", NEW j \in Jobs \ broken, Wanted(j), Resting(j)
               PROVE  Running(j)
    BY DEF EnabledKeepsRunning, Running
  <2>1. Serving /\ \A a \in Admins : ~Pending(a, j)
    BY DEF Resting, Serving, Pending
  <2> QED
    BY <2>1 DEF KeepsInv
<1> QED
  BY <1>1, KeepsHolds, PTL

-------------------------------------------------------------------------------
(* Requests one after the other. *)

\* A step of a request is its own.
LEMMA AskingMine ==
  ASSUME TypeOK, RequestInv, NEW a \in Admins, Asking(a)
  PROVE  Mine(a)
<1>1. RequestOf(a)
  BY DEF RequestInv
<1>2. CASE LookupEntry(a) \/ ReloadConfig(a)
  <2>1. req[a].job \in Jobs
    BY <1>1, <1>2 DEF LookupEntry, ReloadConfig, RequestOf
  <2> QED
    BY <1>2, <2>1, Looking, Reloading
<1> QED
  BY <1>2, Requesting, Loading, Writing, Removing, Registering, Storing DEF Asking

\* The job of a request, and how it spoils it.
LEMMA AskingJob ==
  ASSUME TypeOK, RequestInv, NEW a \in Admins, Asking(a)
  PROVE  /\ req'[a].job \in Jobs
         /\ raced \subseteq raced' /\ broken \subseteq broken'
         /\ pc[a] # "idle" => req[a].job = req'[a].job
         /\ pc[a] = "idle" <=> Request(a)
<1>1. RequestOf(a)
  BY DEF RequestInv
<1>2. CASE Request(a)
  BY <1>2, Requesting, AskingSpoils
<1>3. CASE ~Request(a)
  <2>1. pc[a] # "idle"
    BY <1>3 DEF Asking, LoadJob, WriteConfig, LookupEntry, RemoveEntry, ReloadConfig,
       RegisterJob, StoreEntryID
  <2>2. req[a].job \in Jobs
    BY <1>1, <2>1 DEF RequestOf
  <2>3. req'[a].job = req[a].job
    BY <1>3, <2>2, Loading, Writing, Looking, Removing, Reloading, Registering, Storing
       DEF Asking
  <2> QED
    BY <1>3, <2>1, <2>2, <2>3, AskingSpoils
<1> QED
  BY <1>2, <1>3

\* Two requests of one job make a race of it.
LEMMA AskingAlone ==
  ASSUME TypeOK, RequestInv, SoleRequest, NEW a \in Admins, Asking(a),
         NEW b \in Admins \ {a}, pc[b] # "idle", req[b].job = req'[a].job
  PROVE  req'[a].job \in raced'
<1>1. CASE Request(a)
  <2>1. ~Resting(req'[a].job)
    BY DEF Resting
  <2> QED
    BY <1>1, <2>1, Requesting
<1>2. CASE ~Request(a)
  <2>1. pc[a] # "idle" /\ req[a].job = req'[a].job /\ raced \subseteq raced'
    BY <1>2, AskingJob
  <2> QED
    BY <2>1 DEF SoleRequest
<1> QED
  BY <1>1, <1>2

\* A request changes the row and the mapped entry of its own job only, and adds no
\* entry to another.
LEMMA Framing ==
  ASSUME TypeOK, RequestInv, NEW a \in Admins, Asking(a), NEW k \in Jobs, k # req'[a].job
  PROVE  /\ config'[k] = config[k] /\ entryIDs'[k] = entryIDs[k]
         /\ \A x \in entries' : x.job = k => x \in entries
<1>0. /\ config \in [Jobs -> Rows] /\ entryIDs \in [Jobs -> 0 .. lastId]
      /\ RequestOf(a) /\ req'[a].job \in Jobs
      /\ pc[a] # "idle" => req[a].job = req'[a].job
  BY AskingJob DEF TypeOK, RequestInv
<1>1. CASE Request(a)
  BY <1>1, Requesting DEF cronState
<1>2. CASE LoadJob(a)
  BY <1>2, Loading DEF cronState
<1>3. CASE WriteConfig(a)
  <2>1. /\ pc[a] = "write" /\ UNCHANGED <<entries, entryIDs>>
        /\ \/ UNCHANGED config
           \/ config' = [config EXCEPT ![req[a].job] = Changed(req[a])]
    BY <1>3, Writing DEF cronState
  <2> QED
    BY <1>0, <2>1
<1>4. CASE LookupEntry(a)
  <2>1. req[a].job \in Jobs
    BY <1>0, <1>4 DEF LookupEntry
  <2> QED
    BY <1>4, <2>1, Looking DEF cronState
<1>5. CASE RemoveEntry(a)
  <2>1. /\ pc[a] = "remove" /\ entries' \subseteq entries /\ UNCHANGED config
        /\ entryIDs' = entryIDs \/ entryIDs' = [entryIDs EXCEPT ![req[a].job] = 0]
    BY <1>5, Removing
  <2> QED
    BY <1>0, <2>1
<1>6. CASE ReloadConfig(a)
  <2>1. req[a].job \in Jobs
    BY <1>0, <1>6 DEF ReloadConfig
  <2> QED
    BY <1>6, <2>1, Reloading DEF cronState
<1>7. CASE RegisterJob(a)
  <2>1. /\ pc[a] = "register" /\ UNCHANGED <<config, entryIDs>>
        /\ entries' = entries \cup {New(a)} \/ UNCHANGED entries
    BY <1>7, Registering
  <2> QED
    BY <1>0, <2>1, NewFields
<1>8. CASE StoreEntryID(a)
  <2>1. /\ pc[a] = "store" /\ UNCHANGED <<config, entries>>
        /\ entryIDs' = [entryIDs EXCEPT ![req[a].job] = req[a].id]
    BY <1>8, Storing
  <2> QED
    BY <1>0, <2>1
<1> QED
  BY <1>1, <1>2, <1>3, <1>4, <1>5, <1>6, <1>7, <1>8 DEF Asking

\* There are no requests when nothing has started.
LEMMA InitMapped == Init => MappedInv
BY DEF Init, MappedInv, SoleRequest, SoleOf

\* The job of a request that has it for itself: its entry goes before another comes.
LEMMA MappedOne ==
  ASSUME TypeOK, ServerInv, RequestInv, NEW a \in Admins, Asking(a),
         pc[a] # "idle" => SoleOf(a),
         \A x \in entries :
             x.job = req'[a].job => entryIDs[x.job] = x.id \/ pc[a] = "store"
  PROVE  /\ SoleOf(a)'
         /\ \A x \in entries' :
                x.job = req'[a].job => entryIDs'[x.job] = x.id \/ pc'[a] = "store"
<1> DEFINE k == req'[a].job
<1>0. /\ RequestOf(a) /\ k \in Jobs
      /\ pc[a] # "idle" => req[a].job = k
      /\ entryIDs \in [Jobs -> 0 .. lastId] /\ lastId \in Nat
      /\ \A x \in entries : x.job \in Jobs /\ x.id \in 1 .. lastId
  BY AskingJob DEF RequestInv, TypeOK
<1>2. ASSUME NEW x \in entries, x.job = k
      PROVE  entryIDs[k] = x.id \/ pc[a] = "store"
  BY <1>2
<1>3. CASE Request(a)
  <2>1. /\ pc[a] = "idle" /\ pc'[a] = "load" /\ UNCHANGED <<entries, entryIDs>>
    BY <1>3, Requesting DEF cronState
  <2> QED
    BY <1>2, <2>1 DEF SoleOf
<1>4. CASE LoadJob(a)
  <2>1. /\ pc[a] = "load" /\ pc'[a] \in {"idle", "write"}
        /\ UNCHANGED <<entries, entryIDs>>
    BY <1>4, Loading DEF cronState
  <2> QED
    BY <1>2, <2>1 DEF SoleOf
<1>5. CASE WriteConfig(a)
  <2>1. /\ pc[a] = "write" /\ pc'[a] \in {"idle", "lookup"}
        /\ UNCHANGED <<entries, entryIDs>>
    BY <1>5, Writing DEF cronState
  <2> QED
    BY <1>2, <2>1 DEF SoleOf
<1>6. CASE LookupEntry(a)
  <2>1. req[a].job \in Jobs
    BY <1>0, <1>6 DEF LookupEntry
  <2>2. /\ pc[a] = "lookup" /\ pc'[a] = "remove"
        /\ req'[a].id = entryIDs[k] /\ UNCHANGED <<entries, entryIDs>>
    BY <1>6, <2>1, Looking DEF cronState
  <2> QED
    BY <1>2, <2>2 DEF SoleOf
<1>7. CASE RemoveEntry(a)
  <2>1. /\ pc[a] = "remove" /\ pc'[a] = "reload" /\ req[a].job = k
        /\ entries' = {x \in entries : x.id # req[a].id}
    BY <1>0, <1>7, Removing
  <2>2. req[a].id = entryIDs[k]
    BY <2>1 DEF SoleOf
  <2>3. \A x \in entries' : x.job # k
    BY <1>2, <2>1, <2>2
  <2> QED
    BY <2>1, <2>3 DEF SoleOf
<1>8. CASE ReloadConfig(a)
  <2>1. req[a].job \in Jobs
    BY <1>0, <1>8 DEF ReloadConfig
  <2>2. /\ pc[a] = "reload" /\ req[a].job = k
        /\ \/ pc'[a] = "idle"
           \/ pc'[a] = "register" /\ req'[a].schedule = config[req[a].job].schedule
        /\ UNCHANGED <<config, entries, entryIDs>>
    BY <1>8, <2>1, Reloading DEF cronState
  <2>3. \A x \in entries : x.job # k
    BY <2>2 DEF SoleOf
  <2> QED
    BY <2>2, <2>3 DEF SoleOf
<1>9. CASE RegisterJob(a)
  <2>1. /\ pc[a] = "register" /\ req[a].job = k
        /\ \/ /\ pc'[a] = "store" /\ req'[a].id = lastId + 1
              /\ entries' = entries \cup {New(a)}
           \/ pc'[a] = "idle" /\ UNCHANGED entries
    BY <1>9, Registering
  <2>2. \A x \in entries : x.job # k
    BY <2>1 DEF SoleOf
  <2>3. New(a).id = lastId + 1
    BY NewFields
  <2> QED
    BY <2>1, <2>2, <2>3 DEF SoleOf
<1>10. CASE StoreEntryID(a)
  <2>1. /\ pc[a] = "store" /\ pc'[a] = "idle" /\ req[a].job = k /\ UNCHANGED entries
        /\ entryIDs' = [entryIDs EXCEPT ![req[a].job] = req[a].id]
    BY <1>10, Storing
  <2>2. \A x \in entries : x.job = k => x.id = req[a].id
    BY <2>1 DEF SoleOf
  <2>3. entryIDs'[k] = req[a].id
    BY <1>0, <2>1
  <2> QED
    BY <2>1, <2>2, <2>3 DEF SoleOf
<1> QED
  BY <1>3, <1>4, <1>5, <1>6, <1>7, <1>8, <1>9, <1>10 DEF Asking

\* The other jobs do not notice.
LEMMA MappedOthers ==
  ASSUME TypeOK, ServerInv, RequestInv, MappedInv, NEW a \in Admins, Asking(a)
  PROVE  /\ SoleRequest'
         /\ \A b \in Admins \ {a} : req'[b].job \notin raced' => SoleOf(b)'
         /\ \A x \in entries' :
                \/ x.job = req'[a].job
                \/ x.job \in raced'
                \/ entryIDs'[x.job] = x.id
                \/ \E b \in Admins : pc'[b] = "store" /\ req'[b].job = x.job
<1>0. /\ SoleRequest /\ \A b \in Admins : RequestOf(b)
      /\ \A b \in Admins \ {a} : pc'[b] = pc[b] /\ req'[b] = req[b]
      /\ raced \subseteq raced' /\ req'[a].job \in Jobs
      /\ pc[a] # "idle" => req[a].job = req'[a].job
  BY AskingMine, AskingJob DEF MappedInv, RequestInv, Mine
<1>1. ASSUME NEW b \in Admins \ {a}, pc[b] # "idle", req[b].job = req'[a].job
      PROVE  req'[a].job \in raced'
  BY <1>0, <1>1, AskingAlone
<1>2. SoleRequest'
  <2> SUFFICES ASSUME NEW b \in Admins, NEW c \in Admins, b # c, pc'[b] # "idle",
                      pc'[c] # "idle", req'[b].job = req'[c].job
               PROVE  req'[b].job \in raced'
    BY DEF SoleRequest
  <2>1. CASE b = a
    BY <1>0, <1>1, <2>1
  <2>2. CASE c = a
    BY <1>0, <1>1, <2>2
  <2>3. CASE b # a /\ c # a
    BY <1>0, <2>3 DEF SoleRequest
  <2> QED
    BY <2>1, <2>2, <2>3
<1>3. ASSUME NEW b \in Admins \ {a}, req'[b].job \notin raced'
      PROVE  SoleOf(b)'
  <2>1. SoleOf(b) /\ pc'[b] = pc[b] /\ req'[b] = req[b]
    BY <1>0, <1>3 DEF MappedInv
  <2>2. CASE pc[b] = "idle"
    BY <2>1, <2>2 DEF SoleOf
  <2>3. CASE pc[b] # "idle"
    <3>1. req[b].job \in Jobs /\ req[b].job # req'[a].job
      BY <1>0, <1>1, <1>3, <2>1, <2>3 DEF RequestOf
    <3>2. /\ config'[req[b].job] = config[req[b].job]
          /\ entryIDs'[req[b].job] = entryIDs[req[b].job]
          /\ \A x \in entries' : x.job = req[b].job => x \in entries
      BY <3>1, Framing
    <3> QED
      BY <2>1, <3>2 DEF SoleOf
  <2> QED
    BY <2>2, <2>3
<1>4. ASSUME NEW x \in entries', x.job # req'[a].job, x.job \notin raced'
      PROVE  \/ entryIDs'[x.job] = x.id
             \/ \E b \in Admins : pc'[b] = "store" /\ req'[b].job = x.job
  <2>0. TypeOK'
    <3>1. [Next]_vars
      BY DEF Asking, Next
    <3> QED
      BY <3>1, NextIInv DEF IInv
  <2>1. x.job \in Jobs
    BY <2>0 DEF TypeOK
  <2>2. entryIDs'[x.job] = entryIDs[x.job] /\ x \in entries
    BY <1>4, <2>1, Framing
  <2>3. CASE entryIDs[x.job] = x.id
    BY <2>2, <2>3
  <2>4. ASSUME NEW b \in Admins, pc[b] = "store", req[b].job = x.job
        PROVE  pc'[b] = "store" /\ req'[b].job = x.job
    BY <1>0, <1>4, <2>4
  <2> QED
    BY <1>0, <1>4, <2>2, <2>3, <2>4 DEF MappedInv
<1> QED
  BY <1>2, <1>3, <1>4

\* Each request removes the entry of its job before it registers another one.
LEMMA NextMapped == IInv /\ MappedInv /\ [Next]_vars => MappedInv'
<1> SUFFICES ASSUME IInv, MappedInv, [Next]_vars PROVE MappedInv'
  OBVIOUS
<1>0. TypeOK /\ ServerInv /\ RequestInv /\ SoleRequest
  BY DEF IInv, MappedInv
<1>1. CASE Down
  BY <1>1 DEF Down, MappedInv, SoleRequest, SoleOf
<1>2. CASE Idling
  BY <1>2 DEF Idling, MappedInv, SoleRequest, SoleOf, cronState, spoilt
<1>3. ASSUME NEW k \in Jobs, Initialising(k)
      PROVE  MappedInv'
  <2>1. entries' = {} /\ \A a \in Admins : pc'[a] = "idle"
    BY <1>0, <1>3 DEF Initialising, ServerInv, cronState
  <2> QED
    BY <2>1 DEF MappedInv, SoleRequest, SoleOf
<1>4. CASE Rising
  <2>1. \A a \in Admins : pc'[a] = "idle"
    BY <1>0, <1>4 DEF Rising, ServerInv
  <2>2. \A x \in entries' : entryIDs'[x.job] = x.id
    BY <1>4, RisingEntries
  <2> QED
    BY <2>1, <2>2 DEF MappedInv, SoleRequest, SoleOf
<1>5. ASSUME NEW a \in Admins, Asking(a)
      PROVE  MappedInv'
  <2>1. /\ SoleRequest'
        /\ \A b \in Admins \ {a} : req'[b].job \notin raced' => SoleOf(b)'
        /\ \A x \in entries' :
               \/ x.job = req'[a].job
               \/ x.job \in raced'
               \/ entryIDs'[x.job] = x.id
               \/ \E b \in Admins : pc'[b] = "store" /\ req'[b].job = x.job
    BY <1>0, <1>5, MappedOthers
  <2>2. CASE req'[a].job \in raced'
    BY <2>1, <2>2 DEF MappedInv
  <2>3. CASE req'[a].job \notin raced'
    <3>1. /\ raced \subseteq raced'
          /\ pc[a] # "idle" => req[a].job = req'[a].job
      BY <1>0, <1>5, AskingJob
    <3>2. pc[a] # "idle" => SoleOf(a)
      BY <2>3, <3>1 DEF MappedInv
    <3>3. ASSUME NEW x \in entries, x.job = req'[a].job
          PROVE  entryIDs[x.job] = x.id \/ pc[a] = "store"
      <4>1. x.job \notin raced
        BY <2>3, <3>1, <3>3
      <4>2. ASSUME NEW b \in Admins \ {a}, pc[b] = "store", req[b].job = x.job
            PROVE  FALSE
        BY <1>0, <1>5, <2>3, <3>3, <4>2, AskingAlone
      <4> QED
        BY <4>1, <4>2 DEF MappedInv
    <3>4. /\ SoleOf(a)'
          /\ \A x \in entries' :
                 x.job = req'[a].job => entryIDs'[x.job] = x.id \/ pc'[a] = "store"
      BY <1>0, <1>5, <3>2, <3>3, MappedOne
    <3> QED
      BY <2>1, <3>4 DEF MappedInv
  <2> QED
    BY <2>2, <2>3
<1> QED
  BY <1>1, <1>2, <1>3, <1>4, <1>5, Steps

\* They stay one after the other, each with the entry it knows.
LEMMA MappedHolds == Spec => []MappedInv
BY NextMapped, IInvHolds, InitMapped, PTL DEF Spec

\* The map entryIDs knows every entry of a job for which no request is served, unless
\* two requests for this very job have overlapped since the server started: neither
\* failed statements nor the reloads of other jobs in the same map put an entry
\* out of the reach of the next reload.
THEOREM EntriesAreMappedHolds == Spec => []EntriesAreMapped
<1>1. MappedInv => EntriesAreMapped
  BY DEF MappedInv, EntriesAreMapped, Resting
<1> QED
  BY <1>1, MappedHolds, PTL

\* Nothing runs when nothing has started.
LEMMA InitExact == Init => ExactInv
BY DEF Init, ExactInv, Serving

\* The job of a request that has it for itself.
LEMMA ExactOne ==
  ASSUME TypeOK, ServerInv, RequestInv, NEW a \in Admins, Asking(a),
         NEW k \in Jobs, k = req'[a].job, k \notin broken', pc[a] # "idle" => SoleOf(a),
         Wanted(k)', Wanted(k) => Fitting(k) \/ Pending(a, k)
  PROVE  Fitting(k)' \/ Pending(a, k)'
<1>0. /\ RequestOf(a) /\ config \in [Jobs -> Rows]
      /\ pc[a] # "idle" => req[a].job = k
  BY AskingJob DEF RequestInv, TypeOK
<1>1. req'[a].job = k
  OBVIOUS
<1>2. /\ config'[k].enabled /\ Parses(config'[k].schedule)
      /\ Wanted(k) => Fitting(k) \/ Pending(a, k)
  BY DEF Wanted, Parses
<1>4. CASE Request(a)
  <2>1. pc[a] = "idle" /\ UNCHANGED <<config, entries>>
    BY <1>4, Requesting DEF cronState
  <2> QED
    BY <1>2, <2>1 DEF Wanted, Parses, Fitting, Pending
<1>5. CASE LoadJob(a)
  <2>1. pc[a] = "load" /\ UNCHANGED <<config, entries>>
    BY <1>5, Loading DEF cronState
  <2> QED
    BY <1>2, <2>1 DEF Wanted, Parses, Fitting, Pending
<1>6. CASE WriteConfig(a)
  <2>1. /\ pc[a] = "write" /\ req'[a] = req[a] /\ UNCHANGED entries
        /\ \/ pc'[a] = "idle" /\ UNCHANGED config
           \/ /\ config' = [config EXCEPT ![req[a].job] = Changed(req[a])]
              /\ pc'[a] = "lookup" \/ (pc'[a] = "idle" /\ ~Changed(req[a]).enabled)
    BY <1>6, Writing DEF cronState
  <2>2. CASE UNCHANGED config
    BY <1>2, <2>1, <2>2 DEF Wanted, Parses, Fitting, Pending
  <2>3. CASE /\ config' = [config EXCEPT ![req[a].job] = Changed(req[a])]
             /\ pc'[a] = "lookup" \/ (pc'[a] = "idle" /\ ~Changed(req[a]).enabled)
    <3>1. config'[k] = Changed(req[a]) /\ req'[a].job = k
      BY <1>0, <1>1, <2>1, <2>3
    <3>2. pc'[a] = "lookup"
      BY <1>2, <2>3, <3>1
    <3> QED
      BY <3>1, <3>2 DEF Pending
  <2> QED
    BY <2>1, <2>2, <2>3
<1>7. CASE LookupEntry(a)
  <2>1. req[a].job \in Jobs
    BY <1>0, <1>7 DEF LookupEntry
  <2>2. pc'[a] = "remove"
    BY <1>7, <2>1, Looking
  <2> QED
    BY <1>1, <2>2 DEF Pending
<1>8. CASE RemoveEntry(a)
  <2>1. pc'[a] = "reload"
    BY <1>8, Removing
  <2> QED
    BY <1>1, <2>1 DEF Pending
<1>9. CASE ReloadConfig(a)
  <2>1. req[a].job \in Jobs /\ req[a].job = k
    BY <1>0, <1>1, <1>9 DEF ReloadConfig
  <2>2. /\ UNCHANGED config
        /\ \/ req[a].job \in broken'
           \/ pc'[a] = "register" /\ req'[a].schedule = config[req[a].job].schedule
    BY <1>9, <2>1, Reloading
  <2> QED
    BY <1>1, <1>2, <2>1, <2>2 DEF Pending
<1>10. CASE RegisterJob(a)
  <2>1. /\ pc[a] = "register" /\ UNCHANGED config
        /\ entries' = entries \cup {New(a)} \/ UNCHANGED entries
    BY <1>10, Registering
  <2>2. /\ req[a].job = k /\ req[a].schedule = config[k].schedule
        /\ \A x \in entries : x.job # k
    BY <1>0, <1>1, <2>1 DEF SoleOf
  <2> QED
    BY <2>1, <2>2, NewFields DEF Fitting
<1>11. CASE StoreEntryID(a)
  <2>1. pc[a] = "store" /\ UNCHANGED <<config, entries>>
    BY <1>11, Storing
  <2> QED
    BY <1>2, <2>1 DEF Wanted, Parses, Fitting, Pending
<1> QED
  BY <1>4, <1>5, <1>6, <1>7, <1>8, <1>9, <1>10, <1>11 DEF Asking

\* Every step keeps an enabled job to its schedule.
LEMMA NextExact == IInv /\ MappedInv /\ ExactInv /\ [Next]_vars => ExactInv'
<1> SUFFICES ASSUME IInv, MappedInv, ExactInv, [Next]_vars, Serving',
                    NEW j \in Jobs, j \notin raced', j \notin broken', Wanted(j)'
             PROVE  Fitting(j)' \/ \E b \in Admins : Pending(b, j)'
  BY DEF ExactInv
<1>0. TypeOK /\ ServerInv /\ RequestInv /\ SoleRequest
  BY DEF IInv, MappedInv
<1>1. CASE Down
  BY <1>1 DEF Down, Serving
<1>2. CASE Idling
  BY <1>2 DEF Idling, ExactInv, Wanted, Fitting, Pending, Parses, cronState, spoilt
<1>3. ASSUME NEW k \in Jobs, Initialising(k)
      PROVE  FALSE
  BY <1>3 DEF Initialising
<1>4. CASE Rising
  <2>1. UNCHANGED config
    BY <1>4 DEF Rising
  <2> QED
    BY <1>4, <2>1, RisingEntries DEF Fitting
<1>5. ASSUME NEW a \in Admins, Asking(a)
      PROVE  Fitting(j)' \/ \E b \in Admins : Pending(b, j)'
  <2>0. /\ Serving /\ j \notin raced /\ j \notin broken
        /\ pc[a] # "idle" => req[a].job = req'[a].job
        /\ \A b \in Admins \ {a} : pc'[b] = pc[b] /\ req'[b] = req[b]
    BY <1>0, <1>5, AskingServer, AskingJob, AskingMine DEF Mine
  <2>1. Wanted(j) => Fitting(j) \/ \E b \in Admins : Pending(b, j)
    BY <2>0 DEF ExactInv
  <2>2. CASE j # req'[a].job
    <3>1. /\ config'[j] = config[j]
          /\ \A x \in entries' : x.job = j => x \in entries
      BY <1>0, <1>5, <2>2, Framing
    <3>2. Wanted(j)
      BY <3>1 DEF Wanted, Parses
    <3>3. ASSUME NEW b \in Admins, Pending(b, j)
          PROVE  Pending(b, j)'
      <4>1. b # a
        BY <2>0, <2>2, <3>3 DEF Pending
      <4> QED
        BY <2>0, <3>1, <3>3, <4>1 DEF Pending
    <3> QED
      BY <2>1, <3>1, <3>2, <3>3 DEF Fitting
  <2>3. CASE j = req'[a].job
    <3>1. ASSUME NEW b \in Admins \ {a}
          PROVE  ~Pending(b, j)
      BY <1>0, <1>5, <2>3, AskingAlone DEF Pending
    <3>2. Wanted(j) => Fitting(j) \/ Pending(a, j)
      BY <2>1, <3>1
    <3>3. pc[a] # "idle" => SoleOf(a)
      BY <2>0, <2>3 DEF MappedInv
    <3> QED
      BY <1>0, <1>5, <2>3, <3>2, <3>3, ExactOne
  <2> QED
    BY <2>2, <2>3
<1> QED
  BY <1>1, <1>2, <1>3, <1>4, <1>5, Steps

\* An enabled job runs, when no request for it is served, on the schedule its row
\* holds and on no other, across failures of other jobs, crashes between the update
\* and the reload, and restarts, unless its own requests have overlapped or its own
\* reload has failed since the server started.
THEOREM EnabledIsScheduledHolds == Spec => []EnabledIsScheduled
<1>1. KeepsInv /\ ExactInv => EnabledIsScheduled
  <2> SUFFICES ASSUME KeepsInv, ExactInv, server = "up",
                      NEW j \in Jobs \ (raced \cup broken), Wanted(j), Resting(j)
               PROVE  {x.schedule : x \in {y \in entries : y.job = j}} = {config[j].schedule}
    BY DEF EnabledIsScheduled
  <2>1. Serving /\ \A a \in Admins : ~Pending(a, j)
    BY DEF Resting, Serving, Pending
  <2>2. Running(j) /\ Fitting(j)
    BY <2>1 DEF KeepsInv, ExactInv
  <2> QED
    BY <2>2 DEF Running, Fitting
<1> QED
  BY <1>1, NextExact, IInvHolds, MappedHolds, KeepsHolds, InitExact, PTL DEF Spec
===============================================================================
