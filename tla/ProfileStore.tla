------------------------------- MODULE ProfileStore ------------------------------
(***************************************************************************)
(* Profiles by request: FetchProfileByURL and FetchSinglEntry of           *)
(* ProfileFetcher (pkg/usecase/usecase/profilefetcher/fetcher.go) with the *)
(* Create of the entry repository and the Upsert of the profile            *)
(* repository, for requests that are served at the same time.              *)
(*                                                                         *)
(* A slug is what a LinkedIn URL leads with and what linkedin_urn holds; a *)
(* profile row has the urn of a person and the username the provider       *)
(* reported, and only the urn is unique.  Several slugs may lead to one    *)
(* person (the case of a URL's letters is kept), and people change their   *)
(* usernames.  Urns are never slugs.  The quota and the retries of a call, *)
(* which FetchJob has, are left out: a call is answered or fails.          *)
(***************************************************************************)
EXTENDS Integers, FiniteSets

CONSTANTS
    People,      \* the urns the provider reports
    Names,       \* slugs that may be somebody's username
    Aliases,     \* slugs that lead to a person of another username
    LeadsTo,     \* the person of each alias
    NoName,      \* the empty username
    FirstName,   \* the username of each person at the start
    Requests,    \* calls of FetchProfileByURL or FetchSinglEntry
    NoRequest,   \* not one of them
    MaxTime,     \* bound: seconds that pass
    MaxRenames,  \* bound: changes of a username
    MaxDeletes,  \* bound: entries deleted by an admin
    MaxFaults    \* bound: statements, uploads and downloads that fail

Slugs == Names \cup Aliases
Times == 0 .. MaxTime

ASSUME ProfileStoreAssumption ==
    /\ Names \cap Aliases = {}
    /\ LeadsTo \in [Aliases -> People]
    /\ NoName \notin Slugs
    /\ FirstName \in [People -> Names \cup {NoName}]
    /\ \A p, q \in People : FirstName[p] = FirstName[q] => p = q \/ FirstName[p] = NoName
    /\ NoRequest \notin Requests
    /\ {MaxTime, MaxRenames, MaxDeletes, MaxFaults} \subseteq Nat

VARIABLES
    name,     \* the username of each person at the provider
    entry,    \* status of the profile entry of each slug, "NONE" without a row
    profile,  \* username, S3 key and location in the profile row of each urn
    raw,      \* the raw object under each S3 key
    cleaned,  \* the cleaned object
    now,      \* the clock, in seconds
    pc,       \* next step of each request
    local,    \* its variables
    bore,     \* history: who has had which username
    stamp,    \* history: slug and second at which a request began to upload
    beaten,   \* history: requests during which another one stored their slug
    renames, deletes, faults  \* history: what else has happened

tables == <<entry, profile>>
bucket == <<raw, cleaned>>
world  == <<name, now, bore, renames>>
vars   == <<world, tables, bucket, pc, local, stamp, beaten, deletes, faults>>

Keys     == Slugs \X Times
NoKey    == <<>>
NoObject == [by |-> NoRequest]
NoRow    == [name |-> NoName, key |-> NoKey, geo |-> NoObject]

\* What the provider answered: the profile of a person, with a username, and with or
\* without a location, which stands for the columns that may be missing.
Answers == [by : Requests, who : People, name : Names \cup {NoName}, geo : BOOLEAN]

Fresh == [byURL  |-> FALSE,
          slug   |-> NoName,
          answer |-> NoObject,   \* the profile it fetched
          key    |-> NoKey,      \* the S3 key it uploads to or downloads from
          target |-> {},         \* the urn of the row Upsert has found
          verdict |-> "none",    \* the status the entry of a failed fetch gets
          given  |-> NoObject]   \* the profile it returned

Init ==
    /\ name = FirstName
    /\ entry \in [Slugs -> {"NONE", "PENDING"}]
    /\ profile = [p \in People |-> NoRow]
    /\ raw = [k \in Keys |-> NoObject]
    /\ cleaned = [k \in Keys |-> NoObject]
    /\ now = 0
    /\ pc = [r \in Requests |-> "idle"]
    /\ local = [r \in Requests |-> Fresh]
    /\ bore = {<<p, FirstName[p]>> : p \in People}
    /\ stamp = [r \in Requests |-> NoKey]
    /\ beaten = {}
    /\ renames = 0
    /\ deletes = 0
    /\ faults = 0

-------------------------------------------------------------------------------
(* Control. *)

Over    == {"answered", "missing", "refused", "unknown", "failed", "done"}
Live(r) == pc[r] # "idle" /\ pc[r] \notin Over

Goto(r, label) == pc' = [pc EXCEPT ![r] = label]
Keep(r, v)     == local' = [local EXCEPT ![r] = v]

Works == UNCHANGED faults
Fails == faults < MaxFaults /\ faults' = faults + 1

Slug(r) == local[r].slug

\* Nobody looks whether the row is still there.
SetStatus(s, status) ==
    entry' = [entry EXCEPT ![s] = IF @ = "NONE" THEN @ ELSE status]

GiveUp(r, verdict) ==
    /\ Keep(r, [local[r] EXCEPT !.verdict = verdict])
    /\ Goto(r, "fail")

\* The other requests that are going on for slug s.
Rivals(r, s) == {q \in Requests \ {r} : Live(q) /\ Slug(q) = s}

-------------------------------------------------------------------------------
(* Lookups. *)

AnyRow(s) == {p \in People : profile[p] # NoRow}  \* mutant: no WHERE
ByName(s) == {p \in People : profile[p] # NoRow /\ profile[p].name = s}

AskByURL(r) ==
    /\ pc[r] = "idle"
    /\ \E s \in Slugs : Keep(r, [Fresh EXCEPT !.byURL = TRUE, !.slug = s])
    /\ Goto(r, "look")
    /\ UNCHANGED <<world, tables, bucket, stamp, beaten, deletes, faults>>

\* fetchProfileEntry(id): GetById finds the entry.
AskForEntry(r) ==
    /\ pc[r] = "idle"
    /\ \E s \in Slugs :
           /\ entry[s] # "NONE"
           /\ Keep(r, [Fresh EXCEPT !.slug = s])
    /\ Goto(r, "mark")
    /\ UNCHANGED <<world, tables, bucket, stamp, beaten, deletes, faults>>

\* GetByURNOrUsername, before and after the fetch; First takes any row that fits.
LookUpProfile(r) ==
    /\ pc[r] \in {"look", "again"}
    /\ \/ /\ Works
          /\ \E p \in ByName(Slug(r)) :
                 Keep(r, [local[r] EXCEPT !.key = profile[p].key])
          /\ Goto(r, "download")
       \/ /\ Works
          /\ ByName(Slug(r)) = {}
          /\ Goto(r, IF pc[r] = "look" THEN "entry" ELSE "missing")
          /\ UNCHANGED local
       \/ Fails /\ Goto(r, "failed") /\ UNCHANGED local
    /\ UNCHANGED <<world, tables, bucket, stamp, beaten, deletes>>

\* GetByURN of the entry: what exists is reused.
MustCreate(s) == TRUE  \* mutant: an existing entry is not reused
NoEntry(s)    == entry[s] = "NONE"

FindEntry(r) ==
    /\ pc[r] = "entry"
    /\ \/ Works /\ NoEntry(Slug(r)) /\ Goto(r, "create")
       \/ Works /\ ~NoEntry(Slug(r)) /\ Goto(r, "mark")
       \/ Fails /\ Goto(r, "failed")
    /\ UNCHANGED <<world, tables, bucket, local, stamp, beaten, deletes>>

\* Create: no such entry, no such profile, and the unique index in the end.
CheckEntry(r) ==
    /\ pc[r] = "create"
    /\ \/ Works /\ entry[Slug(r)] # "NONE" /\ Goto(r, "refused")
       \/ Works /\ entry[Slug(r)] = "NONE" /\ Goto(r, "check")
       \/ Fails /\ Goto(r, "failed")
    /\ UNCHANGED <<world, tables, bucket, local, stamp, beaten, deletes>>

CheckProfile(r) ==
    /\ pc[r] = "check"
    /\ \/ Works /\ ByName(Slug(r)) # {} /\ Goto(r, "refused")
       \/ Works /\ ByName(Slug(r)) = {} /\ Goto(r, "insert")
       \/ Fails /\ Goto(r, "failed")
    /\ UNCHANGED <<world, tables, bucket, local, stamp, beaten, deletes>>

InsertEntry(r) ==
    /\ pc[r] = "insert"
    /\ \/ /\ Works
          /\ entry[Slug(r)] = "NONE"
          /\ entry' = [entry EXCEPT ![Slug(r)] = "PENDING"]
          /\ beaten' = beaten \cup Rivals(r, Slug(r))
          /\ Goto(r, "mark")
       \/ /\ Works
          /\ entry[Slug(r)] # "NONE"
          /\ Goto(r, "refused")
          /\ UNCHANGED <<entry, beaten>>
       \/ /\ Fails
          /\ Goto(r, "failed")
          /\ UNCHANGED <<entry, beaten>>
    /\ UNCHANGED <<world, profile, bucket, local, stamp, deletes>>

-------------------------------------------------------------------------------
(* fetchSingleProfileEntry. *)

MarkFetching(r) ==
    /\ pc[r] = "mark"
    /\ \/ Works /\ SetStatus(Slug(r), "FETCHING")
       \/ Fails /\ UNCHANGED entry
    /\ Goto(r, "fetch")
    /\ UNCHANGED <<world, profile, bucket, local, stamp, beaten, deletes>>

Behind(s) == {p \in People : name[p] = s \/ (s \in Aliases /\ LeadsTo[s] = p)}

FetchSucceeds(r) ==
    /\ pc[r] = "fetch"
    /\ \E p \in Behind(Slug(r)), g \in BOOLEAN :
           Keep(r, [local[r] EXCEPT !.answer =
                       [by |-> r, who |-> p, name |-> name[p], geo |-> g]])
    /\ Goto(r, "raw")
    /\ UNCHANGED <<world, tables, bucket, stamp, beaten, deletes, faults>>

FetchNotFound(r) ==
    /\ pc[r] = "fetch"
    /\ Behind(Slug(r)) = {}
    /\ GiveUp(r, "NOT_FOUND")
    /\ UNCHANGED <<world, tables, bucket, stamp, beaten, deletes, faults>>

FetchFails(r) ==
    /\ pc[r] = "fetch"
    /\ Fails
    /\ GiveUp(r, "FAILED")
    /\ UNCHANGED <<world, tables, bucket, stamp, beaten, deletes>>

\* The time in the key has a resolution of one second.
SlugOnly(s)  == <<s, 0>>        \* mutant: the key has no time
KeyFor(s)    == <<s, now>>

UploadRaw(r) ==
    LET k == KeyFor(Slug(r))
    IN  /\ pc[r] = "raw"
        /\ \/ /\ Works
              /\ raw' = [raw EXCEPT ![k] = local[r].answer]
              /\ stamp' = [stamp EXCEPT ![r] = <<Slug(r), now>>]
              /\ Keep(r, [local[r] EXCEPT !.key = k])
              /\ Goto(r, "cleaned")
           \/ /\ Fails
              /\ GiveUp(r, "FAILED")
              /\ UNCHANGED <<raw, stamp>>
        /\ UNCHANGED <<world, tables, cleaned, beaten, deletes>>

UploadCleaned(r) ==
    /\ pc[r] = "cleaned"
    /\ \/ /\ Works
          /\ cleaned' = [cleaned EXCEPT ![local[r].key] = local[r].answer]
          /\ Goto(r, "find")
          /\ UNCHANGED local
       \/ /\ Fails
          /\ GiveUp(r, "FAILED")
          /\ UNCHANGED cleaned
    /\ UNCHANGED <<world, tables, raw, stamp, beaten, deletes>>

\* Upsert, first statement: a row of the urn, or of the username unless that is
\* empty; First takes any that fits.
EveryRow(a) == {p \in People : profile[p] # NoRow}  \* mutant: no WHERE
RowsFor(a)  == {p \in People : /\ profile[p] # NoRow
                               /\ \/ p = a.who
                                  \/ a.name # NoName /\ profile[p].name = a.name}

FindRow(r) ==
    LET found == RowsFor(local[r].answer)
    IN  /\ pc[r] = "find"
        /\ \/ /\ Works
              /\ \/ found = {} /\ Keep(r, [local[r] EXCEPT !.target = {}])
                 \/ \E p \in found : Keep(r, [local[r] EXCEPT !.target = {p}])
              /\ Goto(r, "save")
           \/ Fails /\ GiveUp(r, "FAILED")
        /\ UNCHANGED <<world, tables, bucket, stamp, beaten, deletes>>

\* Second statement: the row it found gets username and keys, but keeps its urn, and
\* its location if the answer has none; a new row may meet one of the same urn that
\* was inserted in between.
Unnamed(row, a, k) ==  \* mutant: no SetUsername
    [name |-> NoName, key |-> k, geo |-> IF a.geo THEN a ELSE row.geo]
RowOf(row, a, k) ==
    [name |-> a.name, key |-> k, geo |-> IF a.geo THEN a ELSE row.geo]

SaveRow(r) ==
    LET a == local[r].answer
        Store(p) == /\ profile' = [profile EXCEPT ![p] = RowOf(@, a, local[r].key)]
                    /\ beaten' = beaten \cup Rivals(r, a.name)
                    /\ Goto(r, "complete")
                    /\ UNCHANGED local
    IN  /\ pc[r] = "save"
        /\ \/ Works /\ \E p \in local[r].target : Store(p)
           \/ Works /\ local[r].target = {} /\ profile[a.who] = NoRow /\ Store(a.who)
           \/ /\ \/ Works /\ local[r].target = {} /\ profile[a.who] # NoRow
                 \/ Fails
              /\ GiveUp(r, "FAILED")
              /\ UNCHANGED <<profile, beaten>>
        /\ UNCHANGED <<world, entry, bucket, stamp, deletes>>

\* Whatever failed, the entry gets its verdict, if it can be written.
WriteVerdict(r) ==
    /\ pc[r] = "fail"
    /\ \/ Works /\ SetStatus(Slug(r), local[r].verdict)
       \/ Fails /\ UNCHANGED entry
    /\ Goto(r, IF local[r].verdict = "NOT_FOUND" THEN "unknown" ELSE "failed")
    /\ UNCHANGED <<world, profile, bucket, local, stamp, beaten, deletes>>

\* UpdateAfterFetch: OnlyX panics without the row, and the server recovers; a
\* failed update is only logged.
CompleteEntry(r) ==
    LET next == IF local[r].byURL THEN "again" ELSE "done"
    IN  /\ pc[r] = "complete"
        /\ \/ /\ Works
              /\ entry[Slug(r)] # "NONE"
              /\ SetStatus(Slug(r), "COMPLETED")
              /\ Goto(r, next)
           \/ /\ Works
              /\ entry[Slug(r)] = "NONE"
              /\ Goto(r, "failed")
              /\ UNCHANGED entry
           \/ /\ Fails
              /\ \E label \in {next, "failed"} : Goto(r, label)
              /\ UNCHANGED entry
        /\ UNCHANGED <<world, profile, bucket, local, stamp, beaten, deletes>>

\* rawProfileJSON.
Download(r) ==
    /\ pc[r] = "download"
    /\ \/ /\ Works
          /\ raw[local[r].key] # NoObject
          /\ Keep(r, [local[r] EXCEPT !.given = raw[local[r].key]])
          /\ Goto(r, "answered")
       \/ /\ \/ Works /\ raw[local[r].key] = NoObject
             \/ Fails
          /\ Goto(r, "failed")
          /\ UNCHANGED local
    /\ UNCHANGED <<world, tables, bucket, stamp, beaten, deletes>>

-------------------------------------------------------------------------------
(* The rest of the world. *)

\* A person takes a username nobody has, or gives up their own.
Rename(p) ==
    /\ renames < MaxRenames
    /\ \E n \in (Names \ {name[q] : q \in People}) \cup {NoName} :
           /\ n # name[p]
           /\ name' = [name EXCEPT ![p] = n]
           /\ bore' = bore \cup {<<p, n>>}
    /\ renames' = renames + 1
    /\ UNCHANGED <<now, tables, bucket, pc, local, stamp, beaten, deletes, faults>>

Tick ==
    /\ now < MaxTime
    /\ now' = now + 1
    /\ UNCHANGED <<name, bore, renames, tables, bucket, pc, local, stamp, beaten,
                   deletes, faults>>

\* The deleteProfileEntry mutation.
DeleteEntry(s) ==
    /\ entry[s] # "NONE"
    /\ deletes < MaxDeletes
    /\ deletes' = deletes + 1
    /\ entry' = [entry EXCEPT ![s] = "NONE"]
    /\ UNCHANGED <<world, profile, bucket, pc, local, stamp, beaten, faults>>

Step(r) ==
    \/ LookUpProfile(r)
    \/ FindEntry(r)
    \/ CheckEntry(r)
    \/ CheckProfile(r)
    \/ InsertEntry(r)
    \/ MarkFetching(r)
    \/ FetchSucceeds(r)
    \/ FetchNotFound(r)
    \/ FetchFails(r)
    \/ UploadRaw(r)
    \/ UploadCleaned(r)
    \/ FindRow(r)
    \/ SaveRow(r)
    \/ WriteVerdict(r)
    \/ CompleteEntry(r)
    \/ Download(r)

Rest == (\A r \in Requests : ~Live(r)) /\ UNCHANGED vars

Next ==
    \/ \E r \in Requests : AskByURL(r) \/ AskForEntry(r) \/ Step(r)
    \/ \E p \in People : Rename(p)
    \/ \E s \in Slugs : DeleteEntry(s)
    \/ Tick
    \/ Rest

Spec == Init /\ [][Next]_vars

-------------------------------------------------------------------------------
(* Properties. *)

Statuses == {"PENDING", "FETCHING", "COMPLETED", "FAILED", "NOT_FOUND"}
Objects  == Answers \cup {NoObject}
Rows     == [name : Names \cup {NoName}, key : Keys, geo : Objects] \cup {NoRow}
Labels   == Over \cup {"idle", "look", "entry", "create", "check", "insert", "mark",
                       "fetch", "raw", "cleaned", "find", "save", "fail", "complete",
                       "again", "download"}
Locals   == [byURL   : BOOLEAN,
             slug    : Slugs \cup {NoName},
             answer  : Objects,
             key     : Keys \cup {NoKey},
             target  : SUBSET People,
             verdict : {"none", "FAILED", "NOT_FOUND"},
             given   : Objects]

\* Each variable has its type.
TypeOK ==
    /\ name \in [People -> Names \cup {NoName}]
    /\ entry \in [Slugs -> Statuses \cup {"NONE"}]
    /\ profile \in [People -> Rows]
    /\ raw \in [Keys -> Objects]
    /\ cleaned \in [Keys -> Objects]
    /\ now \in Times
    /\ pc \in [Requests -> Labels]
    /\ local \in [Requests -> Locals]
    /\ bore \subseteq People \X (Names \cup {NoName})
    /\ stamp \in [Requests -> Keys \cup {NoKey}]
    /\ beaten \subseteq Requests
    /\ renames \in 0 .. MaxRenames
    /\ deletes \in 0 .. MaxDeletes
    /\ faults \in 0 .. MaxFaults

Contested(k) == \E q, r \in Requests : q # r /\ stamp[q] = k /\ stamp[r] = k

\* Both objects of a profile row are in the bucket, they come from the same call of
\* the provider, the username of the row is theirs, and so is its location if they
\* have one; without one, Upsert leaves the location of an earlier answer. Only two
\* fetches of one slug within one second can mix the objects up (fetcher.go:729-731,
\* profile.go:82-120).
NameAndObjectsAgree ==
    \A p \in People :
        LET k == profile[p].key
        IN  profile[p] # NoRow =>
                /\ raw[k] # NoObject
                /\ cleaned[k] # NoObject
                /\ \/ Contested(k)
                   \/ /\ raw[k] = cleaned[k]
                      /\ raw[k].name = profile[p].name
                      /\ raw[k].geo => profile[p].geo = raw[k]

\* A request by URL returns a profile that has the slug of the URL for its
\* username, never one that merely lies in a row it found, except for the
\* contested keys (FetchProfileByURL, rawProfileJSON).
AnswerIsAsked ==
    \A r \in Requests :
        pc[r] = "answered" =>
            local[r].given.name = Slug(r) \/ Contested(local[r].key)

\* Upsert takes a row by urn or by username, and the username is not unique, but
\* a row never gets a username that the person of its urn has not had; nor does it
\* keep the location of somebody whose username that person has not had, although
\* it may be somebody else's.
NameWasBorne ==
    \A p \in People :
        /\ profile[p] # NoRow => <<p, profile[p].name>> \in bore
        /\ profile[p].geo # NoObject => <<p, profile[p].geo.name>> \in bore

\* Somebody has had username s and another one.
PassedOn(s) ==
    \E p \in People, n \in (Names \cup {NoName}) \ {s} : {<<p, s>>, <<p, n>>} \subseteq bore

\* A fetch that was stored is returned: the second lookup of FetchProfileByURL
\* finds nothing only if the provider calls the person by another username than
\* the slug, or somebody has changed a username from or to the slug.
MissingOnlyIfRenamed ==
    \A r \in Requests :
        pc[r] = "missing" => local[r].answer.name # Slug(r) \/ PassedOn(Slug(r))

\* A request by URL that must create the entry is refused only by a race: another
\* request has created the entry or stored the profile since it came in.
RefusedOnlyIfBeaten ==
    \A r \in Requests : pc[r] = "refused" => r \in beaten
===============================================================================
