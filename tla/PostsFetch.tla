-------------------------------- MODULE PostsFetch -------------------------------
(***************************************************************************)
(* The script scripts/fetch_profile_posts/main.go: it goes through a list  *)
(* of profiles, fetches the posts of those that are not COMPLETED yet and  *)
(* stores them.  A person starts it again after it has ended or died.      *)
(*                                                                         *)
(* Nothing else writes the rows of profile_posts, so a row is read where   *)
(* the script holds it in a variable.  The quota is an atomic counter, as  *)
(* in FetchJob; QuotaLedger says to what end.                              *)
(***************************************************************************)
EXTENDS Integers, Sequences

CONSTANTS
    Profiles,    \* usernames
    Records,     \* the classifications file: usernames, or Blank
    Blank,       \* a record without a username
    Limit,       \* quota_limit of the month
    MaxTries,    \* maxRateLimitRetries
    MaxPosts,    \* maxPostsPerProfile
    FolderSize,  \* objects of one run in a folder of the bucket
    MaxRuns,     \* bound: times the script is started
    MaxFaults    \* bound: failed statements and uploads

ASSUME PostsFetchAssumption ==
    /\ Blank \notin Profiles
    /\ Records \in Seq(Profiles \cup {Blank})
    /\ {Limit, MaxTries, FolderSize} \subseteq Nat \ {0}
    /\ {MaxPosts, MaxRuns, MaxFaults} \subseteq Nat

VARIABLES
    row,     \* the profile_posts row of each profile: status and S3 key
    items,   \* rows of profile_post_items of each profile
    bucket,  \* folders with an object of each profile
    used,    \* call_count of the month
    pc,      \* next step of the script
    pos,     \* the record it is at
    posts,   \* posts still to be inserted
    tries,   \* attempt of fetchWithRetry
    tally,   \* what it reports at its end
    served,  \* history: per profile, posts kept of each successful fetch, in order
    lost,    \* history: uploads and inserts that failed, per profile
    undone,  \* history: fetches that died or failed before the row was COMPLETED
    runs,    \* history: times the script was started
    faults   \* history: failed statements and uploads

store == <<row, items, bucket, used>>
loop  == <<pos, posts, tries, tally>>
ghost == <<served, lost, undone>>
vars  == <<store, pc, loop, ghost, runs, faults>>

NoKey == -1  \* s3_key is NULL; a key is told by its folder

Fields  == {"completed", "skipped", "failed", "notFound", "calls"}
NoTally == [f \in Fields |-> 0]

Init ==
    /\ row = [u \in Profiles |-> [status |-> "NONE", key |-> NoKey]]
    /\ items = [u \in Profiles |-> 0]
    /\ bucket = [u \in Profiles |-> {}]
    /\ used = 0
    /\ pc = "off"
    /\ pos = 1
    /\ posts = 0
    /\ tries = 0
    /\ tally = NoTally
    /\ served = [u \in Profiles |-> <<>>]
    /\ lost = [u \in Profiles |-> 0]
    /\ undone = [u \in Profiles |-> 0]
    /\ runs = 0
    /\ faults = 0

-------------------------------------------------------------------------------
(* Control. *)

User     == Records[pos]
Running  == pc \notin {"off", "over"}
Works    == UNCHANGED faults
Fails    == faults < MaxFaults /\ faults' = faults + 1
Bump(f)  == [f EXCEPT ![User] = @ + 1]
Write(r) == row' = [row EXCEPT ![User] = r]

Count(field) == tally' = [tally EXCEPT ![field] = @ + 1]

NextRecord ==
    /\ pc' = "record"
    /\ pos' = pos + 1

-------------------------------------------------------------------------------
(* The loop over the records. *)

StartRun ==
    /\ ~Running
    /\ runs < MaxRuns
    /\ runs' = runs + 1
    /\ pc' = "record"
    /\ pos' = 1
    /\ posts' = 0
    /\ tries' = 0
    /\ tally' = NoTally
    /\ UNCHANGED <<store, ghost, faults>>

TakeRecord ==
    /\ pc = "record"
    /\ IF pos > Len(Records)
       THEN pc' = "over" /\ UNCHANGED <<pos, tally>>
       ELSE IF User = Blank
       THEN NextRecord /\ Count("skipped")
       ELSE pc' = "lookup" /\ UNCHANGED <<pos, tally>>
    /\ UNCHANGED <<store, posts, tries, ghost, runs, faults>>

Everyone(r) == TRUE                  \* mutant: no check
Due(r)      == r.status # "COMPLETED"

LookUp ==
    /\ pc = "lookup"
    /\ \/ /\ Fails
          /\ Count("failed")
          /\ NextRecord
       \/ /\ Works
          /\ ~Due(row[User])
          /\ Count("skipped")
          /\ NextRecord
       \/ /\ Works
          /\ Due(row[User])
          /\ pc' = "quota"
          /\ UNCHANGED <<pos, tally>>
    /\ UNCHANGED <<store, posts, tries, ghost, runs>>

LastCallTwice == used <= Limit  \* mutant: off by one
HasQuota      == used < Limit

\* CheckAndReserveQuota; a refusal or an error ends the loop.
CheckQuota ==
    /\ pc = "quota"
    /\ \/ Works /\ HasQuota /\ pc' = "upsert"
       \/ Works /\ ~HasQuota /\ pc' = "over"
       \/ Fails /\ pc' = "over"
    /\ UNCHANGED <<store, loop, ghost, runs>>

UpsertProfilePost ==
    /\ pc = "upsert"
    /\ \/ /\ Works
          /\ Write([row[User] EXCEPT !.status = "PENDING"])
          /\ tries' = 0
          /\ pc' = "fetch"
          /\ UNCHANGED <<pos, tally>>
       \/ /\ Fails
          /\ Count("failed")
          /\ NextRecord
          /\ UNCHANGED <<row, tries>>
    /\ UNCHANGED <<items, bucket, used, posts, ghost, runs>>

-------------------------------------------------------------------------------
(* fetchWithRetry, and what follows its three errors. *)

Truncated(n) == IF n > MaxPosts THEN MaxPosts ELSE n

\* The provider sends any number of posts; one more than are kept stands for many.
FetchSucceeds ==
    /\ pc = "fetch"
    /\ \E n \in 0 .. MaxPosts + 1 :
           /\ posts' = Truncated(n)
           /\ served' = [served EXCEPT ![User] = Append(@, Truncated(n))]
    /\ Count("calls")
    /\ pc' = "upload"
    /\ UNCHANGED <<store, pos, tries, lost, undone, runs, faults>>

Restarted(n)   == (n + 1) % MaxTries  \* mutant: the attempts start over
NextAttempt(n) == n + 1

FetchRateLimited ==
    /\ pc = "fetch"
    /\ IF NextAttempt(tries) < MaxTries
       THEN tries' = NextAttempt(tries) /\ UNCHANGED <<pc, tally>>
       ELSE tries' = 0 /\ pc' = "exhausted" /\ Count("calls")
    /\ UNCHANGED <<store, pos, posts, ghost, runs, faults>>

FetchFails ==
    /\ pc = "fetch"
    /\ Count("calls")
    /\ pc' \in {"notFound", "failed"}
    /\ UNCHANGED <<store, pos, posts, tries, ghost, runs, faults>>

\* The error of updateProfilePostStatus is dropped.
WriteVerdict(status) ==
    /\ \/ Works /\ Write([row[User] EXCEPT !.status = status])
       \/ Fails /\ UNCHANGED row
    /\ NextRecord
    /\ UNCHANGED <<items, bucket, used, posts, tries, ghost, runs>>

NotFound ==
    /\ pc = "notFound"
    /\ Count("notFound")
    /\ WriteVerdict("NOT_FOUND")

FetchError ==
    /\ pc = "failed"
    /\ Count("failed")
    /\ WriteVerdict("FAILED")

Unreported ==  \* mutant: a profile that the rate limit stopped is not counted
    /\ pc = "exhausted"
    /\ UNCHANGED tally
    /\ WriteVerdict("FAILED")

\* "Stopping.": but the break leaves the switch, and the loop continues.
RateLimitExhausted ==
    /\ pc = "exhausted"
    /\ Count("failed")
    /\ WriteVerdict("FAILED")

-------------------------------------------------------------------------------
(* The posts are stored; an error of any of these steps is only logged. *)

Folder == tally.completed \div FolderSize

MarkEarly ==  \* mutant: the row is COMPLETED before the posts are inserted
    /\ pc = "upload"
    /\ bucket' = [bucket EXCEPT ![User] = @ \cup {Folder}]
    /\ Write([status |-> "COMPLETED", key |-> Folder])
    /\ pc' = "items"
    /\ UNCHANGED <<items, used, loop, ghost, runs, faults>>

UploadRaw ==
    /\ pc = "upload"
    /\ \/ /\ Works
          /\ bucket' = [bucket EXCEPT ![User] = @ \cup {Folder}]
          /\ UNCHANGED lost
       \/ /\ Fails
          /\ lost' = Bump(lost)
          /\ UNCHANGED bucket
    /\ pc' = "items"
    /\ UNCHANGED <<row, items, used, loop, served, undone, runs>>

InsertPostItem ==
    /\ pc = "items"
    /\ posts > 0
    /\ \/ /\ Works
          /\ items' = [items EXCEPT ![User] = @ + 1]
          /\ UNCHANGED lost
       \/ /\ Fails
          /\ lost' = Bump(lost)
          /\ UNCHANGED items
    /\ posts' = posts - 1
    /\ UNCHANGED <<row, bucket, used, pc, pos, tries, tally, served, undone, runs>>

MarkCompleted ==
    /\ pc = "items"
    /\ posts = 0
    /\ \/ /\ Works
          /\ Write([status |-> "COMPLETED", key |-> Folder])
          /\ UNCHANGED undone
       \/ /\ Fails
          /\ undone' = Bump(undone)
          /\ UNCHANGED row
    /\ pc' = "charge"
    /\ UNCHANGED <<items, bucket, used, loop, served, lost, runs>>

\* IncrementCallCount
Charge ==
    /\ pc = "charge"
    /\ \/ Works /\ used' = used + 1
       \/ Fails /\ UNCHANGED used
    /\ Count("completed")
    /\ NextRecord
    /\ UNCHANGED <<row, items, bucket, posts, tries, ghost, runs>>

-------------------------------------------------------------------------------
(* Surroundings, and the specification. *)

\* The script is stopped between two steps; its variables are gone.
Crash ==
    /\ Running
    /\ pc' = "off"
    /\ pos' = 1
    /\ posts' = 0
    /\ tries' = 0
    /\ tally' = NoTally
    /\ IF pc \in {"upload", "items"} THEN undone' = Bump(undone) ELSE UNCHANGED undone
    /\ UNCHANGED <<store, served, lost, runs, faults>>

Step ==
    \/ TakeRecord
    \/ LookUp
    \/ CheckQuota
    \/ UpsertProfilePost
    \/ FetchSucceeds
    \/ FetchRateLimited
    \/ FetchFails
    \/ NotFound
    \/ FetchError
    \/ RateLimitExhausted
    \/ UploadRaw
    \/ InsertPostItem
    \/ MarkCompleted
    \/ Charge

Rest == ~Running /\ runs = MaxRuns /\ UNCHANGED vars

Next == StartRun \/ Step \/ Crash \/ Rest

Spec == Init /\ [][Next]_vars

\* The script goes on; the HTTP client has a timeout, so each call is answered.
FairSpec == Spec /\ WF_vars(Step)

-------------------------------------------------------------------------------
(* Properties. *)

Labels == {"off", "record", "lookup", "quota", "upsert", "fetch", "notFound", "failed",
           "exhausted", "upload", "items", "charge", "over"}

Statuses == {"NONE", "PENDING", "COMPLETED", "FAILED", "NOT_FOUND"}
Rows     == [Profiles -> [status : Statuses, key : Nat \cup {NoKey}]]

\* Type invariant of the posts script, with the two bounds that cut a loop.
TypeOK ==
    /\ row \in Rows
    /\ items \in [Profiles -> Nat]
    /\ bucket \in [Profiles -> SUBSET Nat]
    /\ used \in Nat
    /\ pc \in Labels
    /\ pos \in 1 .. Len(Records) + 1
    /\ posts \in 0 .. MaxPosts
    /\ tries \in 0 .. MaxTries - 1
    /\ tally \in [Fields -> Nat]
    /\ served \in [Profiles -> Seq(0 .. MaxPosts)]
    /\ lost \in [Profiles -> Nat]
    /\ undone \in [Profiles -> Nat]
    /\ runs \in 0 .. MaxRuns
    /\ faults \in 0 .. MaxFaults

\* The report adds up: every record that the loop is through with is in exactly
\* one of the four counts, on each way out of the loop's body.
ReportAddsUp ==
    /\ tally.completed + tally.skipped + tally.failed + tally.notFound = pos - 1
    /\ pc \in {"record", "over"} =>
           tally.calls \in tally.completed + tally.notFound
                           .. tally.completed + tally.notFound + tally.failed

\* A profile whose row reads COMPLETED has the posts of its last fetch and the raw
\* object of its key, unless the upload or an insert failed (which is only
\* logged); and it has these posts once, unless an earlier fetch was left undone.
Stored(u) == row[u].status = "COMPLETED"

Kept(u) == served[u][Len(served[u])]

CompletedIsStored ==
    \A u \in Profiles :
        Stored(u) /\ lost[u] = 0 =>
            /\ row[u].key \in bucket[u]
            /\ served[u] # <<>>
            /\ items[u] >= Kept(u)
            /\ undone[u] = 0 => items[u] = Kept(u)

\* A profile is fetched once in all runs of the script, whatever is listed twice;
\* once more for each fetch that failed or died before its row was COMPLETED.
FetchedOnce == \A u \in Profiles : Len(served[u]) <= 1 + undone[u]

\* A row that reads COMPLETED is final, and so are the profile's posts and object.
CompletedIsFinal ==
    [][\A u \in Profiles :
           Stored(u) => UNCHANGED <<row[u], items[u], bucket[u], served[u]>>]_vars

\* The script is a customer of QuotaLedger: it is allowed one call, and charges
\* it or lets it lapse before it asks for the next.
Credit == IF pc \in {"upsert", "fetch", "upload", "items", "charge"} THEN 1 ELSE 0

Ledger == INSTANCE QuotaLedger WITH
    Customers    <- {"script"},
    Months       <- {1},
    MonthlyQuota <- Limit,
    spent        <- [m \in {1} |-> used],
    limit        <- [m \in {1} |-> Limit],
    credit       <- [c \in {"script"} |-> Credit]

KeepsLedger == Ledger!Spec

\* A run ends, even if the provider answers nothing but 429.
RunEnds == Running ~> ~Running
===============================================================================
