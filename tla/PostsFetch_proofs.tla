----------------------------- MODULE PostsFetch_proofs ---------------------------
(***************************************************************************)
(* What holds of PostsFetch for every list of records, limit, number of    *)
(* attempts and of posts, and for any number of runs and faults.           *)
(***************************************************************************)
EXTENDS PostsFetch, TLAPS

\* The labels of the loop's body; of the steps that decide whether a profile is
\* fetched, and fetch it; and of those that hold an answer not stored yet.
Deciding == {"quota", "upsert", "fetch", "notFound", "failed", "exhausted"}
Body     == Deciding \cup {"lookup", "upload", "items", "charge"}
Answered == {"upload", "items", "charge", "notFound", "failed", "exhausted"}

Total == tally.completed + tally.skipped + tally.failed + tally.notFound

-------------------------------------------------------------------------------
(* Small facts. *)

\* Count adds one to one of them.
LEMMA Counting ==
  ASSUME tally \in [Fields -> Nat], NEW f \in Fields, Count(f)
  PROVE  /\ tally' \in [Fields -> Nat]
         /\ \A g \in Fields : tally'[g] = IF g = f THEN tally[g] + 1 ELSE tally[g]
BY DEF Count

\* A folder is numbered from zero.
LEMMA FolderIsNat ==
  ASSUME tally \in [Fields -> Nat]
  PROVE  Folder \in Nat
<1>1. tally.completed \in Nat
  BY DEF Fields
<1>2. FolderSize \in Nat /\ FolderSize > 0
  BY PostsFetchAssumption
<1>3. \A n \in Nat, k \in Nat : k > 0 => n \div k \in Nat
  BY SMTT(30)
<1> QED
  BY <1>1, <1>2, <1>3 DEF Folder

\* A number of posts that is cut off is one within MaxPosts.
LEMMA TruncatedPosts ==
  ASSUME NEW n \in Nat
  PROVE  Truncated(n) \in 0 .. MaxPosts
BY PostsFetchAssumption DEF Truncated

\* Bump adds one for the profile at hand.
LEMMA Bumping ==
  ASSUME NEW f \in [Profiles -> Nat], User \in Profiles
  PROVE  Bump(f) \in [Profiles -> Nat]
BY DEF Bump

\* A row whose status is written stays a row, with its key; and so does one that
\* is completed.
LEMMA WriteStatus ==
  ASSUME row \in Rows, User \in Profiles, NEW s \in Statuses,
         Write([row[User] EXCEPT !.status = s])
  PROVE  row' \in Rows
BY DEF Rows, Write

\* So is one that is completed under a folder.
LEMMA WriteCompleted ==
  ASSUME row \in Rows, User \in Profiles, NEW n \in Nat,
         Write([status |-> "COMPLETED", key |-> n])
  PROVE  row' \in Rows
BY DEF Rows, Write, Statuses

-------------------------------------------------------------------------------
(* Type correctness, with the bounds of the script's position. *)

\* In the body of the loop the record is one with a username.
AtUser == pc \in Body => pos \in 1 .. Len(Records) /\ User \in Profiles

\* At first.
LEMMA InitTypes == Init => TypeOK /\ AtUser
<1> SUFFICES ASSUME Init PROVE TypeOK /\ AtUser
  OBVIOUS
<1>1. tally \in [Fields -> Nat]
  BY DEF Init, NoTally
<1>2. Len(Records) \in Nat
  BY PostsFetchAssumption
<1> QED
  BY <1>1, <1>2, PostsFetchAssumption
     DEF Init, Rows, Statuses, TypeOK, AtUser, Body, Deciding, Labels, NoKey

\* The position moves by at most one, from a record of the file.
LEMMA PosMoves ==
  ASSUME pos \in 1 .. Len(Records), pos' \in {pos, pos + 1}
  PROVE  pos' \in 1 .. Len(Records) + 1
<1>1. Len(Records) \in Nat
  BY PostsFetchAssumption
<1> QED
  BY <1>1

\* A run starts at the first record.
LEMMA PosStarts == 1 \in 1 .. Len(Records) + 1
<1>1. Len(Records) \in Nat
  BY PostsFetchAssumption
<1> QED
  BY <1>1

\* Every step keeps the types.
LEMMA NextTypes ==
  ASSUME TypeOK, AtUser, [Next]_vars
  PROVE  TypeOK'
<1> USE DEF TypeOK
<1>0. MaxFaults \in Nat /\ NoKey \in Int
  BY PostsFetchAssumption DEF NoKey
<1>1. ASSUME StartRun PROVE TypeOK'
  <2>1. runs' \in 0 .. MaxRuns /\ posts' \in 0 .. MaxPosts /\ tries' \in 0 .. MaxTries - 1
    BY <1>1, PostsFetchAssumption DEF StartRun
  <2>2. tally' \in [Fields -> Nat]
    BY <1>1 DEF StartRun, NoTally
  <2>3. pos' \in 1 .. Len(Records) + 1
    <3> HIDE DEF TypeOK
    <3>1. pos' = 1
      BY <1>1 DEF StartRun
    <3> QED
      BY <3>1, PosStarts
  <2> QED
    BY <1>1, <2>1, <2>2, <2>3 DEF StartRun, Labels, store, ghost
<1>2. ASSUME TakeRecord PROVE TypeOK'
  <2>1. tally' \in [Fields -> Nat]
    BY <1>2, Counting DEF TakeRecord, Fields
  <2>2. pos' \in 1 .. Len(Records) + 1
    <3>1. pos \in 1 .. Len(Records) + 1 /\ Len(Records) \in Nat
      BY PostsFetchAssumption
    <3> HIDE DEF TypeOK
    <3>2. pos' = pos \/ (~(pos > Len(Records)) /\ pos' = pos + 1)
      BY <1>2 DEF TakeRecord, NextRecord
    <3> QED
      BY <3>1, <3>2
  <2> QED
    BY <1>0, <1>2, <2>1, <2>2
       DEF TakeRecord, Labels, store, ghost, NextRecord
<1>3. ASSUME LookUp PROVE TypeOK'
  <2>1. tally' \in [Fields -> Nat]
    BY <1>3, Counting DEF LookUp, Fields
  <2>3. pos \in 1 .. Len(Records) /\ User \in Profiles
    BY <1>3 DEF LookUp, AtUser, Body, Deciding
  <2>2. pos' \in 1 .. Len(Records) + 1
    <3> HIDE DEF TypeOK
    <3>1. pos' \in {pos, pos + 1}
      BY <1>3 DEF LookUp, NextRecord
    <3> QED
      BY <2>3, <3>1, PosMoves
  <2> QED
    BY <1>0, <1>3, <2>1, <2>2
       DEF LookUp, Labels, store, ghost, NextRecord, Fails, Works
<1>4. ASSUME CheckQuota PROVE TypeOK'
  <2>1. tally' \in [Fields -> Nat]
    BY <1>4, Counting DEF CheckQuota, Fields, loop
  <2> QED
    BY <1>0, <1>4, <2>1
       DEF CheckQuota, Labels, store, loop, ghost, Fails, Works
<1>5. ASSUME UpsertProfilePost PROVE TypeOK'
  <2>1. tally' \in [Fields -> Nat]
    BY <1>5, Counting DEF UpsertProfilePost, Fields
  <2>3. pos \in 1 .. Len(Records) /\ User \in Profiles
    BY <1>5 DEF UpsertProfilePost, AtUser, Body, Deciding
  <2>2. pos' \in 1 .. Len(Records) + 1
    <3> HIDE DEF TypeOK
    <3>1. pos' \in {pos, pos + 1}
      BY <1>5 DEF UpsertProfilePost, NextRecord
    <3> QED
      BY <2>3, <3>1, PosMoves
  <2>5. row' \in Rows
    BY <1>5, <2>3, WriteStatus DEF UpsertProfilePost, Statuses
  <2>4. tries' \in 0 .. MaxTries - 1
    BY <1>5, PostsFetchAssumption DEF UpsertProfilePost
  <2> QED
    BY <1>0, <1>5, <2>1, <2>2, <2>4, <2>5
       DEF UpsertProfilePost, Labels, ghost, NextRecord, Fails, Works
<1>6. ASSUME FetchSucceeds PROVE TypeOK'
  <2>1. tally' \in [Fields -> Nat]
    BY <1>6, Counting DEF FetchSucceeds, Fields
  <2>3. pos \in 1 .. Len(Records) /\ User \in Profiles
    BY <1>6 DEF FetchSucceeds, AtUser, Body, Deciding
  <2>4. posts' \in 0 .. MaxPosts /\ served' \in [Profiles -> Seq(0 .. MaxPosts)]
    <3>1. PICK n \in 0 .. MaxPosts + 1 :
              /\ posts' = Truncated(n)
              /\ served' = [served EXCEPT ![User] = Append(@, Truncated(n))]
      BY <1>6 DEF FetchSucceeds
    <3>2. Truncated(n) \in 0 .. MaxPosts
      BY TruncatedPosts, PostsFetchAssumption
    <3> QED
      BY <2>3, <3>1, <3>2
  <2> QED
    BY <1>0, <1>6, <2>1, <2>4
       DEF FetchSucceeds, Labels, store
<1>7. ASSUME FetchRateLimited PROVE TypeOK'
  <2>1. tally' \in [Fields -> Nat]
    BY <1>7, Counting DEF FetchRateLimited, Fields
  <2>2. tries' \in 0 .. MaxTries - 1
    BY <1>7, PostsFetchAssumption DEF FetchRateLimited, NextAttempt
  <2> QED
    BY <1>0, <1>7, <2>1, <2>2
       DEF FetchRateLimited, Labels, store, ghost
<1>8. ASSUME FetchFails PROVE TypeOK'
  <2>1. tally' \in [Fields -> Nat]
    BY <1>8, Counting DEF FetchFails, Fields
  <2> QED
    BY <1>0, <1>8, <2>1
       DEF FetchFails, Labels, store, ghost
<1>9. ASSUME NotFound PROVE TypeOK'
  <2>1. tally' \in [Fields -> Nat]
    BY <1>9, Counting DEF NotFound, Fields, WriteVerdict
  <2>3. pos \in 1 .. Len(Records) /\ User \in Profiles
    BY <1>9 DEF NotFound, AtUser, Body, Deciding
  <2>2. pos' \in 1 .. Len(Records) + 1
    <3> HIDE DEF TypeOK
    <3>1. pos' \in {pos, pos + 1}
      BY <1>9 DEF NotFound, WriteVerdict, NextRecord
    <3> QED
      BY <2>3, <3>1, PosMoves
  <2>5. row' \in Rows
    BY <1>9, <2>3, WriteStatus DEF NotFound, WriteVerdict, Statuses
  <2> QED
    BY <1>0, <1>9, <2>1, <2>2, <2>5
       DEF NotFound, Labels, ghost, WriteVerdict, NextRecord, Fails, Works
<1>10. ASSUME FetchError PROVE TypeOK'
  <2>1. tally' \in [Fields -> Nat]
    BY <1>10, Counting DEF FetchError, Fields, WriteVerdict
  <2>3. pos \in 1 .. Len(Records) /\ User \in Profiles
    BY <1>10 DEF FetchError, AtUser, Body, Deciding
  <2>2. pos' \in 1 .. Len(Records) + 1
    <3> HIDE DEF TypeOK
    <3>1. pos' \in {pos, pos + 1}
      BY <1>10 DEF FetchError, WriteVerdict, NextRecord
    <3> QED
      BY <2>3, <3>1, PosMoves
  <2>5. row' \in Rows
    BY <1>10, <2>3, WriteStatus DEF FetchError, WriteVerdict, Statuses
  <2> QED
    BY <1>0, <1>10, <2>1, <2>2, <2>5
       DEF FetchError, Labels, ghost, WriteVerdict, NextRecord, Fails, Works
<1>11. ASSUME RateLimitExhausted PROVE TypeOK'
  <2>1. tally' \in [Fields -> Nat]
    BY <1>11, Counting DEF RateLimitExhausted, Fields, WriteVerdict
  <2>3. pos \in 1 .. Len(Records) /\ User \in Profiles
    BY <1>11 DEF RateLimitExhausted, AtUser, Body, Deciding
  <2>2. pos' \in 1 .. Len(Records) + 1
    <3> HIDE DEF TypeOK
    <3>1. pos' \in {pos, pos + 1}
      BY <1>11 DEF RateLimitExhausted, WriteVerdict, NextRecord
    <3> QED
      BY <2>3, <3>1, PosMoves
  <2>5. row' \in Rows
    BY <1>11, <2>3, WriteStatus DEF RateLimitExhausted, WriteVerdict, Statuses
  <2> QED
    BY <1>0, <1>11, <2>1, <2>2, <2>5
       DEF RateLimitExhausted, Labels, ghost, WriteVerdict, NextRecord, Fails, Works
<1>12. ASSUME UploadRaw PROVE TypeOK'
  <2>1. tally' \in [Fields -> Nat]
    BY <1>12, Counting DEF UploadRaw, Fields, loop
  <2>3. pos \in 1 .. Len(Records) /\ User \in Profiles
    BY <1>12 DEF UploadRaw, AtUser, Body, Deciding
  <2>4. Folder \in Nat
    BY FolderIsNat
  <2>5. bucket' \in [Profiles -> SUBSET Nat]
    BY <1>12, <2>3, <2>4 DEF UploadRaw
  <2>6. lost' \in [Profiles -> Nat]
    BY <1>12, <2>3, Bumping DEF UploadRaw
  <2> QED
    BY <1>0, <1>12, <2>1, <2>5, <2>6
       DEF UploadRaw, Labels, loop, Fails, Works
<1>13. ASSUME InsertPostItem PROVE TypeOK'
  <2>1. tally' \in [Fields -> Nat]
    BY <1>13, Counting DEF InsertPostItem, Fields
  <2>3. pos \in 1 .. Len(Records) /\ User \in Profiles
    BY <1>13 DEF InsertPostItem, AtUser, Body, Deciding
  <2>5. items' \in [Profiles -> Nat]
    BY <1>13, <2>3 DEF InsertPostItem
  <2>4. lost' \in [Profiles -> Nat]
    BY <1>13, <2>3, Bumping DEF InsertPostItem
  <2>6. posts' \in 0 .. MaxPosts
    BY <1>13, PostsFetchAssumption DEF InsertPostItem
  <2> QED
    BY <1>0, <1>13, <2>1, <2>4, <2>5, <2>6
       DEF InsertPostItem, Labels, Fails, Works
<1>14. ASSUME MarkCompleted PROVE TypeOK'
  <2>1. tally' \in [Fields -> Nat]
    BY <1>14, Counting DEF MarkCompleted, Fields, loop
  <2>3. pos \in 1 .. Len(Records) /\ User \in Profiles
    BY <1>14 DEF MarkCompleted, AtUser, Body, Deciding
  <2>4. Folder \in Nat
    BY FolderIsNat
  <2>5. row' \in Rows
    BY <1>14, <2>3, <2>4, WriteCompleted DEF MarkCompleted
  <2>6. undone' \in [Profiles -> Nat]
    BY <1>14, <2>3, Bumping DEF MarkCompleted
  <2> QED
    BY <1>0, <1>14, <2>1, <2>5, <2>6
       DEF MarkCompleted, Labels, loop, Fails, Works
<1>15. ASSUME Charge PROVE TypeOK'
  <2>1. tally' \in [Fields -> Nat]
    BY <1>15, Counting DEF Charge, Fields
  <2>3. pos \in 1 .. Len(Records) /\ User \in Profiles
    BY <1>15 DEF Charge, AtUser, Body, Deciding
  <2>2. pos' \in 1 .. Len(Records) + 1
    <3> HIDE DEF TypeOK
    <3>1. pos' \in {pos, pos + 1}
      BY <1>15 DEF Charge, NextRecord
    <3> QED
      BY <2>3, <3>1, PosMoves
  <2> QED
    BY <1>0, <1>15, <2>1, <2>2
       DEF Charge, Labels, ghost, NextRecord, Fails, Works
<1>16. ASSUME Crash PROVE TypeOK'
  <2>1. tally' \in [Fields -> Nat]
    BY <1>16, Counting DEF Crash, Fields, NoTally
  <2>2. posts' \in 0 .. MaxPosts /\ tries' \in 0 .. MaxTries - 1 /\ pos' \in 1 .. Len(Records) + 1
    BY <1>16, PosStarts, PostsFetchAssumption DEF Crash
  <2>3. undone' \in [Profiles -> Nat]
    <3>1. CASE pc \in {"upload", "items"}
      BY <1>16, <3>1, Bumping DEF Crash, AtUser, Body, Deciding
    <3>2. CASE pc \notin {"upload", "items"}
      BY <1>16, <3>2 DEF Crash
    <3> QED
      BY <3>1, <3>2
  <2> QED
    BY <1>0, <1>16, <2>1, <2>2, <2>3
       DEF Crash, Labels, store, Bump
<1>17. ASSUME UNCHANGED vars PROVE TypeOK'
  BY <1>17 DEF vars, store, loop, ghost
<1> QED
  BY <1>1, <1>2, <1>3, <1>4, <1>5, <1>6, <1>7, <1>8, <1>9, <1>10, <1>11, <1>12, <1>13,
     <1>14, <1>15, <1>16, <1>17 DEF Next, Step, Rest

\* The body is entered with a record that has a username, and keeps it.
LEMMA NextAtUser ==
  ASSUME TypeOK, AtUser, [Next]_vars
  PROVE  AtUser'
<1> USE DEF AtUser, Body, Deciding
<1>1. CASE TakeRecord
  <2>1. CASE pos > Len(Records) \/ User = Blank
    BY <1>1, <2>1 DEF TakeRecord, NextRecord
  <2>2. CASE ~(pos > Len(Records) \/ User = Blank)
    <3>1. pos \in 1 .. Len(Records)
      BY <2>2, PostsFetchAssumption DEF TypeOK
    <3>2. User \in Profiles
      BY <2>2, <3>1, PostsFetchAssumption DEF User
    <3> QED
      BY <1>1, <2>2, <3>1, <3>2 DEF TakeRecord, User
  <2> QED
    BY <2>1, <2>2
<1>2. CASE pc' \notin Body
  BY <1>2
<1>3. CASE UNCHANGED pos /\ pc \in Body
  BY <1>3 DEF User
<1>4. CASE Step /\ ~TakeRecord
  BY <1>2, <1>3, <1>4
     DEF Step, LookUp, CheckQuota, UpsertProfilePost, FetchSucceeds, FetchRateLimited,
         FetchFails, NotFound, FetchError, RateLimitExhausted, UploadRaw, InsertPostItem,
         MarkCompleted, Charge, WriteVerdict, NextRecord, loop
<1>5. CASE UNCHANGED vars
  BY <1>5 DEF vars, loop, User
<1> QED
  BY <1>1, <1>2, <1>4, <1>5 DEF Next, StartRun, Crash, Rest

-------------------------------------------------------------------------------
(* The report. *)

\* A call that is counted but not yet put into another count.
Open == IF pc \in Answered THEN 1 ELSE 0

ReportInv ==
    /\ Total = pos - 1
    /\ tally.completed + tally.notFound + Open <= tally.calls
    /\ tally.calls <= tally.completed + tally.notFound + tally.failed + Open

\* At first all counts are zero.
LEMMA InitReport == Init => ReportInv
BY DEF Init, NoTally, Fields, ReportInv, Total, Open, Answered

\* A step that takes the next record adds one to one of the four counts.
LEMMA NextReport ==
  ASSUME TypeOK, AtUser, ReportInv, [Next]_vars
  PROVE  ReportInv'
<1>0. /\ pos \in Nat /\ tally \in [Fields -> Nat]
      /\ \A f \in Fields : tally[f] \in Nat
      /\ Fields = {"completed", "skipped", "failed", "notFound", "calls"}
  BY PostsFetchAssumption DEF TypeOK, Fields
<1> USE <1>0 DEF ReportInv, Total, Open, Answered
<1>1. ASSUME pos' = 1, tally' = NoTally, pc' \notin Answered PROVE ReportInv'
  BY <1>1 DEF NoTally
<1>2. ASSUME UNCHANGED <<pos, tally>>, pc \in Answered <=> pc' \in Answered PROVE ReportInv'
  BY <1>2
<1>3. ASSUME NextRecord, pc \notin Answered, Count("skipped") PROVE ReportInv'
  BY <1>3, Counting DEF NextRecord
<1>4. ASSUME NextRecord, Count("failed") PROVE ReportInv'
  BY <1>4, Counting DEF NextRecord
<1>5. ASSUME NextRecord, pc \in Answered, Count("notFound") PROVE ReportInv'
  BY <1>5, Counting DEF NextRecord
<1>6. ASSUME NextRecord, pc \in Answered, Count("completed") PROVE ReportInv'
  BY <1>6, Counting DEF NextRecord
<1>7. ASSUME UNCHANGED pos, pc \notin Answered, pc' \in Answered, Count("calls") PROVE ReportInv'
  BY <1>7, Counting
<1>8. CASE Step
  <2>1. CASE TakeRecord
    BY <1>2, <1>3, <2>1 DEF TakeRecord
  <2>2. CASE LookUp
    BY <1>2, <1>3, <1>4, <2>2 DEF LookUp
  <2>3. CASE CheckQuota
    BY <1>2, <2>3 DEF CheckQuota, loop
  <2>4. CASE UpsertProfilePost
    BY <1>2, <1>4, <2>4 DEF UpsertProfilePost
  <2>5. CASE FetchSucceeds \/ FetchRateLimited \/ FetchFails
    BY <1>2, <1>7, <2>5 DEF FetchSucceeds, FetchRateLimited, FetchFails
  <2>6. CASE NotFound
    BY <1>5, <2>6 DEF NotFound, WriteVerdict
  <2>7. CASE FetchError \/ RateLimitExhausted
    BY <1>4, <2>7 DEF FetchError, RateLimitExhausted, WriteVerdict
  <2>8. CASE UploadRaw \/ InsertPostItem \/ MarkCompleted
    BY <1>2, <2>8 DEF UploadRaw, InsertPostItem, MarkCompleted, loop
  <2>9. CASE Charge
    BY <1>6, <2>9 DEF Charge
  <2> QED
    BY <1>8, <2>1, <2>2, <2>3, <2>4, <2>5, <2>6, <2>7, <2>8, <2>9 DEF Step
<1> QED
  BY <1>1, <1>2, <1>8 DEF Next, StartRun, Crash, Rest, vars, loop

-------------------------------------------------------------------------------
(* What is fetched, and what is stored of it. *)

\* The profile whose answer is being stored, and the posts still to be inserted.
InHand(u) == pc \in {"upload", "items"} /\ u = User
Left(u)   == IF InHand(u) THEN posts ELSE 0

\* A row that reads COMPLETED is passed over by LookUp.
DueInv == pc \in Deciding \cup {"upload", "items"} => ~Stored(User)

\* Every fetch of a profile was left undone, but the last one, if it is stored or
\* in hand; and unless something about the profile was lost, it is complete.
FetchInv(u) ==
    /\ served[u] = <<>> => items[u] = 0
    /\ Len(served[u]) = undone[u] + (IF Stored(u) \/ InHand(u) THEN 1 ELSE 0)
    /\ lost[u] = 0 /\ (Stored(u) \/ InHand(u)) =>
           /\ items[u] + Left(u) >= Kept(u)
           /\ undone[u] = 0 => items[u] + Left(u) = Kept(u)
    /\ lost[u] = 0 /\ Stored(u) => row[u].key \in bucket[u]
    /\ lost[u] = 0 /\ pc = "items" /\ u = User => Folder \in bucket[u]

StoreInv == DueInv /\ \A u \in Profiles : FetchInv(u)

\* At first nothing is fetched or stored.
LEMMA InitStore == Init => StoreInv
BY DEF Init, StoreInv, DueInv, Deciding, FetchInv, InHand, Stored

\* What a write of a status makes of the rows.
LEMMA StatusWritten ==
  ASSUME row \in Rows, User \in Profiles, NEW s, Write([row[User] EXCEPT !.status = s]),
         NEW u \in Profiles
  PROVE  /\ row'[u].status = IF u = User THEN s ELSE row[u].status
         /\ row'[u].key = row[u].key
BY DEF Rows, Write

\* A row that is passed over stays as it is, a row in work does not read COMPLETED
\* before MarkCompleted.
LEMMA NextDue ==
  ASSUME TypeOK, AtUser, DueInv, [Next]_vars
  PROVE  DueInv'
<1> USE DEF DueInv, Deciding
<1>1. CASE pc' \notin Deciding \cup {"upload", "items"}
  BY <1>1
<1>2. CASE LookUp /\ pc' = "quota"
  BY <1>2 DEF LookUp, Due, Stored, User, store, NextRecord
<1>3. CASE UpsertProfilePost /\ pc' = "fetch"
  <2>1. User \in Profiles /\ row \in Rows /\ Write([row[User] EXCEPT !.status = "PENDING"]) /\ pos' = pos
    BY <1>3 DEF UpsertProfilePost, AtUser, Body, TypeOK, NextRecord
  <2>2. row'[User].status = "PENDING"
    BY <2>1, StatusWritten
  <2> QED
    BY <2>1, <2>2 DEF Stored, User
<1>4. CASE UNCHANGED <<row, pos>> /\ pc \in Deciding \cup {"upload", "items"}
  BY <1>4 DEF Stored, User
<1>5. CASE UNCHANGED vars
  BY <1>5 DEF vars, store, loop, Stored, User
<1> QED
  BY <1>1, <1>2, <1>3, <1>4, <1>5
     DEF Next, Step, Rest, StartRun, TakeRecord, LookUp, CheckQuota, UpsertProfilePost,
         FetchSucceeds, FetchRateLimited, FetchFails, NotFound, FetchError,
         RateLimitExhausted, WriteVerdict, UploadRaw, InsertPostItem, MarkCompleted, Charge,
         Crash, NextRecord, store, loop

\* Each of the steps that store an answer keeps its part of the account; the
\* others touch neither the posts nor a row that reads COMPLETED.
LEMMA NextFetch ==
  ASSUME TypeOK, AtUser, StoreInv, [Next]_vars, NEW u \in Profiles
  PROVE  FetchInv(u)'
<1>0. /\ served[u] \in Seq(0 .. MaxPosts) /\ Len(served[u]) \in Nat
      /\ items[u] \in Nat /\ undone[u] \in Nat /\ lost[u] \in Nat /\ posts \in Nat
      /\ FetchInv(u)
  BY PostsFetchAssumption DEF TypeOK, StoreInv
<1>1. ASSUME UNCHANGED <<items, served, undone, lost, bucket>>,
             row'[u] = row[u] \/ (~Stored(u) /\ ~Stored(u)'),
             pc \notin {"upload", "items"}, pc' \notin {"upload", "items"}
      PROVE  FetchInv(u)'
  BY <1>0, <1>1 DEF FetchInv, InHand, Left, Stored, Kept
<1>2. ASSUME NEW s, s # "COMPLETED", User \in Profiles, Write([row[User] EXCEPT !.status = s]),
             ~Stored(User)
      PROVE  row'[u] = row[u] \/ (~Stored(u) /\ ~Stored(u)')
  <2>1. CASE u = User
    BY <1>2, <2>1, StatusWritten DEF TypeOK, Stored
  <2>2. CASE u # User
    BY <1>2, <2>2 DEF TypeOK, Rows, Write
  <2> QED
    BY <2>1, <2>2
<1>3. ASSUME StartRun \/ TakeRecord \/ LookUp \/ CheckQuota \/ FetchRateLimited \/ FetchFails
             \/ Charge
      PROVE  FetchInv(u)'
  BY <1>1, <1>3 DEF StartRun, Running, TakeRecord, LookUp, CheckQuota, FetchRateLimited, FetchFails,
                    Charge, NextRecord, store, ghost, loop
<1>4. ASSUME UpsertProfilePost PROVE FetchInv(u)'
  <2>1. User \in Profiles /\ ~Stored(User) /\ UNCHANGED <<items, served, undone, lost, bucket>>
        /\ pc = "upsert" /\ pc' \in {"fetch", "record"}
    BY <1>4 DEF UpsertProfilePost, AtUser, Body, Deciding, StoreInv, DueInv, ghost, NextRecord
  <2>2. CASE row' = row
    BY <1>1, <2>1, <2>2
  <2>3. CASE Write([row[User] EXCEPT !.status = "PENDING"])
    BY <1>1, <1>2, <2>1, <2>3
  <2> QED
    BY <1>4, <2>2, <2>3 DEF UpsertProfilePost
<1>5. ASSUME NEW s, s # "COMPLETED", WriteVerdict(s), pc \in {"notFound", "failed", "exhausted"}
      PROVE  FetchInv(u)'
  <2>1. User \in Profiles /\ ~Stored(User) /\ UNCHANGED <<items, served, undone, lost, bucket>>
        /\ pc' = "record"
    BY <1>5 DEF WriteVerdict, AtUser, Body, Deciding, StoreInv, DueInv, ghost, NextRecord
  <2>2. CASE row' = row
    BY <1>1, <1>5, <2>1, <2>2
  <2>3. CASE Write([row[User] EXCEPT !.status = s])
    BY <1>1, <1>2, <1>5, <2>1, <2>3
  <2> QED
    BY <1>5, <2>2, <2>3 DEF WriteVerdict
<1>6. ASSUME FetchSucceeds PROVE FetchInv(u)'
  <2>1. PICK n \in 0 .. MaxPosts + 1 :
            /\ posts' = Truncated(n)
            /\ served' = [served EXCEPT ![User] = Append(@, Truncated(n))]
    BY <1>6 DEF FetchSucceeds
  <2>2. Truncated(n) \in 0 .. MaxPosts
    BY TruncatedPosts, PostsFetchAssumption
  <2>3. UNCHANGED <<row, items, undone, lost, bucket, pos>> /\ pc = "fetch" /\ pc' = "upload"
        /\ ~Stored(User) /\ User' = User /\ User \in Profiles
    BY <1>6 DEF FetchSucceeds, StoreInv, DueInv, Deciding, store, AtUser, Body, User
  <2>4. CASE u # User
    BY <1>0, <2>1, <2>3, <2>4 DEF FetchInv, InHand, Left, Stored, Kept, TypeOK
  <2>5. CASE u = User
    <3>1. served'[u] = Append(served[u], posts')
      BY <2>1, <2>5, <2>3 DEF TypeOK
    <3>2. /\ Len(served'[u]) = Len(served[u]) + 1 /\ served'[u][Len(served'[u])] = posts'
          /\ served'[u] # <<>>
      BY <1>0, <2>1, <2>2, <3>1
    <3>3. Len(served[u]) = undone[u] /\ (undone[u] = 0 => items[u] = 0)
      BY <1>0, <2>3, <2>5 DEF FetchInv, InHand
    <3>4. posts' \in Nat
      BY <2>1, <2>2, PostsFetchAssumption
    <3> QED
      BY <1>0, <2>3, <2>5, <3>2, <3>3, <3>4 DEF FetchInv, InHand, Left, Stored, Kept
  <2> QED
    BY <2>4, <2>5
<1>7. ASSUME UploadRaw PROVE FetchInv(u)'
  <2>1. /\ UNCHANGED <<row, items, undone, served, pos, posts, tally>>
        /\ pc = "upload" /\ pc' = "items" /\ User \in Profiles /\ User' = User
        /\ Folder' = Folder
    BY <1>7 DEF UploadRaw, loop, AtUser, Body, User, Folder
  <2>2. CASE UNCHANGED lost /\ bucket' = [bucket EXCEPT ![User] = @ \cup {Folder}]
    BY <1>0, <2>1, <2>2 DEF FetchInv, InHand, Left, Stored, Kept, TypeOK
  <2>3. CASE UNCHANGED bucket /\ lost' = Bump(lost)
    <3>1. lost'[u] = IF u = User THEN lost[u] + 1 ELSE lost[u]
      BY <2>3 DEF Bump, TypeOK
    <3> QED
      BY <1>0, <2>1, <2>3, <3>1 DEF FetchInv, InHand, Left, Stored, Kept
  <2> QED
    BY <1>7, <2>2, <2>3 DEF UploadRaw
<1>8. ASSUME InsertPostItem PROVE FetchInv(u)'
  <2>1. /\ UNCHANGED <<row, bucket, undone, served, pos, tally>>
        /\ pc = "items" /\ pc' = "items" /\ User \in Profiles /\ User' = User
        /\ Folder' = Folder /\ posts > 0 /\ posts' = posts - 1
    BY <1>8 DEF InsertPostItem, AtUser, Body, User, Folder
  <2>2. CASE UNCHANGED lost /\ items' = [items EXCEPT ![User] = @ + 1]
    <3>1. items'[u] = IF u = User THEN items[u] + 1 ELSE items[u]
      BY <2>2 DEF TypeOK
    <3>2. u = User => served[u] # <<>>
      BY <1>0, <2>1 DEF FetchInv, InHand
    <3> QED
      BY <1>0, <2>1, <2>2, <3>1, <3>2 DEF FetchInv, InHand, Left, Stored, Kept
  <2>3. CASE UNCHANGED items /\ lost' = Bump(lost)
    <3>1. lost'[u] = IF u = User THEN lost[u] + 1 ELSE lost[u]
      BY <2>3 DEF Bump, TypeOK
    <3> QED
      BY <1>0, <2>1, <2>3, <3>1 DEF FetchInv, InHand, Left, Stored, Kept
  <2> QED
    BY <1>8, <2>2, <2>3 DEF InsertPostItem
<1>9. ASSUME MarkCompleted PROVE FetchInv(u)'
  <2>1. /\ UNCHANGED <<items, bucket, lost, served, pos, posts>>
        /\ pc = "items" /\ pc' = "charge" /\ User \in Profiles /\ User' = User
        /\ posts = 0 /\ ~Stored(User)
    BY <1>9 DEF MarkCompleted, loop, AtUser, Body, User, StoreInv, DueInv
  <2>2. CASE UNCHANGED undone /\ Write([status |-> "COMPLETED", key |-> Folder])
    <3>1. row'[u] = IF u = User THEN [status |-> "COMPLETED", key |-> Folder] ELSE row[u]
      BY <2>2 DEF Write, TypeOK, Rows
    <3> QED
      BY <1>0, <2>1, <2>2, <3>1 DEF FetchInv, InHand, Left, Stored, Kept
  <2>3. CASE UNCHANGED row /\ undone' = Bump(undone)
    <3>1. undone'[u] = IF u = User THEN undone[u] + 1 ELSE undone[u]
      BY <2>3 DEF Bump, TypeOK
    <3> QED
      BY <1>0, <2>1, <2>3, <3>1 DEF FetchInv, InHand, Left, Stored, Kept
  <2> QED
    BY <1>9, <2>2, <2>3 DEF MarkCompleted
<1>10. ASSUME Crash PROVE FetchInv(u)'
  <2>1. UNCHANGED <<row, items, bucket, lost, served>> /\ pc' = "off"
    BY <1>10 DEF Crash, store
  <2>2. CASE pc \in {"upload", "items"}
    <3>1. User \in Profiles /\ ~Stored(User)
      BY <2>2 DEF AtUser, Body, StoreInv, DueInv
    <3>2. undone'[u] = IF u = User THEN undone[u] + 1 ELSE undone[u]
      BY <1>10, <2>2, <3>1 DEF Crash, Bump, TypeOK
    <3> QED
      BY <1>0, <2>1, <2>2, <3>1, <3>2 DEF FetchInv, InHand, Left, Stored, Kept
  <2>3. CASE pc \notin {"upload", "items"}
    BY <1>1, <1>10, <2>1, <2>3 DEF Crash
  <2> QED
    BY <2>2, <2>3
<1>11. ASSUME UNCHANGED vars PROVE FetchInv(u)'
  BY <1>0, <1>11 DEF vars, store, loop, ghost, FetchInv, InHand, Left, Stored, Kept, User, Folder
<1> QED
  BY <1>3, <1>4, <1>5, <1>6, <1>7, <1>8, <1>9, <1>10, <1>11
     DEF Next, Step, Rest, NotFound, FetchError, RateLimitExhausted

-------------------------------------------------------------------------------
(* The quota. *)

\* Whoever was allowed a call finds it in the quota.
CreditInv == used + Credit <= Limit

\* At first there is no credit.
LEMMA InitLedger == Init => CreditInv /\ Ledger!Init
BY PostsFetchAssumption DEF Init, CreditInv, Credit, Ledger!Init

\* What a step does to quota and credit.
LEMMA CreditMoves ==
  ASSUME TypeOK, [Next]_vars
  PROVE  \/ used' = used /\ Credit' <= Credit
         \/ used < Limit /\ used' = used /\ Credit = 0 /\ Credit' = 1
         \/ Credit = 1 /\ Credit' = 0 /\ used' = used + 1
<1> USE DEF Credit
<1>1. CASE CheckQuota
  BY <1>1 DEF CheckQuota, HasQuota, store
<1>2. CASE Charge
  BY <1>2 DEF Charge, NextRecord
<1>3. CASE UNCHANGED vars
  BY <1>3 DEF vars, store
<1> QED
  BY <1>1, <1>2, <1>3
     DEF Next, Step, Rest, StartRun, TakeRecord, LookUp, UpsertProfilePost, FetchSucceeds,
         FetchRateLimited, FetchFails, NotFound, FetchError, RateLimitExhausted, WriteVerdict,
         UploadRaw, InsertPostItem, MarkCompleted, Crash, NextRecord, store

\* Less credit on the same account stays within the quota.
LEMMA NeverMore ==
  ASSUME NEW a \in Nat, NEW b \in Nat, NEW c \in Nat, c <= b, a + b <= Limit
  PROVE  a + c <= Limit
BY PostsFetchAssumption

\* So each step is one of the ledger's.
LEMMA NextLedger ==
  ASSUME TypeOK, CreditInv, [Next]_vars
  PROVE  CreditInv' /\ Ledger!Next
<1> DEFINE credit == [c \in {"script"} |-> Credit]
<1>0. used \in Nat /\ Limit \in Nat /\ Credit \in Nat /\ Credit' \in Nat
  BY PostsFetchAssumption DEF TypeOK, Credit
<1>1. CASE used' = used /\ Credit' <= Credit
  <2>1. credit'["script"] \in 0 .. credit["script"]
    BY <1>0, <1>1
  <2>2. Ledger!Lapse
    BY <1>1, <2>1 DEF Ledger!Lapse
  <2>3. Ledger!Next
    BY <2>2 DEF Ledger!Next
  <2>4. CreditInv'
    BY <1>0, <1>1, NeverMore DEF CreditInv
  <2> QED
    BY <2>3, <2>4
<1>2. CASE used < Limit /\ used' = used /\ Credit = 0 /\ Credit' = 1
  <2>1. credit'["script"] \in 1 .. Limit - used
    BY <1>0, <1>2
  <2>2. credit' = [credit EXCEPT !["script"] = credit'["script"]]
    OBVIOUS
  <2>3. Ledger!Reserve("script")
    BY <1>2, <2>1, <2>2 DEF Ledger!Reserve
  <2> QED
    BY <1>0, <1>2, <2>3 DEF CreditInv, Ledger!Next
<1>3. CASE Credit = 1 /\ Credit' = 0 /\ used' = used + 1
  <2>1. credit' = [credit EXCEPT !["script"] = @ - 1] /\ credit["script"] > 0
    BY <1>3
  <2>2. [m \in {1} |-> used]' = [[m \in {1} |-> used] EXCEPT ![1] = @ + 1]
    BY <1>3
  <2>3. Ledger!Charge("script")
    BY <2>1, <2>2 DEF Ledger!Charge
  <2> QED
    BY <1>0, <1>3, <2>3 DEF CreditInv, Ledger!Next
<1> QED
  BY <1>1, <1>2, <1>3, CreditMoves

-------------------------------------------------------------------------------
(* The theorems. *)

Inv == TypeOK /\ AtUser /\ ReportInv /\ StoreInv

\* The invariant, of every reachable state.
LEMMA Reachable == Spec => []Inv
<1>1. Init => Inv
  BY InitTypes, InitReport, InitStore DEF Inv
<1>2. Inv /\ [Next]_vars => Inv'
  <2> SUFFICES ASSUME Inv, [Next]_vars PROVE Inv'
    OBVIOUS
  <2>1. TypeOK' /\ AtUser' /\ ReportInv' /\ DueInv'
    BY NextTypes, NextAtUser, NextReport, NextDue DEF Inv, StoreInv
  <2>2. \A u \in Profiles : FetchInv(u)'
    BY NextFetch DEF Inv
  <2> QED
    BY <2>1, <2>2 DEF Inv, StoreInv
<1> QED
  BY <1>1, <1>2, PTL DEF Spec

\* Every value of the script and of its tables keeps its type; what is inserted
\* of an answer is MaxPosts posts at most, and no call is tried MaxTries times.
THEOREM TypeCorrect == Spec => []TypeOK
<1>1. Inv => TypeOK
  BY DEF Inv
<1> QED
  BY <1>1, Reachable, PTL

\* The report of a run adds up, for every list of records.
THEOREM ReportIsExact == Spec => []ReportAddsUp
<1>1. Inv => ReportAddsUp
  <2> SUFFICES ASSUME Inv PROVE ReportAddsUp
    OBVIOUS
  <2>1. /\ tally.completed \in Nat /\ tally.skipped \in Nat /\ tally.failed \in Nat
        /\ tally.notFound \in Nat /\ tally.calls \in Nat
    BY DEF Inv, TypeOK, Fields
  <2>2. pc \in {"record", "over"} => Open = 0
    BY DEF Open, Answered
  <2> QED
    BY <2>1, <2>2 DEF Inv, ReportInv, Total, ReportAddsUp
<1> QED
  BY <1>1, Reachable, PTL

\* A profile is fetched again only if an earlier fetch was left undone.
THEOREM NoFetchIsWasted == Spec => []FetchedOnce
<1>1. Inv => FetchedOnce
  <2> SUFFICES ASSUME Inv, NEW u \in Profiles PROVE Len(served[u]) <= 1 + undone[u]
    BY DEF FetchedOnce
  <2>1. FetchInv(u) /\ undone[u] \in Nat
    BY DEF Inv, StoreInv, TypeOK
  <2> QED
    BY <2>1 DEF FetchInv
<1> QED
  BY <1>1, Reachable, PTL

\* A row that reads COMPLETED is true to what is stored.
THEOREM CompletedIsTrue == Spec => []CompletedIsStored
<1>1. Inv => CompletedIsStored
  <2> SUFFICES ASSUME Inv, NEW u \in Profiles, Stored(u), lost[u] = 0
               PROVE  /\ row[u].key \in bucket[u]
                      /\ served[u] # <<>>
                      /\ items[u] >= Kept(u)
                      /\ undone[u] = 0 => items[u] = Kept(u)
    BY DEF CompletedIsStored
  <2>1. FetchInv(u) /\ items[u] \in Nat /\ undone[u] \in Nat
    BY DEF Inv, StoreInv, TypeOK
  <2>2. Left(u) = 0
    BY DEF Left, InHand, Inv, StoreInv, DueInv
  <2>3. Len(served[u]) \in Nat \ {0} /\ served[u] \in Seq(0 .. MaxPosts)
    BY <2>1 DEF FetchInv, Inv, TypeOK
  <2>4. Kept(u) \in Nat /\ served[u] # <<>>
    BY <2>3, PostsFetchAssumption DEF Kept
  <2> QED
    BY <2>1, <2>2, <2>4 DEF FetchInv
<1> QED
  BY <1>1, Reachable, PTL

\* Such a row is never touched again, by this run or a later one.
THEOREM CompletedStays == Spec => CompletedIsFinal
<1>1. Inv /\ [Next]_vars
      => [\A u \in Profiles :
             Stored(u) => UNCHANGED <<row[u], items[u], bucket[u], served[u]>>]_vars
  <2> SUFFICES ASSUME Inv, Next, NEW u \in Profiles, Stored(u)
               PROVE  UNCHANGED <<row[u], items[u], bucket[u], served[u]>>
    OBVIOUS
  <2>1. pc \in Deciding \cup {"upload", "items"} => u # User /\ User \in Profiles
    BY DEF Inv, StoreInv, DueInv, AtUser, Body
  <2>2. row \in [Profiles -> [status : Statuses, key : Nat \cup {NoKey}]]
        /\ items \in [Profiles -> Nat] /\ bucket \in [Profiles -> SUBSET Nat]
        /\ served \in [Profiles -> Seq(0 .. MaxPosts)]
    BY DEF Inv, TypeOK, Rows
  <2>3. ASSUME NEW r, Write(r), u # User PROVE UNCHANGED row[u]
    BY <2>2, <2>3 DEF Write
  <2>4. ASSUME NEW s, WriteVerdict(s), u # User
        PROVE  UNCHANGED <<row[u], items[u], bucket[u], served[u]>>
    BY <2>3, <2>4 DEF WriteVerdict, ghost
  <2>5. CASE NotFound \/ FetchError \/ RateLimitExhausted
    BY <2>1, <2>4, <2>5 DEF NotFound, FetchError, RateLimitExhausted, Deciding
  <2>6. CASE UpsertProfilePost \/ MarkCompleted
    BY <2>1, <2>3, <2>6 DEF UpsertProfilePost, MarkCompleted, Deciding, ghost
  <2>7. CASE FetchSucceeds \/ UploadRaw \/ InsertPostItem
    BY <2>1, <2>2, <2>7 DEF FetchSucceeds, UploadRaw, InsertPostItem, Deciding, store
  <2> QED
    BY <2>5, <2>6, <2>7
       DEF Next, Step, Rest, StartRun, TakeRecord, LookUp, CheckQuota, FetchRateLimited,
           FetchFails, Charge, Crash, store, ghost, vars
<1> QED
  BY <1>1, Reachable, PTL DEF Spec, CompletedIsFinal

\* The script keeps the ledger of the quota, whatever fails or dies on the way.
THEOREM KeepsTheLedger == Spec => KeepsLedger
<1>1. Init => TypeOK /\ AtUser /\ CreditInv /\ Ledger!Init
  BY InitTypes, InitLedger
<1>2. TypeOK /\ AtUser /\ CreditInv /\ [Next]_vars
      => (TypeOK /\ AtUser /\ CreditInv)' /\ [Ledger!Next]_(Ledger!vars)
  BY NextTypes, NextAtUser, NextLedger
<1> QED
  BY <1>1, <1>2, PTL DEF Spec, KeepsLedger, Ledger!Spec
===============================================================================
