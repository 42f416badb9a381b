--------------------------- MODULE ProfileStore_proofs --------------------------
(***************************************************************************)
(* Theorems about ProfileStore, for any people, slugs, requests and bounds. *)
(***************************************************************************)
EXTENDS ProfileStore, TLAPS

(* The inductive invariants, one named part for each thing to be known. *)

\* The labels at which a request has not uploaded yet, has an answer, and refers
\* to objects under its key.
Before   == {"idle", "look", "entry", "create", "check", "insert", "mark", "fetch", "raw"}
Answered == {"raw", "cleaned", "find", "save", "complete", "again", "missing"}
Stored   == {"find", "save"}

LocalOf(r) ==
    /\ Live(r) => Slug(r) \in Slugs
    /\ pc[r] \in Answered => local[r].answer \in Answers /\ local[r].answer.by = r
    /\ pc[r] \in Stored \cup {"cleaned", "download", "answered"} => local[r].key \in Keys
    /\ pc[r] = "fail" => local[r].verdict # "none"

LocalInv == \A r \in Requests : LocalOf(r)

\* A username that a request is about to write to a row was the person's.
BorneInv ==
    /\ \A p \in People : <<p, name[p]>> \in bore
    /\ NameWasBorne
    /\ \A r \in Requests :
           LET a == local[r].answer
           IN  /\ pc[r] \in Answered => <<a.who, a.name>> \in bore
               /\ pc[r] = "save" => \A p \in local[r].target : <<p, a.name>> \in bore

\* What a request has stored is still found, unless a username was passed on.
FoundOf(r) ==
    pc[r] \in {"complete", "again"} /\ local[r].answer.name = Slug(r) =>
        ByName(Slug(r)) # {} \/ PassedOn(Slug(r))

FoundInv == MissingOnlyIfRenamed /\ \A r \in Requests : FoundOf(r)

\* A request that is about to create the entry is alone with it, or was beaten.
AloneOf(r) ==
    /\ pc[r] \in {"entry", "create", "check", "insert"} => ByName(Slug(r)) = {}
    /\ pc[r] \in {"create", "check", "insert"} => entry[Slug(r)] = "NONE"
    /\ pc[r] # "refused"

AloneInv == \A r \in Requests : AloneOf(r) \/ r \in beaten

\* Objects lie under the key of the request that uploaded them; what a request has
\* uploaded is its answer, unless somebody else has the same key.
StampOf(r) ==
    LET k == local[r].key
        a == local[r].answer
    IN  /\ pc[r] \in Before => stamp[r] = NoKey
        /\ pc[r] \in Stored \cup {"cleaned"} =>
               stamp[r] = k /\ raw[k] # NoObject /\ (raw[k] = a \/ Contested(k))
        /\ pc[r] \in Stored => cleaned[k] # NoObject /\ (cleaned[k] = a \/ Contested(k))

StampInv ==
    /\ \A k \in Keys : raw[k] # NoObject => stamp[raw[k].by] = k
    /\ \A r \in Requests : StampOf(r)

\* What is about to be downloaded is what was asked for.
AskedOf(r) ==
    LET k == local[r].key
    IN  pc[r] = "download" =>
            raw[k] # NoObject /\ (raw[k].name = Slug(r) \/ Contested(k))

AskedInv == AnswerIsAsked /\ \A r \in Requests : AskedOf(r)

-------------------------------------------------------------------------------
(* Small facts. *)

\* The fields of an answer, which is not the missing object.
LEMMA AnswerFields ==
  ASSUME NEW a \in Answers
  PROVE  /\ a.by \in Requests /\ a.who \in People /\ a.name \in Names \cup {NoName}
         /\ a.geo \in BOOLEAN /\ a # NoObject
<1>1. /\ a.by \in Requests /\ a.who \in People /\ a.name \in Names \cup {NoName}
      /\ a.geo \in BOOLEAN
  BY DEF Answers
<1>2. NoObject.by = NoRequest
  BY DEF NoObject
<1> QED
  BY <1>1, <1>2, ProfileStoreAssumption

\* A key is not the missing one.
LEMMA KeyIsKey ==
  ASSUME NEW k \in Keys
  PROVE  k # NoKey
BY DEF Keys, NoKey

\* A row that is there has a key and a name.
LEMMA RowFields ==
  ASSUME NEW w \in Rows, w # NoRow
  PROVE  w.key \in Keys /\ w.name \in Names \cup {NoName}
BY DEF Rows

\* Each row, there or not, shows the location of an answer, or none.
LEMMA RowLocation ==
  ASSUME NEW w \in Rows
  PROVE  w.geo \in Objects
BY DEF Rows, NoRow, Objects

\* The row that SaveRow writes over a row.
LEMMA RowWritten ==
  ASSUME NEW w \in Rows, NEW a \in Answers, NEW k \in Keys
  PROVE  /\ RowOf(w, a, k) \in Rows /\ RowOf(w, a, k) # NoRow
         /\ RowOf(w, a, k).name = a.name /\ RowOf(w, a, k).key = k
         /\ RowOf(w, a, k).geo \in {a, w.geo}
         /\ a.geo => RowOf(w, a, k).geo = a
<1>1. /\ RowOf(w, a, k).name = a.name /\ RowOf(w, a, k).key = k
      /\ RowOf(w, a, k).geo \in {a, w.geo}
      /\ a.geo => RowOf(w, a, k).geo = a
      /\ NoRow.key = NoKey
  BY DEF RowOf, NoRow
<1>2. (IF a.geo THEN a ELSE w.geo) \in Objects
  BY RowLocation DEF Objects
<1>3. RowOf(w, a, k) \in Rows
  BY <1>2, AnswerFields DEF RowOf, Rows
<1> QED
  BY <1>1, <1>3, KeyIsKey

\* The variables of a request, field by field.
LEMMA LocalFields ==
  ASSUME NEW v \in Locals
  PROVE  /\ v.byURL \in BOOLEAN /\ v.slug \in Slugs \cup {NoName}
         /\ v.answer \in Objects /\ v.key \in Keys \cup {NoKey}
         /\ v.target \in SUBSET People /\ v.verdict \in {"none", "FAILED", "NOT_FOUND"}
         /\ v.given \in Objects
BY DEF Locals

\* Each assignment to one of them leaves the others.
LEMMA SetKey ==
  ASSUME NEW v \in Locals, NEW k \in Keys
  PROVE  /\ [v EXCEPT !.key = k] \in Locals
         /\ [v EXCEPT !.key = k].key = k
         /\ [v EXCEPT !.key = k].slug = v.slug
         /\ [v EXCEPT !.key = k].answer = v.answer
         /\ [v EXCEPT !.key = k].target = v.target
         /\ [v EXCEPT !.key = k].given = v.given
BY DEF Locals

\* The answer is set.
LEMMA SetAnswer ==
  ASSUME NEW v \in Locals, NEW a \in Answers
  PROVE  /\ [v EXCEPT !.answer = a] \in Locals
         /\ [v EXCEPT !.answer = a].answer = a
         /\ [v EXCEPT !.answer = a].slug = v.slug
BY DEF Locals, Objects

\* The row that was found is set.
LEMMA SetTarget ==
  ASSUME NEW v \in Locals, NEW t \in SUBSET People
  PROVE  /\ [v EXCEPT !.target = t] \in Locals
         /\ [v EXCEPT !.target = t].target = t
         /\ [v EXCEPT !.target = t].slug = v.slug
         /\ [v EXCEPT !.target = t].key = v.key
         /\ [v EXCEPT !.target = t].answer = v.answer
BY DEF Locals

\* The verdict is set.
LEMMA SetVerdict ==
  ASSUME NEW v \in Locals, NEW x \in {"FAILED", "NOT_FOUND"}
  PROVE  /\ [v EXCEPT !.verdict = x] \in Locals
         /\ [v EXCEPT !.verdict = x].verdict = x
         /\ [v EXCEPT !.verdict = x].slug = v.slug
         /\ [v EXCEPT !.verdict = x].answer = v.answer
BY DEF Locals

\* The profile that is returned is set.
LEMMA SetGiven ==
  ASSUME NEW v \in Locals, NEW o \in Objects
  PROVE  /\ [v EXCEPT !.given = o] \in Locals
         /\ [v EXCEPT !.given = o].given = o
         /\ [v EXCEPT !.given = o].key = v.key
         /\ [v EXCEPT !.given = o].slug = v.slug
         /\ [v EXCEPT !.given = o].answer = v.answer
BY DEF Locals

\* A new request has the slug it was given.
LEMMA Asking ==
  ASSUME NEW s \in Slugs
  PROVE  /\ [Fresh EXCEPT !.slug = s] \in Locals
         /\ [Fresh EXCEPT !.slug = s].slug = s
         /\ [Fresh EXCEPT !.byURL = TRUE, !.slug = s] \in Locals
         /\ [Fresh EXCEPT !.byURL = TRUE, !.slug = s].slug = s
BY DEF Fresh, Locals, Objects

\* The request at work, and the others.
LEMMA Moving ==
  ASSUME pc \in [Requests -> Labels], NEW r \in Requests, NEW label \in Labels,
         Goto(r, label)
  PROVE  /\ pc' \in [Requests -> Labels] /\ pc'[r] = label
         /\ \A q \in Requests \ {r} : pc'[q] = pc[q]
BY DEF Goto

\* Its variables, and those of the others.
LEMMA Keeping ==
  ASSUME local \in [Requests -> Locals], NEW r \in Requests, NEW v \in Locals, Keep(r, v)
  PROVE  /\ local' \in [Requests -> Locals] /\ local'[r] = v
         /\ \A q \in Requests \ {r} : local'[q] = local[q]
BY DEF Keep

\* A status is written.
LEMMA StatusWritten ==
  ASSUME entry \in [Slugs -> Statuses \cup {"NONE"}], NEW s \in Slugs,
         NEW x \in Statuses, SetStatus(s, x)
  PROVE  /\ entry' \in [Slugs -> Statuses \cup {"NONE"}]
         /\ \A z \in Slugs : entry'[z] = "NONE" <=> entry[z] = "NONE"
BY DEF SetStatus, Statuses

-------------------------------------------------------------------------------
(* Types, and what each label says of the variables of a request. *)

TypeInv == TypeOK /\ LocalInv

\* What one request does leaves the others their variables.
Mine(r) ==
    /\ pc' \in [Requests -> Labels]
    /\ local' \in [Requests -> Locals]
    /\ \A q \in Requests \ {r} :
           pc'[q] = pc[q] /\ local'[q] = local[q] /\ stamp'[q] = stamp[q]

\* A request moves to a label and keeps its variables.
LEMMA JustMoves ==
  ASSUME TypeOK, NEW r \in Requests, NEW label \in Labels, Goto(r, label),
         UNCHANGED <<local, stamp>>
  PROVE  Mine(r) /\ pc'[r] = label
BY Moving DEF TypeOK, Mine

\* It moves to a label with new variables.
LEMMA MovesWith ==
  ASSUME TypeOK, NEW r \in Requests, NEW label \in Labels, Goto(r, label),
         NEW v \in Locals, Keep(r, v), \A q \in Requests \ {r} : stamp'[q] = stamp[q]
  PROVE  Mine(r) /\ pc'[r] = label /\ local'[r] = v
BY Moving, Keeping DEF TypeOK, Mine

\* It gives up.
LEMMA GivesUp ==
  ASSUME TypeOK, NEW r \in Requests, NEW x \in {"FAILED", "NOT_FOUND"}, GiveUp(r, x),
         UNCHANGED stamp
  PROVE  /\ Mine(r) /\ pc'[r] = "fail" /\ local'[r].verdict # "none"
         /\ Slug(r)' = Slug(r)
         /\ local'[r].answer = local[r].answer
<1>1. local[r] \in Locals
  BY DEF TypeOK
<1>2. "fail" \in Labels /\ x # "none"
  BY DEF Labels
<1>3. /\ Mine(r) /\ pc'[r] = "fail"
      /\ local'[r] = [local[r] EXCEPT !.verdict = x]
  BY <1>1, <1>2, SetVerdict, MovesWith DEF GiveUp
<1> QED
  BY <1>1, <1>2, <1>3, SetVerdict DEF Slug

\* The moves that lead from label to label, and what of the answer, the key and the
\* row that was found they leave alone.
Same(r) ==
    /\ Slug(r)' = Slug(r)
    /\ local'[r].answer = local[r].answer
    /\ local'[r].key = local[r].key
    /\ local'[r].target = local[r].target

\* The steps before a fetch.
LEMMA EarlyMoves ==
  ASSUME TypeInv, NEW r \in Requests,
         FindEntry(r) \/ CheckEntry(r) \/ CheckProfile(r) \/ InsertEntry(r)
         \/ MarkFetching(r)
  PROVE  /\ Mine(r) /\ Same(r)
         /\ pc[r] \in {"entry", "create", "check", "insert", "mark"}
         /\ pc'[r] \in {"create", "check", "insert", "mark", "fetch", "refused", "failed"}
         /\ UNCHANGED <<world, profile, bucket, stamp>>
<1>1. PICK label \in {"create", "check", "insert", "mark", "fetch", "refused", "failed"} :
          Goto(r, label)
  BY DEF FindEntry, CheckEntry, CheckProfile, InsertEntry, MarkFetching
<1>2. UNCHANGED <<world, profile, bucket, stamp, local>>
  BY DEF FindEntry, CheckEntry, CheckProfile, InsertEntry, MarkFetching, tables
<1>3. pc[r] \in {"entry", "create", "check", "insert", "mark"}
  BY DEF FindEntry, CheckEntry, CheckProfile, InsertEntry, MarkFetching
<1>4. label \in Labels
  BY <1>1 DEF Labels, Over
<1>5. Mine(r) /\ pc'[r] = label
  BY <1>1, <1>2, <1>4, JustMoves DEF TypeInv
<1> QED
  BY <1>1, <1>2, <1>3, <1>5 DEF Same, Slug

\* The steps after a fetch that leave the rows and objects of profiles alone.
LEMMA LateMoves ==
  ASSUME TypeInv, NEW r \in Requests, WriteVerdict(r) \/ CompleteEntry(r)
  PROVE  /\ Mine(r) /\ Same(r)
         /\ \/ pc[r] = "fail" /\ pc'[r] \in {"unknown", "failed"}
            \/ pc[r] = "complete" /\ pc'[r] \in {"again", "done", "failed"}
         /\ UNCHANGED <<world, profile, bucket, stamp>>
<1>1. PICK label \in {"unknown", "failed", "again", "done"} :
          /\ Goto(r, label)
          /\ \/ pc[r] = "fail" /\ label \in {"unknown", "failed"}
             \/ pc[r] = "complete" /\ label \in {"again", "done", "failed"}
  BY DEF WriteVerdict, CompleteEntry
<1>2. UNCHANGED <<world, profile, bucket, stamp, local>>
  BY DEF WriteVerdict, CompleteEntry
<1>3. label \in Labels
  BY <1>1 DEF Labels, Over
<1>4. Mine(r) /\ pc'[r] = label
  BY <1>1, <1>2, <1>3, JustMoves DEF TypeInv
<1> QED
  BY <1>1, <1>2, <1>4 DEF Same, Slug

\* A lookup of the profile: its key, or the next label.
LEMMA Lookups ==
  ASSUME TypeInv, NEW r \in Requests, LookUpProfile(r)
  PROVE  /\ Mine(r)
         /\ Slug(r)' = Slug(r) /\ local'[r].answer = local[r].answer
         /\ pc[r] \in {"look", "again"}
         /\ \/ /\ pc'[r] = "download"
               /\ \E p \in ByName(Slug(r)) : local'[r].key = profile[p].key
            \/ pc[r] = "look" /\ pc'[r] = "entry" /\ ByName(Slug(r)) = {}
            \/ pc[r] = "again" /\ pc'[r] = "missing" /\ ByName(Slug(r)) = {}
            \/ pc'[r] = "failed"
         /\ UNCHANGED <<world, tables, bucket, stamp, beaten>>
<1>1. local[r] \in Locals /\ profile \in [People -> Rows]
  BY DEF TypeInv, TypeOK
<1>2. {"download", "entry", "missing", "failed"} \subseteq Labels
  BY DEF Labels, Over
<1>3. pc[r] \in {"look", "again"} /\ UNCHANGED <<world, tables, bucket, stamp, beaten>>
  BY DEF LookUpProfile
<1>4. CASE \E p \in ByName(Slug(r)) :
              Keep(r, [local[r] EXCEPT !.key = profile[p].key]) /\ Goto(r, "download")
  <2>1. PICK p \in ByName(Slug(r)) :
            Keep(r, [local[r] EXCEPT !.key = profile[p].key]) /\ Goto(r, "download")
    BY <1>4
  <2>2. profile[p].key \in Keys
    BY <1>1, RowFields DEF ByName
  <2>3. /\ Mine(r) /\ pc'[r] = "download"
        /\ local'[r] = [local[r] EXCEPT !.key = profile[p].key]
    BY <1>1, <1>2, <1>3, <2>1, <2>2, SetKey, MovesWith DEF TypeInv
  <2> QED
    BY <1>1, <1>3, <2>2, <2>3, SetKey DEF Slug
<1>5. CASE /\ ByName(Slug(r)) = {} /\ UNCHANGED local
           /\ Goto(r, IF pc[r] = "look" THEN "entry" ELSE "missing")
  <2>1. Mine(r) /\ pc'[r] = IF pc[r] = "look" THEN "entry" ELSE "missing"
    BY <1>2, <1>3, <1>5, JustMoves DEF TypeInv
  <2> QED
    BY <1>3, <1>5, <2>1 DEF Slug
<1>6. CASE Goto(r, "failed") /\ UNCHANGED local
  <2>1. Mine(r) /\ pc'[r] = "failed"
    BY <1>2, <1>3, <1>6, JustMoves DEF TypeInv
  <2> QED
    BY <1>3, <1>6, <2>1 DEF Slug
<1> QED
  BY <1>4, <1>5, <1>6 DEF LookUpProfile

\* A new request.
LEMMA Asks ==
  ASSUME TypeInv, NEW r \in Requests, AskByURL(r) \/ AskForEntry(r)
  PROVE  /\ Mine(r) /\ pc[r] = "idle"
         /\ Slug(r)' \in Slugs /\ pc'[r] \in {"look", "mark"}
         /\ UNCHANGED <<world, tables, bucket, stamp, beaten>>
<1>1. {"look", "mark"} \subseteq Labels
  BY DEF Labels
<1>2. pc[r] = "idle" /\ UNCHANGED <<world, tables, bucket, stamp, beaten>>
  BY DEF AskByURL, AskForEntry
<1>3. CASE AskByURL(r)
  <2>1. PICK s \in Slugs : Keep(r, [Fresh EXCEPT !.byURL = TRUE, !.slug = s])
    BY <1>3 DEF AskByURL
  <2>2. Goto(r, "look")
    BY <1>3 DEF AskByURL
  <2>3. Mine(r) /\ pc'[r] = "look" /\ local'[r] = [Fresh EXCEPT !.byURL = TRUE, !.slug = s]
    BY <1>1, <1>2, <2>1, <2>2, Asking, MovesWith DEF TypeInv
  <2> QED
    BY <1>2, <2>3, Asking DEF Slug
<1>4. CASE AskForEntry(r)
  <2>1. PICK s \in Slugs : Keep(r, [Fresh EXCEPT !.slug = s])
    BY <1>4 DEF AskForEntry
  <2>2. Goto(r, "mark")
    BY <1>4 DEF AskForEntry
  <2>3. Mine(r) /\ pc'[r] = "mark" /\ local'[r] = [Fresh EXCEPT !.slug = s]
    BY <1>1, <1>2, <2>1, <2>2, Asking, MovesWith DEF TypeInv
  <2> QED
    BY <1>2, <2>3, Asking DEF Slug
<1> QED
  BY <1>3, <1>4

\* An answer is about a person, with the username the person has.
LEMMA Fetches ==
  ASSUME TypeInv, NEW r \in Requests, FetchSucceeds(r)
  PROVE  /\ Mine(r) /\ pc[r] = "fetch" /\ pc'[r] = "raw"
         /\ Slug(r)' = Slug(r)
         /\ local'[r].answer \in Answers /\ local'[r].answer.by = r
         /\ local'[r].answer.name = name[local'[r].answer.who]
         /\ UNCHANGED <<world, tables, bucket, stamp, beaten>>
<1>1. local[r] \in Locals /\ "raw" \in Labels
  BY DEF TypeInv, TypeOK, Labels
<1>2. pc[r] = "fetch" /\ Goto(r, "raw") /\ UNCHANGED <<world, tables, bucket, stamp, beaten>>
  BY DEF FetchSucceeds
<1>3. PICK p \in People, g \in BOOLEAN :
          Keep(r, [local[r] EXCEPT
                      !.answer = [by |-> r, who |-> p, name |-> name[p], geo |-> g]])
  BY DEF FetchSucceeds, Behind
<1> DEFINE a == [by |-> r, who |-> p, name |-> name[p], geo |-> g]
<1>4. a \in Answers /\ a.by = r /\ a.name = name[a.who]
  BY DEF TypeInv, TypeOK, Answers
<1> HIDE DEF a
<1>5. Keep(r, [local[r] EXCEPT !.answer = a])
  BY <1>3 DEF a
<1>6. Mine(r) /\ pc'[r] = "raw" /\ local'[r] = [local[r] EXCEPT !.answer = a]
  BY <1>1, <1>2, <1>4, <1>5, SetAnswer, MovesWith DEF TypeInv
<1> QED
  BY <1>1, <1>2, <1>4, <1>6, SetAnswer DEF Slug

\* A fetch that fails.
LEMMA FetchEnds ==
  ASSUME TypeInv, NEW r \in Requests, FetchNotFound(r) \/ FetchFails(r)
  PROVE  /\ Mine(r) /\ pc[r] = "fetch" /\ pc'[r] = "fail" /\ Slug(r)' = Slug(r)
         /\ local'[r].verdict # "none"
         /\ UNCHANGED <<world, tables, bucket, stamp, beaten>>
BY GivesUp DEF FetchNotFound, FetchFails, TypeInv

\* The first upload stamps the request with its key.
LEMMA RawUploads ==
  ASSUME TypeInv, NEW r \in Requests, UploadRaw(r)
  PROVE  /\ Mine(r) /\ pc[r] = "raw" /\ Slug(r)' = Slug(r)
         /\ UNCHANGED <<world, tables, cleaned, beaten>>
         /\ \/ /\ pc'[r] = "fail" /\ local'[r].verdict # "none"
               /\ UNCHANGED <<raw, stamp>>
            \/ /\ pc'[r] = "cleaned"
               /\ KeyFor(Slug(r)) \in Keys
               /\ local'[r].key = KeyFor(Slug(r))
               /\ local'[r].answer = local[r].answer
               /\ local[r].answer \in Answers /\ local[r].answer.by = r
               /\ raw' = [raw EXCEPT ![KeyFor(Slug(r))] = local[r].answer]
               /\ stamp' = [stamp EXCEPT ![r] = KeyFor(Slug(r))]
<1> DEFINE k == KeyFor(Slug(r))
<1>1. /\ local[r] \in Locals /\ "cleaned" \in Labels
      /\ stamp \in [Requests -> Keys \cup {NoKey}]
  BY DEF TypeInv, TypeOK, Labels
<1>2. pc[r] = "raw" /\ UNCHANGED <<world, tables, cleaned, beaten>>
  BY DEF UploadRaw
<1>3. Slug(r) \in Slugs /\ local[r].answer \in Answers /\ local[r].answer.by = r
  BY <1>2 DEF TypeInv, LocalInv, LocalOf, Live, Over, Answered
<1>4. k \in Keys
  BY <1>3 DEF KeyFor, Keys, TypeInv, TypeOK
<1>5. CASE GiveUp(r, "FAILED") /\ UNCHANGED <<raw, stamp>>
  <2>1. Mine(r) /\ pc'[r] = "fail" /\ Slug(r)' = Slug(r) /\ local'[r].verdict # "none"
    BY <1>5, GivesUp DEF TypeInv
  <2> QED
    BY <1>2, <1>5, <2>1
<1>6. CASE /\ raw' = [raw EXCEPT ![k] = local[r].answer]
           /\ stamp' = [stamp EXCEPT ![r] = <<Slug(r), now>>]
           /\ Keep(r, [local[r] EXCEPT !.key = k]) /\ Goto(r, "cleaned")
  <2>1. stamp' = [stamp EXCEPT ![r] = k]
    BY <1>6 DEF KeyFor
  <2>2. \A q \in Requests \ {r} : stamp'[q] = stamp[q]
    BY <1>1, <2>1
  <2> HIDE DEF k
  <2>3. Mine(r) /\ pc'[r] = "cleaned" /\ local'[r] = [local[r] EXCEPT !.key = k]
    BY <1>1, <1>4, <1>6, <2>2, SetKey, MovesWith DEF TypeInv
  <2>4. Slug(r)' = Slug(r) /\ local'[r].key = k /\ local'[r].answer = local[r].answer
    BY <1>1, <1>4, <2>3, SetKey DEF Slug
  <2> QED
    BY <1>2, <1>3, <1>4, <1>6, <2>1, <2>3, <2>4 DEF k
<1> QED
  BY <1>5, <1>6 DEF UploadRaw

\* The second upload.
LEMMA CleanedUploads ==
  ASSUME TypeInv, NEW r \in Requests, UploadCleaned(r)
  PROVE  /\ Mine(r) /\ pc[r] = "cleaned" /\ Slug(r)' = Slug(r)
         /\ local'[r].answer = local[r].answer
         /\ UNCHANGED <<world, tables, raw, stamp, beaten>>
         /\ \/ pc'[r] = "fail" /\ local'[r].verdict # "none" /\ UNCHANGED cleaned
            \/ /\ pc'[r] = "find"
               /\ local[r].key \in Keys /\ local'[r].key = local[r].key
               /\ local[r].answer \in Answers
               /\ cleaned' = [cleaned EXCEPT ![local[r].key] = local[r].answer]
<1>1. "find" \in Labels
  BY DEF Labels
<1>2. pc[r] = "cleaned" /\ UNCHANGED <<world, tables, raw, stamp, beaten>>
  BY DEF UploadCleaned
<1>3. CASE GiveUp(r, "FAILED") /\ UNCHANGED cleaned
  BY <1>2, <1>3, GivesUp DEF TypeInv
<1>4. CASE /\ cleaned' = [cleaned EXCEPT ![local[r].key] = local[r].answer]
           /\ Goto(r, "find") /\ UNCHANGED local
  <2>1. Mine(r) /\ pc'[r] = "find"
    BY <1>1, <1>2, <1>4, JustMoves DEF TypeInv
  <2>2. local[r].key \in Keys /\ local[r].answer \in Answers
    BY <1>2 DEF TypeInv, LocalInv, LocalOf, Answered
  <2> QED
    BY <1>2, <1>4, <2>1, <2>2 DEF Slug
<1> QED
  BY <1>3, <1>4 DEF UploadCleaned

\* The row that Upsert finds.
LEMMA Finds ==
  ASSUME TypeInv, NEW r \in Requests, FindRow(r)
  PROVE  /\ Mine(r) /\ pc[r] = "find" /\ Slug(r)' = Slug(r)
         /\ local'[r].answer = local[r].answer
         /\ UNCHANGED <<world, tables, bucket, stamp, beaten>>
         /\ \/ pc'[r] = "fail" /\ local'[r].verdict # "none"
            \/ /\ pc'[r] = "save" /\ local'[r].key = local[r].key
               /\ local'[r].target \subseteq RowsFor(local[r].answer)
<1>1. local[r] \in Locals /\ "save" \in Labels
  BY DEF TypeInv, TypeOK, Labels
<1>2. pc[r] = "find" /\ UNCHANGED <<world, tables, bucket, stamp, beaten>>
  BY DEF FindRow
<1>3. CASE GiveUp(r, "FAILED")
  BY <1>2, <1>3, GivesUp DEF TypeInv
<1>4. ASSUME NEW t \in SUBSET RowsFor(local[r].answer),
             Keep(r, [local[r] EXCEPT !.target = t]), Goto(r, "save")
      PROVE  /\ Mine(r) /\ pc'[r] = "save" /\ Slug(r)' = Slug(r)
             /\ local'[r].answer = local[r].answer /\ local'[r].key = local[r].key
             /\ local'[r].target = t
  <2>1. t \in SUBSET People
    BY DEF RowsFor
  <2>2. Mine(r) /\ pc'[r] = "save" /\ local'[r] = [local[r] EXCEPT !.target = t]
    BY <1>1, <1>2, <1>4, <2>1, SetTarget, MovesWith DEF TypeInv
  <2> QED
    BY <1>1, <2>1, <2>2, SetTarget DEF Slug
<1>5. CASE /\ \/ Keep(r, [local[r] EXCEPT !.target = {}])
              \/ \E p \in RowsFor(local[r].answer) :
                     Keep(r, [local[r] EXCEPT !.target = {p}])
           /\ Goto(r, "save")
  <2>1. PICK t \in SUBSET RowsFor(local[r].answer) : Keep(r, [local[r] EXCEPT !.target = t])
    BY <1>5
  <2> QED
    BY <1>2, <1>4, <1>5, <2>1
<1> QED
  BY <1>3, <1>5 DEF FindRow

\* The row that Upsert writes.
LEMMA Saves ==
  ASSUME TypeInv, NEW r \in Requests, SaveRow(r)
  PROVE  /\ Mine(r) /\ pc[r] = "save" /\ Slug(r)' = Slug(r)
         /\ local'[r].answer = local[r].answer
         /\ UNCHANGED <<world, entry, bucket, stamp>>
         /\ \/ pc'[r] = "fail" /\ local'[r].verdict # "none" /\ UNCHANGED <<profile, beaten>>
            \/ /\ pc'[r] = "complete"
               /\ local[r].answer \in Answers /\ local[r].key \in Keys
               /\ beaten' = beaten \cup Rivals(r, local[r].answer.name)
               /\ \E p \in People :
                      /\ p \in local[r].target \/ p = local[r].answer.who
                      /\ profile' = [profile EXCEPT
                                         ![p] = RowOf(@, local[r].answer, local[r].key)]
<1>1. local[r] \in Locals /\ "complete" \in Labels
  BY DEF TypeInv, TypeOK, Labels
<1>2. pc[r] = "save" /\ UNCHANGED <<world, entry, bucket, stamp>>
  BY DEF SaveRow
<1>3. local[r].key \in Keys /\ local[r].answer \in Answers
  BY <1>2 DEF TypeInv, LocalInv, LocalOf, Answered, Stored
<1>4. local[r].target \subseteq People /\ local[r].answer.who \in People
  BY <1>1, <1>3, LocalFields, AnswerFields
<1>5. CASE GiveUp(r, "FAILED") /\ UNCHANGED <<profile, beaten>>
  BY <1>2, <1>5, GivesUp DEF TypeInv
<1>6. CASE /\ \E p \in People :
                  /\ p \in local[r].target \/ p = local[r].answer.who
                  /\ profile' = [profile EXCEPT
                                     ![p] = RowOf(@, local[r].answer, local[r].key)]
           /\ beaten' = beaten \cup Rivals(r, local[r].answer.name)
           /\ Goto(r, "complete") /\ UNCHANGED local
  <2>1. Mine(r) /\ pc'[r] = "complete"
    BY <1>1, <1>2, <1>6, JustMoves DEF TypeInv
  <2> QED
    BY <1>2, <1>3, <1>6, <2>1 DEF Slug
<1> QED
  BY <1>4, <1>5, <1>6 DEF SaveRow

\* The download.
LEMMA Downloads ==
  ASSUME TypeInv, NEW r \in Requests, Download(r)
  PROVE  /\ Mine(r) /\ pc[r] = "download" /\ Slug(r)' = Slug(r)
         /\ local'[r].answer = local[r].answer /\ local'[r].key = local[r].key
         /\ UNCHANGED <<world, tables, bucket, stamp, beaten>>
         /\ \/ pc'[r] = "failed"
            \/ pc'[r] = "answered" /\ local'[r].given = raw[local[r].key]
<1>1. local[r] \in Locals /\ {"answered", "failed"} \subseteq Labels
  BY DEF TypeInv, TypeOK, Labels, Over
<1>2. pc[r] = "download" /\ UNCHANGED <<world, tables, bucket, stamp, beaten>>
  BY DEF Download
<1>3. CASE Keep(r, [local[r] EXCEPT !.given = raw[local[r].key]]) /\ Goto(r, "answered")
  <2>1. raw[local[r].key] \in Objects
    BY <1>2 DEF TypeInv, LocalInv, LocalOf, TypeOK
  <2>2. /\ Mine(r) /\ pc'[r] = "answered"
        /\ local'[r] = [local[r] EXCEPT !.given = raw[local[r].key]]
    BY <1>1, <1>2, <1>3, <2>1, SetGiven, MovesWith DEF TypeInv
  <2> QED
    BY <1>1, <1>2, <2>1, <2>2, SetGiven DEF Slug
<1>4. CASE Goto(r, "failed") /\ UNCHANGED local
  BY <1>1, <1>2, <1>4, JustMoves DEF TypeInv, Slug
<1> QED
  BY <1>3, <1>4 DEF Download

\* The rest of the world does not touch the requests.
LEMMA Surroundings ==
  ASSUME TypeInv, \/ \E p \in People : Rename(p)
                  \/ \E s \in Slugs : DeleteEntry(s)
                  \/ Tick
                  \/ UNCHANGED vars
  PROVE  UNCHANGED <<pc, local, stamp, beaten, profile, bucket>> /\ bore \subseteq bore'
BY DEF Rename, DeleteEntry, Tick, vars, world, tables
\* What a label says of a request does not depend on the others.
LEMMA OthersLocal ==
  ASSUME LocalInv, NEW r \in Requests, Mine(r), LocalOf(r)'
  PROVE  LocalInv'
<1>1. ASSUME NEW q \in Requests \ {r}
      PROVE  LocalOf(q)'
  <2>1. pc'[q] = pc[q] /\ local'[q] = local[q] /\ LocalOf(q)
    BY <1>1 DEF Mine, LocalInv
  <2> QED
    BY <2>1 DEF LocalOf, Live, Slug
<1> QED
  BY <1>1 DEF LocalInv

\* Each step leaves what its label says.
LEMMA LocalStep ==
  ASSUME TypeInv, [Next]_vars
  PROVE  LocalInv'
<1>1. LocalInv /\ TypeOK
  BY DEF TypeInv
<1>2. ASSUME NEW r \in Requests, AskByURL(r) \/ AskForEntry(r)
      PROVE  LocalInv'
  BY <1>1, <1>2, Asks, OthersLocal DEF LocalOf, Live, Answered, Stored, Slug
<1>3. ASSUME NEW r \in Requests, LookUpProfile(r)
      PROVE  LocalInv'
  <2>1. Live(r) /\ LocalOf(r)
    BY <1>1, <1>3, Lookups DEF Live, Over, LocalInv
  <2>2. \A p \in ByName(Slug(r)) : profile[p].key \in Keys
    BY <1>1, RowFields DEF ByName, TypeOK
  <2>3. LocalOf(r)'
    BY <1>3, <2>1, <2>2, Lookups DEF LocalOf, Live, Over, Answered, Stored
  <2> QED
    BY <1>1, <1>3, <2>3, Lookups, OthersLocal
<1>4. ASSUME NEW r \in Requests,
             FindEntry(r) \/ CheckEntry(r) \/ CheckProfile(r) \/ InsertEntry(r)
             \/ MarkFetching(r)
      PROVE  LocalInv'
  <2>1. Slug(r) \in Slugs
    BY <1>1, <1>4, EarlyMoves DEF Live, Over, LocalInv, LocalOf
  <2>2. LocalOf(r)'
    BY <1>4, <2>1, EarlyMoves DEF LocalOf, Live, Over, Answered, Stored, Same
  <2> QED
    BY <1>1, <1>4, <2>2, EarlyMoves, OthersLocal
<1>5. ASSUME NEW r \in Requests, FetchSucceeds(r)
      PROVE  LocalInv'
  <2>1. Slug(r) \in Slugs
    BY <1>1, <1>5, Fetches DEF Live, Over, LocalInv, LocalOf
  <2>2. LocalOf(r)'
    BY <1>5, <2>1, Fetches DEF LocalOf, Live, Over, Answered, Stored
  <2> QED
    BY <1>1, <1>5, <2>2, Fetches, OthersLocal
<1>6. ASSUME NEW r \in Requests, FetchNotFound(r) \/ FetchFails(r)
      PROVE  LocalInv'
  <2>1. Slug(r) \in Slugs
    BY <1>1, <1>6, FetchEnds DEF Live, Over, LocalInv, LocalOf
  <2>2. LocalOf(r)'
    BY <1>6, <2>1, FetchEnds DEF LocalOf, Live, Over, Answered, Stored
  <2> QED
    BY <1>1, <1>6, <2>2, FetchEnds, OthersLocal
<1>7. ASSUME NEW r \in Requests, UploadRaw(r)
      PROVE  LocalInv'
  <2>1. Slug(r) \in Slugs
    BY <1>1, <1>7, RawUploads DEF Live, Over, LocalInv, LocalOf
  <2>2. LocalOf(r)'
    BY <1>7, <2>1, RawUploads DEF LocalOf, Live, Over, Answered, Stored
  <2> QED
    BY <1>1, <1>7, <2>2, RawUploads, OthersLocal
<1>8. ASSUME NEW r \in Requests, UploadCleaned(r)
      PROVE  LocalInv'
  <2>1. Live(r) /\ LocalOf(r) /\ pc[r] \in Answered
    BY <1>1, <1>8, CleanedUploads DEF Live, Over, LocalInv, Answered
  <2>2. LocalOf(r)'
    BY <1>8, <2>1, CleanedUploads DEF LocalOf, Live, Over, Answered, Stored
  <2> QED
    BY <1>1, <1>8, <2>2, CleanedUploads, OthersLocal
<1>9. ASSUME NEW r \in Requests, FindRow(r)
      PROVE  LocalInv'
  <2>1. Live(r) /\ LocalOf(r) /\ pc[r] \in Answered \cap Stored
    BY <1>1, <1>9, Finds DEF Live, Over, LocalInv, Answered, Stored
  <2>2. LocalOf(r)'
    BY <1>9, <2>1, Finds DEF LocalOf, Live, Over, Answered, Stored
  <2> QED
    BY <1>1, <1>9, <2>2, Finds, OthersLocal
<1>10. ASSUME NEW r \in Requests, SaveRow(r)
       PROVE  LocalInv'
  <2>1. Live(r) /\ LocalOf(r) /\ pc[r] \in Answered
    BY <1>1, <1>10, Saves DEF Live, Over, LocalInv, Answered
  <2>2. LocalOf(r)'
    BY <1>10, <2>1, Saves DEF LocalOf, Live, Over, Answered, Stored
  <2> QED
    BY <1>1, <1>10, <2>2, Saves, OthersLocal
<1>11. ASSUME NEW r \in Requests, WriteVerdict(r) \/ CompleteEntry(r)
       PROVE  LocalInv'
  <2>1. Live(r) /\ LocalOf(r) /\ pc[r] \in Answered \cup {"fail"}
    BY <1>1, <1>11, LateMoves DEF Live, Over, LocalInv, Answered
  <2>2. LocalOf(r)'
    BY <1>11, <2>1, LateMoves DEF LocalOf, Live, Over, Answered, Stored, Same
  <2> QED
    BY <1>1, <1>11, <2>2, LateMoves, OthersLocal
<1>12. ASSUME NEW r \in Requests, Download(r)
       PROVE  LocalInv'
  <2>1. local[r].key \in Keys
    BY <1>1, <1>12, Downloads DEF LocalInv, LocalOf
  <2>2. LocalOf(r)'
    BY <1>12, <2>1, Downloads DEF LocalOf, Live, Over, Answered, Stored
  <2> QED
    BY <1>1, <1>12, <2>2, Downloads, OthersLocal
<1>13. CASE \/ \E p \in People : Rename(p)
            \/ \E s \in Slugs : DeleteEntry(s)
            \/ Tick
            \/ UNCHANGED vars
  <2>1. UNCHANGED <<pc, local>>
    BY <1>13, Surroundings
  <2> QED
    BY <1>1, <2>1 DEF LocalInv, LocalOf, Live, Slug
<1> QED
  BY <1>2, <1>3, <1>4, <1>5, <1>6, <1>7, <1>8, <1>9, <1>10, <1>11, <1>12, <1>13
  DEF Next, Step, Rest
\* The entries keep their type, and only a status is ever written over a status.
LEMMA EntryStep ==
  ASSUME TypeInv, [Next]_vars
  PROVE  /\ entry' \in [Slugs -> Statuses \cup {"NONE"}]
         /\ \/ \E r \in Requests : InsertEntry(r)
            \/ \A s \in Slugs : entry[s] = "NONE" => entry'[s] = "NONE"
<1>1. entry \in [Slugs -> Statuses \cup {"NONE"}] /\ LocalInv /\ TypeOK
  BY DEF TypeInv, TypeOK
<1>2. ASSUME NEW r \in Requests, MarkFetching(r) \/ CompleteEntry(r)
      PROVE  /\ entry' \in [Slugs -> Statuses \cup {"NONE"}]
             /\ \A s \in Slugs : entry[s] = "NONE" => entry'[s] = "NONE"
  <2>1. Slug(r) \in Slugs
    BY <1>1, <1>2 DEF MarkFetching, CompleteEntry, Live, Over, LocalInv, LocalOf
  <2>2. \/ UNCHANGED entry
        \/ \E x \in {"FETCHING", "COMPLETED"} : SetStatus(Slug(r), x)
    BY <1>2 DEF MarkFetching, CompleteEntry
  <2>3. {"FETCHING", "COMPLETED"} \subseteq Statuses
    BY DEF Statuses
  <2> QED
    BY <1>1, <2>1, <2>2, <2>3, StatusWritten
<1>3. ASSUME NEW r \in Requests, WriteVerdict(r)
      PROVE  /\ entry' \in [Slugs -> Statuses \cup {"NONE"}]
             /\ \A s \in Slugs : entry[s] = "NONE" => entry'[s] = "NONE"
  <2>1. Slug(r) \in Slugs /\ local[r].verdict # "none"
    BY <1>1, <1>3 DEF WriteVerdict, Live, Over, LocalInv, LocalOf
  <2>2. local[r].verdict \in Statuses
    BY <1>1, <2>1, LocalFields DEF TypeOK, Statuses
  <2>3. UNCHANGED entry \/ SetStatus(Slug(r), local[r].verdict)
    BY <1>3 DEF WriteVerdict
  <2> QED
    BY <1>1, <2>1, <2>2, <2>3, StatusWritten
<1>4. ASSUME NEW r \in Requests, InsertEntry(r)
      PROVE  entry' \in [Slugs -> Statuses \cup {"NONE"}]
  BY <1>1, <1>4 DEF InsertEntry, Statuses
<1>5. ASSUME NEW s \in Slugs, DeleteEntry(s)
      PROVE  /\ entry' \in [Slugs -> Statuses \cup {"NONE"}]
             /\ \A z \in Slugs : entry[z] = "NONE" => entry'[z] = "NONE"
  BY <1>1, <1>5 DEF DeleteEntry
<1>6. CASE UNCHANGED entry
  BY <1>1, <1>6
<1>7. ASSUME NEW r \in Requests,
             \/ AskByURL(r) \/ AskForEntry(r) \/ LookUpProfile(r) \/ FindEntry(r)
             \/ CheckEntry(r) \/ CheckProfile(r) \/ FetchSucceeds(r)
             \/ FetchNotFound(r) \/ FetchFails(r) \/ UploadRaw(r) \/ UploadCleaned(r)
             \/ FindRow(r) \/ SaveRow(r) \/ Download(r)
      PROVE  UNCHANGED entry
  BY <1>7 DEF AskByURL, AskForEntry, LookUpProfile, FindEntry, CheckEntry, CheckProfile,
              FetchSucceeds, FetchNotFound, FetchFails, UploadRaw, UploadCleaned,
              FindRow, SaveRow, Download, tables
<1>8. (\E p \in People : Rename(p)) \/ Tick \/ UNCHANGED vars => UNCHANGED entry
  BY DEF Rename, Tick, vars, tables
<1> QED
  BY <1>2, <1>3, <1>4, <1>5, <1>6, <1>7, <1>8 DEF Next, Step, Rest

\* Profiles and objects keep their types.
LEMMA StoreStep ==
  ASSUME TypeInv, [Next]_vars
  PROVE  /\ profile' \in [People -> Rows]
         /\ raw' \in [Keys -> Objects] /\ cleaned' \in [Keys -> Objects]
         /\ stamp' \in [Requests -> Keys \cup {NoKey}]
         /\ beaten' \subseteq Requests
<1>1. /\ profile \in [People -> Rows]
      /\ raw \in [Keys -> Objects] /\ cleaned \in [Keys -> Objects]
      /\ stamp \in [Requests -> Keys \cup {NoKey}]
      /\ beaten \subseteq Requests
  BY DEF TypeInv, TypeOK
<1>2. \A a \in Answers : a \in Objects
  BY DEF Objects
<1>3. ASSUME NEW r \in Requests, SaveRow(r)
      PROVE  profile' \in [People -> Rows] /\ UNCHANGED <<raw, cleaned, stamp>>
             /\ beaten' \subseteq Requests
  <2>1. UNCHANGED <<raw, cleaned, stamp>>
    BY <1>3, Saves DEF bucket
  <2>2. \A q, s : Rivals(q, s) \subseteq Requests
    BY DEF Rivals
  <2>3. beaten' \subseteq Requests
    BY <1>1, <1>3, <2>2, Saves
  <2>4. CASE UNCHANGED profile
    BY <1>1, <2>1, <2>3, <2>4
  <2>5. CASE /\ local[r].answer \in Answers /\ local[r].key \in Keys
             /\ \E p \in People : profile' = [profile EXCEPT
                                           ![p] = RowOf(@, local[r].answer, local[r].key)]
    <3>1. PICK p \in People : profile' = [profile EXCEPT
                                           ![p] = RowOf(@, local[r].answer, local[r].key)]
      BY <2>5
    <3>2. RowOf(profile[p], local[r].answer, local[r].key) \in Rows
      BY <1>1, <2>5, RowWritten
    <3> QED
      BY <1>1, <2>1, <2>3, <3>1, <3>2
  <2> QED
    BY <1>3, <2>4, <2>5, Saves
<1>4. ASSUME NEW r \in Requests, UploadRaw(r)
      PROVE  /\ raw' \in [Keys -> Objects] /\ stamp' \in [Requests -> Keys \cup {NoKey}]
             /\ UNCHANGED <<profile, cleaned, beaten>>
  <2>1. UNCHANGED <<profile, cleaned, beaten>>
    BY <1>4, RawUploads DEF tables
  <2>2. CASE UNCHANGED <<raw, stamp>>
    BY <1>1, <2>1, <2>2
  <2>3. CASE /\ KeyFor(Slug(r)) \in Keys /\ local[r].answer \in Answers
             /\ raw' = [raw EXCEPT ![KeyFor(Slug(r))] = local[r].answer]
             /\ stamp' = [stamp EXCEPT ![r] = KeyFor(Slug(r))]
    BY <1>1, <1>2, <2>1, <2>3
  <2> QED
    BY <1>4, <2>2, <2>3, RawUploads
<1>5. ASSUME NEW r \in Requests, UploadCleaned(r)
      PROVE  cleaned' \in [Keys -> Objects] /\ UNCHANGED <<profile, raw, stamp, beaten>>
  BY <1>1, <1>2, <1>5, CleanedUploads DEF tables
<1>6. ASSUME NEW r \in Requests, InsertEntry(r)
      PROVE  /\ beaten' \subseteq Requests
             /\ UNCHANGED <<profile, raw, cleaned, stamp>>
  BY <1>1, <1>6 DEF InsertEntry, Rivals, bucket
<1>7. CASE UNCHANGED <<profile, raw, cleaned, stamp, beaten>>
  BY <1>1, <1>7
<1>8. ASSUME NEW r \in Requests,
             \/ AskByURL(r) \/ AskForEntry(r) \/ LookUpProfile(r) \/ FindEntry(r)
             \/ CheckEntry(r) \/ CheckProfile(r) \/ MarkFetching(r) \/ FetchSucceeds(r)
             \/ FetchNotFound(r) \/ FetchFails(r) \/ FindRow(r) \/ WriteVerdict(r)
             \/ CompleteEntry(r) \/ Download(r)
      PROVE  UNCHANGED <<profile, raw, cleaned, stamp, beaten>>
  BY <1>8 DEF AskByURL, AskForEntry, LookUpProfile, FindEntry, CheckEntry, CheckProfile,
              MarkFetching, FetchSucceeds, FetchNotFound, FetchFails, FindRow,
              WriteVerdict, CompleteEntry, Download, tables, bucket
<1>9. \/ \E p \in People : Rename(p)
      \/ \E s \in Slugs : DeleteEntry(s)
      \/ Tick
      \/ UNCHANGED vars
      => UNCHANGED <<profile, raw, cleaned, stamp, beaten>>
  BY Surroundings DEF bucket
<1> QED
  BY <1>1, <1>3, <1>4, <1>5, <1>6, <1>7, <1>8, <1>9 DEF Next, Step, Rest

\* The world and the bounds keep their types; histories only grow.
LEMMA WorldStep ==
  ASSUME TypeInv, [Next]_vars
  PROVE  /\ name' \in [People -> Names \cup {NoName}]
         /\ now' \in Times
         /\ bore' \subseteq People \X (Names \cup {NoName})
         /\ renames' \in 0 .. MaxRenames /\ deletes' \in 0 .. MaxDeletes
         /\ bore \subseteq bore' /\ beaten \subseteq beaten'
<1>1. /\ name \in [People -> Names \cup {NoName}]
      /\ now \in Times
      /\ bore \subseteq People \X (Names \cup {NoName})
      /\ renames \in 0 .. MaxRenames /\ deletes \in 0 .. MaxDeletes
  BY DEF TypeInv, TypeOK
<1>2. {MaxTime, MaxRenames, MaxDeletes, MaxFaults} \subseteq Nat
  BY ProfileStoreAssumption
<1>3. ASSUME NEW p \in People, Rename(p)
      PROVE  /\ name' \in [People -> Names \cup {NoName}]
             /\ bore' \subseteq People \X (Names \cup {NoName})
             /\ renames' \in 0 .. MaxRenames
             /\ bore \subseteq bore' /\ UNCHANGED <<now, deletes, beaten>>
  <2>1. PICK n \in Names \cup {NoName} :
            name' = [name EXCEPT ![p] = n] /\ bore' = bore \cup {<<p, n>>}
    BY <1>3 DEF Rename
  <2>2. renames' \in 0 .. MaxRenames
    BY <1>1, <1>2, <1>3 DEF Rename
  <2>3. UNCHANGED <<now, deletes, beaten>>
    BY <1>3 DEF Rename
  <2> QED
    BY <1>1, <2>1, <2>2, <2>3
<1>4. ASSUME Tick
      PROVE  now' \in Times /\ UNCHANGED <<name, bore, renames, deletes, beaten>>
  BY <1>1, <1>2, <1>4 DEF Tick, Times
<1>5. ASSUME NEW s \in Slugs, DeleteEntry(s)
      PROVE  deletes' \in 0 .. MaxDeletes /\ UNCHANGED <<name, now, bore, renames, beaten>>
  BY <1>1, <1>2, <1>5 DEF DeleteEntry, world
<1>6. ASSUME NEW r \in Requests, Step(r) \/ AskByURL(r) \/ AskForEntry(r)
      PROVE  UNCHANGED <<world, deletes>> /\ beaten \subseteq beaten'
  BY <1>6 DEF Step, AskByURL, AskForEntry, LookUpProfile, FindEntry, CheckEntry,
              CheckProfile, InsertEntry, MarkFetching, FetchSucceeds, FetchNotFound,
              FetchFails, UploadRaw, UploadCleaned, FindRow, SaveRow, WriteVerdict,
              CompleteEntry, Download
<1>7. UNCHANGED vars => UNCHANGED <<world, deletes, beaten>>
  BY DEF vars
<1> QED
  BY <1>1, <1>3, <1>4, <1>5, <1>6, <1>7 DEF Next, Rest, world

\* Faults are counted up to their bound.
LEMMA FaultsStep ==
  ASSUME TypeInv, [Next]_vars
  PROVE  faults' \in 0 .. MaxFaults
<1>1. faults \in 0 .. MaxFaults /\ MaxFaults \in Nat
  BY ProfileStoreAssumption DEF TypeInv, TypeOK
<1>2. Fails => faults' \in 0 .. MaxFaults
  BY <1>1 DEF Fails
<1>3. ASSUME NEW r \in Requests, Step(r) \/ AskByURL(r) \/ AskForEntry(r)
      PROVE  Fails \/ UNCHANGED faults
  BY <1>3 DEF Step, AskByURL, AskForEntry, LookUpProfile, FindEntry, CheckEntry,
              CheckProfile, InsertEntry, MarkFetching, FetchSucceeds, FetchNotFound,
              FetchFails, UploadRaw, UploadCleaned, FindRow, SaveRow, WriteVerdict,
              CompleteEntry, Download, Works
<1>4. \/ \E p \in People : Rename(p)
      \/ \E s \in Slugs : DeleteEntry(s)
      \/ Tick
      \/ UNCHANGED vars
      => UNCHANGED faults
  BY DEF Rename, DeleteEntry, Tick, vars
<1> QED
  BY <1>1, <1>2, <1>3, <1>4 DEF Next, Rest

\* Only what a request does changes where it is.
LEMMA ControlStep ==
  ASSUME TypeInv, [Next]_vars
  PROVE  pc' \in [Requests -> Labels] /\ local' \in [Requests -> Locals]
<1>1. pc \in [Requests -> Labels] /\ local \in [Requests -> Locals]
  BY DEF TypeInv, TypeOK
<1>2. ASSUME NEW r \in Requests, Step(r) \/ AskByURL(r) \/ AskForEntry(r)
      PROVE  Mine(r)
  BY <1>2, Asks, Lookups, EarlyMoves, Fetches, FetchEnds, RawUploads, CleanedUploads,
     Finds, Saves, LateMoves, Downloads DEF Step
<1>3. \/ \E p \in People : Rename(p)
      \/ \E s \in Slugs : DeleteEntry(s)
      \/ Tick
      \/ UNCHANGED vars
      => UNCHANGED <<pc, local>>
  BY Surroundings
<1> QED
  BY <1>1, <1>2, <1>3 DEF Next, Rest, Mine

\* The strengthened invariant is inductive.
LEMMA TypeStep ==
  ASSUME TypeInv, [Next]_vars
  PROVE  TypeInv'
BY LocalStep, EntryStep, StoreStep, WorldStep, FaultsStep, ControlStep
DEF TypeInv, TypeOK

\* It holds at the start.
LEMMA TypeInit ==
  ASSUME Init
  PROVE  TypeInv
<1>1. LocalInv
  BY DEF Init, LocalInv, LocalOf, Live, Answered, Stored
<1>2. /\ name \in [People -> Names \cup {NoName}]
      /\ bore \subseteq People \X (Names \cup {NoName})
  BY ProfileStoreAssumption DEF Init
<1>3. Fresh \in Locals /\ "idle" \in Labels
  BY DEF Fresh, Locals, Objects, Labels
<1>4. /\ entry \in [Slugs -> Statuses \cup {"NONE"}]
      /\ profile \in [People -> Rows]
      /\ raw \in [Keys -> Objects] /\ cleaned \in [Keys -> Objects]
      /\ stamp \in [Requests -> Keys \cup {NoKey}] /\ beaten \subseteq Requests
  BY DEF Init, Statuses, Rows, Objects
<1>5. pc \in [Requests -> Labels] /\ local \in [Requests -> Locals]
  BY <1>3 DEF Init
<1>6. /\ now \in Times /\ renames \in 0 .. MaxRenames
      /\ deletes \in 0 .. MaxDeletes /\ faults \in 0 .. MaxFaults
  BY ProfileStoreAssumption DEF Init, Times
<1> QED
  BY <1>1, <1>2, <1>4, <1>5, <1>6 DEF TypeInv, TypeOK

\* The variables keep their types, and each request has the slug, the answer and the
\* key that its next step uses (FetchProfileByURL, fetchSingleProfileEntry).
THEOREM TypeCorrect == Spec => []TypeInv
BY TypeInit, TypeStep, PTL DEF Spec
-------------------------------------------------------------------------------
(* Steps by what they can disturb. *)

\* A step saves a row, uploads an object, or does none of these.
LEMMA StepKinds ==
  ASSUME TypeInv, [Next]_vars
  PROVE  \/ \E r \in Requests : SaveRow(r)
         \/ \E r \in Requests : UploadRaw(r)
         \/ \E r \in Requests : UploadCleaned(r)
         \/ UNCHANGED <<profile, raw, cleaned, stamp>>
<1>1. ASSUME NEW r \in Requests,
             \/ AskByURL(r) \/ AskForEntry(r) \/ LookUpProfile(r) \/ FindEntry(r)
             \/ CheckEntry(r) \/ CheckProfile(r) \/ InsertEntry(r) \/ MarkFetching(r)
             \/ FetchSucceeds(r) \/ FetchNotFound(r) \/ FetchFails(r) \/ FindRow(r)
             \/ WriteVerdict(r) \/ CompleteEntry(r) \/ Download(r)
      PROVE  UNCHANGED <<profile, raw, cleaned, stamp>>
  BY <1>1, Asks, Lookups, EarlyMoves, Fetches, FetchEnds, Finds, LateMoves, Downloads
  DEF tables, bucket
<1>2. \/ \E p \in People : Rename(p)
      \/ \E s \in Slugs : DeleteEntry(s)
      \/ Tick
      \/ UNCHANGED vars
      => UNCHANGED <<profile, raw, cleaned, stamp>>
  BY Surroundings DEF bucket
<1> QED
  BY <1>1, <1>2 DEF Next, Step, Rest

\* What a request does.
Acts(r) == AskByURL(r) \/ AskForEntry(r) \/ Step(r)

\* A request that does not act stays where it is.
LEMMA OwnSteps ==
  ASSUME TypeInv, [Next]_vars, NEW r \in Requests
  PROVE  Acts(r) \/ (pc'[r] = pc[r] /\ local'[r] = local[r] /\ stamp'[r] = stamp[r])
<1>1. ASSUME NEW q \in Requests \ {r}, Acts(q)
      PROVE  pc'[r] = pc[r] /\ local'[r] = local[r] /\ stamp'[r] = stamp[r]
  <2>1. Mine(q)
    BY <1>1, Asks, Lookups, EarlyMoves, Fetches, FetchEnds, RawUploads, CleanedUploads,
       Finds, Saves, LateMoves, Downloads DEF Acts, Step
  <2> QED
    BY <2>1 DEF Mine
<1>2. \/ \E p \in People : Rename(p)
      \/ \E s \in Slugs : DeleteEntry(s)
      \/ Tick
      \/ UNCHANGED vars
      => pc'[r] = pc[r] /\ local'[r] = local[r] /\ stamp'[r] = stamp[r]
  BY Surroundings
<1> QED
  BY <1>1, <1>2 DEF Next, Rest, Acts

\* Profiles change only when a row is written, with a name and a key.
LEMMA ProfileSteps ==
  ASSUME TypeInv, [Next]_vars
  PROVE  \/ UNCHANGED profile
         \/ \E r \in Requests : SaveRow(r) /\ pc'[r] = "complete"
<1>1. ASSUME NEW r \in Requests, SaveRow(r)
      PROVE  UNCHANGED profile \/ pc'[r] = "complete"
  BY <1>1, Saves
<1>2. ASSUME NEW r \in Requests, UploadRaw(r) \/ UploadCleaned(r)
      PROVE  UNCHANGED profile
  BY <1>2, RawUploads, CleanedUploads DEF tables
<1> QED
  BY <1>1, <1>2, StepKinds

\* A written row, and the others.
LEMMA RowChange ==
  ASSUME TypeInv, NEW r \in Requests, SaveRow(r), pc'[r] = "complete"
  PROVE  \E p \in People :
             /\ p \in local[r].target \/ p = local[r].answer.who
             /\ profile'[p] # NoRow
             /\ profile'[p].name = local[r].answer.name
             /\ profile'[p].key = local[r].key
             /\ profile'[p].geo \in {local[r].answer, profile[p].geo}
             /\ local[r].answer.geo => profile'[p].geo = local[r].answer
             /\ \A q \in People \ {p} : profile'[q] = profile[q]
<1>1. profile \in [People -> Rows]
  BY DEF TypeInv, TypeOK
<1>2. local[r].answer \in Answers /\ local[r].key \in Keys
  BY Saves
<1>3. PICK p \in People :
          /\ p \in local[r].target \/ p = local[r].answer.who
          /\ profile' = [profile EXCEPT ![p] = RowOf(@, local[r].answer, local[r].key)]
  BY Saves
<1> DEFINE w == RowOf(profile[p], local[r].answer, local[r].key)
<1>4. /\ w # NoRow /\ w.name = local[r].answer.name /\ w.key = local[r].key
      /\ w.geo \in {local[r].answer, profile[p].geo}
      /\ local[r].answer.geo => w.geo = local[r].answer
  BY <1>1, <1>2, RowWritten
<1>5. profile'[p] = w /\ \A q \in People \ {p} : profile'[q] = profile[q]
  BY <1>1, <1>3
<1> HIDE DEF w
<1> QED
  BY <1>3, <1>4, <1>5

-------------------------------------------------------------------------------
(* Usernames. *)

BorneOf(r) ==
    LET a == local[r].answer
    IN  /\ pc[r] \in Answered => <<a.who, a.name>> \in bore
        /\ pc[r] = "save" => \A p \in local[r].target : <<p, a.name>> \in bore

\* What is known of the username a request carries stays known.
LEMMA BorneKept ==
  ASSUME NEW r \in Requests, BorneOf(r), bore \subseteq bore',
         local'[r].answer = local[r].answer,
         pc'[r] \in Answered => pc[r] \in Answered,
         pc'[r] = "save" => pc[r] = "save" /\ local'[r].target = local[r].target
  PROVE  BorneOf(r)'
BY DEF BorneOf

\* A request that asks, fetches, finds or saves a row, or does anything else.
LEMMA BorneMine ==
  ASSUME TypeInv, BorneInv, [Next]_vars, NEW r \in Requests
  PROVE  BorneOf(r)'
<1>1. bore \subseteq bore' /\ BorneOf(r)
  BY WorldStep DEF BorneInv, BorneOf
<1>2. CASE FindRow(r)
  <2>1. /\ pc[r] = "find" /\ local'[r].answer = local[r].answer
        /\ local[r].answer \in Answers /\ pc[r] \in Answered
    BY <1>2, Finds DEF TypeInv, LocalInv, LocalOf, Answered
  <2>2. ASSUME NEW p \in RowsFor(local[r].answer)
        PROVE  <<p, local[r].answer.name>> \in bore
    <3>1. CASE p = local[r].answer.who
      BY <1>1, <2>1, <3>1 DEF BorneOf
    <3>2. CASE profile[p] # NoRow /\ profile[p].name = local[r].answer.name
      BY <3>2 DEF BorneInv, NameWasBorne, RowsFor
    <3> QED
      BY <3>1, <3>2 DEF RowsFor
  <2>3. pc'[r] = "save" => local'[r].target \subseteq RowsFor(local[r].answer)
    BY <1>2, Finds
  <2> QED
    BY <1>1, <2>1, <2>2, <2>3 DEF BorneOf
<1>3. CASE FetchSucceeds(r)
  <2>1. local'[r].answer \in Answers /\ local'[r].answer.name = name[local'[r].answer.who]
    BY <1>3, Fetches
  <2>2. <<local'[r].answer.who, local'[r].answer.name>> \in bore
    BY <2>1, AnswerFields DEF BorneInv
  <2> QED
    BY <1>1, <1>3, <2>2, Fetches DEF BorneOf
<1>4. CASE pc'[r] = pc[r] /\ local'[r] = local[r]
  BY <1>1, <1>4, BorneKept
<1>5. CASE AskByURL(r) \/ AskForEntry(r)
  BY <1>5, Asks DEF BorneOf, Answered
<1>6. CASE LookUpProfile(r)
  BY <1>1, <1>6, Lookups, BorneKept DEF Answered
<1>7. CASE FindEntry(r) \/ CheckEntry(r) \/ CheckProfile(r) \/ InsertEntry(r)
           \/ MarkFetching(r)
  BY <1>7, EarlyMoves DEF BorneOf, Answered
<1>8. CASE FetchNotFound(r) \/ FetchFails(r)
  BY <1>8, FetchEnds DEF BorneOf, Answered
<1>9. CASE UploadRaw(r)
  BY <1>1, <1>9, RawUploads, BorneKept DEF BorneOf, Answered
<1>10. CASE UploadCleaned(r)
  BY <1>1, <1>10, CleanedUploads, BorneKept DEF Answered
<1>11. CASE SaveRow(r)
  BY <1>1, <1>11, Saves, BorneKept DEF Answered
<1>12. CASE WriteVerdict(r) \/ CompleteEntry(r)
  BY <1>1, <1>12, LateMoves, BorneKept DEF Answered, Same
<1>13. CASE Download(r)
  BY <1>13, Downloads DEF BorneOf, Answered
<1> QED
  BY <1>2, <1>3, <1>4, <1>5, <1>6, <1>7, <1>8, <1>9, <1>10, <1>11, <1>12, <1>13, OwnSteps
  DEF Acts, Step

\* The names at the provider are all in the history.
LEMMA NamesBorne ==
  ASSUME TypeInv, BorneInv, [Next]_vars
  PROVE  \A p \in People : <<p, name'[p]>> \in bore'
<1>1. name \in [People -> Names \cup {NoName}] /\ bore \subseteq bore'
      /\ \A p \in People : <<p, name[p]>> \in bore
  BY WorldStep DEF TypeInv, TypeOK, BorneInv
<1>2. ASSUME NEW p \in People, Rename(p)
      PROVE  \A q \in People : <<q, name'[q]>> \in bore'
  <2>1. PICK n : name' = [name EXCEPT ![p] = n] /\ bore' = bore \cup {<<p, n>>}
    BY <1>2 DEF Rename
  <2> QED
    BY <1>1, <2>1
<1>3. (\E p \in People : Rename(p)) \/ UNCHANGED name
  BY DEF Next, Step, AskByURL, AskForEntry, LookUpProfile, FindEntry, CheckEntry,
         CheckProfile, InsertEntry, MarkFetching, FetchSucceeds, FetchNotFound,
         FetchFails, UploadRaw, UploadCleaned, FindRow, SaveRow, WriteVerdict,
         CompleteEntry, Download, DeleteEntry, Tick, Rest, vars, world
<1> QED
  BY <1>1, <1>2, <1>3

\* No step writes a name that its person has not had.
LEMMA BorneStep ==
  ASSUME TypeInv, BorneInv, [Next]_vars
  PROVE  BorneInv'
<1>1. bore \subseteq bore' /\ NameWasBorne
  BY WorldStep DEF BorneInv
<1>2. NameWasBorne'
  <2>1. CASE UNCHANGED profile
    BY <1>1, <2>1 DEF NameWasBorne
  <2>2. ASSUME NEW r \in Requests, SaveRow(r), pc'[r] = "complete"
        PROVE  NameWasBorne'
    <3>1. pc[r] = "save" /\ pc[r] \in Answered
      BY <2>2, Saves DEF Answered
    <3>2. PICK p \in People :
              /\ p \in local[r].target \/ p = local[r].answer.who
              /\ profile'[p].name = local[r].answer.name
              /\ profile'[p].geo \in {local[r].answer, profile[p].geo}
              /\ \A q \in People \ {p} : profile'[q] = profile[q]
      BY <2>2, RowChange
    <3>3. <<p, local[r].answer.name>> \in bore
      BY <3>1, <3>2 DEF BorneInv
    <3>4. <<p, profile'[p].name>> \in bore'
      BY <1>1, <3>2, <3>3
    <3>5. profile'[p].geo # NoObject => <<p, profile'[p].geo.name>> \in bore'
      BY <1>1, <3>2, <3>3 DEF NameWasBorne
    <3>6. ASSUME NEW q \in People \ {p}
          PROVE  /\ profile'[q] # NoRow => <<q, profile'[q].name>> \in bore'
                 /\ profile'[q].geo # NoObject => <<q, profile'[q].geo.name>> \in bore'
      BY <1>1, <3>2 DEF NameWasBorne
    <3> QED
      BY <3>4, <3>5, <3>6 DEF NameWasBorne
  <2> QED
    BY <2>1, <2>2, ProfileSteps
<1> QED
  BY <1>2, NamesBorne, BorneMine DEF BorneInv, BorneOf

\* It holds at the start.
LEMMA BorneInit ==
  ASSUME Init
  PROVE  BorneInv
BY DEF Init, BorneInv, NameWasBorne, Answered, NoRow

\* A row never gets a username that the person of its urn has not had, nor the
\* location of anybody else than one who shares such a username, whichever requests
\* overlap and whoever changes their name meanwhile (profile.go Upsert).
THEOREM NamesWereBorne == Spec => []NameWasBorne
<1>1. BorneInv => NameWasBorne
  BY DEF BorneInv
<1> QED
  BY <1>1, TypeInit, TypeStep, BorneInit, BorneStep, PTL DEF Spec
-------------------------------------------------------------------------------
(* What was stored is found. *)

\* A name that was passed on stays so.
LEMMA PassedOnKept ==
  ASSUME NEW s, bore \subseteq bore', PassedOn(s)
  PROVE  PassedOn(s)'
BY DEF PassedOn

\* A row with the slug remains, or its person has had another name since.
LEMMA RowKept ==
  ASSUME TypeInv, BorneInv, [Next]_vars, NEW s, ByName(s) # {}
  PROVE  ByName(s)' # {} \/ PassedOn(s)'
<1>1. bore \subseteq bore' /\ NameWasBorne /\ NameWasBorne' /\ TypeInv'
  BY WorldStep, BorneStep, TypeStep DEF BorneInv
<1>2. PICK x \in People : profile[x] # NoRow /\ profile[x].name = s
  BY DEF ByName
<1>3. CASE profile'[x] # NoRow /\ profile'[x].name = s
  BY <1>3 DEF ByName
<1>4. CASE profile'[x] # NoRow /\ profile'[x].name # s
  <2>1. <<x, s>> \in bore' /\ <<x, profile'[x].name>> \in bore'
    BY <1>1, <1>2, <1>4 DEF NameWasBorne
  <2>2. profile'[x].name \in Names \cup {NoName}
    BY <1>1, <1>4, RowFields DEF TypeInv, TypeOK
  <2> QED
    BY <1>4, <2>1, <2>2 DEF PassedOn
<1>5. profile'[x] # NoRow
  BY <1>2, ProfileSteps, RowChange
<1> QED
  BY <1>3, <1>4, <1>5

\* A request finds what it has stored.
LEMMA FoundMine ==
  ASSUME TypeInv, BorneInv, FoundInv, [Next]_vars, NEW r \in Requests
  PROVE  /\ FoundOf(r)'
         /\ pc'[r] = "missing" => (local[r].answer.name # Slug(r) \/ PassedOn(Slug(r)))'
<1> DEFINE M == pc[r] = "missing" => local[r].answer.name # Slug(r) \/ PassedOn(Slug(r))
<1>1. FoundOf(r) /\ M /\ bore \subseteq bore'
  BY WorldStep DEF FoundInv, MissingOnlyIfRenamed
<1>2. CASE SaveRow(r)
  <2>1. CASE pc'[r] = "complete"
    <3>1. PICK p \in People :
              profile'[p] # NoRow /\ profile'[p].name = local[r].answer.name
      BY <1>2, <2>1, RowChange
    <3>2. Slug(r)' = Slug(r) /\ local'[r].answer = local[r].answer
      BY <1>2, Saves
    <3> QED
      BY <2>1, <3>1, <3>2 DEF FoundOf, ByName
  <2>2. CASE pc'[r] = "fail"
    BY <2>2 DEF FoundOf
  <2> QED
    BY <1>2, <2>1, <2>2, Saves
<1>3. CASE LookUpProfile(r)
  <2>1. Slug(r)' = Slug(r) /\ local'[r].answer = local[r].answer
    BY <1>3, Lookups
  <2>2. pc'[r] \notin {"complete", "again"}
    BY <1>3, Lookups
  <2>3. pc'[r] = "missing" => pc[r] = "again" /\ ByName(Slug(r)) = {}
    BY <1>3, Lookups
  <2>4. pc'[r] = "missing" /\ local[r].answer.name = Slug(r) => PassedOn(Slug(r))'
    <3>1. SUFFICES ASSUME pc'[r] = "missing", local[r].answer.name = Slug(r)
                   PROVE  PassedOn(Slug(r))'
      OBVIOUS
    <3>2. PassedOn(Slug(r))
      BY <1>1, <2>3, <3>1 DEF FoundOf
    <3> QED
      BY <1>1, <2>1, <3>2 DEF PassedOn
  <2> QED
    BY <2>1, <2>2, <2>4 DEF FoundOf
<1>4. CASE /\ Slug(r)' = Slug(r) /\ local'[r].answer = local[r].answer
           /\ pc'[r] \in {"complete", "again"} => pc[r] \in {"complete", "again"}
           /\ pc'[r] = "missing" => pc[r] = "missing"
  <2>1. FoundOf(r)'
    <3>1. SUFFICES ASSUME pc'[r] \in {"complete", "again"}, local'[r].answer.name = Slug(r)'
                   PROVE  ByName(Slug(r))' # {} \/ PassedOn(Slug(r))'
      BY DEF FoundOf
    <3>2. ByName(Slug(r)) # {} \/ PassedOn(Slug(r))
      BY <1>1, <1>4, <3>1 DEF FoundOf
    <3>3. ByName(Slug(r))' # {} \/ PassedOn(Slug(r))'
      BY <1>1, <1>4, <3>2, RowKept, PassedOnKept
    <3> QED
      BY <1>4, <3>3
  <2> QED
    BY <1>1, <1>4, <2>1, PassedOnKept
<1>5. CASE WriteVerdict(r) \/ CompleteEntry(r)
  BY <1>4, <1>5, LateMoves DEF Same
<1>6. CASE pc'[r] = pc[r] /\ local'[r] = local[r]
  BY <1>4, <1>6 DEF Slug
<1>7. CASE pc'[r] \notin {"complete", "again", "missing"}
  BY <1>7 DEF FoundOf
<1>8. CASE \/ AskByURL(r) \/ AskForEntry(r) \/ FindEntry(r) \/ CheckEntry(r)
           \/ CheckProfile(r) \/ InsertEntry(r) \/ MarkFetching(r) \/ FetchSucceeds(r)
           \/ FetchNotFound(r) \/ FetchFails(r) \/ UploadRaw(r) \/ UploadCleaned(r)
           \/ FindRow(r) \/ Download(r)
  BY <1>7, <1>8, Asks, EarlyMoves, Fetches, FetchEnds, RawUploads, CleanedUploads, Finds,
     Downloads
<1> QED
  BY <1>2, <1>3, <1>5, <1>6, <1>8, OwnSteps DEF Acts, Step

\* It stays so.
LEMMA FoundStep ==
  ASSUME TypeInv, BorneInv, FoundInv, [Next]_vars
  PROVE  FoundInv'
BY FoundMine DEF FoundInv, MissingOnlyIfRenamed

\* It holds at the start.
LEMMA FoundInit ==
  ASSUME Init
  PROVE  FoundInv
BY DEF Init, FoundInv, FoundOf, MissingOnlyIfRenamed

\* A profile that was fetched and stored is returned by the second lookup of
\* FetchProfileByURL, unless its person goes by another username or a name was passed
\* on, with any number of requests at once.
THEOREM StoredIsFound == Spec => []MissingOnlyIfRenamed
<1>1. FoundInv => MissingOnlyIfRenamed
  BY DEF FoundInv
<1> QED
  BY <1>1, TypeInit, TypeStep, BorneInit, BorneStep, FoundInit, FoundStep, PTL DEF Spec

-------------------------------------------------------------------------------
(* Who creates an entry. *)

\* A request waits with its slug, and nothing was stored for it.
LEMMA AloneMine ==
  ASSUME TypeInv, AloneInv, [Next]_vars, NEW r \in Requests
  PROVE  AloneOf(r)' \/ r \in beaten'
<1>1. beaten \subseteq beaten' /\ (AloneOf(r) \/ r \in beaten)
  BY WorldStep DEF AloneInv
<1> SUFFICES ASSUME AloneOf(r) PROVE AloneOf(r)' \/ r \in beaten'
  BY <1>1
<1>2. CASE AskByURL(r) \/ AskForEntry(r) \/ FetchSucceeds(r) \/ FetchNotFound(r)
           \/ FetchFails(r) \/ UploadRaw(r) \/ UploadCleaned(r) \/ FindRow(r)
           \/ SaveRow(r) \/ WriteVerdict(r) \/ CompleteEntry(r) \/ Download(r)
  <2>1. pc'[r] \notin {"entry", "create", "check", "insert", "refused"}
    BY <1>2, Asks, Fetches, FetchEnds, RawUploads, CleanedUploads, Finds, Saves, LateMoves,
       Downloads
  <2> QED
    BY <2>1 DEF AloneOf
<1>3. CASE LookUpProfile(r)
  <2>1. /\ pc'[r] \in {"entry", "create", "check", "insert", "refused"}
           => pc'[r] = "entry" /\ ByName(Slug(r)) = {}
        /\ Slug(r)' = Slug(r) /\ UNCHANGED profile
    BY <1>3, Lookups DEF tables
  <2> QED
    BY <2>1 DEF AloneOf, ByName
<1>4. CASE FindEntry(r) \/ CheckEntry(r) \/ CheckProfile(r) \/ InsertEntry(r)
           \/ MarkFetching(r)
  <2>1. Slug(r)' = Slug(r) /\ UNCHANGED profile
    BY <1>4, EarlyMoves DEF Same
  <2>2. CASE pc'[r] \in {"create", "check", "insert"}
    <3>1. UNCHANGED entry /\ entry[Slug(r)] = "NONE"
          /\ pc[r] \in {"entry", "create", "check"}
      BY <1>4, <2>2 DEF FindEntry, CheckEntry, CheckProfile, InsertEntry, MarkFetching,
                        NoEntry, tables, Goto, TypeInv, TypeOK, AloneOf
    <3> QED
      BY <2>1, <2>2, <3>1 DEF AloneOf, ByName
  <2>3. pc'[r] # "refused"
    BY <1>4 DEF FindEntry, CheckEntry, CheckProfile, InsertEntry, MarkFetching,
                Goto, TypeInv, TypeOK, AloneOf
  <2>4. pc'[r] # "entry"
    BY <1>4, EarlyMoves
  <2> QED
    BY <2>2, <2>3, <2>4 DEF AloneOf
<1>5. CASE pc'[r] = pc[r] /\ local'[r] = local[r] /\ ~Acts(r)
  <2>1. Slug(r)' = Slug(r)
    BY <1>5 DEF Slug
  <2>2. SUFFICES ASSUME pc[r] \in {"entry", "create", "check", "insert"}
                 PROVE  AloneOf(r)' \/ r \in beaten'
    BY <1>5 DEF AloneOf
  <2>3. Live(r) /\ Slug(r) \in Slugs
    BY <2>2 DEF Live, Over, TypeInv, LocalInv, LocalOf
  <2>4. ByName(Slug(r))' = {} \/ r \in beaten'
    <3>1. CASE UNCHANGED profile
      BY <2>1, <2>2, <3>1 DEF AloneOf, ByName
    <3>2. ASSUME NEW q \in Requests, SaveRow(q), pc'[q] = "complete"
          PROVE  ByName(Slug(r))' = {} \/ r \in beaten'
      <4>1. q # r
        BY <1>5, <3>2 DEF Acts, Step
      <4>2. PICK p \in People : /\ profile'[p].name = local[q].answer.name
                                /\ \A z \in People \ {p} : profile'[z] = profile[z]
        BY <3>2, RowChange
      <4>3. CASE local[q].answer.name = Slug(r)
        <5>1. beaten' = beaten \cup Rivals(q, local[q].answer.name)
          BY <3>2, Saves
        <5> QED
          BY <2>3, <4>1, <4>3, <5>1 DEF Rivals
      <4>4. CASE local[q].answer.name # Slug(r)
        <5>1. ByName(Slug(r)) = {}
          BY <2>2 DEF AloneOf
        <5> QED
          BY <2>1, <4>2, <4>4, <5>1 DEF ByName
      <4> QED
        BY <4>3, <4>4
    <3> QED
      BY <3>1, <3>2, ProfileSteps
  <2>5. pc[r] # "entry" => entry'[Slug(r)] = "NONE" \/ r \in beaten'
    <3>1. pc[r] # "entry" => entry[Slug(r)] = "NONE"
      BY <2>2 DEF AloneOf
    <3>2. ASSUME NEW q \in Requests, InsertEntry(q)
          PROVE  entry'[Slug(r)] = entry[Slug(r)] \/ r \in beaten'
      <4>1. q # r
        BY <1>5, <3>2 DEF Acts, Step
      <4> QED
        BY <2>3, <3>2, <4>1 DEF InsertEntry, Rivals, TypeInv, TypeOK
    <3> QED
      BY <2>1, <2>3, <3>1, <3>2, EntryStep
  <2> QED
    BY <1>5, <2>1, <2>2, <2>4, <2>5 DEF AloneOf
<1> QED
  BY <1>2, <1>3, <1>4, <1>5, OwnSteps DEF Acts, Step

\* It stays so.
LEMMA AloneStep ==
  ASSUME TypeInv, AloneInv, [Next]_vars
  PROVE  AloneInv'
BY AloneMine DEF AloneInv

\* It holds at the start.
LEMMA AloneInit ==
  ASSUME Init
  PROVE  AloneInv
BY DEF Init, AloneInv, AloneOf

\* A request by URL is refused only when another one has created the entry or stored
\* the profile meanwhile, however many come in at once (FetchProfileByURL, Create).
THEOREM RefusalsAreRaces == Spec => []RefusedOnlyIfBeaten
<1>1. AloneInv => RefusedOnlyIfBeaten
  BY DEF AloneInv, AloneOf, RefusedOnlyIfBeaten
<1> QED
  BY <1>1, TypeInit, TypeStep, AloneInit, AloneStep, PTL DEF Spec
-------------------------------------------------------------------------------
(* Objects and the requests that uploaded them. *)

\* A request is stamped once, when it begins to upload.
LEMMA StampSteps ==
  ASSUME TypeInv, StampInv, [Next]_vars
  PROVE  \A r \in Requests : stamp[r] # NoKey => stamp'[r] = stamp[r]
<1>1. stamp \in [Requests -> Keys \cup {NoKey}]
  BY DEF TypeInv, TypeOK
<1>2. ASSUME NEW r \in Requests, UploadRaw(r)
      PROVE  stamp[r] = NoKey /\ \A q \in Requests \ {r} : stamp'[q] = stamp[q]
  BY <1>2, RawUploads DEF Mine, StampInv, StampOf, Before
<1>3. ASSUME NEW r \in Requests, SaveRow(r) \/ UploadCleaned(r)
      PROVE  UNCHANGED stamp
  BY <1>3, Saves, CleanedUploads
<1> QED
  BY <1>2, <1>3, StepKinds

\* A contested key stays so.
LEMMA ContestedKept ==
  ASSUME TypeInv, StampInv, [Next]_vars, NEW k \in Keys, Contested(k)
  PROVE  Contested(k)'
<1>1. PICK q \in Requests, r \in Requests : q # r /\ stamp[q] = k /\ stamp[r] = k
  BY DEF Contested
<1>2. stamp'[q] = k /\ stamp'[r] = k
  BY <1>1, StampSteps, KeyIsKey
<1> QED
  BY <1>1, <1>2 DEF Contested

\* An object that is there was uploaded under this key by its request.
LEMMA ObjectStamp ==
  ASSUME TypeInv, StampInv, NEW k \in Keys, raw[k] # NoObject
  PROVE  raw[k] \in Answers /\ raw[k].by \in Requests /\ stamp[raw[k].by] = k
<1>1. raw[k] \in Answers
  BY DEF TypeInv, TypeOK, Objects
<1> QED
  BY <1>1, AnswerFields DEF StampInv

\* What is under a key stays, or the key is contested.
LEMMA RawKept ==
  ASSUME TypeInv, StampInv, [Next]_vars, NEW k \in Keys, raw[k] # NoObject
  PROVE  raw'[k] # NoObject /\ (raw'[k] = raw[k] \/ Contested(k)')
<1>1. raw \in [Keys -> Objects] /\ stamp \in [Requests -> Keys \cup {NoKey}]
  BY DEF TypeInv, TypeOK
<1>2. CASE raw'[k] = raw[k]
  BY <1>2
<1>3. ASSUME NEW r \in Requests, UploadRaw(r), raw'[k] # raw[k]
      PROVE  raw'[k] # NoObject /\ Contested(k)'
  <2>1. /\ KeyFor(Slug(r)) \in Keys /\ local[r].answer \in Answers
        /\ raw' = [raw EXCEPT ![KeyFor(Slug(r))] = local[r].answer]
        /\ stamp' = [stamp EXCEPT ![r] = KeyFor(Slug(r))]
        /\ pc[r] = "raw"
    BY <1>3, RawUploads
  <2>2. KeyFor(Slug(r)) = k
    BY <1>1, <1>3, <2>1
  <2>3. raw'[k] = local[r].answer /\ stamp'[r] = k
    BY <1>1, <2>1, <2>2
  <2>4. raw'[k] # NoObject
    BY <2>1, <2>3, AnswerFields
  <2> DEFINE x == raw[k].by
  <2>5. x \in Requests /\ stamp[x] = k
    BY ObjectStamp
  <2> HIDE DEF x
  <2>6. stamp[r] = NoKey
    BY <2>1 DEF StampInv, StampOf, Before
  <2>7. x # r /\ stamp'[x] = k
    BY <2>5, <2>6, KeyIsKey, StampSteps
  <2> QED
    BY <2>3, <2>4, <2>5, <2>7 DEF Contested
<1>4. ASSUME NEW r \in Requests, SaveRow(r) \/ UploadCleaned(r)
      PROVE  UNCHANGED raw
  BY <1>4, Saves, CleanedUploads DEF bucket
<1> QED
  BY <1>2, <1>3, <1>4, StepKinds

\* The same of a cleaned object that was the raw one.
LEMMA CleanedKept ==
  ASSUME TypeInv, StampInv, [Next]_vars, NEW k \in Keys, cleaned[k] # NoObject
  PROVE  /\ cleaned'[k] # NoObject
         /\ \/ cleaned'[k] = cleaned[k]
            \/ Contested(k)'
            \/ \E r \in Requests : /\ UploadCleaned(r) /\ local[r].key = k
                                   /\ cleaned'[k] = raw[k] /\ UNCHANGED raw
                                   /\ stamp[r] = k
<1>1. cleaned \in [Keys -> Objects]
  BY DEF TypeInv, TypeOK
<1>2. CASE cleaned'[k] = cleaned[k]
  BY <1>2
<1>3. ASSUME NEW r \in Requests, UploadCleaned(r), cleaned'[k] # cleaned[k]
      PROVE  /\ cleaned'[k] # NoObject /\ local[r].key = k /\ stamp[r] = k
             /\ UNCHANGED raw
             /\ cleaned'[k] = raw[k] \/ Contested(k)'
  <2>1. /\ local[r].key \in Keys /\ local[r].answer \in Answers
        /\ cleaned' = [cleaned EXCEPT ![local[r].key] = local[r].answer]
        /\ pc[r] = "cleaned" /\ UNCHANGED raw
    BY <1>3, CleanedUploads
  <2>2. local[r].key = k
    BY <1>1, <1>3, <2>1
  <2>3. cleaned'[k] = local[r].answer
    BY <1>1, <2>1, <2>2
  <2>4. cleaned'[k] # NoObject
    BY <2>1, <2>3, AnswerFields
  <2>5. stamp[r] = k /\ (raw[k] = local[r].answer \/ Contested(k))
    BY <2>1, <2>2 DEF StampInv, StampOf
  <2> QED
    BY <2>1, <2>2, <2>3, <2>4, <2>5, ContestedKept
<1>4. ASSUME NEW r \in Requests, SaveRow(r) \/ UploadRaw(r)
      PROVE  UNCHANGED cleaned
  BY <1>4, Saves, RawUploads DEF bucket
<1> QED
  BY <1>2, <1>3, <1>4, StepKinds

\* What a request knows of its objects survives the steps of the others, and its own
\* once it has uploaded them.
LEMMA StampKept ==
  ASSUME TypeInv, StampInv, [Next]_vars, NEW r \in Requests,
         pc[r] \in Stored \cup {"cleaned"}, pc'[r] \in Stored \cup {"cleaned"},
         pc'[r] = "cleaned" => pc[r] = "cleaned",
         pc[r] = "cleaned" => pc'[r] = "cleaned",
         local'[r].key = local[r].key, local'[r].answer = local[r].answer
  PROVE  StampOf(r)'
<1>0. PICK k, a : k = local[r].key /\ a = local[r].answer
  OBVIOUS
<1>1. /\ k \in Keys /\ stamp[r] = k
      /\ raw[k] # NoObject /\ (raw[k] = a \/ Contested(k))
      /\ pc[r] \in Stored => cleaned[k] # NoObject /\ (cleaned[k] = a \/ Contested(k))
  BY <1>0 DEF TypeInv, LocalInv, LocalOf, StampInv, StampOf
<1>2. stamp'[r] = k
  BY <1>1, StampSteps, KeyIsKey
<1>3. local'[r].key = k /\ local'[r].answer = a
  BY <1>0
<1>4. raw'[k] # NoObject /\ (raw'[k] = a \/ Contested(k)')
  BY <1>1, RawKept, ContestedKept
<1>5. pc[r] \in Stored => cleaned'[k] # NoObject /\ (cleaned'[k] = a \/ Contested(k)')
  <2>1. SUFFICES ASSUME pc[r] \in Stored
                 PROVE  cleaned'[k] # NoObject /\ (cleaned'[k] = a \/ Contested(k)')
    OBVIOUS
  <2>2. CASE cleaned'[k] = cleaned[k] \/ Contested(k)'
    BY <1>1, <2>1, <2>2, CleanedKept, ContestedKept
  <2>3. ASSUME NEW q \in Requests, UploadCleaned(q), cleaned'[k] = raw[k], UNCHANGED raw
        PROVE  cleaned'[k] = a \/ Contested(k)'
    BY <1>1, <2>3, ContestedKept
  <2> QED
    BY <1>1, <2>1, <2>2, <2>3, CleanedKept
<1>6. pc'[r] \notin Before
  BY DEF Before, Stored
<1>7. pc'[r] \in Stored => pc[r] \in Stored
  BY DEF Stored
<1> QED
  BY <1>2, <1>3, <1>4, <1>5, <1>6, <1>7 DEF StampOf
\* A request and its own objects.
LEMMA StampMine ==
  ASSUME TypeInv, StampInv, [Next]_vars, NEW r \in Requests
  PROVE  StampOf(r)'
<1>1. /\ raw \in [Keys -> Objects] /\ cleaned \in [Keys -> Objects]
      /\ stamp \in [Requests -> Keys \cup {NoKey}]
      /\ pc[r] \in Before => stamp[r] = NoKey
  BY DEF TypeInv, TypeOK, StampInv, StampOf
<1>2. ASSUME pc'[r] \notin Before \cup Stored \cup {"cleaned"}
      PROVE  StampOf(r)'
  BY <1>2 DEF StampOf
<1>3. ASSUME pc[r] \in Before, stamp'[r] = stamp[r], pc'[r] \notin Stored \cup {"cleaned"}
      PROVE  StampOf(r)'
  BY <1>1, <1>3 DEF StampOf
<1>4. CASE UploadRaw(r)
  <2>1. CASE pc'[r] = "fail"
    BY <1>2, <2>1 DEF Before, Stored
  <2>2. CASE pc'[r] = "cleaned"
    <3>1. PICK k, a :
              /\ k \in Keys /\ a \in Answers
              /\ local'[r].key = k /\ local'[r].answer = a
              /\ raw' = [raw EXCEPT ![k] = a] /\ stamp' = [stamp EXCEPT ![r] = k]
      BY <1>4, <2>2, RawUploads
    <3>2. raw'[k] = a /\ stamp'[r] = k /\ a # NoObject
      BY <1>1, <3>1, AnswerFields
    <3> QED
      BY <2>2, <3>1, <3>2 DEF StampOf, Before, Stored
  <2> QED
    BY <1>4, <2>1, <2>2, RawUploads
<1>5. CASE UploadCleaned(r)
  <2>1. CASE pc'[r] = "fail"
    BY <1>2, <2>1 DEF Before, Stored
  <2>2. CASE pc'[r] = "find"
    <3>1. PICK k, a : k = local[r].key /\ a = local[r].answer
      OBVIOUS
    <3>2. /\ k \in Keys /\ a \in Answers /\ pc[r] = "cleaned"
          /\ local'[r].key = k /\ local'[r].answer = a /\ UNCHANGED <<raw, stamp>>
          /\ cleaned' = [cleaned EXCEPT ![k] = a]
      BY <1>5, <2>2, <3>1, CleanedUploads
    <3>3. stamp[r] = k /\ raw[k] # NoObject /\ (raw[k] = a \/ Contested(k))
      BY <3>1, <3>2 DEF StampInv, StampOf
    <3>4. cleaned'[k] = a /\ a # NoObject
      BY <1>1, <3>2, AnswerFields
    <3>5. raw'[k] = a \/ Contested(k)'
      BY <3>2, <3>3, ContestedKept
    <3> QED
      BY <2>2, <3>2, <3>3, <3>4, <3>5 DEF StampOf, Before
  <2> QED
    BY <1>5, <2>1, <2>2, CleanedUploads
<1>6. CASE FindRow(r)
  <2>1. CASE pc'[r] = "fail"
    BY <1>2, <2>1 DEF Before, Stored
  <2>2. CASE pc'[r] = "save"
    BY <1>6, <2>2, Finds, StampKept DEF Stored
  <2> QED
    BY <1>6, <2>1, <2>2, Finds
<1>7. CASE SaveRow(r)
  BY <1>2, <1>7, Saves DEF Before, Stored
<1>8. CASE \/ AskByURL(r) \/ AskForEntry(r) \/ FindEntry(r) \/ CheckEntry(r)
           \/ CheckProfile(r) \/ InsertEntry(r) \/ MarkFetching(r) \/ FetchSucceeds(r)
           \/ FetchNotFound(r) \/ FetchFails(r)
  <2>1. pc[r] \in Before /\ stamp'[r] = stamp[r]
    BY <1>8, Asks, EarlyMoves, Fetches, FetchEnds DEF Before
  <2>2. pc'[r] \notin Stored \cup {"cleaned"}
    BY <1>8, Asks, EarlyMoves, Fetches, FetchEnds DEF Stored
  <2> QED
    BY <1>3, <2>1, <2>2
<1>9. CASE LookUpProfile(r)
  <2>1. CASE pc'[r] = "entry"
    <3>1. pc[r] \in Before /\ stamp'[r] = stamp[r]
      BY <1>9, <2>1, Lookups DEF Before
    <3> QED
      BY <1>3, <2>1, <3>1 DEF Stored
  <2>2. CASE pc'[r] # "entry"
    BY <1>2, <1>9, <2>2, Lookups DEF Before, Stored
  <2> QED
    BY <2>1, <2>2
<1>10. CASE WriteVerdict(r) \/ CompleteEntry(r) \/ Download(r)
  BY <1>2, <1>10, LateMoves, Downloads DEF Before, Stored
<1>11. CASE pc'[r] = pc[r] /\ local'[r] = local[r] /\ stamp'[r] = stamp[r]
  <2>1. CASE pc[r] \in Stored \cup {"cleaned"}
    BY <1>11, <2>1, StampKept
  <2>2. CASE pc[r] \in Before
    BY <1>3, <1>11, <2>2 DEF Before, Stored
  <2>3. CASE pc[r] \notin Before \cup Stored \cup {"cleaned"}
    BY <1>2, <1>11, <2>3
  <2> QED
    BY <2>1, <2>2, <2>3
<1> QED
  BY <1>4, <1>5, <1>6, <1>7, <1>8, <1>9, <1>10, <1>11, OwnSteps DEF Acts, Step

\* Every object stays with the key of the request that uploaded it.
LEMMA StampStep ==
  ASSUME TypeInv, StampInv, [Next]_vars
  PROVE  StampInv'
<1>1. raw \in [Keys -> Objects] /\ stamp \in [Requests -> Keys \cup {NoKey}]
  BY DEF TypeInv, TypeOK
<1>2. ASSUME NEW k \in Keys, raw'[k] # NoObject
      PROVE  stamp'[raw'[k].by] = k
  <2>1. CASE raw'[k] = raw[k]
    <3>1. PICK x : x = raw[k].by
      OBVIOUS
    <3>2. x \in Requests /\ stamp[x] = k
      BY <1>2, <2>1, <3>1, ObjectStamp
    <3>3. stamp'[x] = k
      BY <3>2, StampSteps, KeyIsKey
    <3> QED
      BY <2>1, <3>1, <3>3
  <2>2. ASSUME NEW r \in Requests, UploadRaw(r), raw'[k] # raw[k]
        PROVE  stamp'[raw'[k].by] = k
    <3>1. PICK z, a :
              /\ z \in Keys /\ a \in Answers /\ a.by = r
              /\ raw' = [raw EXCEPT ![z] = a] /\ stamp' = [stamp EXCEPT ![r] = z]
      BY <2>2, RawUploads
    <3>2. z = k
      BY <1>1, <2>2, <3>1
    <3> QED
      BY <1>1, <3>1, <3>2
  <2>3. ASSUME NEW r \in Requests, SaveRow(r) \/ UploadCleaned(r)
        PROVE  UNCHANGED raw
    BY <2>3, Saves, CleanedUploads DEF bucket
  <2> QED
    BY <2>1, <2>2, <2>3, StepKinds
<1> QED
  BY <1>2, StampMine DEF StampInv

\* It holds at the start.
LEMMA StampInit ==
  ASSUME Init
  PROVE  StampInv
BY DEF Init, StampInv, StampOf, Stored

\* What NameAndObjectsAgree says of a row w.
OneAnswer(w) ==
    LET k == w.key
    IN  /\ raw[k] # NoObject
        /\ cleaned[k] # NoObject
        /\ \/ Contested(k)
           \/ /\ raw[k] = cleaned[k] /\ raw[k].name = w.name
              /\ raw[k].geo => w.geo = raw[k]

\* A row that stays keeps its objects, or its key is contested.
LEMMA OneAnswerKept ==
  ASSUME TypeInv, StampInv, [Next]_vars, NEW w \in Rows, w # NoRow, OneAnswer(w)
  PROVE  OneAnswer(w)'
<1>1. PICK k \in Keys : k = w.key
  BY RowFields
<1>2. /\ raw[k] # NoObject /\ cleaned[k] # NoObject
      /\ \/ Contested(k)
         \/ /\ raw[k] = cleaned[k] /\ raw[k].name = w.name
            /\ raw[k].geo => w.geo = raw[k]
  BY <1>1 DEF OneAnswer
<1>3. raw'[k] # NoObject /\ (raw'[k] = raw[k] \/ Contested(k)')
  BY <1>2, RawKept
<1>4. cleaned'[k] # NoObject
      /\ \/ cleaned'[k] = cleaned[k]
         \/ Contested(k)'
         \/ cleaned'[k] = raw[k] /\ UNCHANGED raw
  BY <1>2, CleanedKept
<1>5. Contested(k) => Contested(k)'
  BY ContestedKept
<1>6. \/ Contested(k)'
      \/ /\ raw'[k] = cleaned'[k] /\ raw'[k].name = w.name
         /\ raw'[k].geo => w.geo = raw'[k]
  BY <1>2, <1>3, <1>4, <1>5
<1> QED
  BY <1>1, <1>3, <1>4, <1>6 DEF OneAnswer

\* A row that is saved has the objects its request has uploaded.
LEMMA OneAnswerSaved ==
  ASSUME TypeInv, StampInv, [Next]_vars, NEW r \in Requests, SaveRow(r),
         NEW w, w.name = local[r].answer.name, w.key = local[r].key,
         local[r].answer.geo => w.geo = local[r].answer
  PROVE  OneAnswer(w)'
<1>1. PICK k, a : k = local[r].key /\ a = local[r].answer
  OBVIOUS
<1>2. pc[r] = "save" /\ UNCHANGED <<raw, cleaned, stamp>>
  BY Saves DEF bucket
<1>3. /\ k \in Keys /\ raw[k] # NoObject /\ cleaned[k] # NoObject
      /\ raw[k] = a \/ Contested(k)
      /\ cleaned[k] = a \/ Contested(k)
  BY <1>1, <1>2 DEF TypeInv, LocalInv, LocalOf, StampInv, StampOf, Stored
<1>4. Contested(k) => Contested(k)'
  BY <1>2 DEF Contested
<1> QED
  BY <1>1, <1>2, <1>3, <1>4 DEF OneAnswer

\* No step takes a row apart from its objects.
LEMMA RowStep ==
  ASSUME TypeInv, StampInv, NameAndObjectsAgree, [Next]_vars
  PROVE  NameAndObjectsAgree'
<1>1. profile \in [People -> Rows]
  BY DEF TypeInv, TypeOK
<1>2. SUFFICES ASSUME NEW p \in People, NEW w, w = profile'[p], w # NoRow
               PROVE  OneAnswer(w)'
  BY DEF NameAndObjectsAgree, OneAnswer
<1>3. CASE profile'[p] = profile[p]
  <2>1. w \in Rows /\ OneAnswer(w)
    BY <1>1, <1>2, <1>3 DEF NameAndObjectsAgree, OneAnswer
  <2> QED
    BY <1>2, <2>1, OneAnswerKept
<1>4. ASSUME NEW r \in Requests, SaveRow(r), pc'[r] = "complete", profile'[p] # profile[p]
      PROVE  OneAnswer(w)'
  <2>1. /\ w.name = local[r].answer.name /\ w.key = local[r].key
        /\ local[r].answer.geo => w.geo = local[r].answer
    BY <1>2, <1>4, RowChange
  <2> QED
    BY <1>4, <2>1, OneAnswerSaved
<1> QED
  BY <1>3, <1>4, ProfileSteps

\* There are no rows at the start.
LEMMA RowInit ==
  ASSUME Init
  PROVE  NameAndObjectsAgree
BY DEF Init, NameAndObjectsAgree

\* The username of a profile row, its raw object, its cleaned one, and its location
\* where they have one, are of one answer of the provider, unless two requests began to
\* upload under one key; so it is for any number of requests, faults and seconds
\* (fetchSingleProfileEntry, profile.go Upsert).
THEOREM NamesAndObjectsAgree == Spec => []NameAndObjectsAgree
BY TypeInit, TypeStep, StampInit, StampStep, RowInit, RowStep, PTL DEF Spec

-------------------------------------------------------------------------------
(* What a request by URL returns. *)

\* A request that downloads, and one that has.
LEMMA AskedMine ==
  ASSUME TypeInv, StampInv, NameAndObjectsAgree, AskedInv, [Next]_vars, NEW r \in Requests
  PROVE  /\ AskedOf(r)'
         /\ pc'[r] = "answered" => (local[r].given.name = Slug(r) \/ Contested(local[r].key))'
<1>1. AskedOf(r) /\ (pc[r] = "answered" =>
                          local[r].given.name = Slug(r) \/ Contested(local[r].key))
  BY DEF AskedInv, AnswerIsAsked
<1>2. CASE LookUpProfile(r)
  <2>1. pc'[r] # "answered" /\ Slug(r)' = Slug(r) /\ UNCHANGED <<profile, raw, stamp>>
    BY <1>2, Lookups DEF tables, bucket
  <2>2. ASSUME pc'[r] = "download"
        PROVE  AskedOf(r)'
    <3>1. PICK p \in ByName(Slug(r)) : local'[r].key = profile[p].key
      BY <1>2, <2>2, Lookups
    <3>2. PICK k : k = profile[p].key
      OBVIOUS
    <3>3. raw[k] # NoObject /\ (raw[k].name = Slug(r) \/ Contested(k))
      BY <3>1, <3>2 DEF ByName, NameAndObjectsAgree
    <3>4. Contested(k) => Contested(k)'
      BY <2>1 DEF Contested
    <3> QED
      BY <2>1, <3>1, <3>2, <3>3, <3>4 DEF AskedOf
  <2> QED
    BY <2>1, <2>2 DEF AskedOf
<1>3. CASE Download(r)
  <2>1. pc'[r] # "download"
    BY <1>3, Downloads
  <2>2. ASSUME pc'[r] = "answered"
        PROVE  (local[r].given.name = Slug(r) \/ Contested(local[r].key))'
    <3>1. PICK k : k = local[r].key
      OBVIOUS
    <3>2. /\ pc[r] = "download" /\ local'[r].given = raw[k] /\ local'[r].key = k
          /\ Slug(r)' = Slug(r) /\ UNCHANGED stamp
      BY <1>3, <2>2, <3>1, Downloads
    <3>3. raw[k].name = Slug(r) \/ Contested(k)
      BY <1>1, <3>1, <3>2 DEF AskedOf
    <3>4. Contested(k) => Contested(k)'
      BY <3>2 DEF Contested
    <3> QED
      BY <3>2, <3>3, <3>4
  <2> QED
    BY <2>1, <2>2 DEF AskedOf
<1>4. CASE pc'[r] = pc[r] /\ local'[r] = local[r]
  <2>1. CASE pc[r] \in {"download", "answered"}
    <3>1. PICK k \in Keys : k = local[r].key
      BY <2>1 DEF TypeInv, LocalInv, LocalOf
    <3>2. Slug(r)' = Slug(r) /\ local'[r].key = k
      BY <1>4, <3>1 DEF Slug
    <3>3. Contested(k) => Contested(k)'
      BY ContestedKept
    <3>4. CASE pc[r] = "download"
      <4>1. raw[k] # NoObject /\ (raw[k].name = Slug(r) \/ Contested(k))
        BY <1>1, <3>1, <3>4 DEF AskedOf
      <4>2. raw'[k] # NoObject /\ (raw'[k] = raw[k] \/ Contested(k)')
        BY <4>1, RawKept
      <4> QED
        BY <1>4, <3>2, <3>3, <3>4, <4>1, <4>2 DEF AskedOf
    <3>5. CASE pc[r] = "answered"
      BY <1>1, <1>4, <3>1, <3>2, <3>3, <3>5 DEF AskedOf
    <3> QED
      BY <2>1, <3>4, <3>5
  <2>2. CASE pc[r] \notin {"download", "answered"}
    BY <1>4, <2>2 DEF AskedOf
  <2> QED
    BY <2>1, <2>2
<1>5. CASE \/ AskByURL(r) \/ AskForEntry(r) \/ FindEntry(r) \/ CheckEntry(r)
           \/ CheckProfile(r) \/ InsertEntry(r) \/ MarkFetching(r) \/ FetchSucceeds(r)
           \/ FetchNotFound(r) \/ FetchFails(r) \/ UploadRaw(r) \/ UploadCleaned(r)
           \/ FindRow(r) \/ SaveRow(r) \/ WriteVerdict(r) \/ CompleteEntry(r)
  <2>1. pc'[r] \notin {"download", "answered"}
    BY <1>5, Asks, EarlyMoves, Fetches, FetchEnds, RawUploads, CleanedUploads, Finds,
       Saves, LateMoves
  <2> QED
    BY <2>1 DEF AskedOf
<1> QED
  BY <1>2, <1>3, <1>4, <1>5, OwnSteps DEF Acts, Step

\* It stays so.
LEMMA AskedStep ==
  ASSUME TypeInv, StampInv, NameAndObjectsAgree, AskedInv, [Next]_vars
  PROVE  AskedInv'
BY AskedMine DEF AskedInv, AnswerIsAsked

\* It holds at the start.
LEMMA AskedInit ==
  ASSUME Init
  PROVE  AskedInv
BY DEF Init, AskedInv, AskedOf, AnswerIsAsked

\* The profile a request by URL returns has the slug of the URL for its username, for
\* any number of requests, unless its key is contested (FetchProfileByURL,
\* rawProfileJSON).
THEOREM AnswersAreAsked == Spec => []AnswerIsAsked
<1>1. AskedInv => AnswerIsAsked
  BY DEF AskedInv
<1> QED
  BY <1>1, TypeInit, TypeStep, StampInit, StampStep, RowInit, RowStep, AskedInit,
     AskedStep, PTL DEF Spec
===============================================================================
