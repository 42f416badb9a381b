----------------------------- MODULE FetchJob_proofs -----------------------------
(***************************************************************************)
(* What holds of FetchJob for any number of entries, runs and single       *)
(* fetches, overlapping or not, and any number of failures.                *)
(***************************************************************************)
EXTENDS FetchJob, FiniteSetTheorems, NaturalsInduction,
        WellFoundedInduction, TLAPS

(* The inductive invariants, one named part for each thing to be known. *)

\* The labels of the loop over a batch; those where a fetched profile is stored.
InBatch == {"mark", "fetch", "wait", "charge", "raw", "cleaned", "find", "save",
            "reread", "complete", "fail", "sleep"}
Storing == {"charge", "raw", "cleaned", "find", "save", "reread", "complete"}

\* A worker has entries to do exactly in that loop, gives one up with a
\* verdict, and reads the quota for its report last.
BatchOf(label, r) ==
    /\ label \in InBatch => r.batch # {}
    /\ label \notin InBatch \cup {"dead"} => r.batch = {}
    /\ label \notin {"record", "ended", "dead"} => r.remaining = 0
    /\ label = "fail" => r.verdict # "none"

BatchInv == \A w \in Workers : BatchOf(pc[w], local[w])

\* A worker that stores a profile has put the objects of its key in the bucket
\* before the steps that refer to them.
KeyOf(w) ==
    LET e == Current(w)
        key == local[w].key
    IN  /\ pc[w] \in Storing => key # 0
        /\ pc[w] \in Storing \ {"charge", "raw"} => key \in raw[e]
        /\ pc[w] \in Storing \ {"charge", "raw", "cleaned"} => key \in cleaned[e]
        /\ pc[w] \in {"reread", "complete"} => profile[e] # 0

KeyInv == \A w \in Workers : KeyOf(w)

\* As long as it and its context live, a worker has counted every entry it is through
\* with; in the pause after a success the entry is counted but still in the batch.
Due(label, r) ==
    IF r.batch = {} THEN r.total
    ELSE r.total + r.size - Cardinality(r.batch) + (IF label = "sleep" THEN 1 ELSE 0)

ReportOf(label, r) == r.ok + r.failed = Due(label, r)

ReportInv ==
    \A w \in Workers : pc[w] # "dead" /\ ~cancelled[w] => ReportOf(pc[w], local[w])

\* An entry that reads FETCHING is in the hands of a worker past the mark.
Busy == InBatch \ {"mark", "sleep"}

OrphanInv ==
    Undisturbed =>
        \A e \in Entries \ edited :
            entry[e].status = "FETCHING" => \E w \in Workers : pc[w] \in Busy /\ Current(w) = e

\* The keys of the fetches of an entry that are still being stored, each in the
\* hands of one worker, and of those that are through.
Stores(w, e) == pc[w] \in Storing /\ Current(w) = e
Held(e)      == {local[w].key : w \in {v \in Workers : Stores(v, e)}}
Through(e)   == (1 .. fetched[e]) \ Held(e)

\* A fetch_count, in a row or read, counts fetches that are through.
CountInv ==
    /\ \A e \in Entries :
           /\ \A w \in Workers : Stores(w, e) => local[w].key \in 1 .. fetched[e]
           /\ \A v, w \in Workers :
                  Stores(v, e) /\ Stores(w, e) /\ local[v].key = local[w].key => v = w
           /\ entry[e].count <= Cardinality(Through(e))
           /\ \A w \in Workers :
                  Stores(w, e) /\ pc[w] = "complete"
                  => local[w].count <= Cardinality(Through(e))
           /\ entry[e].status = "COMPLETED" /\ e \notin edited => entry[e].count >= 1

SoleRun == \A v, w \in Runs : Live(v) /\ Live(w) => v = w

\* A single fetch goes through the loop once, with an entry that was asked for.
SingleInv ==
    \A w \in Singles :
        /\ pc[w] \in InBatch \cup {"idle", "ended", "dead"}
        /\ pc[w] \in InBatch => \E e \in Entries : local[w].batch = {e} /\ asked[e] >= 1

\* A run will fetch an entry that is pending, or that it is about to mark; once more
\* for each worker that has marked it, or has been asked for it, and not fetched it.
Ahead(w, e) ==
    pc[w] \in InBatch /\ e \in local[w].batch /\ (pc[w] = "mark" \/ e # Current(w))

Expected(e)   == entry[e].status = "PENDING" \/ \E w \in Runs : Ahead(w, e)
Calling(w, e) == pc[w] \in {"fetch", "wait"} /\ Current(w) = e
Asking(w, e)  == w \in Singles /\ pc[w] = "mark" /\ Current(w) = e
Coming(e)     == {w \in Workers : Calling(w, e) \/ Asking(w, e)}

OnceInv ==
    \A e \in Entries :
        /\ IsFiniteSet(Coming(e))
        /\ fetched[e] + Cardinality(Coming(e)) + (IF Expected(e) THEN 1 ELSE 0)
           <= 1 + asked[e] + unmarked[e]

\* No run has an entry before it that is settled, unless somebody asked for it
\* or settled it by hand.
SettledInv ==
    \A e \in Entries :
        Settled(e) /\ asked[e] = 0 /\ e \notin edited =>
            \A w \in Runs :
                pc[w] \in InBatch /\ e \in local[w].batch => pc[w] = "sleep" /\ Current(w) = e

\* The quota that a run reports is not overdrawn.
RecordInv == \A w \in Runs : pc[w] = "record" => Valid(local[w])

\* One run at a time, which respects the quota and holds no more credit than is
\* left of it.
SoleRunInv ==
    /\ SoleRun
    /\ \A w \in Runs : local[w].respect = TRUE
    /\ \A w \in Runs : used + Credit(w) <= Limit

-------------------------------------------------------------------------------
(* Batches. *)

\* Some entry comes first in a set of entries.
LEMMA LeastInSet ==
  ASSUME NEW S, S \subseteq Nat, S # {}
  PROVE  Least(S) \in S
<1>1. \E x \in S : \A y \in S : ~(y < x)
  <2>1. IsWellFoundedOn(OpToRel(<, Nat), Nat)
    BY NatLessThanWellFounded
  <2>2. \E x \in S : \A y \in S : <<y, x>> \notin OpToRel(<, Nat)
    BY <2>1, WFMin
  <2> QED
    BY <2>2 DEF OpToRel
<1>2. \E x \in S : \A y \in S : x <= y
  BY <1>1
<1> QED
  BY <1>2 DEF Least

\* So a worker with a batch is at one of its entries.
LEMMA CurrentInBatch ==
  ASSUME NEW w \in Workers, local[w].batch \subseteq Entries, local[w].batch # {}
  PROVE  Current(w) \in local[w].batch /\ Current(w) \in Entries
<1>1. local[w].batch \subseteq Nat
  BY DEF Entries
<1> QED
  BY <1>1, LeastInSet DEF Current

\* The number of entries of a batch.
LEMMA BatchSizes ==
  ASSUME NEW S \in SUBSET Entries
  PROVE  /\ IsFiniteSet(S)
         /\ Cardinality(S) \in Nat
<1>1. IsFiniteSet(Entries)
  BY FS_Interval, FetchJobAssumption DEF Entries
<1> QED
  BY <1>1, FS_Subset, FS_CardinalityType

-------------------------------------------------------------------------------
(* The variables of a worker. *)

\* Their types.
LEMMA LocalFields ==
  ASSUME NEW r \in Locals
  PROVE  /\ r.allowed \in Nat /\ r.batch \in SUBSET Entries /\ r.size \in Nat
         /\ r.tries \in Nat /\ r.verdict \in {"none", "FAILED", "NOT_FOUND"}
         /\ r.key \in Nat /\ r.found \in BOOLEAN /\ r.count \in Nat
         /\ r.total \in Nat /\ r.ok \in Nat /\ r.failed \in Nat /\ r.calls \in Nat
         /\ r.taken \in SUBSET Entries /\ r.limited \in BOOLEAN
         /\ r.remaining \in Int /\ r.respect \in BOOLEAN
  BY DEF Locals

\* A worker starts with variables of those types.
LEMMA FreshIsLocal ==
  /\ Fresh \in Locals
  /\ \A b \in BOOLEAN : [Fresh EXCEPT !.respect = b] \in Locals
  /\ \A e \in Entries : [Fresh EXCEPT !.batch = {e}, !.size = 1] \in Locals
<1>1. Fresh \in Locals
  BY DEF Fresh, Locals
<1>2. \A b \in BOOLEAN : [Fresh EXCEPT !.respect = b] \in Locals
  BY <1>1 DEF Locals
<1>3. \A e \in Entries : [Fresh EXCEPT !.batch = {e}, !.size = 1] \in Locals
  BY <1>1 DEF Locals
<1> QED
  BY <1>1, <1>2, <1>3

\* The assignments of a run between two batches keep the types.
LEMMA RunAssigns ==
  ASSUME NEW r \in Locals, NEW n \in Nat
  PROVE  /\ [r EXCEPT !.allowed = n] \in Locals
         /\ [r EXCEPT !.limited = TRUE] \in Locals
         /\ [r EXCEPT !.batch = {}, !.total = @ + r.size] \in Locals
         /\ \A S \in SUBSET Entries : [r EXCEPT !.batch = S, !.size = n] \in Locals
         /\ \A m \in Int : [r EXCEPT !.remaining = m] \in Locals
<1>1. [r EXCEPT !.allowed = n] \in Locals
  BY DEF Locals
<1>2. [r EXCEPT !.limited = TRUE] \in Locals
  BY DEF Locals
<1>3. [r EXCEPT !.batch = {}, !.total = @ + r.size] \in Locals
  <2>1. r.total + r.size \in Nat
    BY LocalFields
  <2>2. \A m \in Nat : [r EXCEPT !.batch = {}, !.total = m] \in Locals
    BY DEF Locals
  <2> QED
    BY <2>1, <2>2
<1>4. \A S \in SUBSET Entries : [r EXCEPT !.batch = S, !.size = n] \in Locals
  BY DEF Locals
<1>5. \A m \in Int : [r EXCEPT !.remaining = m] \in Locals
  BY DEF Locals
<1> QED
  BY <1>1, <1>2, <1>3, <1>4, <1>5

\* So do the assignments of the loop over a batch.
LEMMA EntryAssigns ==
  ASSUME NEW r \in Locals, NEW n \in Nat, NEW e \in Entries
  PROVE  /\ [r EXCEPT !.batch = @ \ {e}] \in Locals
         /\ [r EXCEPT !.tries = n] \in Locals
         /\ [r EXCEPT !.calls = n] \in Locals
         /\ [r EXCEPT !.key = n] \in Locals
         /\ [r EXCEPT !.count = n] \in Locals
         /\ [r EXCEPT !.failed = @ + 1] \in Locals
         /\ [r EXCEPT !.taken = @ \cup {e}, !.ok = @ + 1] \in Locals
         /\ \A b \in BOOLEAN : [r EXCEPT !.found = b] \in Locals
<1>1. [r EXCEPT !.batch = @ \ {e}] \in Locals
  BY DEF Locals
<1>2. [r EXCEPT !.tries = n] \in Locals
  BY DEF Locals
<1>3. [r EXCEPT !.calls = n] \in Locals
  BY DEF Locals
<1>4. [r EXCEPT !.key = n] \in Locals
  BY DEF Locals
<1>5. [r EXCEPT !.count = n] \in Locals
  BY DEF Locals
<1>6. [r EXCEPT !.failed = @ + 1] \in Locals
  BY DEF Locals
<1>7. [r EXCEPT !.taken = @ \cup {e}, !.ok = @ + 1] \in Locals
  <2>1. r.ok + 1 \in Nat /\ r.taken \cup {e} \in SUBSET Entries
    BY LocalFields
  <2>2. \A m \in Nat, S \in SUBSET Entries : [r EXCEPT !.taken = S, !.ok = m] \in Locals
    BY DEF Locals
  <2> QED
    BY <2>1, <2>2
<1>8. \A b \in BOOLEAN : [r EXCEPT !.found = b] \in Locals
  BY DEF Locals
<1> QED
  BY <1>1, <1>2, <1>3, <1>4, <1>5, <1>6, <1>7, <1>8

\* The turn of the retry loop that is counted keeps them as well.
LEMMA CountedIsLocal ==
  ASSUME NEW w \in Workers, local[w] \in Locals
  PROVE  /\ Counted(w) \in Locals
         /\ Counted(w).batch = local[w].batch
         /\ Counted(w).remaining = local[w].remaining
         /\ Counted(w).key = local[w].key
         /\ Counted(w).total = local[w].total
         /\ Counted(w).size = local[w].size
         /\ Counted(w).ok = local[w].ok
         /\ Counted(w).failed = local[w].failed
<1>1. Counted(w) \in Locals
  BY FetchJobAssumption DEF Counted, Locals
<1>2. \A f \in DOMAIN local[w] \ {"calls"} : Counted(w)[f] = local[w][f]
  BY DEF Counted, Locals
<1> QED
  BY <1>1, <1>2 DEF Locals

-------------------------------------------------------------------------------
(* Types, and what a worker has in its hands. *)

\* The moves of a worker, and the writes of an entry's status, keep the types.
LEMMA Moves ==
  ASSUME TypeOK, NEW w \in Workers
  PROVE  /\ \A l \in Labels : Goto(w, l) => pc' \in [Workers -> Labels]
         /\ \A r \in Locals : Keep(w, r) => local' \in [Workers -> Locals]
         /\ \A ws : Kill(ws) => pc' \in [Workers -> Labels]
         /\ Fault => faults' \in Nat
         /\ Works(w) => faults' \in Nat
         /\ Fails(w) => faults' \in Nat
<1>1. \A l \in Labels : Goto(w, l) => pc' \in [Workers -> Labels]
  BY DEF TypeOK, Goto
<1>2. \A r \in Locals : Keep(w, r) => local' \in [Workers -> Locals]
  BY DEF TypeOK, Keep
<1>3. \A ws : Kill(ws) => pc' \in [Workers -> Labels]
  BY DEF TypeOK, Kill, Labels
<1>4. (Fault \/ Works(w) \/ Fails(w)) => faults' \in Nat
  BY DEF TypeOK, Fault, Works, Fails
<1> QED
  BY <1>1, <1>2, <1>3, <1>4

EntryRows == [status : Statuses, key : Nat, count : Nat]

\* An entry whose status is written stays an entry.
LEMMA StatusWritten ==
  ASSUME TypeOK, NEW e \in Entries, NEW s \in Statuses, SetStatus(e, s)
  PROVE  entry' \in [Entries -> EntryRows]
<1>1. \A row \in EntryRows, v \in Statuses : [row EXCEPT !.status = v] \in EntryRows
  BY DEF EntryRows
<1>2. entry[e].status \in Statuses
  BY DEF TypeOK
<1>3. entry' = [entry EXCEPT ![e] = [entry[e] EXCEPT
                  !.status = IF entry[e].status = "GONE" THEN entry[e].status ELSE s]]
  BY DEF SetStatus, TypeOK
<1> QED
  BY <1>1, <1>2, <1>3 DEF TypeOK, EntryRows

Control ==
    /\ pc \in [Workers -> Labels]
    /\ local \in [Workers -> Locals]
    /\ BatchInv

\* A move of one worker is judged by its new label and its new variables.
LEMMA Turn ==
  ASSUME TypeOK, BatchInv, NEW w \in Workers, NEW l \in Labels, NEW r \in Locals,
         Goto(w, l), Keep(w, r), BatchOf(l, r)
  PROVE  Control'
<1>1. pc' \in [Workers -> Labels] /\ local' \in [Workers -> Locals]
  BY Moves
<1>2. ASSUME NEW v \in Workers
      PROVE  BatchOf(pc[v], local[v])'
  <2>1. CASE v = w
    <3>1. pc'[v] = l /\ local'[v] = r
      BY <2>1 DEF Goto, Keep, TypeOK
    <3> QED
      BY <3>1 DEF BatchOf
  <2>2. CASE v # w
    <3>1. pc'[v] = pc[v] /\ local'[v] = local[v]
      BY <2>2 DEF Goto, Keep, TypeOK
    <3> QED
      BY <3>1 DEF BatchOf, BatchInv
  <2> QED
    BY <2>1, <2>2
<1> QED
  BY <1>1, <1>2 DEF Control, BatchInv

\* The same for a worker that keeps its variables.
LEMMA Stride ==
  ASSUME TypeOK, BatchInv, NEW w \in Workers, NEW l \in Labels,
         Goto(w, l), UNCHANGED local, BatchOf(l, local[w])
  PROVE  Control'
<1>1. Keep(w, local[w]) /\ local[w] \in Locals
  BY DEF Keep, TypeOK
<1> QED
  BY <1>1, Turn

\* And for a worker in the loop over a batch: to give up an entry, ...
LEMMA GiveUpControl ==
  ASSUME TypeOK, BatchInv, NEW w \in Workers, NEW r \in Locals,
         NEW v \in {"FAILED", "NOT_FOUND"},
         r.batch # {}, r.remaining = 0, GiveUp(w, r, v)
  PROVE  Control'
<1> DEFINE q == [r EXCEPT !.verdict = v]
<1>1. q \in Locals
  <2>1. r.verdict \in {"none", "FAILED", "NOT_FOUND"}
    BY DEF Locals
  <2> QED
    BY DEF Locals
<1>2. q.batch = r.batch /\ q.remaining = r.remaining /\ q.verdict = v
  BY DEF Locals
<1>3. Goto(w, "fail") /\ Keep(w, q)
  BY DEF GiveUp
<1> HIDE DEF q
<1>4. BatchOf("fail", q)
  BY <1>2 DEF BatchOf, InBatch
<1> QED
  BY <1>1, <1>3, <1>4, Turn DEF Labels

\* to leave the batch, ...
LEMMA EndBatchControl ==
  ASSUME TypeOK, BatchInv, NEW w \in Workers, NEW r \in Locals,
         r.remaining = 0, EndBatch(w, r)
  PROVE  Control'
<1> DEFINE q == [r EXCEPT !.batch = {}, !.total = @ + r.size]
           l == IF w \in Runs THEN "check" ELSE "ended"
<1>1. q \in Locals
  BY RunAssigns
<1>2. q.batch = {} /\ q.remaining = r.remaining
  BY DEF Locals
<1>3. Goto(w, l) /\ Keep(w, q)
  BY DEF EndBatch
<1>4. l \in {"check", "ended"}
  OBVIOUS
<1> HIDE DEF q, l
<1>5. BatchOf(l, q)
  BY <1>2, <1>4 DEF BatchOf, InBatch
<1> QED
  BY <1>1, <1>3, <1>4, <1>5, Turn DEF Labels

\* and to turn to the next entry.
LEMMA NextEntryControl ==
  ASSUME TypeOK, BatchInv, NEW w \in Workers, NEW r \in Locals,
         r.batch = local[w].batch, r.batch # {}, r.remaining = 0, NextEntry(w, r)
  PROVE  Control'
<1> DEFINE q == [r EXCEPT !.batch = @ \ {Current(w)}]
<1>1. Current(w) \in r.batch /\ Current(w) \in Entries
  BY CurrentInBatch DEF Locals
<1>2. CASE EndBatch(w, r)
  BY <1>2, EndBatchControl
<1>3. CASE r.batch # {Current(w)} /\ Keep(w, q) /\ Goto(w, "mark")
  <2>1. q \in Locals
    BY <1>1, EntryAssigns
  <2>2. q.batch # {} /\ q.remaining = 0
    BY <1>1, <1>3 DEF Locals
  <2> HIDE DEF q
  <2>3. BatchOf("mark", q)
    BY <2>2 DEF BatchOf, InBatch
  <2> QED
    BY <1>3, <2>1, <2>3, Turn DEF Labels
<1> QED
  BY <1>2, <1>3 DEF NextEntry

\* Between two batches: no step of a run leaves entries behind.
LEMMA RunControl ==
  ASSUME TypeOK, BatchInv, NEW w \in Workers,
         \/ StartRun(w) \/ StartSingle(w) \/ CheckQuota(w) \/ GetPendingBatch(w)
         \/ ReadQuotaStatus(w) \/ RecordHistory(w) \/ RecordRefusal(w)
  PROVE  Control'
<1> DEFINE r == local[w]
<1>1. r \in Locals /\ BatchOf(pc[w], r)
  BY DEF TypeOK, BatchInv
<1>2. r.total \in Nat /\ r.remaining \in Int
  BY <1>1, LocalFields
<1> USE DEF Labels
<1>3. CASE StartRun(w)
  <2>1. CASE \E b \in RespectQuota :
                 Keep(w, [Fresh EXCEPT !.respect = b]) /\ Goto(w, "check")
    <3>1. PICK b \in RespectQuota :
              Keep(w, [Fresh EXCEPT !.respect = b]) /\ Goto(w, "check")
      BY <2>1
    <3> DEFINE q == [Fresh EXCEPT !.respect = b]
    <3>2. q \in Locals
      BY FreshIsLocal, FetchJobAssumption
    <3>3. q.batch = {} /\ q.remaining = 0
      BY DEF Fresh
    <3>4. Goto(w, "check") /\ Keep(w, q)
      BY <3>1
    <3> HIDE DEF q
    <3>5. BatchOf("check", q)
      BY <3>3 DEF BatchOf, InBatch
    <3> QED
      BY <3>2, <3>4, <3>5, Turn
  <2>2. CASE Goto(w, "ended") /\ UNCHANGED local
    <3>1. BatchOf("ended", r)
      BY <1>1, <1>3 DEF StartRun, BatchOf, InBatch
    <3> QED
      BY <2>2, <3>1, Stride
  <2> QED
    BY <1>3, <2>1, <2>2 DEF StartRun
<1>4. CASE StartSingle(w)
  <2>1. PICK e \in Entries :
            Keep(w, [Fresh EXCEPT !.batch = {e}, !.size = 1]) /\ Goto(w, "mark")
    BY <1>4 DEF StartSingle
  <2> DEFINE q == [Fresh EXCEPT !.batch = {e}, !.size = 1]
  <2>2. q \in Locals
    BY FreshIsLocal
  <2>3. q.batch = {e} /\ q.remaining = 0
    BY DEF Fresh
  <2>4. Goto(w, "mark") /\ Keep(w, q)
    BY <2>1
  <2> HIDE DEF q
  <2>5. BatchOf("mark", q)
    BY <2>3 DEF BatchOf, InBatch
  <2> QED
    BY <2>2, <2>4, <2>5, Turn
<1>5. CASE CheckQuota(w)
  <2>1. pc[w] = "check"
    BY <1>5 DEF CheckQuota
  <2>2. r.batch = {} /\ r.remaining = 0
    BY <1>1, <2>1 DEF BatchOf, InBatch
  <2>3. ASSUME NEW n \in Nat,
               Keep(w, [r EXCEPT !.allowed = n]), Goto(w, "select")
        PROVE  Control'
    <3> DEFINE q == [r EXCEPT !.allowed = n]
    <3>1. q \in Locals
      BY <1>1, RunAssigns
    <3>2. q.batch = {} /\ q.remaining = 0
      BY <1>1, <2>2 DEF Locals
    <3>3. Keep(w, q)
      BY <2>3
    <3> HIDE DEF q
    <3>4. BatchOf("select", q)
      BY <3>2 DEF BatchOf, InBatch
    <3> QED
      BY <2>3, <3>1, <3>3, <3>4, Turn
  <2>4. CASE Goto(w, "refused") /\ UNCHANGED local
    <3>1. BatchOf("refused", r)
      BY <2>2 DEF BatchOf, InBatch
    <3> QED
      BY <2>4, <3>1, Stride
  <2>5. CASE Keep(w, [r EXCEPT !.limited = TRUE]) /\ Goto(w, "status")
    <3> DEFINE q == [r EXCEPT !.limited = TRUE]
    <3>1. q \in Locals
      BY <1>1, RunAssigns
    <3>2. q.batch = {} /\ q.remaining = 0
      BY <1>1, <2>2 DEF Locals
    <3>3. Keep(w, q)
      BY <2>5
    <3> HIDE DEF q
    <3>4. BatchOf("status", q)
      BY <3>2 DEF BatchOf, InBatch
    <3> QED
      BY <2>5, <3>1, <3>3, <3>4, Turn
  <2>6. used < Limit => Allowed(Limit - used) \in Nat
    BY FetchJobAssumption DEF Allowed, TypeOK
  <2>7. BatchSize \in Nat
    BY FetchJobAssumption
  <2> QED
    BY <1>5, <2>3, <2>4, <2>5, <2>6, <2>7 DEF CheckQuota
<1>6. CASE GetPendingBatch(w)
  <2>1. r.batch = {} /\ r.remaining = 0
    BY <1>1, <1>6 DEF GetPendingBatch, BatchOf, InBatch
  <2> DEFINE B == Oldest(r.allowed, Pending)
             q == [r EXCEPT !.batch = B, !.size = Cardinality(B)]
  <2>2. B \subseteq Entries /\ Cardinality(B) \in Nat
    BY BatchSizes DEF Oldest, Pending
  <2>3. CASE Keep(w, q) /\ Goto(w, "mark") /\ B # {}
    <3>1. q \in Locals
      BY <1>1, <2>2, RunAssigns
    <3>2. q.batch # {} /\ q.remaining = 0
      BY <1>1, <2>1, <2>3 DEF Locals
    <3> HIDE DEF q
    <3>3. BatchOf("mark", q)
      BY <3>2 DEF BatchOf, InBatch
    <3> QED
      BY <2>3, <3>1, <3>3, Turn
  <2>4. ASSUME NEW l \in {"status", "ended"}, Goto(w, l), UNCHANGED local
        PROVE  Control'
    <3>1. BatchOf(l, r)
      BY <2>1 DEF BatchOf, InBatch
    <3> QED
      BY <2>4, <3>1, Stride
  <2> QED
    BY <1>6, <2>3, <2>4 DEF GetPendingBatch, NothingPending
<1>7. CASE ReadQuotaStatus(w)
  <2>1. r.batch = {}
    BY <1>1, <1>7 DEF ReadQuotaStatus, BatchOf, InBatch
  <2> DEFINE l == IF NothingToReport(r) THEN "ended" ELSE "record"
  <2>2. Goto(w, l) /\ l \in {"ended", "record"}
    BY <1>7 DEF ReadQuotaStatus
  <2>3. PICK m \in Int : Keep(w, [r EXCEPT !.remaining = m])
    <3>1. Limit - used \in Int /\ 0 \in Int
      BY FetchJobAssumption DEF TypeOK
    <3> QED
      BY <1>7, <3>1 DEF ReadQuotaStatus
  <2> DEFINE q == [r EXCEPT !.remaining = m]
  <2>4. q \in Locals
    BY <1>1, RunAssigns
  <2>5. q.batch = {}
    BY <1>1, <2>1 DEF Locals
  <2>6. Keep(w, q)
    BY <2>3
  <2> HIDE DEF q, l
  <2>7. BatchOf(l, q)
    BY <2>2, <2>5 DEF BatchOf, InBatch
  <2> QED
    BY <2>2, <2>4, <2>6, <2>7, Turn
<1>8. CASE RecordHistory(w) \/ RecordRefusal(w)
  <2>1. pc[w] \in {"record", "refused"} /\ Goto(w, "ended") /\ UNCHANGED local
    BY <1>8 DEF RecordHistory, RecordRefusal
  <2>2. BatchOf("ended", r)
    BY <1>1, <2>1 DEF BatchOf, InBatch
  <2> QED
    BY <2>1, <2>2, Stride
<1> QED
  BY <1>3, <1>4, <1>5, <1>6, <1>7, <1>8

\* Inside the loop over a batch: a step that keeps the batch, ...
LEMMA LoopTurn ==
  ASSUME TypeOK, BatchInv, NEW w \in Workers, NEW l \in InBatch \ {"fail"}, NEW r \in Locals,
         r.batch # {}, r.remaining = 0, Goto(w, l), Keep(w, r)
  PROVE  Control'
<1>1. BatchOf(l, r)
  BY DEF BatchOf
<1>2. l \in Labels
  BY DEF InBatch, Labels
<1> QED
  BY <1>1, <1>2, Turn

\* and the end of a worker, wherever it is.
LEMMA KillControl ==
  ASSUME TypeOK, BatchInv, NEW ws, Kill(ws), UNCHANGED local
  PROVE  Control'
<1>1. pc' \in [Workers -> Labels] /\ local' \in [Workers -> Locals]
  BY DEF TypeOK, Kill, Labels
<1>2. ASSUME NEW v \in Workers
      PROVE  BatchOf(pc[v], local[v])'
  BY <1>2 DEF Kill, BatchInv, BatchOf, InBatch
<1> QED
  BY <1>1, <1>2 DEF Control, BatchInv

\* The variables of a worker in the loop.
LEMMA InLoop ==
  ASSUME TypeOK, BatchInv, NEW w \in Workers, pc[w] \in InBatch
  PROVE  /\ local[w] \in Locals
         /\ local[w].batch # {} /\ local[w].remaining = 0
         /\ local[w].batch \subseteq Entries
         /\ Current(w) \in local[w].batch /\ Current(w) \in Entries
         /\ pc[w] = "fail" => local[w].verdict # "none"
<1>1. local[w] \in Locals /\ BatchOf(pc[w], local[w])
  BY DEF TypeOK, BatchInv
<1>2. /\ local[w].batch # {} /\ local[w].remaining = 0
      /\ pc[w] = "fail" => local[w].verdict # "none"
  BY <1>1 DEF BatchOf, InBatch
<1>3. local[w].batch \subseteq Entries
  BY <1>1, LocalFields
<1> QED
  BY <1>1, <1>2, <1>3, CurrentInBatch

\* The fetch with its retries.
LEMMA FetchControl ==
  ASSUME TypeOK, BatchInv, NEW w \in Workers,
         \/ MarkFetching(w) \/ FetchSucceeds(w) \/ FetchNotFound(w)
         \/ FetchRateLimited(w) \/ FetchFails(w) \/ WaitToRetry(w) \/ Charge(w)
  PROVE  Control'
<1> DEFINE r == local[w]
           c == Counted(w)
<1>1. pc[w] \in InBatch
  BY DEF MarkFetching, FetchSucceeds, FetchNotFound, FetchRateLimited, FetchFails,
         WaitToRetry, Charge, InBatch
<1>2. /\ r \in Locals /\ r.batch # {} /\ r.remaining = 0
      /\ Current(w) \in Entries
  BY <1>1, InLoop
<1>3. c \in Locals /\ c.batch # {} /\ c.remaining = 0
  BY <1>2, CountedIsLocal
<1> HIDE DEF c
<1>4. \A q \in {r, c}, n \in Nat :
          /\ [q EXCEPT !.tries = n] \in Locals
          /\ [q EXCEPT !.tries = n].batch # {}
          /\ [q EXCEPT !.tries = n].remaining = 0
          /\ [q EXCEPT !.key = n] \in Locals
          /\ [q EXCEPT !.key = n].batch # {}
          /\ [q EXCEPT !.key = n].remaining = 0
  <2>1. ASSUME NEW q \in Locals, q.batch # {}, q.remaining = 0, NEW n \in Nat
        PROVE  /\ [q EXCEPT !.tries = n] \in Locals
               /\ [q EXCEPT !.tries = n].batch # {}
               /\ [q EXCEPT !.tries = n].remaining = 0
               /\ [q EXCEPT !.key = n] \in Locals
               /\ [q EXCEPT !.key = n].batch # {}
               /\ [q EXCEPT !.key = n].remaining = 0
    <3>1. [q EXCEPT !.tries = n] \in Locals /\ [q EXCEPT !.key = n] \in Locals
      BY <1>2, <2>1, EntryAssigns
    <3> QED
      BY <2>1, <3>1 DEF Locals
  <2> QED
    BY <1>2, <1>3, <2>1
<1>5. CASE MarkFetching(w)
  <2>1. Keep(w, [r EXCEPT !.tries = 0]) /\ Goto(w, "fetch")
    BY <1>5 DEF MarkFetching
  <2> QED
    BY <1>4, <2>1, LoopTurn DEF InBatch
<1>6. CASE FetchSucceeds(w)
  <2>1. PICK n \in Nat : Keep(w, [c EXCEPT !.key = n]) /\ Goto(w, "charge")
    <3>1. fetched'[Current(w)] \in Nat
      BY <1>2, <1>6 DEF FetchSucceeds, TypeOK
    <3> QED
      BY <1>6, <3>1 DEF FetchSucceeds, c
  <2> QED
    BY <1>4, <2>1, LoopTurn DEF InBatch
<1>7. CASE FetchNotFound(w)
  BY <1>3, <1>7, GiveUpControl DEF FetchNotFound, c
<1>8. CASE FetchRateLimited(w)
  BY <1>3, <1>8, LoopTurn DEF FetchRateLimited, InBatch, c
<1>9. CASE FetchFails(w)
  <2>1. CASE GiveUp(w, c, "FAILED")
    BY <1>3, <2>1, GiveUpControl
  <2>2. CASE Keep(w, [c EXCEPT !.tries = r.tries + 1]) /\ Goto(w, "wait")
    <3>1. r.tries + 1 \in Nat
      BY <1>2, LocalFields
    <3> QED
      BY <1>4, <2>2, <3>1, LoopTurn DEF InBatch
  <2> QED
    BY <1>9, <2>1, <2>2 DEF FetchFails, c
<1>10. CASE WaitToRetry(w)
  <2>1. CASE GiveUp(w, r, "FAILED")
    BY <1>2, <2>1, GiveUpControl
  <2>2. CASE Goto(w, "fetch") /\ UNCHANGED local
    <3>1. Keep(w, r)
      BY <2>2 DEF Keep, TypeOK
    <3> QED
      BY <1>2, <2>2, <3>1, LoopTurn DEF InBatch
  <2> QED
    BY <1>10, <2>1, <2>2 DEF WaitToRetry
<1>11. CASE Charge(w)
  <2>1. Goto(w, "raw") /\ Keep(w, r)
    BY <1>11 DEF Charge, Keep, TypeOK
  <2> QED
    BY <1>2, <2>1, LoopTurn DEF InBatch
<1> QED
  BY <1>5, <1>6, <1>7, <1>8, <1>9, <1>10, <1>11

\* The storing of a fetched profile, and the end of an entry.
LEMMA StoreControl ==
  ASSUME TypeOK, BatchInv, NEW w \in Workers,
         \/ UploadRaw(w) \/ UploadCleaned(w) \/ FindProfile(w) \/ SaveProfile(w)
         \/ RereadEntry(w) \/ CompleteEntry(w) \/ FailEntry(w) \/ Pause(w)
  PROVE  Control'
<1> DEFINE r == local[w]
<1>1. pc[w] \in InBatch
  BY DEF UploadRaw, UploadCleaned, FindProfile, SaveProfile, RereadEntry,
         CompleteEntry, FailEntry, Pause, InBatch
<1>2. /\ r \in Locals /\ r.batch # {} /\ r.remaining = 0
      /\ Current(w) \in Entries
  BY <1>1, InLoop
<1>3. CASE GiveUp(w, r, "FAILED")
  BY <1>2, <1>3, GiveUpControl
<1>4. ASSUME NEW l \in InBatch \ {"fail"}, Goto(w, l), UNCHANGED local
      PROVE  Control'
  <2>1. Keep(w, r)
    BY <1>4 DEF Keep, TypeOK
  <2> QED
    BY <1>2, <1>4, <2>1, LoopTurn
<1>5. CASE UploadRaw(w) \/ UploadCleaned(w) \/ SaveProfile(w)
  BY <1>3, <1>4, <1>5 DEF UploadRaw, RawFails, UploadCleaned, SaveProfile, InBatch
<1>6. CASE FindProfile(w)
  <2>1. CASE \E b \in BOOLEAN : Keep(w, [r EXCEPT !.found = b]) /\ Goto(w, "save")
    <3>1. PICK b \in BOOLEAN : Keep(w, [r EXCEPT !.found = b]) /\ Goto(w, "save")
      BY <2>1
    <3>2. /\ [r EXCEPT !.found = b] \in Locals
          /\ [r EXCEPT !.found = b].batch # {}
          /\ [r EXCEPT !.found = b].remaining = 0
      BY <1>2, EntryAssigns DEF Locals
    <3> QED
      BY <3>1, <3>2, LoopTurn DEF InBatch
  <2> QED
    BY <1>3, <1>6, <2>1 DEF FindProfile
<1>7. CASE RereadEntry(w)
  <2>1. CASE Kill(DieWith(w)) /\ UNCHANGED local
    BY <2>1, KillControl
  <2>2. CASE Keep(w, [r EXCEPT !.count = entry[Current(w)].count]) /\ Goto(w, "complete")
    <3>1. PICK n \in Nat : Keep(w, [r EXCEPT !.count = n]) /\ Goto(w, "complete")
      BY <1>2, <2>2 DEF TypeOK
    <3>2. /\ [r EXCEPT !.count = n] \in Locals
          /\ [r EXCEPT !.count = n].batch # {}
          /\ [r EXCEPT !.count = n].remaining = 0
      BY <1>2, EntryAssigns DEF Locals
    <3> QED
      BY <3>1, <3>2, LoopTurn DEF InBatch
  <2> QED
    BY <1>7, <2>1, <2>2 DEF RereadEntry
<1>8. CASE CompleteEntry(w)
  <2> DEFINE q == [r EXCEPT !.taken = @ \cup {Current(w)}, !.ok = @ + 1]
  <2>1. q \in Locals
    BY <1>2, EntryAssigns
  <2>2. q.batch # {} /\ q.remaining = 0
    BY <1>2 DEF Locals
  <2>3. (Keep(w, q) /\ Goto(w, "sleep")) \/ EndBatch(w, q)
    BY <1>8 DEF CompleteEntry
  <2> HIDE DEF q
  <2> QED
    BY <2>1, <2>2, <2>3, LoopTurn, EndBatchControl DEF InBatch
<1>9. CASE FailEntry(w)
  <2> DEFINE q == [r EXCEPT !.failed = @ + 1]
  <2>1. q \in Locals
    BY <1>2, EntryAssigns
  <2>2. q.batch = r.batch /\ q.remaining = 0
    BY <1>2 DEF Locals
  <2>3. NextEntry(w, q)
    BY <1>9 DEF FailEntry
  <2> HIDE DEF q
  <2> QED
    BY <1>2, <2>1, <2>2, <2>3, NextEntryControl
<1>10. CASE Pause(w)
  BY <1>2, <1>10, EndBatchControl, NextEntryControl DEF Pause
<1> QED
  BY <1>5, <1>6, <1>7, <1>8, <1>9, <1>10

\* Reports that may be saved.
LEMMA ReportTyped ==
  ASSUME NEW r \in Locals, r.remaining \in Nat,
         NEW s \in {"SUCCESS", "FAILED", "PARTIAL", "QUOTA_EXCEEDED"}
  PROVE  Report(r, s) \in Reports
<1>1. r.total \in Nat /\ r.ok \in Nat /\ r.failed \in Nat /\ r.calls \in Nat
  BY LocalFields
<1> QED
  BY <1>1 DEF Report, Reports

\* A step that leaves the database alone keeps the types.
LEMMA QuietTypes ==
  ASSUME TypeOK, Control', UNCHANGED db,
         cancelled' \in [Workers -> BOOLEAN],
         fetched' \in [Entries -> Nat], unmarked' \in [Entries -> Nat],
         asked' \in [Entries -> Nat],
         errors' \in Nat, edited' \subseteq Entries, interventions' \in Nat,
         faults' \in Nat
  PROVE  TypeOK'
  BY DEF TypeOK, Control, db

\* Every step of a worker keeps the types.
LEMMA WorkerTypes ==
  ASSUME TypeOK, BatchInv, NEW w \in Workers, Control',
         \/ StartRun(w) \/ StartSingle(w) \/ Step(w) \/ Answer(w) \/ FetchRateLimited(w)
  PROVE  TypeOK'
<1> DEFINE r == local[w]
           e == Current(w)
<1>1. (Works(w) \/ Fails(w) \/ Fault \/ UNCHANGED faults) => faults' \in Nat
  BY Moves DEF TypeOK
<1>2. pc[w] \in InBatch => e \in Entries /\ r \in Locals
  BY InLoop
<1> HIDE DEF e
<1>3. CASE \/ StartRun(w) \/ CheckQuota(w) \/ GetPendingBatch(w) \/ ReadQuotaStatus(w)
           \/ FetchNotFound(w) \/ FetchRateLimited(w) \/ WaitToRetry(w) \/ FindProfile(w)
           \/ Pause(w) \/ RereadEntry(w)
  <2>1. UNCHANGED <<db, cancelled, counts>> /\ faults' \in Nat
    BY <1>1, <1>3 DEF StartRun, CheckQuota, GetPendingBatch, ReadQuotaStatus,
       FetchNotFound, FetchRateLimited, WaitToRetry, FindProfile, Pause, RereadEntry,
       ghost, Works, Fails, Fault, TypeOK
  <2> QED
    BY <2>1, QuietTypes DEF counts, admin, TypeOK
<1>4. CASE StartSingle(w)
  <2>1. PICK d \in Entries : asked' = [asked EXCEPT ![d] = @ + 1]
    BY <1>4 DEF StartSingle
  <2>2. asked' \in [Entries -> Nat]
    BY <2>1 DEF TypeOK
  <2> QED
    BY <1>4, <2>2, QuietTypes DEF StartSingle, TypeOK, admin
<1>5. CASE MarkFetching(w)
  <2>1. e \in Entries
    BY <1>2, <1>5 DEF MarkFetching, InBatch
  <2>2. entry' \in [Entries -> EntryRows] /\ unmarked' \in [Entries -> Nat]
    <3>1. CASE MarkRow(e) /\ UNCHANGED unmarked
      BY <2>1, <3>1, StatusWritten DEF MarkRow, Statuses, TypeOK
    <3>2. CASE unmarked' = [unmarked EXCEPT ![e] = @ + 1] /\ UNCHANGED entry
      BY <2>1, <3>2 DEF TypeOK, EntryRows
    <3> QED
      BY <1>5, <3>1, <3>2 DEF MarkFetching, e
  <2>3. faults' \in Nat
    BY <1>1, <1>5 DEF MarkFetching
  <2> QED
    BY <1>5, <2>2, <2>3 DEF MarkFetching, TypeOK, Control, EntryRows, admin
<1>6. CASE FetchSucceeds(w)
  <2>1. e \in Entries
    BY <1>2, <1>6 DEF FetchSucceeds, InBatch
  <2>2. fetched' \in [Entries -> Nat]
    BY <1>6, <2>1 DEF FetchSucceeds, TypeOK, e
  <2> QED
    BY <1>6, <2>2, QuietTypes DEF FetchSucceeds, TypeOK, admin
<1>7. CASE FetchFails(w)
  <2>1. errors' \in Nat
    BY <1>7 DEF FetchFails, TypeOK
  <2> QED
    BY <1>7, <2>1, QuietTypes DEF FetchFails, TypeOK, admin
<1>8. CASE Charge(w)
  <2>1. used' \in Nat /\ faults' \in Nat
    BY <1>1, <1>8 DEF Charge, TypeOK
  <2> QED
    BY <1>8, <2>1 DEF Charge, TypeOK, Control, counts, admin
<1>9. CASE UploadRaw(w) \/ UploadCleaned(w) \/ SaveProfile(w)
  <2>1. e \in Entries /\ r.key \in Nat
    BY <1>2, <1>9, LocalFields DEF UploadRaw, UploadCleaned, SaveProfile, InBatch
  <2>2. /\ raw' \in [Entries -> SUBSET Nat]
        /\ cleaned' \in [Entries -> SUBSET Nat]
        /\ profile' \in [Entries -> Nat]
    BY <1>9, <2>1 DEF UploadRaw, UploadCleaned, SaveProfile, TypeOK, e
  <2>3. faults' \in Nat
    BY <1>1, <1>9 DEF UploadRaw, RawFails, UploadCleaned, SaveProfile
  <2> QED
    BY <1>9, <2>2, <2>3 DEF UploadRaw, UploadCleaned, SaveProfile, TypeOK, Control, counts, admin
<1>10. CASE CompleteEntry(w)
  <2>1. e \in Entries /\ r.key \in Nat /\ r.count + 1 \in Nat
    BY <1>2, <1>10, LocalFields DEF CompleteEntry, InBatch
  <2>2. entry' \in [Entries -> EntryRows]
    <3> DEFINE q == [r EXCEPT !.taken = @ \cup {e}, !.ok = @ + 1]
               row == [status |-> "COMPLETED", key |-> q.key, count |-> q.count + 1]
    <3>1. q.key = r.key /\ q.count = r.count
      BY <1>2, <1>10 DEF CompleteEntry, InBatch, Locals
    <3>2. row \in EntryRows
      BY <2>1, <3>1 DEF EntryRows, Statuses
    <3>3. \/ entry' = [entry EXCEPT ![e] = IF @.status = "GONE" THEN @ ELSE row]
          \/ UNCHANGED entry
      BY <1>10 DEF CompleteEntry, CountUp, e
    <3> HIDE DEF row, q
    <3> QED
      BY <3>2, <3>3 DEF TypeOK, EntryRows
  <2>3. faults' \in Nat
    BY <1>1, <1>10 DEF CompleteEntry
  <2> QED
    BY <1>10, <2>2, <2>3 DEF CompleteEntry, TypeOK, Control, EntryRows, counts, admin
<1>11. CASE FailEntry(w)
  <2>1. e \in Entries /\ r.verdict \in Statuses
    BY <1>11, InLoop, LocalFields DEF FailEntry, InBatch, Statuses, e
  <2>2. entry' \in [Entries -> EntryRows]
    <3>1. CASE WriteVerdict(w)
      BY <2>1, <3>1, StatusWritten DEF WriteVerdict, e
    <3>2. CASE UNCHANGED entry
      BY <3>2 DEF TypeOK, EntryRows
    <3> QED
      BY <1>11, <3>1, <3>2 DEF FailEntry
  <2>3. faults' \in Nat
    BY <1>1, <1>11 DEF FailEntry
  <2> QED
    BY <1>11, <2>2, <2>3 DEF FailEntry, TypeOK, Control, EntryRows, counts, admin
<1>12. CASE RecordHistory(w) \/ RecordRefusal(w)
  <2>1. history' \in [Runs -> Reports \cup {NoHistory}]
    <3>1. r \in Locals /\ (pc[w] = "refused" => r.remaining = 0)
      BY DEF TypeOK, BatchInv, BatchOf
    <3>2. PICK s \in {"SUCCESS", "FAILED", "PARTIAL", "QUOTA_EXCEEDED"} :
              \/ UNCHANGED history
              \/ history' = [history EXCEPT ![w] = Report(r, s)] /\ r.remaining >= 0
      BY <1>12, <3>1 DEF RecordHistory, RecordRefusal, Valid, Outcome
    <3>3. r.remaining >= 0 => Report(r, s) \in Reports
      BY <3>1, ReportTyped, LocalFields
    <3> QED
      BY <3>2, <3>3 DEF TypeOK
  <2>2. faults' \in Nat
    BY <1>1, <1>12 DEF RecordHistory, Recorded, RecordRefusal
  <2> QED
    BY <1>12, <2>1, <2>2 DEF RecordHistory, RecordRefusal, TypeOK, Control, counts, admin
<1> QED
  BY <1>3, <1>4, <1>5, <1>6, <1>7, <1>8, <1>9, <1>10, <1>11, <1>12 DEF Step, Answer

\* So does the environment.
LEMMA EnvironmentTypes ==
  ASSUME TypeOK, BatchInv,
         \/ \E w \in Workers : Cancel(w)
         \/ \E ps \in Processes : Crash(ps)
         \/ \E e \in Entries : DeleteEntry(e) \/ UpdateEntry(e)
         \/ UNCHANGED vars
  PROVE  TypeOK' /\ BatchInv'
<1>1. CASE \E w \in Workers : Cancel(w)
  BY <1>1 DEF Cancel, TypeOK, BatchInv, db, ghost, counts, admin
<1>2. CASE \E ps \in Processes : Crash(ps)
  <2>1. UNCHANGED <<db, local, cancelled, counts>> /\ faults' \in Nat
    BY <1>2 DEF Crash, Fault, TypeOK
  <2>2. Control'
    BY <1>2, KillControl DEF Crash
  <2> QED
    BY <2>1, <2>2, QuietTypes DEF counts, admin, TypeOK, Control
<1>3. CASE \E e \in Entries : DeleteEntry(e) \/ UpdateEntry(e)
  <2>1. PICK e \in Entries : DeleteEntry(e) \/ UpdateEntry(e)
    BY <1>3
  <2>2. entry' \in [Entries -> EntryRows]
    <3>1. CASE UpdateEntry(e)
      BY <3>1, StatusWritten DEF UpdateEntry, Settable, Statuses
    <3>2. CASE DeleteEntry(e)
      <4>1. entry' = [entry EXCEPT ![e] = [entry[e] EXCEPT !.status = "GONE"]]
        BY <3>2 DEF DeleteEntry, TypeOK
      <4>2. [entry[e] EXCEPT !.status = "GONE"] \in EntryRows
        BY DEF TypeOK, EntryRows, Statuses
      <4> QED
        BY <4>1, <4>2 DEF TypeOK, EntryRows
    <3> QED
      BY <2>1, <3>1, <3>2
  <2>3. asked' \in [Entries -> Nat] /\ edited' \subseteq Entries /\ interventions' \in Nat
    BY <2>1 DEF DeleteEntry, UpdateEntry, Intervene, TypeOK
  <2>4. BatchInv'
    BY <2>1 DEF DeleteEntry, UpdateEntry, BatchInv
  <2> QED
    BY <2>1, <2>2, <2>3, <2>4 DEF DeleteEntry, UpdateEntry, TypeOK, EntryRows
<1>4. CASE UNCHANGED vars
  BY <1>4 DEF vars, db, ghost, counts, admin, TypeOK, BatchInv
<1> QED
  BY <1>1, <1>2, <1>3, <1>4

\* Types and batches hold at the start.
LEMMA InitTypes == Init => TypeOK /\ BatchInv
<1> SUFFICES ASSUME Init
             PROVE  TypeOK /\ BatchInv
  OBVIOUS
<1>1. TypeOK
  BY FreshIsLocal DEF Init, TypeOK, Statuses, Labels
<1>2. Fresh.batch = {} /\ Fresh.remaining = 0
  BY DEF Fresh
<1>3. BatchInv
  BY <1>2 DEF Init, BatchInv, BatchOf, InBatch
<1> QED
  BY <1>1, <1>3

\* Every worker's step keeps them, and so do those of the environment.
LEMMA NextTypes == TypeOK /\ BatchInv /\ [Next]_vars => TypeOK' /\ BatchInv'
<1> SUFFICES ASSUME TypeOK, BatchInv, [Next]_vars
             PROVE  TypeOK' /\ BatchInv'
  OBVIOUS
<1>1. ASSUME NEW w \in Workers,
             \/ StartRun(w) \/ StartSingle(w) \/ Step(w) \/ Answer(w) \/ FetchRateLimited(w)
      PROVE  TypeOK' /\ BatchInv'
  <2>1. Control'
    BY <1>1, RunControl, FetchControl, StoreControl DEF Step, Answer
  <2> QED
    BY <1>1, <2>1, WorkerTypes DEF Control
<1> QED
  BY <1>1, EnvironmentTypes DEF Next, Rest

\* Every reachable state has the types the model claims: overlapping runs,
\* failures and cancellations never make a report's quota_remaining negative,
\* a batch refer to no entry, or a worker work without one.
THEOREM TypeCorrect == Spec => []TypeOK
<1> QED
  BY InitTypes, NextTypes, PTL DEF Spec

-------------------------------------------------------------------------------
(* The keys of the stored objects. *)

\* Objects and profiles are added or replaced, never removed.
Grows ==
    \A e \in Entries :
        /\ raw[e] \subseteq raw'[e] /\ cleaned[e] \subseteq cleaned'[e]
        /\ profile[e] # 0 => profile'[e] # 0

\* A worker that does not move still refers to objects that exist.
LEMMA UnmovedKey ==
  ASSUME TypeOK, BatchInv, KeyInv, Grows, NEW v \in Workers,
         pc'[v] = pc[v] \/ pc'[v] \notin Storing, local'[v] = local[v]
  PROVE  KeyOf(v)'
<1>1. Current(v)' = Current(v)
  BY DEF Current
<1>2. KeyOf(v) /\ (pc[v] \in Storing => Current(v) \in Entries)
  BY InLoop DEF KeyInv, InBatch, Storing
<1> QED
  BY <1>1, <1>2 DEF KeyOf, Grows, Storing

\* The step of one worker changes nothing in the hands of another one, but may
\* take it down.
LEMMA OthersRest ==
  ASSUME TypeOK, NEW w \in Workers, NEW v \in Workers \ {w},
         \/ StartRun(w) \/ StartSingle(w) \/ Step(w) \/ Answer(w) \/ FetchRateLimited(w)
  PROVE  pc'[v] \in {pc[v], "dead"} /\ local'[v] = local[v]
<1>1. \A l : Goto(w, l) => pc'[v] = pc[v]
  BY DEF Goto, TypeOK
<1>2. \A r : Keep(w, r) => local'[v] = local[v]
  BY DEF Keep, TypeOK
<1>3. \A ws : Kill(ws) => pc'[v] \in {pc[v], "dead"}
  BY DEF Kill
<1>4. \A r : EndBatch(w, r) \/ NextEntry(w, r)
             => pc'[v] = pc[v] /\ local'[v] = local[v]
  BY <1>1, <1>2 DEF EndBatch, NextEntry
<1>5. \A r, x : GiveUp(w, r, x) => pc'[v] = pc[v] /\ local'[v] = local[v]
  BY <1>1, <1>2 DEF GiveUp
<1>6. CASE StartRun(w) \/ StartSingle(w)
  BY <1>1, <1>2, <1>6 DEF StartRun, StartSingle
<1>7. CASE CheckQuota(w) \/ GetPendingBatch(w) \/ ReadQuotaStatus(w)
           \/ RecordHistory(w) \/ RecordRefusal(w)
  BY <1>1, <1>2, <1>7 DEF CheckQuota, GetPendingBatch, NothingPending,
     ReadQuotaStatus, RecordHistory, RecordRefusal
<1>8. CASE MarkFetching(w) \/ WaitToRetry(w) \/ Charge(w) \/ Answer(w)
           \/ FetchRateLimited(w)
  BY <1>1, <1>2, <1>5, <1>8 DEF MarkFetching, WaitToRetry, Charge, Answer,
     FetchSucceeds, FetchNotFound, FetchFails, FetchRateLimited
<1>9. CASE UploadRaw(w) \/ UploadCleaned(w) \/ FindProfile(w) \/ SaveProfile(w)
  BY <1>1, <1>2, <1>5, <1>9 DEF UploadRaw, RawFails, UploadCleaned, FindProfile,
     SaveProfile
<1>10. CASE RereadEntry(w) \/ CompleteEntry(w) \/ FailEntry(w) \/ Pause(w)
  BY <1>1, <1>2, <1>3, <1>4, <1>10 DEF RereadEntry, CompleteEntry, FailEntry, Pause
<1> QED
  BY <1>6, <1>7, <1>8, <1>9, <1>10 DEF Step

\* What the three writes of a storing worker do.
LEMMA StoreWrites ==
  ASSUME TypeOK, BatchInv, KeyInv, NEW w \in Workers,
         UploadRaw(w) \/ UploadCleaned(w) \/ SaveProfile(w)
  PROVE  /\ Grows
         /\ KeyOf(w)'
<1> DEFINE e == Current(w)
           key == local[w].key
<1>1. /\ pc[w] \in Storing /\ local[w] \in Locals
      /\ e \in Entries /\ key \in Nat /\ key # 0 /\ KeyOf(w)
  <2>1. pc[w] \in Storing /\ pc[w] \in InBatch
    BY DEF UploadRaw, UploadCleaned, SaveProfile, Storing, InBatch
  <2> QED
    BY <2>1, InLoop, LocalFields DEF KeyInv, KeyOf
<1>2. local'[w].batch = local[w].batch => Current(w)' = e
  BY DEF Current
<1> HIDE DEF e, key
<1>3. CASE GiveUp(w, local[w], "FAILED") /\ UNCHANGED <<raw, cleaned, profile>>
  <2>1. pc'[w] = "fail"
    BY <1>3 DEF GiveUp, Goto, TypeOK
  <2> QED
    BY <1>3, <2>1 DEF Grows, KeyOf, Storing
<1>4. ASSUME UNCHANGED local
      PROVE  Current(w)' = e /\ local'[w].key = key
  BY <1>2, <1>4 DEF key
<1>5. CASE UploadRaw(w) /\ Goto(w, "cleaned")
  <2>1. /\ raw' = [raw EXCEPT ![e] = @ \cup {key}] /\ pc'[w] = "cleaned"
        /\ UNCHANGED <<local, cleaned, profile>>
    BY <1>5 DEF UploadRaw, RawFails, GiveUp, Goto, TypeOK, e, key
  <2>2. key \in raw'[e] /\ Grows
    BY <1>1, <2>1 DEF TypeOK, Grows
  <2> QED
    BY <1>1, <1>4, <2>1, <2>2 DEF KeyOf, Storing
<1>6. CASE UploadCleaned(w) /\ Goto(w, "find")
  <2>1. /\ cleaned' = [cleaned EXCEPT ![e] = @ \cup {key}] /\ pc'[w] = "find"
        /\ UNCHANGED <<local, raw, profile>>
    BY <1>6 DEF UploadCleaned, GiveUp, Goto, TypeOK, e, key
  <2>2. key \in cleaned'[e] /\ Grows
    BY <1>1, <2>1 DEF TypeOK, Grows
  <2>3. key \in raw[e]
    BY <1>1, <1>6 DEF KeyOf, UploadCleaned, Storing, e, key
  <2> QED
    BY <1>1, <1>4, <2>1, <2>2, <2>3 DEF KeyOf, Storing
<1>7. CASE SaveProfile(w) /\ Goto(w, "reread")
  <2>1. /\ profile' = [profile EXCEPT ![e] = key] /\ pc'[w] = "reread"
        /\ UNCHANGED <<local, raw, cleaned>>
    BY <1>7 DEF SaveProfile, GiveUp, Goto, TypeOK, e, key
  <2>2. profile'[e] # 0 /\ Grows
    BY <1>1, <2>1 DEF TypeOK, Grows
  <2>3. key \in raw[e] /\ key \in cleaned[e]
    BY <1>1, <1>7 DEF KeyOf, SaveProfile, Storing, e, key
  <2> QED
    BY <1>1, <1>4, <2>1, <2>2, <2>3 DEF KeyOf, Storing
<1> QED
  BY <1>3, <1>5, <1>6, <1>7 DEF UploadRaw, RawFails, UploadCleaned, SaveProfile

\* The other steps of a worker: they leave objects and profiles alone.
LEMMA OtherSteps ==
  ASSUME TypeOK, BatchInv, KeyInv, NEW w \in Workers,
         \/ StartRun(w) \/ StartSingle(w) \/ Step(w) \/ Answer(w) \/ FetchRateLimited(w),
         ~(UploadRaw(w) \/ UploadCleaned(w) \/ SaveProfile(w))
  PROVE  /\ UNCHANGED <<raw, cleaned, profile>>
         /\ KeyOf(w)'
<1> DEFINE e == Current(w)
           r == local[w]
<1> HIDE DEF e
<1>1. UNCHANGED <<raw, cleaned, profile>>
  BY DEF StartRun, StartSingle, Step, CheckQuota, GetPendingBatch, MarkFetching,
     WaitToRetry, Charge, FindProfile, RereadEntry, CompleteEntry, FailEntry, Pause,
     ReadQuotaStatus, RecordHistory, RecordRefusal, Answer, FetchSucceeds,
     FetchNotFound, FetchFails, FetchRateLimited, db
<1>2. CASE pc'[w] \notin Storing
  BY <1>1, <1>2 DEF KeyOf, Storing
<1>3. \A l : Goto(w, l) => pc'[w] = l
  BY DEF Goto, TypeOK
<1>4. \A q : Keep(w, q) => local'[w] = q
  BY DEF Keep, TypeOK
<1>5. \A q, x : GiveUp(w, q, x) => pc'[w] \notin Storing
  BY <1>3 DEF GiveUp, Storing
<1>6. \A q : EndBatch(w, q) \/ NextEntry(w, q) => pc'[w] \notin Storing
  BY <1>3 DEF EndBatch, NextEntry, Storing
<1>7. CASE FetchSucceeds(w)
  <2>1. pc[w] \in InBatch /\ pc'[w] = "charge"
    BY <1>3, <1>7 DEF FetchSucceeds, InBatch
  <2>2. e \in Entries /\ r \in Locals
    BY <2>1, InLoop DEF e
  <2>3. fetched'[e] \in Nat /\ fetched'[e] # 0
    BY <1>7, <2>2 DEF FetchSucceeds, TypeOK, e
  <2>4. local'[w].key = fetched'[e]
    BY <1>4, <1>7, <2>2, CountedIsLocal DEF FetchSucceeds, Locals, e
  <2> QED
    BY <1>1, <2>1, <2>3, <2>4 DEF KeyOf, Storing
<1>8. CASE Charge(w)
  <2>1. pc[w] = "charge" /\ pc'[w] = "raw" /\ UNCHANGED local
    BY <1>3, <1>8 DEF Charge
  <2> QED
    BY <1>1, <2>1 DEF KeyInv, KeyOf, Storing
<1>9. CASE FindProfile(w) \/ RereadEntry(w)
  <2>1. pc[w] \in {"find", "reread"} /\ pc[w] \in InBatch
    BY <1>9 DEF FindProfile, RereadEntry, InBatch
  <2>2. r \in Locals /\ KeyOf(w)
    BY <2>1, InLoop DEF KeyInv
  <2>3. CASE /\ pc[w] = "find" /\ pc'[w] = "save"
             /\ \E b : local'[w] = [r EXCEPT !.found = b]
    <3>1. local'[w].key = r.key /\ local'[w].batch = r.batch
      BY <2>2, <2>3 DEF Locals
    <3>2. Current(w)' = Current(w)
      BY <3>1 DEF Current
    <3> QED
      BY <1>1, <2>2, <2>3, <3>1, <3>2 DEF KeyOf, Storing
  <2>4. CASE /\ pc[w] = "reread" /\ pc'[w] = "complete"
             /\ \E n : local'[w] = [r EXCEPT !.count = n]
    <3>1. local'[w].key = r.key /\ local'[w].batch = r.batch
      BY <2>2, <2>4 DEF Locals
    <3>2. Current(w)' = Current(w)
      BY <3>1 DEF Current
    <3> QED
      BY <1>1, <2>2, <2>4, <3>1, <3>2 DEF KeyOf, Storing
  <2>5. CASE Kill(DieWith(w))
    BY <1>2, <2>1, <2>5 DEF Kill, DieWith, Live, Storing
  <2> QED
    BY <1>2, <1>3, <1>4, <1>5, <1>9, <2>3, <2>4, <2>5 DEF FindProfile, RereadEntry
<1>10. CASE \/ StartRun(w) \/ StartSingle(w) \/ CheckQuota(w) \/ GetPendingBatch(w)
            \/ ReadQuotaStatus(w) \/ RecordHistory(w) \/ RecordRefusal(w)
  <2>1. pc'[w] \notin Storing
    BY <1>3, <1>10 DEF StartRun, StartSingle, CheckQuota, GetPendingBatch,
       NothingPending, ReadQuotaStatus, RecordHistory, RecordRefusal, Storing
  <2> QED
    BY <1>2, <2>1
<1>11. CASE \/ MarkFetching(w) \/ FetchNotFound(w) \/ FetchFails(w)
            \/ FetchRateLimited(w) \/ WaitToRetry(w)
  <2>1. pc'[w] \notin Storing
    BY <1>3, <1>5, <1>11 DEF MarkFetching, FetchNotFound, FetchFails,
       FetchRateLimited, WaitToRetry, Storing
  <2> QED
    BY <1>2, <2>1
<1>12. CASE CompleteEntry(w) \/ FailEntry(w) \/ Pause(w)
  <2>1. pc'[w] \notin Storing
    BY <1>3, <1>6, <1>12 DEF CompleteEntry, FailEntry, Pause, Storing
  <2> QED
    BY <1>2, <2>1
<1> QED
  BY <1>1, <1>7, <1>8, <1>9, <1>10, <1>11, <1>12 DEF Step, Answer

\* Every step keeps what the workers hold in their hands.
LEMMA NextKeyInv ==
  TypeOK /\ BatchInv /\ KeyInv /\ [Next]_vars => KeyInv' /\ Grows
<1> SUFFICES ASSUME TypeOK, BatchInv, KeyInv, [Next]_vars
             PROVE  KeyInv' /\ Grows
  OBVIOUS
<1>1. UNCHANGED <<raw, cleaned, profile>> => Grows
  BY DEF Grows
<1>2. ASSUME NEW w \in Workers,
             \/ StartRun(w) \/ StartSingle(w) \/ Step(w) \/ Answer(w) \/ FetchRateLimited(w)
      PROVE  KeyInv' /\ Grows
  <2>1. Grows /\ KeyOf(w)'
    BY <1>1, <1>2, StoreWrites, OtherSteps
  <2>2. ASSUME NEW v \in Workers \ {w}
        PROVE  KeyOf(v)'
    <3>1. (pc'[v] = pc[v] \/ pc'[v] \notin Storing) /\ local'[v] = local[v]
      BY <1>2, OthersRest DEF Storing
    <3> QED
      BY <2>1, <3>1, UnmovedKey
  <2> QED
    BY <2>1, <2>2 DEF KeyInv
<1>3. ASSUME UNCHANGED <<raw, cleaned, profile, local>>,
             \A v \in Workers : pc'[v] \in {pc[v], "dead"}
      PROVE  KeyInv' /\ Grows
  <2>1. ASSUME NEW v \in Workers
        PROVE  KeyOf(v)'
    <3>1. pc'[v] = pc[v] \/ pc'[v] \notin Storing
      BY <1>3 DEF Storing
    <3> QED
      BY <1>1, <1>3, <3>1, UnmovedKey
  <2> QED
    BY <1>1, <1>3, <2>1 DEF KeyInv
<1>4. CASE \/ \E w \in Workers : Cancel(w)
           \/ \E ps \in Processes : Crash(ps)
           \/ \E e \in Entries : DeleteEntry(e) \/ UpdateEntry(e)
           \/ UNCHANGED vars
  BY <1>3, <1>4 DEF Cancel, Crash, Kill, DeleteEntry, UpdateEntry, vars, db
<1> QED
  BY <1>2, <1>4 DEF Next, Rest

\* What was set by hand stays marked so.
LEMMA EditedStays == [Next]_vars => edited \subseteq edited'
<1> SUFFICES ASSUME [Next]_vars PROVE edited \subseteq edited'
  OBVIOUS
<1>1. ASSUME NEW w \in Workers,
             \/ StartRun(w) \/ StartSingle(w) \/ Step(w) \/ Answer(w) \/ FetchRateLimited(w)
      PROVE  UNCHANGED edited
  BY <1>1 DEF StartRun, StartSingle, Step, CheckQuota, GetPendingBatch, MarkFetching,
     WaitToRetry, Charge, UploadRaw, UploadCleaned, FindProfile, SaveProfile,
     RereadEntry, CompleteEntry, FailEntry, Pause, ReadQuotaStatus, RecordHistory,
     RecordRefusal, Answer, FetchSucceeds, FetchNotFound, FetchFails,
     FetchRateLimited, ghost, counts, admin
<1>2. CASE \/ \E w \in Workers : Cancel(w)
           \/ \E ps \in Processes : Crash(ps)
           \/ UNCHANGED vars
  BY <1>2 DEF Cancel, Crash, vars, ghost, counts, admin
<1>3. ASSUME NEW e \in Entries, DeleteEntry(e) \/ UpdateEntry(e)
      PROVE  edited \subseteq edited'
  BY <1>3 DEF DeleteEntry, UpdateEntry
<1> QED
  BY <1>1, <1>2, <1>3 DEF Next, Rest

\* Entries and profiles that keep their keys, or lose them, dangle no more than before.
LEMMA KeysKept ==
  ASSUME NoDanglingKeys, Grows, UNCHANGED profile, edited \subseteq edited',
         \A e \in Entries :
             /\ entry'[e].key = entry[e].key
             /\ entry'[e].status = "COMPLETED" /\ e \notin edited'
                => entry[e].status = "COMPLETED"
  PROVE  NoDanglingKeys'
  BY DEF NoDanglingKeys, Uploaded, Grows

\* A status is written to one entry and leaves its key alone, ...
LEMMA StatusKeeps ==
  ASSUME TypeOK, NEW e \in Entries, NEW s, SetStatus(e, s)
  PROVE  \A d \in Entries : entry'[d].key = entry[d].key /\ (d # e => entry'[d] = entry[d])
<1> DEFINE row == [entry[e] EXCEPT
                      !.status = IF entry[e].status = "GONE" THEN entry[e].status ELSE s]
<1>1. entry' = [entry EXCEPT ![e] = row]
  BY DEF SetStatus, TypeOK
<1>2. row.key = entry[e].key
  BY DEF TypeOK
<1> HIDE DEF row
<1> QED
  BY <1>1, <1>2 DEF TypeOK

\* and one other than COMPLETED completes nothing.
LEMMA StatusKeepsKey ==
  ASSUME TypeOK, NEW e \in Entries, NEW s, s # "COMPLETED", SetStatus(e, s)
  PROVE  \A d \in Entries :
             /\ entry'[d].key = entry[d].key
             /\ entry'[d].status = "COMPLETED" => entry[d].status = "COMPLETED"
<1> DEFINE row == [entry[e] EXCEPT
                      !.status = IF entry[e].status = "GONE" THEN entry[e].status ELSE s]
<1>1. entry' = [entry EXCEPT ![e] = row]
  BY DEF SetStatus, TypeOK
<1>2. /\ row.key = entry[e].key
      /\ row.status = "COMPLETED" => entry[e].status = "COMPLETED"
  BY DEF TypeOK
<1> HIDE DEF row
<1> QED
  BY <1>1, <1>2 DEF TypeOK

\* No step makes a key dangle.
LEMMA NextNoDanglingKeys ==
  TypeOK /\ BatchInv /\ KeyInv /\ NoDanglingKeys /\ [Next]_vars => NoDanglingKeys'
<1> SUFFICES ASSUME TypeOK, BatchInv, KeyInv, NoDanglingKeys, [Next]_vars
             PROVE  NoDanglingKeys'
  OBVIOUS
<1>1. Grows /\ edited \subseteq edited'
  BY NextKeyInv, EditedStays
<1>2. CASE UNCHANGED <<entry, profile>>
  BY <1>1, <1>2, KeysKept
<1>3. ASSUME NEW w \in Workers, SaveProfile(w)
      PROVE  NoDanglingKeys'
  <2>1. /\ Current(w) \in Entries
        /\ local[w].key \in raw[Current(w)] /\ local[w].key \in cleaned[Current(w)]
    BY <1>3, InLoop DEF SaveProfile, InBatch, KeyInv, KeyOf, Storing
  <2>2. UNCHANGED <<entry, raw, cleaned>>
    BY <1>3 DEF SaveProfile
  <2>3. \A e \in Entries : profile'[e] # profile[e] =>
            e = Current(w) /\ profile'[e] = local[w].key
    BY <1>3, <2>1 DEF SaveProfile, TypeOK
  <2>4. \A e \in Entries : profile'[e] # 0 => Uploaded(e, profile'[e])
    BY <2>1, <2>3 DEF NoDanglingKeys, Uploaded
  <2> QED
    BY <1>1, <2>2, <2>4 DEF NoDanglingKeys, Uploaded, Grows
<1>4. ASSUME NEW w \in Workers, CompleteEntry(w)
      PROVE  NoDanglingKeys'
  <2> DEFINE e == Current(w)
             key == local[w].key
             q == [local[w] EXCEPT !.taken = @ \cup {e}, !.ok = @ + 1]
             row == [status |-> "COMPLETED", key |-> q.key, count |-> q.count + 1]
  <2>1. e \in Entries /\ local[w] \in Locals
    BY <1>4, InLoop DEF CompleteEntry, InBatch
  <2>2. key # 0 /\ key \in raw[e] /\ key \in cleaned[e] /\ profile[e] # 0
    BY <1>4 DEF CompleteEntry, KeyInv, KeyOf, Storing
  <2>3. row.key = key
    BY <2>1 DEF Locals
  <2>4. UNCHANGED <<profile, raw, cleaned>>
    BY <1>4 DEF CompleteEntry
  <2>5. \/ entry' = [entry EXCEPT ![e] = IF @.status = "GONE" THEN @ ELSE row]
        \/ UNCHANGED entry
    BY <1>4 DEF CompleteEntry, CountUp
  <2> HIDE DEF e, key, q, row
  <2>6. \A d \in Entries : entry'[d] = entry[d] \/ (d = e /\ entry'[d] = row)
    <3>1. entry = [d \in Entries |-> entry[d]]
      BY DEF TypeOK
    <3>2. PICK x \in {entry[e], row} : entry' = [entry EXCEPT ![e] = x]
      BY <2>5, <3>1
    <3> QED
      BY <3>1, <3>2
  <2>7. \A d \in Entries : entry'[d].key # 0 => Uploaded(d, entry'[d].key)
    BY <2>2, <2>3, <2>6 DEF NoDanglingKeys, Uploaded
  <2>8. \A d \in Entries :
            entry'[d].status = "COMPLETED" /\ d \notin edited'
            => profile[d] # 0 /\ entry'[d].key # 0
    BY <1>1, <2>2, <2>3, <2>6 DEF NoDanglingKeys
  <2> QED
    BY <2>4, <2>7, <2>8 DEF NoDanglingKeys, Uploaded
<1>5. ASSUME NEW w \in Workers, MarkFetching(w) \/ FailEntry(w)
      PROVE  NoDanglingKeys'
  <2>1. /\ Current(w) \in Entries
        /\ local[w].verdict # "COMPLETED"
    BY <1>5, InLoop, LocalFields DEF MarkFetching, FailEntry, InBatch
  <2>2. CASE UNCHANGED entry
    BY <1>1, <1>5, <2>2, KeysKept DEF MarkFetching, FailEntry
  <2>3. CASE \E s : s # "COMPLETED" /\ SetStatus(Current(w), s)
    BY <1>1, <1>5, <2>1, <2>3, StatusKeepsKey, KeysKept DEF MarkFetching, FailEntry
  <2> QED
    BY <1>5, <2>1, <2>2, <2>3 DEF MarkFetching, MarkRow, FailEntry, WriteVerdict
<1>6. ASSUME NEW e \in Entries, DeleteEntry(e) \/ UpdateEntry(e)
      PROVE  NoDanglingKeys'
  <2>1. CASE UpdateEntry(e)
    <3>1. PICK s \in Settable : SetStatus(e, s) /\ (s = "PENDING" \/ e \in edited')
      BY <2>1 DEF UpdateEntry
    <3>2. CASE s = "PENDING"
      BY <1>1, <2>1, <3>1, <3>2, StatusKeepsKey, KeysKept DEF UpdateEntry
    <3>3. CASE e \in edited'
      <4>1. \A d \in Entries : entry'[d].key = entry[d].key /\ (d # e => entry'[d] = entry[d])
        BY <3>1, StatusKeeps
      <4> QED
        BY <1>1, <2>1, <3>3, <4>1, KeysKept DEF UpdateEntry
    <3> QED
      BY <3>1, <3>2, <3>3
  <2>2. CASE DeleteEntry(e)
    <3>1. SetStatus(e, "GONE")
      BY <2>2 DEF DeleteEntry, SetStatus
    <3> QED
      BY <1>1, <2>2, <3>1, StatusKeepsKey, KeysKept DEF DeleteEntry
  <2> QED
    BY <1>6, <2>1, <2>2
<1>7. ASSUME NEW w \in Workers,
             \/ StartRun(w) \/ StartSingle(w) \/ Step(w) \/ Answer(w) \/ FetchRateLimited(w),
             ~(\/ SaveProfile(w) \/ CompleteEntry(w) \/ MarkFetching(w) \/ FailEntry(w))
      PROVE  UNCHANGED <<entry, profile>>
  BY <1>7 DEF StartRun, StartSingle, Step, CheckQuota, GetPendingBatch, WaitToRetry,
     Charge, UploadRaw, UploadCleaned, FindProfile, RereadEntry, Pause,
     ReadQuotaStatus, RecordHistory, RecordRefusal, Answer, FetchSucceeds,
     FetchNotFound, FetchFails, FetchRateLimited, db
<1>8. CASE (\E w \in Workers : Cancel(w)) \/ (\E ps \in Processes : Crash(ps))
           \/ UNCHANGED vars
  BY <1>2, <1>8 DEF Cancel, Crash, vars, db
<1> QED
  BY <1>2, <1>3, <1>4, <1>5, <1>6, <1>7, <1>8 DEF Next, Rest

\* A key in a profile or an entry always names two uploaded objects, and a
\* completed entry has its profile and key, however many runs overlap and
\* whatever statements, uploads and processes fail between their steps.
THEOREM KeysPoint == Spec => []NoDanglingKeys
<1> DEFINE Inv == TypeOK /\ BatchInv /\ KeyInv /\ NoDanglingKeys
<1>1. Init => KeyInv /\ NoDanglingKeys
  BY DEF Init, KeyInv, KeyOf, Storing, NoDanglingKeys, Uploaded
<1>2. Init => Inv
  BY <1>1, InitTypes
<1>3. Inv /\ [Next]_vars => Inv'
  BY NextTypes, NextKeyInv, NextNoDanglingKeys
<1> QED
  BY <1>2, <1>3, PTL DEF Spec

-------------------------------------------------------------------------------
(* The counts of a report. *)

\* The variables of a worker that its report depends on.
SameCounts(r, q) ==
    /\ q.batch = r.batch /\ q.size = r.size /\ q.total = r.total
    /\ q.ok = r.ok /\ q.failed = r.failed

\* A step that leaves them alone, outside of the pause, keeps the counts.
LEMMA SameReport ==
  ASSUME NEW r, NEW q, NEW l, NEW m, SameCounts(r, q), ReportOf(l, r),
         l # "sleep", m # "sleep"
  PROVE  ReportOf(m, q)
  BY DEF SameCounts, ReportOf, Due

\* To leave a batch at its last entry, or to turn to the next entry, settles
\* the counts when one more entry has been counted than taken out.
LEMMA SettledReport ==
  ASSUME TypeOK, BatchInv, NEW w \in Workers, pc[w] \in InBatch,
         NEW r \in Locals, r.batch = local[w].batch,
         r.ok + r.failed = r.total + r.size - Cardinality(r.batch) + 1,
         NextEntry(w, r)
  PROVE  ReportOf(pc[w], local[w])'
<1> DEFINE e == Current(w)
<1>1. /\ e \in r.batch /\ r.batch \in SUBSET Entries /\ r.batch # {}
      /\ r.total \in Nat /\ r.size \in Nat /\ r.ok \in Nat /\ r.failed \in Nat
  BY InLoop, LocalFields
<1> HIDE DEF e
<1>2. IsFiniteSet(r.batch) /\ Cardinality(r.batch) \in Nat
  BY <1>1, BatchSizes
<1>3. Cardinality(r.batch \ {e}) = Cardinality(r.batch) - 1
  BY <1>1, <1>2, FS_RemoveElement
<1>4. CASE r.batch = {e} /\ EndBatch(w, r)
  <2>1. Cardinality(r.batch) = 1
    BY <1>4, FS_Singleton
  <2>2. local'[w] = [r EXCEPT !.batch = {}, !.total = @ + r.size]
    BY <1>4 DEF EndBatch, Keep, TypeOK
  <2>3. /\ local'[w].batch = {} /\ local'[w].total = r.total + r.size
        /\ local'[w].ok = r.ok /\ local'[w].failed = r.failed
    BY <2>2 DEF Locals
  <2> QED
    BY <1>1, <2>1, <2>3 DEF ReportOf, Due
<1>5. CASE /\ r.batch # {e}
           /\ Keep(w, [r EXCEPT !.batch = @ \ {e}]) /\ Goto(w, "mark")
  <2>1. local'[w] = [r EXCEPT !.batch = @ \ {e}] /\ pc'[w] = "mark"
    BY <1>5 DEF Keep, Goto, TypeOK
  <2>2. /\ local'[w].batch = r.batch \ {e} /\ local'[w].batch # {}
        /\ local'[w].total = r.total /\ local'[w].size = r.size
        /\ local'[w].ok = r.ok /\ local'[w].failed = r.failed
    BY <1>1, <1>5, <2>1 DEF Locals
  <2> QED
    BY <1>1, <1>2, <1>3, <2>1, <2>2 DEF ReportOf, Due
<1> QED
  BY <1>4, <1>5 DEF NextEntry, e

\* Between two batches.
LEMMA RunReport ==
  ASSUME TypeOK, BatchInv, NEW w \in Workers, ReportOf(pc[w], local[w]),
         \/ StartRun(w) \/ StartSingle(w) \/ CheckQuota(w) \/ GetPendingBatch(w)
         \/ ReadQuotaStatus(w) \/ RecordHistory(w) \/ RecordRefusal(w)
  PROVE  ReportOf(pc[w], local[w])'
<1> DEFINE r == local[w]
<1>1. r \in Locals /\ BatchOf(pc[w], r)
  BY DEF TypeOK, BatchInv
<1>2. \A l : Goto(w, l) => pc'[w] = l
  BY DEF Goto, TypeOK
<1>3. \A q : Keep(w, q) => local'[w] = q
  BY DEF Keep, TypeOK
<1>4. CASE StartRun(w) \/ StartSingle(w)
  <2>1. CASE \E b : local'[w] = [Fresh EXCEPT !.respect = b]
    BY <2>1 DEF ReportOf, Due, Fresh
  <2>2. CASE /\ pc'[w] = "mark"
             /\ \E e \in Entries : local'[w] = [Fresh EXCEPT !.batch = {e}, !.size = 1]
    <3>1. PICK e \in Entries : local'[w] = [Fresh EXCEPT !.batch = {e}, !.size = 1]
      BY <2>2
    <3>2. Cardinality({e}) = 1
      BY FS_Singleton
    <3>3. /\ local'[w].batch = {e} /\ local'[w].size = 1 /\ local'[w].total = 0
          /\ local'[w].ok = 0 /\ local'[w].failed = 0
      BY <3>1 DEF Fresh
    <3> QED
      BY <2>2, <3>2, <3>3 DEF ReportOf, Due
  <2>3. CASE UNCHANGED local /\ pc[w] = "idle" /\ pc'[w] = "ended"
    BY <2>3, SameReport DEF SameCounts
  <2> QED
    BY <1>2, <1>3, <1>4, <2>1, <2>2, <2>3 DEF StartRun, StartSingle
<1>5. CASE GetPendingBatch(w)
  <2> DEFINE B == Oldest(r.allowed, Pending)
             q == [r EXCEPT !.batch = B, !.size = Cardinality(B)]
  <2>1. pc[w] = "select" /\ r.batch = {}
    BY <1>1, <1>5 DEF GetPendingBatch, BatchOf, InBatch
  <2>2. /\ r.total \in Nat /\ Cardinality(B) \in Nat
        /\ r.ok + r.failed = r.total
    BY <1>1, <2>1, LocalFields, BatchSizes DEF Oldest, Pending, ReportOf, Due
  <2>3. CASE local'[w] = q /\ pc'[w] = "mark"
    <3>1. /\ q.batch = B /\ q.size = Cardinality(B) /\ q.total = r.total
          /\ q.ok = r.ok /\ q.failed = r.failed
      BY <1>1 DEF Locals
    <3> HIDE DEF q, B
    <3>2. ReportOf("mark", q)
      BY <2>2, <3>1 DEF ReportOf, Due
    <3> QED
      BY <2>3, <3>2
  <2>4. CASE UNCHANGED local /\ pc'[w] # "sleep"
    BY <2>1, <2>4, SameReport DEF SameCounts
  <2> QED
    BY <1>2, <1>3, <1>5, <2>3, <2>4 DEF GetPendingBatch, NothingPending
<1>6. CASE CheckQuota(w) \/ ReadQuotaStatus(w) \/ RecordHistory(w) \/ RecordRefusal(w)
  <2>1. SameCounts(r, local'[w])
    <3>1. \/ UNCHANGED local
          \/ \E n : local'[w] = [r EXCEPT !.allowed = n]
          \/ local'[w] = [r EXCEPT !.limited = TRUE]
          \/ \E n : local'[w] = [r EXCEPT !.remaining = n]
      BY <1>3, <1>6 DEF CheckQuota, ReadQuotaStatus, RecordHistory, RecordRefusal
    <3> QED
      BY <1>1, <3>1 DEF SameCounts, Locals
  <2>2. pc[w] # "sleep" /\ pc'[w] # "sleep"
    BY <1>2, <1>6 DEF CheckQuota, ReadQuotaStatus, RecordHistory, RecordRefusal
  <2> QED
    BY <2>1, <2>2, SameReport
<1> QED
  BY <1>4, <1>5, <1>6

\* In the loop over a batch, while the context lives.
LEMMA EntryReport ==
  ASSUME TypeOK, BatchInv, NEW w \in Workers, ReportOf(pc[w], local[w]), ~cancelled[w],
         pc'[w] # "dead",
         \/ MarkFetching(w) \/ Answer(w) \/ FetchRateLimited(w) \/ WaitToRetry(w)
         \/ Charge(w) \/ UploadRaw(w) \/ UploadCleaned(w) \/ FindProfile(w)
         \/ SaveProfile(w) \/ RereadEntry(w) \/ CompleteEntry(w) \/ FailEntry(w)
         \/ Pause(w)
  PROVE  ReportOf(pc[w], local[w])'
<1> DEFINE r == local[w]
           c == Counted(w)
<1>1. pc[w] \in InBatch
  BY DEF MarkFetching, Answer, FetchSucceeds, FetchNotFound, FetchFails,
     FetchRateLimited, WaitToRetry, Charge, UploadRaw, UploadCleaned, FindProfile,
     SaveProfile, RereadEntry, CompleteEntry, FailEntry, Pause, InBatch
<1>2. /\ r \in Locals /\ r.batch # {} /\ Current(w) \in r.batch
      /\ r.batch \in SUBSET Entries /\ Current(w) \in Entries
      /\ r.total \in Nat /\ r.size \in Nat /\ r.ok \in Nat /\ r.failed \in Nat
  BY <1>1, InLoop, LocalFields
<1>3. Cardinality(r.batch) \in Nat
  BY <1>2, BatchSizes
<1>4. c \in Locals /\ SameCounts(r, c)
  BY <1>2, CountedIsLocal DEF SameCounts
<1> HIDE DEF c
<1>5. \A l : Goto(w, l) => pc'[w] = l
  BY DEF Goto, TypeOK
<1>6. \A q : Keep(w, q) => local'[w] = q
  BY DEF Keep, TypeOK
<1>7. CASE pc[w] # "sleep" /\ pc'[w] # "sleep" /\ SameCounts(r, local'[w])
  BY <1>7, SameReport
<1>8. CASE MarkFetching(w) \/ Answer(w) \/ FetchRateLimited(w) \/ WaitToRetry(w)
           \/ Charge(w)
  <2>1. \/ UNCHANGED local
        \/ local'[w] = c
        \/ \E n : local'[w] = [r EXCEPT !.tries = n] \/ local'[w] = [c EXCEPT !.tries = n]
        \/ \E n : local'[w] = [c EXCEPT !.key = n]
        \/ \E x : local'[w] = [r EXCEPT !.verdict = x] \/ local'[w] = [c EXCEPT !.verdict = x]
    BY <1>6, <1>8 DEF MarkFetching, Answer, FetchSucceeds, FetchNotFound, FetchFails,
       FetchRateLimited, WaitToRetry, Charge, GiveUp, c
  <2>2. SameCounts(r, local'[w])
    BY <1>2, <1>4, <2>1 DEF SameCounts, Locals
  <2>3. pc[w] # "sleep" /\ pc'[w] # "sleep"
    BY <1>5, <1>8 DEF MarkFetching, Answer, FetchSucceeds, FetchNotFound, FetchFails,
       FetchRateLimited, WaitToRetry, Charge, GiveUp
  <2> QED
    BY <1>7, <2>2, <2>3
<1>9. CASE UploadRaw(w) \/ UploadCleaned(w) \/ FindProfile(w) \/ SaveProfile(w)
           \/ RereadEntry(w)
  <2>1. \/ UNCHANGED local
        \/ \E b : local'[w] = [r EXCEPT !.found = b]
        \/ \E n : local'[w] = [r EXCEPT !.count = n]
        \/ \E x : local'[w] = [r EXCEPT !.verdict = x]
    BY <1>6, <1>9 DEF UploadRaw, RawFails, UploadCleaned, FindProfile, SaveProfile,
       RereadEntry, GiveUp
  <2>2. SameCounts(r, local'[w])
    BY <1>2, <2>1 DEF SameCounts, Locals
  <2>3. pc[w] # "sleep" /\ pc'[w] # "sleep"
    BY <1>5, <1>9 DEF UploadRaw, RawFails, UploadCleaned, FindProfile, SaveProfile,
       RereadEntry, GiveUp, Kill
  <2> QED
    BY <1>7, <2>2, <2>3
<1>10. CASE CompleteEntry(w)
  <2> DEFINE e == Current(w)
             q == [r EXCEPT !.taken = @ \cup {e}, !.ok = @ + 1]
  <2>1. q \in Locals
    BY <1>2, EntryAssigns
  <2>2. /\ q.batch = r.batch /\ q.size = r.size /\ q.total = r.total
        /\ q.ok = r.ok + 1 /\ q.failed = r.failed
    BY <1>2 DEF Locals
  <2>3. pc[w] # "sleep"
    BY <1>10 DEF CompleteEntry
  <2>4. q.ok + q.failed = q.total + q.size - Cardinality(q.batch) + 1
    BY <1>2, <1>3, <2>2, <2>3 DEF ReportOf, Due
  <2>5. \/ q.batch # {e} /\ Keep(w, q) /\ Goto(w, "sleep")
        \/ q.batch = {e} /\ EndBatch(w, q)
    BY <1>10 DEF CompleteEntry
  <2> HIDE DEF q
  <2>6. CASE Keep(w, q) /\ Goto(w, "sleep")
    <3>1. local'[w] = q /\ pc'[w] = "sleep"
      BY <1>5, <1>6, <2>6
    <3> QED
      BY <1>2, <2>2, <2>4, <3>1 DEF ReportOf, Due
  <2>7. CASE q.batch = {e} /\ EndBatch(w, q)
    <3>1. NextEntry(w, q)
      BY <2>7 DEF NextEntry
    <3> QED
      BY <1>1, <2>1, <2>2, <2>4, <3>1, SettledReport
  <2> QED
    BY <2>5, <2>6, <2>7
<1>11. CASE FailEntry(w)
  <2> DEFINE q == [r EXCEPT !.failed = @ + 1]
  <2>1. q \in Locals
    BY <1>2, EntryAssigns
  <2>2. /\ q.batch = r.batch /\ q.size = r.size /\ q.total = r.total
        /\ q.ok = r.ok /\ q.failed = r.failed + 1
    BY <1>2 DEF Locals
  <2>3. pc[w] # "sleep" /\ NextEntry(w, q)
    BY <1>11 DEF FailEntry
  <2>4. q.ok + q.failed = q.total + q.size - Cardinality(q.batch) + 1
    BY <1>2, <1>3, <2>2, <2>3 DEF ReportOf, Due
  <2> HIDE DEF q
  <2> QED
    BY <1>1, <2>1, <2>2, <2>3, <2>4, SettledReport
<1>12. CASE Pause(w)
  <2>1. pc[w] = "sleep" /\ NextEntry(w, r)
    BY <1>12 DEF Pause
  <2>2. r.ok + r.failed = r.total + r.size - Cardinality(r.batch) + 1
    BY <1>2, <1>3, <2>1 DEF ReportOf, Due
  <2> QED
    BY <1>1, <1>2, <2>1, <2>2, SettledReport
<1> QED
  BY <1>8, <1>9, <1>10, <1>11, <1>12

\* Every step keeps the counts of a worker that lives and is not cancelled.
LEMMA NextReportInv ==
  TypeOK /\ BatchInv /\ ReportInv /\ [Next]_vars => ReportInv'
<1> SUFFICES ASSUME TypeOK, BatchInv, ReportInv, [Next]_vars,
                    NEW v \in Workers, pc'[v] # "dead", ~cancelled'[v]
             PROVE  ReportOf(pc[v], local[v])'
  BY DEF ReportInv
<1>1. CASE /\ pc'[v] \in {pc[v], "dead"} /\ local'[v] = local[v]
           /\ cancelled'[v] = cancelled[v] \/ cancelled'[v]
  BY <1>1 DEF ReportInv, ReportOf, Due
<1>2. ASSUME NEW w \in Workers,
             \/ StartRun(w) \/ StartSingle(w) \/ Step(w) \/ Answer(w) \/ FetchRateLimited(w)
      PROVE  ReportOf(pc[v], local[v])'
  <2>1. UNCHANGED cancelled
    BY <1>2 DEF StartRun, StartSingle, Step, CheckQuota, GetPendingBatch, MarkFetching,
       WaitToRetry, Charge, UploadRaw, UploadCleaned, FindProfile, SaveProfile,
       RereadEntry, CompleteEntry, FailEntry, Pause, ReadQuotaStatus, RecordHistory,
       RecordRefusal, Answer, FetchSucceeds, FetchNotFound, FetchFails, FetchRateLimited
  <2>2. CASE v # w
    BY <1>1, <1>2, <2>1, <2>2, OthersRest
  <2>3. CASE v = w
    <3>1. pc[w] # "dead"
      BY <1>2, <2>3 DEF StartRun, StartSingle, Step, CheckQuota, GetPendingBatch,
         MarkFetching, WaitToRetry, Charge, UploadRaw, UploadCleaned, FindProfile,
         SaveProfile, RereadEntry, CompleteEntry, FailEntry, Pause, ReadQuotaStatus,
         RecordHistory, RecordRefusal, Answer, FetchSucceeds, FetchNotFound,
         FetchFails, FetchRateLimited
    <3>2. ~cancelled[w] /\ ReportOf(pc[w], local[w])
      BY <2>1, <2>3, <3>1 DEF ReportInv
    <3> QED
      BY <1>2, <2>3, <3>2, RunReport, EntryReport DEF Step
  <2> QED
    BY <2>2, <2>3
<1>3. CASE (\E w \in Workers : Cancel(w)) \/ (\E ps \in Processes : Crash(ps))
           \/ (\E e \in Entries : DeleteEntry(e) \/ UpdateEntry(e)) \/ UNCHANGED vars
  <2>1. /\ pc'[v] \in {pc[v], "dead"} /\ local'[v] = local[v]
        /\ cancelled'[v] = cancelled[v] \/ cancelled'[v]
    BY <1>3 DEF Cancel, Crash, Kill, DeleteEntry, UpdateEntry, vars, TypeOK
  <2> QED
    BY <1>1, <2>1
<1> QED
  BY <1>2, <1>3 DEF Next, Rest

\* A report is saved with counts that add up.
LEMMA NextHistoryAddsUp ==
  TypeOK /\ BatchInv /\ ReportInv /\ HistoryAddsUp /\ [Next]_vars => HistoryAddsUp'
<1> SUFFICES ASSUME TypeOK, BatchInv, ReportInv, HistoryAddsUp, [Next]_vars
             PROVE  HistoryAddsUp'
  OBVIOUS
<1>1. CASE UNCHANGED history
  BY <1>1 DEF HistoryAddsUp
<1>2. ASSUME NEW w \in Workers, RecordHistory(w) \/ RecordRefusal(w), ~UNCHANGED history
      PROVE  HistoryAddsUp'
  <2>1. PICK s : history' = [history EXCEPT ![w] = Report(local[w], s)]
    BY <1>2 DEF RecordHistory, RecordRefusal
  <2>2. ~cancelled[w] /\ pc[w] \in {"record", "refused"}
    BY <1>2 DEF RecordHistory, RecordRefusal, Recorded, Works
  <2>3. local[w].ok + local[w].failed = local[w].total
    BY <2>2 DEF ReportInv, ReportOf, Due, BatchInv, BatchOf, InBatch
  <2>4. /\ Report(local[w], s).ok = local[w].ok
        /\ Report(local[w], s).failed = local[w].failed
        /\ Report(local[w], s).total = local[w].total
    BY DEF Report
  <2>5. \A v \in Runs : history'[v] = history[v] \/ history'[v] = Report(local[w], s)
    BY <2>1 DEF TypeOK
  <2> QED
    BY <2>3, <2>4, <2>5 DEF HistoryAddsUp
<1>3. ASSUME NEW w \in Workers,
             \/ StartRun(w) \/ StartSingle(w) \/ Step(w) \/ Answer(w) \/ FetchRateLimited(w),
             ~(RecordHistory(w) \/ RecordRefusal(w))
      PROVE  UNCHANGED history
  BY <1>3 DEF StartRun, StartSingle, Step, CheckQuota, GetPendingBatch, MarkFetching,
     WaitToRetry, Charge, UploadRaw, UploadCleaned, FindProfile, SaveProfile,
     RereadEntry, CompleteEntry, FailEntry, Pause, ReadQuotaStatus, Answer,
     FetchSucceeds, FetchNotFound, FetchFails, FetchRateLimited, db
<1>4. CASE (\E w \in Workers : Cancel(w)) \/ (\E ps \in Processes : Crash(ps))
           \/ (\E e \in Entries : DeleteEntry(e) \/ UpdateEntry(e)) \/ UNCHANGED vars
  BY <1>1, <1>4 DEF Cancel, Crash, DeleteEntry, UpdateEntry, vars, db
<1> QED
  BY <1>1, <1>2, <1>3, <1>4 DEF Next, Rest

\* In every saved report successes and failures add up to the total, though a
\* cancelled pause counts a batch it has not finished: its report cannot be saved.
THEOREM ReportsAddUp == Spec => []HistoryAddsUp
<1> DEFINE Inv == TypeOK /\ BatchInv /\ ReportInv /\ HistoryAddsUp
<1>1. Init => ReportInv /\ HistoryAddsUp
  <2>1. Fresh.batch = {} /\ Fresh.total = 0 /\ Fresh.ok = 0 /\ Fresh.failed = 0
    BY DEF Fresh
  <2> QED
    BY <2>1 DEF Init, ReportInv, ReportOf, Due, HistoryAddsUp
<1>2. Init => Inv
  BY <1>1, InitTypes
<1>3. Inv /\ [Next]_vars => Inv'
  BY NextTypes, NextReportInv, NextHistoryAddsUp
<1> QED
  BY <1>2, <1>3, PTL DEF Spec

-------------------------------------------------------------------------------
(* What a step does to entries and fetches. *)

\* A status is written, unless the row is gone.
Writes(e, s) ==
    /\ \A d \in Entries : entry'[d].count = entry[d].count /\ (d # e => entry'[d] = entry[d])
    /\ entry'[e].status = IF entry[e].status = "GONE" THEN "GONE" ELSE s

\* It is all that SetStatus does.
LEMMA SetStatusWrites ==
  ASSUME TypeOK, NEW e \in Entries, NEW s, SetStatus(e, s)
  PROVE  Writes(e, s)
<1> DEFINE row == [entry[e] EXCEPT
                      !.status = IF entry[e].status = "GONE" THEN entry[e].status ELSE s]
<1>1. entry' = [entry EXCEPT ![e] = row] /\ entry \in [Entries -> EntryRows]
  BY DEF SetStatus, TypeOK, EntryRows
<1>2. /\ row.count = entry[e].count
      /\ row.status = IF entry[e].status = "GONE" THEN "GONE" ELSE s
  BY <1>1 DEF EntryRows
<1> HIDE DEF row
<1> QED
  BY <1>1, <1>2 DEF Writes

Tallies == <<fetched, unmarked, asked>>
Holds(w) == local'[w].batch = local[w].batch /\ local'[w].key = local[w].key

\* The kinds of steps of a worker.
Outside(w) ==
    /\ StartRun(w) \/ Live(w)
    /\ pc[w] \notin InBatch /\ pc'[w] \notin InBatch
    /\ UNCHANGED <<entry, Tallies>>

Chooses(w) ==
    /\ pc[w] = "select" /\ pc'[w] = "mark"
    /\ local'[w].batch \subseteq Pending
    /\ UNCHANGED <<entry, Tallies>>

Singled(w) ==
    /\ w \in Singles /\ pc[w] = "idle" /\ pc'[w] = "mark"
    /\ \E e \in Entries : local'[w].batch = {e} /\ asked' = [asked EXCEPT ![e] = @ + 1]
    /\ UNCHANGED <<entry, fetched, unmarked>>

Marks(w) ==
    /\ pc[w] = "mark" /\ pc'[w] = "fetch" /\ Holds(w)
    /\ \/ Works(w) /\ Writes(Current(w), "FETCHING") /\ UNCHANGED unmarked
       \/ /\ Fails(w) /\ UNCHANGED entry
          /\ unmarked' = [unmarked EXCEPT ![Current(w)] = @ + 1]
    /\ UNCHANGED <<fetched, asked>>

Fetches(w) ==
    /\ pc[w] = "fetch" /\ pc'[w] = "charge"
    /\ local'[w].batch = local[w].batch
    /\ local'[w].key = fetched'[Current(w)]
    /\ fetched' = [fetched EXCEPT ![Current(w)] = @ + 1]
    /\ UNCHANGED <<entry, unmarked, asked>>

Proceeds(w) ==
    /\ pc[w] \in Busy /\ pc'[w] \in Busy \ {"complete"} /\ Holds(w)
    /\ pc'[w] \in {"fetch", "wait"} => pc[w] \in {"fetch", "wait"}
    /\ pc'[w] \in Storing => pc[w] \in Storing
    /\ UNCHANGED <<entry, Tallies>>

Rereads(w) ==
    /\ pc[w] = "reread" /\ pc'[w] = "complete" /\ Holds(w)
    /\ local'[w].count = entry[Current(w)].count
    /\ UNCHANGED <<entry, Tallies>>

Panics(w) ==
    pc[w] = "reread" /\ pc'[w] = "dead" /\ UNCHANGED local /\ UNCHANGED <<entry, Tallies>>

Leaves(w) ==
    \/ /\ pc'[w] = "mark" /\ local[w].batch # {Current(w)}
       /\ local'[w].batch = local[w].batch \ {Current(w)}
    \/ pc'[w] = IF w \in Runs THEN "check" ELSE "ended"

Completes(w) ==
    LET e == Current(w)
    IN  /\ pc[w] = "complete"
        /\ (pc'[w] = "sleep" /\ Holds(w)) \/ Leaves(w)
        /\ \/ /\ Works(w)
              /\ \A d \in Entries \ {e} : entry'[d] = entry[d]
              /\ \/ entry[e].status = "GONE" /\ entry'[e] = entry[e]
                 \/ /\ entry[e].status # "GONE" /\ entry'[e].status = "COMPLETED"
                    /\ entry'[e].count = local[w].count + 1
           \/ Fails(w) /\ UNCHANGED entry
        /\ UNCHANGED Tallies

GivesUp(w) ==
    /\ pc[w] = "fail" /\ Leaves(w)
    /\ \/ Works(w) /\ \E s \in {"FAILED", "NOT_FOUND"} : Writes(Current(w), s)
       \/ Fails(w) /\ UNCHANGED entry
    /\ UNCHANGED Tallies

Pauses(w) == pc[w] = "sleep" /\ Leaves(w) /\ UNCHANGED <<entry, Tallies>>

\* To leave an entry, or the batch.
LEMMA Leaving ==
  ASSUME TypeOK, NEW w \in Workers, NEW r \in Locals, r.batch = local[w].batch,
         EndBatch(w, r) \/ NextEntry(w, r)
  PROVE  Leaves(w)
<1>1. CASE EndBatch(w, r)
  BY <1>1 DEF EndBatch, Goto, TypeOK, Leaves
<1>2. CASE /\ r.batch # {Current(w)}
           /\ Keep(w, [r EXCEPT !.batch = @ \ {Current(w)}]) /\ Goto(w, "mark")
  <2>1. local'[w] = [r EXCEPT !.batch = @ \ {Current(w)}] /\ pc'[w] = "mark"
    BY <1>2 DEF Keep, Goto, TypeOK
  <2>2. local'[w].batch = r.batch \ {Current(w)}
    BY <2>1 DEF Locals
  <2> QED
    BY <1>2, <2>1, <2>2 DEF Leaves
<1> QED
  BY <1>1, <1>2 DEF NextEntry

\* The steps of a run between two batches, and the start of a single fetch.
LEMMA RunEntries ==
  ASSUME TypeOK, NEW w \in Workers,
         \/ StartRun(w) \/ StartSingle(w) \/ CheckQuota(w) \/ GetPendingBatch(w)
         \/ ReadQuotaStatus(w) \/ RecordHistory(w) \/ RecordRefusal(w)
  PROVE  Outside(w) \/ Chooses(w) \/ Singled(w)
<1>1. \A l : Goto(w, l) => pc'[w] = l
  BY DEF Goto, TypeOK
<1>2. CASE StartRun(w) \/ CheckQuota(w) \/ ReadQuotaStatus(w) \/ RecordHistory(w)
           \/ RecordRefusal(w)
  BY <1>1, <1>2 DEF StartRun, CheckQuota, ReadQuotaStatus, RecordHistory, RecordRefusal,
     Outside, InBatch, Live, Tallies, db, counts, admin
<1>3. CASE StartSingle(w)
  <2>1. PICK e \in Entries :
          /\ local'[w] = [Fresh EXCEPT !.batch = {e}, !.size = 1]
          /\ asked' = [asked EXCEPT ![e] = @ + 1]
    BY <1>3 DEF StartSingle, Keep, TypeOK
  <2>2. local'[w].batch = {e}
    BY <2>1 DEF Fresh
  <2> QED
    BY <1>1, <1>3, <2>1, <2>2 DEF StartSingle, Singled, db
<1>4. CASE GetPendingBatch(w)
  <2> DEFINE B == Oldest(local[w].allowed, Pending)
  <2>1. B \subseteq Pending
    BY DEF Oldest
  <2>2. pc[w] = "select" /\ UNCHANGED <<entry, Tallies>>
    BY <1>4 DEF GetPendingBatch, Tallies, db, counts, admin
  <2> HIDE DEF B
  <2>3. CASE Keep(w, [local[w] EXCEPT !.batch = B, !.size = Cardinality(B)])
             /\ Goto(w, "mark")
    <3>1. /\ local'[w] = [local[w] EXCEPT !.batch = B, !.size = Cardinality(B)]
          /\ pc'[w] = "mark" /\ local[w] \in Locals
      BY <2>3 DEF Keep, Goto, TypeOK
    <3>2. local'[w].batch = B
      BY <3>1 DEF Locals
    <3> QED
      BY <2>1, <2>2, <3>1, <3>2 DEF Chooses
  <2>4. CASE Goto(w, "status") \/ Goto(w, "ended")
    BY <1>1, <2>2, <2>4 DEF Outside, InBatch, Live
  <2> QED
    BY <1>4, <2>3, <2>4 DEF GetPendingBatch, NothingPending, B
<1> QED
  BY <1>2, <1>3, <1>4

\* The steps up to the answer of the provider.
LEMMA FetchEntries ==
  ASSUME TypeOK, BatchInv, NEW w \in Workers,
         \/ MarkFetching(w) \/ Answer(w) \/ FetchRateLimited(w) \/ WaitToRetry(w)
         \/ Charge(w)
  PROVE  Marks(w) \/ Fetches(w) \/ Proceeds(w)
<1> DEFINE r == local[w]
           e == Current(w)
<1>1. r \in Locals /\ e \in Entries
  <2>1. pc[w] \in InBatch
    BY DEF MarkFetching, Answer, FetchSucceeds, FetchNotFound, FetchFails,
       FetchRateLimited, WaitToRetry, Charge, InBatch
  <2> QED
    BY <2>1, InLoop
<1>2. \A l : Goto(w, l) => pc'[w] = l
  BY DEF Goto, TypeOK
<1>3. \A q : Keep(w, q) => local'[w] = q
  BY DEF Keep, TypeOK
<1>4. /\ Counted(w) \in Locals /\ Counted(w).batch = r.batch /\ Counted(w).key = r.key
  BY <1>1, CountedIsLocal
<1>5. ASSUME NEW q \in Locals, q.batch = r.batch, q.key = r.key, NEW v, GiveUp(w, q, v)
      PROVE  Holds(w) /\ pc'[w] = "fail"
  <2>1. local'[w] = [q EXCEPT !.verdict = v] /\ pc'[w] = "fail"
    BY <1>5 DEF GiveUp, Keep, Goto, TypeOK
  <2>2. local'[w].batch = q.batch /\ local'[w].key = q.key
    BY <2>1 DEF Locals
  <2> QED
    BY <1>5, <2>1, <2>2 DEF Holds
<1>6. CASE MarkFetching(w)
  <2>1. local'[w] = [r EXCEPT !.tries = 0] /\ pc[w] = "mark" /\ pc'[w] = "fetch"
    BY <1>6 DEF MarkFetching, Keep, Goto, TypeOK
  <2>2. Holds(w)
    BY <1>1, <2>1 DEF Locals, Holds
  <2>3. SetStatus(e, "FETCHING") => Writes(e, "FETCHING")
    BY <1>1, SetStatusWrites
  <2> QED
    BY <1>6, <2>1, <2>2, <2>3 DEF MarkFetching, MarkRow, Marks
<1>7. CASE FetchSucceeds(w)
  <2>1. /\ local'[w] = [Counted(w) EXCEPT !.key = fetched'[e]]
        /\ pc[w] = "fetch" /\ pc'[w] = "charge"
        /\ fetched' = [fetched EXCEPT ![e] = @ + 1]
        /\ UNCHANGED <<entry, unmarked, asked>>
    BY <1>7 DEF FetchSucceeds, Keep, Goto, TypeOK, db
  <2>2. local'[w].batch = r.batch /\ local'[w].key = fetched'[e]
    BY <1>4, <2>1 DEF Locals
  <2> QED
    BY <2>1, <2>2 DEF Fetches
<1>8. CASE FetchNotFound(w) \/ FetchRateLimited(w) \/ FetchFails(w)
  <2>1. pc[w] = "fetch" /\ UNCHANGED <<entry, Tallies>>
    BY <1>8 DEF FetchNotFound, FetchRateLimited, FetchFails, Tallies, db, ghost, counts, admin
  <2>2. Holds(w) /\ pc'[w] \in {"wait", "fail"}
    <3>1. CASE Keep(w, Counted(w)) /\ Goto(w, "wait")
      BY <1>2, <1>3, <1>4, <3>1 DEF Holds
    <3>2. CASE Keep(w, [Counted(w) EXCEPT !.tries = r.tries + 1]) /\ Goto(w, "wait")
      <4>1. local'[w] = [Counted(w) EXCEPT !.tries = r.tries + 1] /\ pc'[w] = "wait"
        BY <3>2 DEF Keep, Goto, TypeOK
      <4> QED
        BY <1>4, <4>1 DEF Locals, Holds
    <3>3. CASE \E v : GiveUp(w, Counted(w), v)
      BY <1>4, <1>5, <3>3
    <3> QED
      BY <1>8, <3>1, <3>2, <3>3 DEF FetchNotFound, FetchRateLimited, FetchFails
  <2> QED
    BY <2>1, <2>2 DEF Proceeds, Busy, InBatch, Storing
<1>9. CASE WaitToRetry(w)
  <2>1. pc[w] = "wait" /\ UNCHANGED <<entry, Tallies>>
    BY <1>9 DEF WaitToRetry, Tallies, db, ghost, counts, admin
  <2>2. Holds(w) /\ pc'[w] \in {"fetch", "fail"}
    BY <1>1, <1>2, <1>5, <1>9 DEF WaitToRetry, Holds
  <2> QED
    BY <2>1, <2>2 DEF Proceeds, Busy, InBatch, Storing
<1>10. CASE Charge(w)
  <2>1. /\ pc[w] = "charge" /\ pc'[w] = "raw" /\ Holds(w)
        /\ UNCHANGED <<entry, Tallies>>
    BY <1>2, <1>10 DEF Charge, Holds, Tallies, counts, admin
  <2> QED
    BY <2>1 DEF Proceeds, Busy, InBatch, Storing
<1> QED
  BY <1>6, <1>7, <1>8, <1>9, <1>10 DEF Answer

\* The steps that store a profile and settle the entry.
LEMMA StoreEntries ==
  ASSUME TypeOK, BatchInv, NEW w \in Workers,
         \/ UploadRaw(w) \/ UploadCleaned(w) \/ FindProfile(w) \/ SaveProfile(w)
         \/ RereadEntry(w) \/ CompleteEntry(w) \/ FailEntry(w) \/ Pause(w)
  PROVE  Proceeds(w) \/ Rereads(w) \/ Panics(w) \/ Completes(w) \/ GivesUp(w) \/ Pauses(w)
<1> DEFINE r == local[w]
           e == Current(w)
<1>1. /\ r \in Locals /\ e \in Entries
      /\ pc[w] = "fail" => r.verdict # "none"
  <2>1. pc[w] \in InBatch
    BY DEF UploadRaw, UploadCleaned, FindProfile, SaveProfile, RereadEntry,
       CompleteEntry, FailEntry, Pause, InBatch
  <2> QED
    BY <2>1, InLoop
<1>2. \A l : Goto(w, l) => pc'[w] = l
  BY DEF Goto, TypeOK
<1>3. GiveUp(w, r, "FAILED") => Holds(w) /\ pc'[w] = "fail"
  <2> SUFFICES ASSUME GiveUp(w, r, "FAILED") PROVE Holds(w) /\ pc'[w] = "fail"
    OBVIOUS
  <2>1. local'[w] = [r EXCEPT !.verdict = "FAILED"] /\ pc'[w] = "fail"
    BY DEF GiveUp, Keep, Goto, TypeOK
  <2> QED
    BY <1>1, <2>1 DEF Locals, Holds
<1>4. ASSUME pc[w] \in {"raw", "cleaned", "find", "save"}, Holds(w),
             pc'[w] \in {"cleaned", "find", "save", "reread", "fail"},
             UNCHANGED <<entry, Tallies>>
      PROVE  Proceeds(w)
  BY <1>4 DEF Proceeds, Busy, InBatch, Storing
<1>5. CASE UploadRaw(w) \/ UploadCleaned(w) \/ SaveProfile(w)
  <2>1. /\ pc[w] \in {"raw", "cleaned", "find", "save"}
        /\ pc'[w] \in {"cleaned", "find", "save", "reread", "fail"}
        /\ Holds(w)
    BY <1>2, <1>3, <1>5 DEF UploadRaw, RawFails, UploadCleaned, SaveProfile, Holds
  <2>2. UNCHANGED <<entry, Tallies>>
    BY <1>5 DEF UploadRaw, RawFails, UploadCleaned, SaveProfile, Tallies, counts, admin
  <2> QED
    BY <1>4, <2>1, <2>2
<1>6. CASE FindProfile(w)
  <2>1. UNCHANGED <<entry, Tallies>> /\ pc[w] = "find"
    BY <1>6 DEF FindProfile, Tallies, counts, admin, db
  <2>2. CASE Keep(w, [r EXCEPT !.found = profile[e] # 0]) /\ Goto(w, "save")
    <3>1. local'[w] = [r EXCEPT !.found = profile[e] # 0] /\ pc'[w] = "save"
      BY <2>2 DEF Keep, Goto, TypeOK
    <3>2. Holds(w)
      BY <1>1, <3>1 DEF Locals, Holds
    <3> QED
      BY <1>4, <2>1, <3>1, <3>2
  <2> QED
    BY <1>3, <1>4, <1>6, <2>1, <2>2 DEF FindProfile
<1>7. CASE RereadEntry(w)
  <2>1. UNCHANGED <<entry, Tallies>> /\ pc[w] = "reread"
    BY <1>7 DEF RereadEntry, Tallies, counts, admin, db
  <2>2. CASE Keep(w, [r EXCEPT !.count = entry[e].count]) /\ Goto(w, "complete")
    <3>1. local'[w] = [r EXCEPT !.count = entry[e].count] /\ pc'[w] = "complete"
      BY <2>2 DEF Keep, Goto, TypeOK
    <3>2. Holds(w) /\ local'[w].count = entry[e].count
      BY <1>1, <3>1 DEF Locals, Holds
    <3> QED
      BY <2>1, <3>1, <3>2 DEF Rereads
  <2>3. CASE Kill(DieWith(w)) /\ UNCHANGED local
    <3>1. pc'[w] = "dead"
      BY <2>1, <2>3 DEF Kill, DieWith, Live
    <3> QED
      BY <2>1, <2>3, <3>1 DEF Panics
  <2> QED
    BY <1>7, <2>2, <2>3 DEF RereadEntry
<1>8. CASE CompleteEntry(w)
  <2> DEFINE q == [r EXCEPT !.taken = @ \cup {e}, !.ok = @ + 1]
             row == [status |-> "COMPLETED", key |-> r.key, count |-> CountUp(r.count)]
  <2>1. q \in Locals /\ q.batch = r.batch /\ q.key = r.key
    <3>1. q \in Locals
      BY <1>1, EntryAssigns
    <3>2. q.batch = r.batch /\ q.key = r.key
      BY <1>1 DEF Locals
    <3> QED
      BY <3>1, <3>2
  <2>2. row.status = "COMPLETED" /\ row.count = r.count + 1
    BY DEF CountUp
  <2>3. /\ pc[w] = "complete" /\ UNCHANGED Tallies
        /\ \/ /\ Works(w)
              /\ entry' = [entry EXCEPT ![e] = IF @.status = "GONE" THEN @ ELSE row]
           \/ Fails(w) /\ UNCHANGED entry
        /\ (Keep(w, q) /\ Goto(w, "sleep")) \/ EndBatch(w, q)
    BY <1>8 DEF CompleteEntry, Tallies, counts, admin
  <2> HIDE DEF q, row
  <2>4. (pc'[w] = "sleep" /\ Holds(w)) \/ Leaves(w)
    BY <2>1, <2>3, Leaving DEF Keep, Goto, TypeOK, Holds
  <2>5. entry' = [entry EXCEPT ![e] = IF @.status = "GONE" THEN @ ELSE row]
        => /\ \A d \in Entries \ {e} : entry'[d] = entry[d]
           /\ \/ entry[e].status = "GONE" /\ entry'[e] = entry[e]
              \/ /\ entry[e].status # "GONE" /\ entry'[e].status = "COMPLETED"
                 /\ entry'[e].count = r.count + 1
    BY <1>1, <2>2 DEF TypeOK
  <2> QED
    BY <2>3, <2>4, <2>5 DEF Completes
<1>9. CASE FailEntry(w)
  <2> DEFINE q == [r EXCEPT !.failed = @ + 1]
  <2>1. q \in Locals /\ q.batch = r.batch
    <3>1. q \in Locals
      BY <1>1, EntryAssigns
    <3>2. q.batch = r.batch
      BY <1>1 DEF Locals
    <3> QED
      BY <3>1, <3>2
  <2>2. /\ pc[w] = "fail" /\ UNCHANGED Tallies
        /\ (Works(w) /\ SetStatus(e, r.verdict)) \/ (Fails(w) /\ UNCHANGED entry)
        /\ NextEntry(w, q)
    BY <1>9 DEF FailEntry, WriteVerdict, Tallies, counts, admin
  <2>3. r.verdict \in {"FAILED", "NOT_FOUND"}
    BY <1>1, <2>2, LocalFields
  <2> HIDE DEF q
  <2>4. Leaves(w)
    BY <2>1, <2>2, Leaving
  <2>5. SetStatus(e, r.verdict) => Writes(e, r.verdict)
    BY <1>1, SetStatusWrites
  <2> QED
    BY <2>2, <2>3, <2>4, <2>5 DEF GivesUp
<1>10. CASE Pause(w)
  <2>1. pc[w] = "sleep" /\ UNCHANGED <<entry, Tallies>>
    BY <1>10 DEF Pause, Tallies, db, ghost, counts, admin
  <2>2. Leaves(w)
    BY <1>1, <1>10, Leaving DEF Pause
  <2> QED
    BY <2>1, <2>2 DEF Pauses
<1> QED
  BY <1>5, <1>6, <1>7, <1>8, <1>9, <1>10

\* Every step of a worker is of one of those kinds.
Working(w) ==
    \/ Outside(w) \/ Chooses(w) \/ Singled(w) \/ Marks(w) \/ Fetches(w) \/ Proceeds(w)
    \/ Rereads(w) \/ Panics(w) \/ Completes(w) \/ GivesUp(w) \/ Pauses(w)

\* The others keep what they have in hand, or die with it.
Resting(v) == pc'[v] \in {pc[v], "dead"} /\ local'[v] = local[v]

Moving(w) == Working(w) /\ \A v \in Workers \ {w} : Resting(v)

\* The steps of the environment: an entry is deleted, asked for again or set by hand.
Requeues(e) ==
    /\ entry[e].status # "PENDING"
    /\ Writes(e, "PENDING")
    /\ asked' = [asked EXCEPT ![e] = @ + 1]
    /\ UNCHANGED <<fetched, unmarked>>

Adjusts(e) ==
    /\ \E s \in Settable \ {"PENDING"} : Writes(e, s)
    /\ e \in edited'
    /\ UNCHANGED Tallies

Happening ==
    /\ \A v \in Workers : Resting(v)
    /\ \/ UNCHANGED <<entry, Tallies>>
       \/ \E e \in Entries : Writes(e, "GONE") /\ UNCHANGED Tallies
       \/ \E e \in Entries : Requeues(e) \/ Adjusts(e)

\* A worker moves, or something happens to it.
LEMMA EntrySteps ==
  ASSUME TypeOK, BatchInv, [Next]_vars
  PROVE  (\E w \in Workers : Moving(w)) \/ Happening
<1>1. ASSUME NEW w \in Workers,
             \/ StartRun(w) \/ StartSingle(w) \/ Step(w) \/ Answer(w) \/ FetchRateLimited(w)
      PROVE  Moving(w)
  <2>1. Working(w)
    BY <1>1, RunEntries, FetchEntries, StoreEntries DEF Step, Working
  <2>2. \A v \in Workers \ {w} : Resting(v)
    BY <1>1, OthersRest DEF Resting
  <2> QED
    BY <2>1, <2>2 DEF Moving
<1>2. CASE UNCHANGED vars \/ \E w \in Workers : Cancel(w)
  BY <1>2 DEF Cancel, Happening, Resting, Tallies, vars, db, ghost, counts, admin
<1>3. ASSUME NEW p \in Processes, Crash(p)
      PROVE  Happening
  BY <1>3 DEF Crash, Kill, Happening, Resting, Tallies, db, counts, admin
<1>4. ASSUME NEW e \in Entries, DeleteEntry(e)
      PROVE  Happening
  <2>1. /\ entry[e].status # "GONE" /\ entry' = [entry EXCEPT ![e].status = "GONE"]
        /\ UNCHANGED <<pc, local, Tallies>>
    BY <1>4 DEF DeleteEntry, Tallies
  <2>2. SetStatus(e, "GONE")
    BY <2>1 DEF SetStatus
  <2> QED
    BY <2>1, <2>2, SetStatusWrites DEF Happening, Resting
<1>5. ASSUME NEW e \in Entries, UpdateEntry(e)
      PROVE  Happening
  <2>1. PICK s \in Settable \ {entry[e].status} :
          /\ SetStatus(e, s)
          /\ \/ s = "PENDING" /\ asked' = [asked EXCEPT ![e] = @ + 1]
             \/ s # "PENDING" /\ e \in edited' /\ UNCHANGED asked
    BY <1>5 DEF UpdateEntry
  <2>2. UNCHANGED <<pc, local, fetched, unmarked>> /\ Writes(e, s)
    BY <1>5, <2>1, SetStatusWrites DEF UpdateEntry
  <2>3. Requeues(e) \/ Adjusts(e)
    BY <2>1, <2>2 DEF Requeues, Adjusts, Tallies
  <2> QED
    BY <2>2, <2>3 DEF Happening, Resting
<1> QED
  BY <1>1, <1>2, <1>3, <1>4, <1>5 DEF Next, Rest

-------------------------------------------------------------------------------
(* No entry is left FETCHING. *)

\* What is disturbed stays so.
LEMMA Disturbance ==
  ASSUME TypeOK, [Next]_vars
  PROVE  /\ faults' >= faults
         /\ \A w \in Workers : cancelled[w] => cancelled'[w]
         /\ \A w \in Workers : pc[w] = "dead" => pc'[w] = "dead"
<1>0. faults \in Nat /\ cancelled \in [Workers -> BOOLEAN]
  BY DEF TypeOK
<1>1. \A v : Fault \/ Works(v) \/ Fails(v) \/ UNCHANGED faults => faults' >= faults
  BY <1>0 DEF Fault, Works, Fails
<1>2. ASSUME NEW w \in Workers,
             \/ StartRun(w) \/ StartSingle(w) \/ Step(w) \/ Answer(w) \/ FetchRateLimited(w)
      PROVE  /\ faults' >= faults
             /\ UNCHANGED cancelled
             /\ \A v \in Workers : pc[v] = "dead" => pc'[v] = "dead"
  <2>1. pc[w] # "dead" /\ UNCHANGED cancelled
    BY <1>2 DEF StartRun, StartSingle, Step, CheckQuota, GetPendingBatch, MarkFetching,
       WaitToRetry, Charge, UploadRaw, UploadCleaned, FindProfile, SaveProfile,
       RereadEntry, CompleteEntry, FailEntry, Pause, ReadQuotaStatus, RecordHistory,
       RecordRefusal, Answer, FetchSucceeds, FetchNotFound, FetchFails,
       FetchRateLimited
  <2>2. \A v \in Workers \ {w} : pc[v] = "dead" => pc'[v] = "dead"
    BY <1>2, OthersRest
  <2>3. faults' >= faults
    BY <1>1, <1>2 DEF StartRun, StartSingle, Step, CheckQuota, GetPendingBatch,
       MarkFetching, WaitToRetry, Charge, UploadRaw, RawFails, UploadCleaned,
       FindProfile, SaveProfile, RereadEntry, CompleteEntry, FailEntry, Pause,
       ReadQuotaStatus, RecordHistory, Recorded, RecordRefusal, Answer, FetchSucceeds,
       FetchNotFound, FetchFails, FetchRateLimited, ghost
  <2> QED
    BY <2>1, <2>2, <2>3
<1>3. CASE \/ \E w \in Workers : Cancel(w)
           \/ \E p \in Processes : Crash(p)
           \/ \E e \in Entries : DeleteEntry(e) \/ UpdateEntry(e)
           \/ UNCHANGED vars
  <2>1. faults' >= faults
    BY <1>1, <1>3 DEF Cancel, Crash, DeleteEntry, UpdateEntry, vars, ghost
  <2>2. \A w \in Workers : cancelled[w] => cancelled'[w]
    BY <1>0, <1>3 DEF Cancel, Crash, DeleteEntry, UpdateEntry, vars
  <2>3. \A w \in Workers : pc[w] = "dead" => pc'[w] = "dead"
    BY <1>3 DEF Cancel, Crash, Kill, DeleteEntry, UpdateEntry, vars
  <2> QED
    BY <2>1, <2>2, <2>3
<1> QED
  BY <1>2, <1>3 DEF Next, Rest

\* What fails is disturbed.
LEMMA FailsDisturbs ==
  ASSUME TypeOK, [Next]_vars
  PROVE  /\ Undisturbed' => Undisturbed
         /\ \A w \in Workers : Fails(w) => ~Undisturbed'
<1>0. faults \in Nat
  BY DEF TypeOK
<1>1. /\ faults' >= faults
      /\ \A w \in Workers : cancelled[w] => cancelled'[w]
      /\ \A w \in Workers : pc[w] = "dead" => pc'[w] = "dead"
  BY Disturbance
<1>2. Undisturbed' => Undisturbed
  BY <1>0, <1>1 DEF Undisturbed
<1>3. ASSUME NEW w \in Workers, Fails(w)
      PROVE  ~Undisturbed'
  <2>1. CASE cancelled[w]
    BY <1>1, <2>1 DEF Undisturbed
  <2>2. CASE Fault
    BY <1>0, <2>2 DEF Fault, Undisturbed
  <2> QED
    BY <1>3, <2>1, <2>2 DEF Fails
<1> QED
  BY <1>2, <1>3

\* A worker that holds its batch has the same entry in hand.
LEMMA SameCurrent ==
  ASSUME NEW w \in Workers, local'[w].batch = local[w].batch
  PROVE  Current(w)' = Current(w)
BY DEF Current

\* Nobody has marked an entry when nothing has started.
LEMMA InitOrphan == Init => OrphanInv
BY DEF Init, OrphanInv

\* Every step leaves a marked entry in somebody's hands.
LEMMA NextOrphan == TypeOK /\ BatchInv /\ OrphanInv /\ [Next]_vars => OrphanInv'
<1> SUFFICES ASSUME TypeOK, BatchInv, OrphanInv, [Next]_vars, Undisturbed',
                    NEW e \in Entries \ edited', entry'[e].status = "FETCHING"
             PROVE  \E w \in Workers : pc'[w] \in Busy /\ Current(w)' = e
  BY DEF OrphanInv
<1>1. /\ Undisturbed /\ \A w \in Workers : ~Fails(w)
      /\ \A w \in Workers : pc'[w] # "dead"
      /\ e \notin edited
  BY FailsDisturbs, EditedStays DEF Undisturbed
<1>2. ASSUME NEW v \in Workers, Resting(v), pc[v] \in Busy, Current(v) = e
      PROVE  pc'[v] \in Busy /\ Current(v)' = e
  BY <1>1, <1>2, SameCurrent DEF Resting
<1>3. ASSUME entry[e].status = "FETCHING"
      PROVE  \E v \in Workers : pc[v] \in Busy /\ Current(v) = e
  BY <1>1, <1>3 DEF OrphanInv
<1>4. ASSUME NEW w \in Workers, Moving(w)
      PROVE  \E v \in Workers : pc'[v] \in Busy /\ Current(v)' = e
  <2>1. Working(w) /\ \A v \in Workers \ {w} : Resting(v)
    BY <1>4 DEF Moving
  <2>2. CASE Marks(w) /\ Current(w) = e
    <3>1. pc'[w] = "fetch" /\ Current(w)' = e
      BY <2>2, SameCurrent DEF Marks, Holds
    <3> QED
      BY <3>1 DEF Busy, InBatch
  <2>3. CASE ~(Marks(w) /\ Current(w) = e)
    <3>1. entry[e].status = "FETCHING"
      <4>1. CASE Marks(w)
        BY <1>1, <2>3, <4>1 DEF Marks, Writes
      <4>2. CASE Completes(w)
        BY <1>1, <4>2 DEF Completes
      <4>3. CASE GivesUp(w)
        BY <1>1, <4>3 DEF GivesUp, Writes
      <4>4. CASE UNCHANGED entry
        BY <4>4
      <4> QED
        BY <2>1, <4>1, <4>2, <4>3, <4>4 DEF Working, Outside, Chooses, Singled,
           Fetches, Proceeds, Rereads, Panics, Pauses
    <3>2. PICK v \in Workers : pc[v] \in Busy /\ Current(v) = e
      BY <1>3, <3>1
    <3>3. CASE v # w
      BY <1>2, <2>1, <3>2, <3>3
    <3>4. CASE v = w
      <4>1. Fetches(w) \/ Proceeds(w) \/ Rereads(w) \/ Panics(w) \/ Completes(w)
            \/ GivesUp(w)
        BY <2>1, <3>2, <3>4 DEF Working, Outside, Chooses, Singled, Marks, Pauses,
           Busy, InBatch
      <4>2. CASE Fetches(w) \/ Proceeds(w) \/ Rereads(w)
        <5>1. pc'[w] \in Busy /\ local'[w].batch = local[w].batch
          BY <4>2 DEF Fetches, Proceeds, Rereads, Holds, Busy, InBatch
        <5> QED
          BY <3>2, <3>4, <5>1, SameCurrent
      <4>3. CASE Panics(w)
        BY <1>1, <4>3 DEF Panics
      <4>4. CASE Completes(w)
        BY <1>1, <3>1, <3>2, <3>4, <4>4 DEF Completes
      <4>5. CASE GivesUp(w)
        BY <1>1, <3>1, <3>2, <3>4, <4>5 DEF GivesUp, Writes
      <4> QED
        BY <4>1, <4>2, <4>3, <4>4, <4>5
    <3> QED
      BY <3>3, <3>4
  <2> QED
    BY <2>2, <2>3
<1>5. CASE Happening
  <2>1. entry[e].status = "FETCHING"
    BY <1>5 DEF Happening, Requeues, Adjusts, Writes
  <2> QED
    BY <1>2, <1>3, <1>5, <2>1 DEF Happening
<1> QED
  BY <1>4, <1>5, EntrySteps

\* As long as nothing fails, dies or is cancelled, an entry reads FETCHING only
\* while a live worker has it in hand, however many runs and single fetches mark,
\* complete and fail it in turns.
THEOREM NoOrphansHolds == Spec => []NoOrphans
<1> DEFINE Inv == TypeOK /\ BatchInv /\ OrphanInv
<1>1. Inv => NoOrphans
  <2> SUFFICES ASSUME Inv, Undisturbed, NEW e \in Entries \ edited,
                      entry[e].status = "FETCHING"
               PROVE  \E w \in Workers : Live(w) /\ local[w].batch # {} /\ Current(w) = e
    BY DEF NoOrphans, FetchingMeansActive
  <2>1. PICK w \in Workers : pc[w] \in Busy /\ Current(w) = e
    BY DEF OrphanInv
  <2>2. Live(w) /\ pc[w] \in InBatch
    BY <2>1 DEF Busy, InBatch, Live
  <2> QED
    BY <2>1, <2>2, InLoop
<1>2. Init => Inv
  BY InitTypes, InitOrphan
<1>3. Inv /\ [Next]_vars => Inv'
  BY NextTypes, NextOrphan
<1> QED
  BY <1>1, <1>2, <1>3, PTL DEF Spec

-------------------------------------------------------------------------------
(* Counts lag behind fetches. *)

\* Fetches that are through can be counted.
LEMMA ThroughCounts ==
  ASSUME TypeOK, NEW e \in Entries
  PROVE  IsFiniteSet(Through(e)) /\ Cardinality(Through(e)) \in 0 .. fetched[e]
<1>1. fetched[e] \in Nat /\ Through(e) \in SUBSET (1 .. fetched[e])
  BY DEF TypeOK, Through
<1>2. IsFiniteSet(1 .. fetched[e]) /\ Cardinality(1 .. fetched[e]) = fetched[e]
  BY <1>1, FS_Interval
<1>3. IsFiniteSet(Through(e)) /\ Cardinality(Through(e)) <= fetched[e]
  BY <1>1, <1>2, FS_Subset
<1>4. Cardinality(Through(e)) \in Nat
  BY <1>3, FS_CardinalityType
<1> QED
  BY <1>1, <1>3, <1>4

\* And after a step.
LEMMA NextThroughCounts ==
  (TypeOK => \A e \in Entries :
     IsFiniteSet(Through(e)) /\ Cardinality(Through(e)) \in 0 .. fetched[e])'
<1>1. TypeOK => \A e \in Entries :
        IsFiniteSet(Through(e)) /\ Cardinality(Through(e)) \in 0 .. fetched[e]
  BY ThroughCounts
<1> QED
  BY <1>1, PTL

\* Who stores a profile has stored it before, or has just fetched it.
LEMMA StoresLater ==
  ASSUME TypeOK, BatchInv, [Next]_vars, NEW e \in Entries, NEW v \in Workers, Stores(v, e)'
  PROVE  \/ Stores(v, e) /\ local'[v].key = local[v].key
         \/ /\ Fetches(v) /\ Current(v) = e
            /\ \A u \in Workers \ {v} : Resting(u)
<1>1. pc'[v] \in Storing /\ Current(v)' = e
  BY DEF Stores
<1>2. CASE Resting(v)
  <2>1. pc[v] \in Storing
    BY <1>1, <1>2 DEF Resting, Storing
  <2> QED
    BY <1>1, <1>2, <2>1, SameCurrent DEF Resting, Stores
<1>3. CASE Moving(v)
  <2>1. Fetches(v) \/ Proceeds(v) \/ Rereads(v)
    BY <1>1, <1>3 DEF Moving, Working, Outside, Chooses, Singled, Marks, Panics,
       Completes, GivesUp, Pauses, Leaves, Storing, InBatch
  <2>2. CASE Fetches(v)
    BY <1>1, <1>3, <2>2, SameCurrent DEF Fetches, Moving
  <2>3. CASE Proceeds(v) \/ Rereads(v)
    <3>1. pc[v] \in Storing /\ Holds(v)
      BY <1>1, <2>3 DEF Proceeds, Rereads, Storing
    <3> QED
      BY <1>1, <3>1, SameCurrent DEF Holds, Stores
  <2> QED
    BY <2>1, <2>2, <2>3
<1> QED
  BY <1>2, <1>3, EntrySteps DEF Moving, Happening

\* One entry is fetched at most in a step.
LEMMA FetchedLater ==
  ASSUME TypeOK, BatchInv, [Next]_vars, NEW e \in Entries
  PROVE  /\ fetched'[e] \in {fetched[e], fetched[e] + 1}
         /\ \A v \in Workers : Fetches(v) /\ Current(v) = e
              => fetched'[e] = fetched[e] + 1 /\ local'[v].key = fetched[e] + 1
<1>1. fetched \in [Entries -> Nat]
  BY DEF TypeOK
<1>2. (\E w \in Workers : Moving(w)) \/ Happening
  BY EntrySteps
<1>3. ASSUME NEW w \in Workers, Fetches(w)
      PROVE  fetched'[e] = IF Current(w) = e THEN fetched[e] + 1 ELSE fetched[e]
  BY <1>1, <1>3 DEF Fetches
<1>4. ASSUME \A w \in Workers : ~Fetches(w)
      PROVE  UNCHANGED fetched
  BY <1>2, <1>4 DEF Moving, Working, Outside, Chooses, Singled, Marks, Proceeds,
     Rereads, Panics, Completes, GivesUp, Pauses, Happening, Requeues, Adjusts, Tallies
<1>5. fetched'[e] \in {fetched[e], fetched[e] + 1}
  BY <1>3, <1>4
<1>6. ASSUME NEW v \in Workers, Fetches(v), Current(v) = e
      PROVE  fetched'[e] = fetched[e] + 1 /\ local'[v].key = fetched[e] + 1
  BY <1>3, <1>6 DEF Fetches
<1> QED
  BY <1>5, <1>6

\* A fetch that is through stays so.
LEMMA ThroughLater ==
  ASSUME TypeOK, BatchInv, [Next]_vars, NEW e \in Entries
  PROVE  /\ Through(e) \subseteq Through(e)'
         /\ Cardinality(Through(e)) <= Cardinality(Through(e)')
<1>0. fetched[e] \in Nat /\ fetched'[e] \in Nat /\ fetched[e] <= fetched'[e]
  BY FetchedLater DEF TypeOK
<1>1. ASSUME NEW k \in Through(e), k \notin Through(e)'
      PROVE  FALSE
  <2>1. k \in 1 .. fetched[e] /\ k \in 1 .. fetched'[e] /\ k \notin Held(e)
    BY <1>0, <1>1 DEF Through
  <2>2. k \in Held(e)'
    BY <1>1, <2>1 DEF Through
  <2>3. PICK v \in Workers : Stores(v, e)' /\ local'[v].key = k
    BY <2>2 DEF Held
  <2>4. CASE Stores(v, e) /\ local'[v].key = local[v].key
    BY <2>1, <2>3, <2>4 DEF Held
  <2>5. CASE Fetches(v) /\ Current(v) = e
    BY <1>0, <2>1, <2>3, <2>5, FetchedLater
  <2> QED
    BY <2>3, <2>4, <2>5, StoresLater
<1>2. Through(e) \subseteq Through(e)'
  BY <1>1
<1>3. TypeOK'
  BY NextTypes
<1>4. IsFiniteSet(Through(e)')
  BY <1>3, NextThroughCounts
<1> QED
  BY <1>2, <1>4, FS_Subset

\* Each key is given once and stays with its fetch.
LEMMA NextKeys ==
  ASSUME TypeOK, BatchInv, CountInv, [Next]_vars, NEW e \in Entries
  PROVE  /\ \A w \in Workers : Stores(w, e)' => local'[w].key \in 1 .. fetched'[e]
         /\ \A v, w \in Workers :
              Stores(v, e)' /\ Stores(w, e)' /\ local'[v].key = local'[w].key => v = w
<1>0. fetched[e] \in Nat /\ fetched'[e] \in Nat /\ fetched[e] <= fetched'[e]
  BY FetchedLater DEF TypeOK
<1>1. ASSUME NEW w \in Workers, Stores(w, e)'
      PROVE  \/ Stores(w, e) /\ local'[w].key = local[w].key /\ local[w].key \in 1 .. fetched[e]
             \/ /\ Fetches(w) /\ Current(w) = e
                /\ fetched'[e] = fetched[e] + 1 /\ local'[w].key = fetched[e] + 1
                /\ \A u \in Workers \ {w} : ~Fetches(u)
  <2>1. CASE Stores(w, e) /\ local'[w].key = local[w].key
    BY <2>1 DEF CountInv
  <2>2. CASE Fetches(w) /\ Current(w) = e /\ \A u \in Workers \ {w} : Resting(u)
    BY <2>2, FetchedLater DEF Resting, Fetches
  <2> QED
    BY <1>1, <2>1, <2>2, StoresLater
<1>2. \A w \in Workers : Stores(w, e)' => local'[w].key \in 1 .. fetched'[e]
  BY <1>0, <1>1
<1>3. ASSUME NEW v \in Workers, NEW w \in Workers,
             Stores(v, e)', Stores(w, e)', local'[v].key = local'[w].key
      PROVE  v = w
  <2>1. CASE Fetches(v) \/ Fetches(w)
    BY <1>0, <1>1, <1>3, <2>1 DEF Fetches, Stores, Storing
  <2>2. CASE ~Fetches(v) /\ ~Fetches(w)
    <3>1. Stores(v, e) /\ Stores(w, e) /\ local[v].key = local[w].key
      BY <1>1, <1>3, <2>2
    <3> QED
      BY <3>1 DEF CountInv
  <2> QED
    BY <2>1, <2>2
<1> QED
  BY <1>2, <1>3

\* Who completes an entry counts a fetch that is through by that.
LEMMA CompletedCounts ==
  ASSUME TypeOK, BatchInv, CountInv, [Next]_vars, NEW w \in Workers,
         Moving(w), Completes(w), NEW e \in Entries, Current(w) = e
  PROVE  local[w].count + 1 <= Cardinality(Through(e)')
<1> DEFINE k == local[w].key
<1>0. /\ fetched[e] \in Nat /\ fetched'[e] \in Nat /\ fetched[e] <= fetched'[e]
      /\ local[w].count \in Nat
  BY FetchedLater, LocalFields DEF TypeOK
<1>1. pc[w] = "complete" /\ Stores(w, e) /\ pc'[w] \notin Storing
  BY DEF Completes, Leaves, Stores, Storing
<1>2. k \in 1 .. fetched[e] /\ local[w].count <= Cardinality(Through(e))
  BY <1>1 DEF CountInv
<1>3. k \notin Through(e)
  BY <1>1 DEF Through, Held
<1>4. k \notin Held(e)'
  <2>1. SUFFICES ASSUME NEW v \in Workers, Stores(v, e)', local'[v].key = k
                 PROVE  FALSE
    BY DEF Held
  <2>2. v # w
    BY <1>1, <2>1 DEF Stores
  <2>3. Stores(v, e) /\ local'[v].key = local[v].key
    BY <1>0, <1>2, <2>1, StoresLater, FetchedLater
  <2> QED
    BY <1>1, <2>1, <2>2, <2>3 DEF CountInv
<1>5. k \in Through(e)'
  BY <1>0, <1>2, <1>4 DEF Through
<1> HIDE DEF k
<1>6. Through(e) \cup {k} \subseteq Through(e)'
  BY <1>5, ThroughLater
<1>7. IsFiniteSet(Through(e)) /\ IsFiniteSet(Through(e)') /\ Cardinality(Through(e)) \in Nat
  BY NextTypes, ThroughCounts, NextThroughCounts
<1>8. Cardinality(Through(e) \cup {k}) = Cardinality(Through(e)) + 1
  BY <1>3, <1>7, FS_AddElement
<1>9. /\ Cardinality(Through(e) \cup {k}) <= Cardinality(Through(e)')
      /\ Cardinality(Through(e)') \in Nat
  BY <1>6, <1>7, FS_Subset, FS_CardinalityType
<1> QED
  BY <1>0, <1>2, <1>7, <1>8, <1>9

\* Nothing is counted at first.
LEMMA InitCount == Init => CountInv
<1> SUFFICES ASSUME Init PROVE CountInv
  OBVIOUS
<1>1. TypeOK
  BY InitTypes
<1>2. \A w \in Workers : pc[w] = "idle"
  BY DEF Init
<1>3. \A e \in Entries : entry[e].count = 0 /\ entry[e].status = "PENDING"
  BY DEF Init
<1>4. \A e \in Entries : Cardinality(Through(e)) \in Nat
  BY <1>1, ThroughCounts
<1> QED
  BY <1>2, <1>3, <1>4 DEF CountInv, Stores, Storing

\* No step counts a fetch that is not through.
LEMMA NextCount == TypeOK /\ BatchInv /\ CountInv /\ [Next]_vars => CountInv'
<1> SUFFICES ASSUME TypeOK, BatchInv, CountInv, [Next]_vars, NEW e \in Entries
             PROVE  /\ entry'[e].count <= Cardinality(Through(e)')
                    /\ \A w \in Workers :
                         Stores(w, e)' /\ pc'[w] = "complete"
                         => local'[w].count <= Cardinality(Through(e)')
                    /\ entry'[e].status = "COMPLETED" /\ e \notin edited' => entry'[e].count >= 1
  BY NextKeys DEF CountInv
<1>0. /\ entry[e].count \in Nat /\ entry'[e].count \in Nat
      /\ \A w \in Workers : local[w].count \in Nat
      /\ Cardinality(Through(e)) \in Nat /\ Cardinality(Through(e)') \in Nat
  BY NextTypes, ThroughCounts, NextThroughCounts, LocalFields DEF TypeOK
<1>1. Cardinality(Through(e)) <= Cardinality(Through(e)') /\ edited \subseteq edited'
  BY ThroughLater, EditedStays
<1>2. /\ entry[e].count <= Cardinality(Through(e))
      /\ entry[e].status = "COMPLETED" /\ e \notin edited => entry[e].count >= 1
  BY DEF CountInv
<1>3. ASSUME entry'[e].count = entry[e].count,
             entry'[e].status = "COMPLETED" /\ e \notin edited'
             => entry[e].status = "COMPLETED"
      PROVE  /\ entry'[e].count <= Cardinality(Through(e)')
             /\ entry'[e].status = "COMPLETED" /\ e \notin edited' => entry'[e].count >= 1
  BY <1>0, <1>1, <1>2, <1>3
<1>4. /\ entry'[e].count <= Cardinality(Through(e)')
      /\ entry'[e].status = "COMPLETED" /\ e \notin edited' => entry'[e].count >= 1
  <2>1. ASSUME NEW w \in Workers, Moving(w)
        PROVE  /\ entry'[e].count <= Cardinality(Through(e)')
               /\ entry'[e].status = "COMPLETED" /\ e \notin edited' => entry'[e].count >= 1
    <3>1. CASE Completes(w) /\ Current(w) = e /\ entry'[e].count = local[w].count + 1
      BY <1>0, <2>1, <3>1, CompletedCounts
    <3>2. CASE Completes(w) /\ ~(Current(w) = e /\ entry'[e].count = local[w].count + 1)
      BY <1>3, <3>2 DEF Completes
    <3>3. CASE Marks(w) \/ GivesUp(w)
      <4>1. /\ \/ UNCHANGED entry
               \/ \E s \in {"FETCHING", "FAILED", "NOT_FOUND"} : Writes(Current(w), s)
        BY <3>3 DEF Marks, GivesUp
      <4> QED
        BY <1>3, <4>1 DEF Writes
    <3>4. CASE UNCHANGED entry
      BY <1>3, <3>4
    <3> QED
      BY <2>1, <3>1, <3>2, <3>3, <3>4 DEF Moving, Working, Outside, Chooses, Singled,
         Fetches, Proceeds, Rereads, Panics, Pauses
  <2>2. CASE Happening
    <3>1. \/ UNCHANGED entry
          \/ \E d \in Entries, s \in {"GONE", "PENDING"} : Writes(d, s)
          \/ \E d \in Entries : Adjusts(d)
      BY <2>2 DEF Happening, Requeues
    <3> QED
      BY <1>3, <3>1 DEF Writes, Adjusts
  <2> QED
    BY <2>1, <2>2, EntrySteps
<1>5. ASSUME NEW w \in Workers, Stores(w, e)', pc'[w] = "complete"
      PROVE  local'[w].count <= Cardinality(Through(e)')
  <2>1. CASE Resting(w)
    <3>1. Stores(w, e) /\ pc[w] = "complete" /\ local'[w].count = local[w].count
      BY <1>5, <2>1, SameCurrent DEF Resting, Stores
    <3>2. local[w].count <= Cardinality(Through(e))
      BY <3>1 DEF CountInv
    <3> QED
      BY <1>0, <1>1, <3>1, <3>2
  <2>2. CASE Moving(w)
    <3>1. Rereads(w)
      BY <1>5, <2>2 DEF Moving, Working, Outside, Chooses, Singled, Marks, Fetches,
         Proceeds, Panics, Completes, GivesUp, Pauses, Leaves, InBatch
    <3>2. Current(w) = e
      BY <1>5, <3>1, SameCurrent DEF Rereads, Holds, Stores
    <3> QED
      BY <1>0, <1>1, <1>2, <3>1, <3>2 DEF Rereads
  <2> QED
    BY <2>1, <2>2, EntrySteps DEF Moving, Happening
<1> QED
  BY <1>4, <1>5

\* However many executions fetch an entry at once, its fetch_count never counts a
\* fetch that was not made, although UpdateAfterFetch writes back one more than it
\* read some time before; and a completed entry counts one at least.
THEOREM FetchCountLagsHolds == Spec => []FetchCountLags
<1> DEFINE Inv == TypeOK /\ BatchInv /\ CountInv
<1>1. Inv => FetchCountLags
  <2> SUFFICES ASSUME Inv, NEW e \in Entries
               PROVE  /\ entry[e].count <= fetched[e]
                      /\ entry[e].status = "COMPLETED" /\ e \notin edited => entry[e].count >= 1
    BY DEF FetchCountLags
  <2>1. /\ entry[e].count \in Nat /\ fetched[e] \in Nat
        /\ entry[e].count <= Cardinality(Through(e))
        /\ entry[e].status = "COMPLETED" /\ e \notin edited => entry[e].count >= 1
    BY DEF TypeOK, CountInv
  <2>2. Cardinality(Through(e)) \in 0 .. fetched[e]
    BY ThroughCounts
  <2> QED
    BY <2>1, <2>2
<1>2. Init => Inv
  BY InitTypes, InitCount
<1>3. Inv /\ [Next]_vars => Inv'
  BY NextTypes, NextCount
<1> QED
  BY <1>1, <1>2, <1>3, PTL DEF Spec
===============================================================================
