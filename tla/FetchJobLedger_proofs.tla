-------------------------- MODULE FetchJobLedger_proofs --------------------------
(***************************************************************************)
(* Runs that do not overlap: those that respect the quota keep it, so that *)
(* FetchJob implements QuotaLedger, and leave their reports; an entry is   *)
(* fetched as often as was asked and stays as it was settled.  All for any *)
(* number of entries, runs and failures, any batch size and any limit.     *)
(***************************************************************************)
EXTENDS FetchJob_proofs

-------------------------------------------------------------------------------
(* How many entries a batch holds. *)

\* Some entry comes last in a set of entries.
LEMMA GreatestInSet ==
  ASSUME NEW S, S \subseteq Entries, S # {}
  PROVE  \E x \in S : \A y \in S : y <= x
<1> DEFINE T == {NumEntries - x : x \in S}
<1>0. NumEntries \in Nat
  BY FetchJobAssumption
<1>1. NumEntries \in Nat /\ S \subseteq Nat /\ \A x \in S : x <= NumEntries
  BY <1>0 DEF Entries
<1>2. T \subseteq Nat /\ T # {}
  <2>1. \A x \in S : NumEntries - x \in Nat
    BY <1>1
  <2>2. PICK x \in S : TRUE
    OBVIOUS
  <2>3. NumEntries - x \in T
    OBVIOUS
  <2> QED
    BY <2>1, <2>3
<1>3. \E t \in T : \A u \in T : ~(u < t)
  <2> HIDE DEF T
  <2>1. IsWellFoundedOn(OpToRel(<, Nat), Nat)
    BY NatLessThanWellFounded
  <2>2. \E t \in T : \A u \in T : <<u, t>> \notin OpToRel(<, Nat)
    BY <1>2, <2>1, WFMin
  <2> QED
    BY <1>2, <2>2 DEF OpToRel
<1>4. PICK x \in S : \A u \in T : ~(u < NumEntries - x)
  BY <1>3
<1>5. \A y \in S : ~(NumEntries - y < NumEntries - x)
  BY <1>4
<1>6. \A y \in S : y <= x
  BY <1>1, <1>5
<1> QED
  BY <1>6

\* GetPendingBatch with LIMIT n returns n entries at most.
LEMMA OldestSize ==
  ASSUME NEW n \in Nat, NEW S \in SUBSET Entries
  PROVE  Cardinality(Oldest(n, S)) <= n
<1> DEFINE B == Oldest(n, S)
<1>1. B \in SUBSET Entries
  BY DEF Oldest
<1>2. CASE B = {}
  BY <1>2, FS_EmptySet
<1>3. CASE B # {}
  <2>1. PICK x \in B : \A y \in B : y <= x
    BY <1>1, <1>3, GreatestInSet
  <2> DEFINE C == {d \in S : d < x}
  <2>2. Cardinality(C) < n
    BY <2>1 DEF Oldest
  <2>3. B \ {x} \subseteq C
    <3>1. \A y \in B \ {x} : y \in S /\ y \in Nat /\ x \in Nat /\ y <= x /\ y # x
      BY <1>1, <2>1 DEF Oldest, Entries
    <3> QED
      BY <3>1
  <2>4. /\ IsFiniteSet(C) /\ Cardinality(C) \in Nat
        /\ IsFiniteSet(B) /\ Cardinality(B) \in Nat
    BY <1>1, BatchSizes
  <2> HIDE DEF B, C
  <2>5. Cardinality(B \ {x}) <= Cardinality(C)
    BY <2>3, <2>4, FS_Subset
  <2>6. Cardinality(B \ {x}) = Cardinality(B) - 1
    BY <2>1, <2>4, FS_RemoveElement
  <2> QED
    BY <2>2, <2>4, <2>5, <2>6 DEF B
<1> QED
  BY <1>2, <1>3

-------------------------------------------------------------------------------
(* Credit. *)

\* Credit is a number; in the loop over a batch there is an entry in hand.
LEMMA CreditNat ==
  ASSUME TypeOK, BatchInv, NEW w \in Workers
  PROVE  /\ Credit(w) \in Nat
         /\ pc[w] \in InBatch => Cardinality(local[w].batch) \in Nat \ {0}
         /\ ~Live(w) => Credit(w) = 0
<1>1. local[w] \in Locals /\ local[w].allowed \in Nat /\ local[w].batch \in SUBSET Entries
  BY LocalFields DEF TypeOK
<1>2. IsFiniteSet(local[w].batch) /\ Cardinality(local[w].batch) \in Nat
  BY <1>1, BatchSizes
<1>3. ASSUME pc[w] \in InBatch
      PROVE  Cardinality(local[w].batch) \in Nat \ {0}
  <2>1. local[w].batch # {}
    BY <1>3, InLoop
  <2>2. Cardinality(local[w].batch) # 0
    BY <1>2, <2>1, FS_EmptySet
  <2> QED
    BY <1>2, <2>2
<1>4. Uncharged \cup Done = InBatch
  BY DEF Uncharged, Done, InBatch
<1>5. Credit(w) \in Nat
  BY <1>1, <1>3, <1>4 DEF Credit, CreditAt, Uncharged, Done
<1>6. ~Live(w) => Credit(w) = 0
  BY DEF Live, Credit, CreditAt, Uncharged, Done
<1> QED
  BY <1>3, <1>5, <1>6

\* The same for all runs at once.
LEMMA CreditNats == TypeOK /\ BatchInv => \A v \in Runs : Credit(v) \in Nat
  BY CreditNat DEF Workers

\* And after a step.
LEMMA NextCreditNats == (TypeOK /\ BatchInv => \A v \in Runs : Credit(v) \in Nat)'
  BY CreditNats, PTL

\* What a step of a run does to its credit and the counter: nothing more than to
\* give some up, or it reserves, or it charges one call.
Lapses(w)   == used' = used /\ Credit(w)' <= Credit(w)
Reserves(w) == used' = used /\ Credit(w)' \in 1 .. (Limit - used)
Charges(w)  == used' = used + 1 /\ Credit(w)' = Credit(w) - 1

\* A step in the loop that leaves the batch as it is gives up one entry at most.
LEMMA SameBatchLapses ==
  ASSUME TypeOK, BatchInv, NEW w \in Workers, UNCHANGED used,
         local'[w].batch = local[w].batch,
         \/ pc[w] \in Uncharged /\ pc'[w] \in Uncharged \cup Done \cup {"dead"}
         \/ pc[w] \in Done /\ pc'[w] \in Done \cup {"dead"}
  PROVE  Lapses(w)
<1>1. Cardinality(local[w].batch) \in Nat \ {0}
  BY CreditNat DEF InBatch, Uncharged, Done
<1> QED
  BY <1>1 DEF Lapses, Credit, CreditAt, Uncharged, Done

\* To leave a batch, or the entry that was paid for or given up, costs no credit.
LEMMA LeavingLapses ==
  ASSUME TypeOK, BatchInv, NEW w \in Workers, w \in Runs, UNCHANGED used,
         pc[w] \in Done, NEW r \in Locals, r.batch = local[w].batch,
         EndBatch(w, r) \/ NextEntry(w, r)
  PROVE  Lapses(w) /\ local'[w].respect = r.respect
<1> DEFINE e == Current(w)
<1>1. /\ pc[w] \in InBatch /\ Cardinality(r.batch) \in Nat \ {0}
      /\ e \in r.batch /\ IsFiniteSet(r.batch)
  BY InLoop, CreditNat, LocalFields, BatchSizes DEF InBatch, Done
<1>2. Credit(w) = Cardinality(r.batch) - 1
  BY DEF Credit, CreditAt, Uncharged, Done
<1> HIDE DEF e
<1>3. CASE EndBatch(w, r)
  <2>1. pc'[w] = "check" /\ local'[w] = [r EXCEPT !.batch = {}, !.total = @ + r.size]
    BY <1>3 DEF EndBatch, Goto, Keep, TypeOK
  <2>2. Credit(w)' = 0
    BY <2>1 DEF Credit, CreditAt, Uncharged, Done
  <2> QED
    BY <1>1, <1>2, <2>1, <2>2 DEF Lapses, Locals
<1>4. CASE Keep(w, [r EXCEPT !.batch = @ \ {e}]) /\ Goto(w, "mark")
  <2>1. pc'[w] = "mark" /\ local'[w] = [r EXCEPT !.batch = @ \ {e}]
    BY <1>4 DEF Keep, Goto, TypeOK
  <2>2. local'[w].batch = r.batch \ {e} /\ local'[w].respect = r.respect
    BY <2>1 DEF Locals
  <2>3. Cardinality(r.batch \ {e}) = Cardinality(r.batch) - 1
    BY <1>1, FS_RemoveElement
  <2> QED
    BY <1>1, <1>2, <2>1, <2>2, <2>3 DEF Lapses, Credit, CreditAt, Uncharged, Done
<1> QED
  BY <1>3, <1>4 DEF NextEntry, e

\* A worker holds its batch and its setting.
Hold(r, q) == q.batch = r.batch /\ q.respect = r.respect

\* To give up an entry keeps both.
LEMMA GiveUpHolds ==
  ASSUME TypeOK, NEW w \in Workers, NEW q \in Locals, NEW x, GiveUp(w, q, x)
  PROVE  Hold(q, local'[w]) /\ pc'[w] = "fail"
<1>1. local'[w] = [q EXCEPT !.verdict = x] /\ pc'[w] = "fail"
  BY DEF GiveUp, Keep, Goto, TypeOK
<1> QED
  BY <1>1 DEF Locals, Hold

\* The provider's answers: each keeps the batch.
LEMMA FetchLapses ==
  ASSUME TypeOK, BatchInv, NEW w \in Runs, local[w].respect = TRUE,
         \/ MarkFetching(w) \/ Answer(w) \/ FetchRateLimited(w) \/ WaitToRetry(w)
  PROVE  Lapses(w) /\ local'[w].respect = TRUE
<1> DEFINE r == local[w]
<1>1. w \in Workers /\ r \in Locals
  BY DEF TypeOK, Workers
<1>2. UNCHANGED used /\ pc[w] \in Uncharged
  BY DEF MarkFetching, Answer, FetchSucceeds, FetchNotFound, FetchFails,
     FetchRateLimited, WaitToRetry, Uncharged, db
<1>3. \A l : Goto(w, l) => pc'[w] = l
  BY <1>1 DEF Goto, TypeOK
<1>4. \A q : Keep(w, q) => local'[w] = q
  BY <1>1 DEF Keep, TypeOK
<1>5. Counted(w) \in Locals /\ Hold(r, Counted(w))
  <2>1. Counted(w) \in Locals /\ Counted(w).batch = r.batch
    BY <1>1, CountedIsLocal
  <2>2. Counted(w).respect = r.respect
    BY <1>1 DEF Counted, Locals
  <2> QED
    BY <2>1, <2>2 DEF Hold
<1>6. \A q \in Locals : \A x : Hold(r, q) /\ GiveUp(w, q, x)
        => Hold(r, local'[w]) /\ pc'[w] = "fail"
  BY <1>1, GiveUpHolds DEF Hold
<1>7. Hold(r, local'[w]) /\ pc'[w] \in {"fetch", "charge", "wait", "fail"}
  <2>1. CASE MarkFetching(w)
    <3>1. local'[w] = [r EXCEPT !.tries = 0] /\ pc'[w] = "fetch"
      BY <1>1, <2>1 DEF MarkFetching, Keep, Goto, TypeOK
    <3> QED
      BY <1>1, <3>1 DEF Locals, Hold
  <2>2. CASE FetchSucceeds(w)
    <3>1. /\ local'[w] = [Counted(w) EXCEPT !.key = fetched'[Current(w)]]
          /\ pc'[w] = "charge"
      BY <1>1, <2>2 DEF FetchSucceeds, Keep, Goto, TypeOK
    <3> QED
      BY <1>5, <3>1 DEF Locals, Hold
  <2>3. CASE FetchNotFound(w)
    BY <1>5, <1>6, <2>3 DEF FetchNotFound
  <2>4. CASE FetchRateLimited(w)
    BY <1>3, <1>4, <1>5, <2>4 DEF FetchRateLimited
  <2>5. CASE FetchFails(w)
    <3>1. CASE GiveUp(w, Counted(w), "FAILED")
      BY <1>5, <1>6, <3>1
    <3>2. CASE Keep(w, [Counted(w) EXCEPT !.tries = r.tries + 1]) /\ Goto(w, "wait")
      <4>1. local'[w] = [Counted(w) EXCEPT !.tries = r.tries + 1] /\ pc'[w] = "wait"
        BY <1>1, <3>2 DEF Keep, Goto, TypeOK
      <4> QED
        BY <1>5, <4>1 DEF Locals, Hold
    <3> QED
      BY <2>5, <3>1, <3>2 DEF FetchFails
  <2>6. CASE WaitToRetry(w)
    <3>1. Hold(r, r)
      BY DEF Hold
    <3> QED
      BY <1>1, <1>3, <1>6, <2>6, <3>1 DEF WaitToRetry
  <2> QED
    BY <2>1, <2>2, <2>3, <2>4, <2>5, <2>6 DEF Answer
<1>8. Lapses(w)
  BY <1>1, <1>2, <1>7, SameBatchLapses DEF Hold, Uncharged, Done
<1> QED
  BY <1>7, <1>8 DEF Hold

\* IncrementCallCount charges the profile in hand, or fails and forgets it.
LEMMA ChargeCharges ==
  ASSUME TypeOK, BatchInv, NEW w \in Runs, local[w].respect = TRUE, Charge(w)
  PROVE  (Lapses(w) \/ Charges(w)) /\ local'[w].respect = TRUE
<1>1. /\ w \in Workers /\ pc[w] = "charge" /\ pc'[w] = "raw" /\ UNCHANGED local
      /\ used' \in {used, used + 1}
  BY DEF Charge, Goto, TypeOK, Workers
<1>2. Cardinality(local[w].batch) \in Nat \ {0}
  BY <1>1, CreditNat DEF InBatch
<1>3. Credit(w)' = Credit(w) - 1
  BY <1>1, <1>2 DEF Credit, CreditAt, Uncharged, Done
<1>4. Credit(w) \in Nat
  BY <1>1, CreditNat
<1> QED
  BY <1>1, <1>3, <1>4 DEF Lapses, Charges

\* Storing the profile and settling the entry costs no credit.
LEMMA StoreLapses ==
  ASSUME TypeOK, BatchInv, NEW w \in Runs, local[w].respect = TRUE,
         \/ UploadRaw(w) \/ UploadCleaned(w) \/ FindProfile(w) \/ SaveProfile(w)
         \/ RereadEntry(w) \/ CompleteEntry(w) \/ FailEntry(w) \/ Pause(w)
  PROVE  Lapses(w) /\ local'[w].respect = TRUE
<1> DEFINE r == local[w]
<1>1. w \in Workers /\ r \in Locals
  BY DEF TypeOK, Workers
<1>2. UNCHANGED used /\ pc[w] \in Done
  BY DEF UploadRaw, UploadCleaned, FindProfile, SaveProfile, RereadEntry,
     CompleteEntry, FailEntry, Pause, Done, db
<1>3. \A l : Goto(w, l) => pc'[w] = l
  BY <1>1 DEF Goto, TypeOK
<1>4. \A q : Keep(w, q) => local'[w] = q
  BY <1>1 DEF Keep, TypeOK
<1>5. Hold(r, r)
  BY DEF Hold
<1>6. ASSUME Hold(r, local'[w]), pc'[w] \in Done \cup {"dead"}
      PROVE  Lapses(w) /\ local'[w].respect = TRUE
  BY <1>1, <1>2, <1>6, SameBatchLapses DEF Hold
<1>7. ASSUME NEW q \in Locals, Hold(r, q), EndBatch(w, q) \/ NextEntry(w, q)
      PROVE  Lapses(w) /\ local'[w].respect = TRUE
  BY <1>1, <1>2, <1>7, LeavingLapses DEF Hold
<1>8. GiveUp(w, r, "FAILED") => Hold(r, local'[w]) /\ pc'[w] = "fail"
  BY <1>1, GiveUpHolds
<1> USE DEF Done
<1>9. CASE UploadRaw(w) \/ UploadCleaned(w) \/ SaveProfile(w)
  BY <1>3, <1>5, <1>6, <1>8, <1>9 DEF UploadRaw, RawFails, UploadCleaned, SaveProfile
<1>10. CASE FindProfile(w)
  <2>1. ASSUME NEW b \in BOOLEAN, Keep(w, [r EXCEPT !.found = b]), Goto(w, "save")
        PROVE  Lapses(w) /\ local'[w].respect = TRUE
    <3>1. local'[w] = [r EXCEPT !.found = b] /\ pc'[w] = "save"
      BY <1>1, <2>1 DEF Keep, Goto, TypeOK
    <3>2. Hold(r, local'[w])
      BY <1>1, <3>1 DEF Locals, Hold
    <3> QED
      BY <1>6, <3>1, <3>2
  <2> QED
    BY <1>6, <1>8, <1>10, <2>1 DEF FindProfile
<1>11. CASE RereadEntry(w)
  <2>1. \A ws : Kill(ws) => pc'[w] \in {"dead", pc[w]}
    BY <1>1 DEF Kill
  <2> QED
    <3>1. CASE UNCHANGED local /\ Kill(DieWith(w))
      BY <1>2, <1>5, <1>6, <2>1, <3>1
    <3>2. CASE Keep(w, [r EXCEPT !.count = entry[Current(w)].count]) /\ Goto(w, "complete")
      <4>1. /\ local'[w] = [r EXCEPT !.count = entry[Current(w)].count]
            /\ pc'[w] = "complete"
        BY <1>1, <3>2 DEF Keep, Goto, TypeOK
      <4>2. Hold(r, local'[w])
        BY <1>1, <4>1 DEF Locals, Hold
      <4> QED
        BY <1>6, <4>1, <4>2
    <3> QED
      BY <1>11, <3>1, <3>2 DEF RereadEntry
<1>12. CASE CompleteEntry(w)
  <2> DEFINE q == [r EXCEPT !.taken = @ \cup {Current(w)}, !.ok = @ + 1]
  <2>1. q \in Locals /\ Hold(r, q)
    <3>1. Current(w) \in Entries
      BY <1>1, <1>2, InLoop DEF InBatch
    <3> QED
      BY <1>1, <3>1, EntryAssigns DEF Locals, Hold
  <2>2. (Keep(w, q) /\ Goto(w, "sleep")) \/ EndBatch(w, q)
    BY <1>12 DEF CompleteEntry
  <2> HIDE DEF q
  <2> QED
    BY <1>3, <1>4, <1>6, <1>7, <2>1, <2>2
<1>13. CASE FailEntry(w)
  <2> DEFINE q == [r EXCEPT !.failed = @ + 1]
  <2>1. q \in Locals /\ Hold(r, q)
    <3>1. Current(w) \in Entries
      BY <1>1, <1>2, InLoop DEF InBatch
    <3> QED
      BY <1>1, <3>1, EntryAssigns DEF Locals, Hold
  <2>2. NextEntry(w, q)
    BY <1>13 DEF FailEntry
  <2> HIDE DEF q
  <2> QED
    BY <1>7, <2>1, <2>2
<1>14. CASE Pause(w)
  BY <1>1, <1>5, <1>7, <1>14 DEF Pause
<1> QED
  BY <1>9, <1>10, <1>11, <1>12, <1>13, <1>14

\* A run that starts has no credit yet.
LEMMA StartLapses ==
  ASSUME RespectQuota = {TRUE}, TypeOK, BatchInv, NEW w \in Runs,
         local[w].respect = TRUE, StartRun(w)
  PROVE  Lapses(w) /\ local'[w].respect = TRUE
<1>1. w \in Workers /\ UNCHANGED used /\ pc[w] = "idle"
  BY DEF Workers, StartRun, db
<1>2. pc'[w] \in {"check", "ended"}
  BY <1>1 DEF StartRun, Goto, TypeOK
<1>3. Credit(w) = 0 /\ Credit(w)' = 0
  BY <1>1, <1>2 DEF Credit, CreditAt, Uncharged, Done
<1>4. local'[w] = local[w] \/ local'[w] = [Fresh EXCEPT !.respect = TRUE]
  BY <1>1 DEF StartRun, Keep, TypeOK
<1>5. local'[w].respect = TRUE
  BY <1>4 DEF Fresh
<1> QED
  BY <1>1, <1>3, <1>5 DEF Lapses

\* CheckAndReserveQuota allows no more than is left, and a run that respects
\* the quota takes a refusal for an answer.
LEMMA CheckReserves ==
  ASSUME TypeOK, BatchInv, NEW w \in Runs, local[w].respect = TRUE, CheckQuota(w)
  PROVE  (Lapses(w) \/ Reserves(w)) /\ local'[w].respect = TRUE
<1> DEFINE r == local[w]
<1>1. /\ w \in Workers /\ UNCHANGED used /\ pc[w] = "check" /\ r \in Locals
      /\ used \in Nat /\ Limit \in Nat /\ BatchSize \in Nat \ {0}
  BY FetchJobAssumption DEF Workers, CheckQuota, db, TypeOK
<1>2. Credit(w) = 0
  BY <1>1 DEF Credit, CreditAt, Uncharged, Done
<1>3. CASE /\ used < Limit
           /\ Keep(w, [r EXCEPT !.allowed = Allowed(Limit - used)]) /\ Goto(w, "select")
  <2>1. local'[w] = [r EXCEPT !.allowed = Allowed(Limit - used)] /\ pc'[w] = "select"
    BY <1>1, <1>3 DEF Keep, Goto, TypeOK
  <2>2. local'[w].allowed = Allowed(Limit - used) /\ local'[w].respect = TRUE
    BY <1>1, <2>1 DEF Locals
  <2>3. Credit(w)' = Allowed(Limit - used)
    BY <2>1, <2>2 DEF Credit, CreditAt, Uncharged, Done
  <2>4. Allowed(Limit - used) \in 1 .. (Limit - used)
    BY <1>1, <1>3 DEF Allowed
  <2> QED
    BY <1>1, <2>2, <2>3, <2>4 DEF Reserves
<1>4. CASE Goto(w, "refused") /\ UNCHANGED local
  <2>1. pc'[w] = "refused"
    BY <1>1, <1>4 DEF Goto, TypeOK
  <2> QED
    BY <1>1, <1>2, <1>4, <2>1 DEF Lapses, Credit, CreditAt, Uncharged, Done
<1>5. CASE Keep(w, [r EXCEPT !.limited = TRUE]) /\ Goto(w, "status")
  <2>1. local'[w] = [r EXCEPT !.limited = TRUE] /\ pc'[w] = "status"
    BY <1>1, <1>5 DEF Keep, Goto, TypeOK
  <2>2. local'[w].respect = TRUE
    BY <1>1, <2>1 DEF Locals
  <2> QED
    BY <1>1, <1>2, <2>1, <2>2 DEF Lapses, Credit, CreditAt, Uncharged, Done
<1> QED
  BY <1>3, <1>4, <1>5 DEF CheckQuota

\* The batch that is read holds no more entries than were allowed.
LEMMA BatchLapses ==
  ASSUME TypeOK, BatchInv, NEW w \in Runs, local[w].respect = TRUE, GetPendingBatch(w)
  PROVE  Lapses(w) /\ local'[w].respect = TRUE
<1> DEFINE r == local[w]
           B == Oldest(r.allowed, Pending)
<1>1. /\ w \in Workers /\ UNCHANGED used /\ pc[w] = "select" /\ r \in Locals
      /\ r.allowed \in Nat /\ Pending \in SUBSET Entries
  BY LocalFields DEF Workers, GetPendingBatch, db, TypeOK, Pending
<1>2. Credit(w) = r.allowed
  BY <1>1 DEF Credit, CreditAt, Uncharged, Done
<1>3. Cardinality(B) <= r.allowed
  BY <1>1, OldestSize
<1> HIDE DEF B
<1>4. CASE /\ Keep(w, [r EXCEPT !.batch = B, !.size = Cardinality(B)])
           /\ Goto(w, "mark")
  <2>1. local'[w] = [r EXCEPT !.batch = B, !.size = Cardinality(B)] /\ pc'[w] = "mark"
    BY <1>1, <1>4 DEF Keep, Goto, TypeOK
  <2>2. local'[w].batch = B /\ local'[w].respect = TRUE
    BY <1>1, <2>1 DEF Locals
  <2>3. Credit(w)' = Cardinality(B)
    BY <2>1, <2>2 DEF Credit, CreditAt, Uncharged, Done
  <2> QED
    BY <1>1, <1>2, <1>3, <2>2, <2>3 DEF Lapses
<1>5. CASE UNCHANGED local /\ (Goto(w, "status") \/ Goto(w, "ended"))
  <2>1. pc'[w] \in {"status", "ended"}
    BY <1>1, <1>5 DEF Goto, TypeOK
  <2>2. Credit(w)' = 0
    BY <2>1 DEF Credit, CreditAt, Uncharged, Done
  <2> QED
    BY <1>1, <1>2, <1>5, <2>2 DEF Lapses
<1> QED
  BY <1>4, <1>5 DEF GetPendingBatch, NothingPending, B

\* A report is written without credit.
LEMMA ReportLapses ==
  ASSUME TypeOK, BatchInv, NEW w \in Runs, local[w].respect = TRUE,
         ReadQuotaStatus(w) \/ RecordHistory(w) \/ RecordRefusal(w)
  PROVE  Lapses(w) /\ local'[w].respect = TRUE
<1> DEFINE r == local[w]
<1>1. /\ w \in Workers /\ UNCHANGED used /\ r \in Locals
      /\ pc[w] \in {"status", "record", "refused"}
  BY DEF Workers, ReadQuotaStatus, RecordHistory, RecordRefusal, db, TypeOK
<1>2. pc'[w] \in {"record", "ended"}
  BY <1>1 DEF ReadQuotaStatus, RecordHistory, RecordRefusal, Goto, TypeOK
<1>3. Credit(w) = 0 /\ Credit(w)' = 0
  BY <1>1, <1>2 DEF Credit, CreditAt, Uncharged, Done
<1>4. local'[w] = r \/ \E n : local'[w] = [r EXCEPT !.remaining = n]
  BY <1>1 DEF ReadQuotaStatus, RecordHistory, RecordRefusal, Keep, TypeOK
<1>5. local'[w].respect = TRUE
  BY <1>1, <1>4 DEF Locals
<1> QED
  BY <1>1, <1>3, <1>5 DEF Lapses

\* Every step of a run, taken together.
LEMMA RunMoves ==
  ASSUME RespectQuota = {TRUE}, TypeOK, BatchInv, NEW w \in Runs,
         local[w].respect = TRUE,
         StartRun(w) \/ Step(w) \/ Answer(w) \/ FetchRateLimited(w)
  PROVE  /\ Lapses(w) \/ Reserves(w) \/ Charges(w)
         /\ local'[w].respect = TRUE
         /\ StartRun(w) \/ Live(w)
<1>1. StartRun(w) \/ Live(w)
  BY DEF Step, CheckQuota, GetPendingBatch, MarkFetching, WaitToRetry, Charge,
     UploadRaw, UploadCleaned, FindProfile, SaveProfile, RereadEntry, CompleteEntry,
     FailEntry, Pause, ReadQuotaStatus, RecordHistory, RecordRefusal, Answer,
     FetchSucceeds, FetchNotFound, FetchFails, FetchRateLimited, Live
<1> QED
  BY <1>1, StartLapses, CheckReserves, BatchLapses, ReportLapses, FetchLapses,
     ChargeCharges, StoreLapses DEF Step

-------------------------------------------------------------------------------
(* The ledger. *)

\* Nobody has credit at first.
LEMMA InitSoleRunInv ==
  Init => SoleRunInv /\ Ledger!Init
<1> SUFFICES ASSUME Init PROVE SoleRunInv /\ Ledger!Init
  OBVIOUS
<1>1. \A w \in Runs : pc[w] = "idle" /\ local[w].respect = TRUE /\ ~Live(w)
  BY DEF Init, Live, Workers, Fresh
<1>2. \A w \in Runs : Credit(w) = 0
  BY <1>1 DEF Credit, CreditAt, Uncharged, Done
<1>3. used = 0 /\ Limit \in Nat
  BY FetchJobAssumption DEF Init
<1> QED
  BY <1>1, <1>2, <1>3 DEF SoleRunInv, SoleRun, Ledger!Init

\* A step after which no run has more credit, and nothing was charged, is a lapse.
LEMMA AllLapse ==
  ASSUME TypeOK, BatchInv, TypeOK', BatchInv', SoleRunInv, UNCHANGED used,
         \A w \in Runs : Credit(w)' <= Credit(w)
  PROVE  /\ Ledger!Next
         /\ \A w \in Runs : used' + Credit(w)' <= Limit
<1> DEFINE credit == [w \in Runs |-> Credit(w)]
<1>1. \A w \in Runs : Credit(w) \in Nat /\ Credit(w)' \in Nat
  BY CreditNats, NextCreditNats
<1>2. \A w \in Runs : credit'[w] \in 0 .. credit[w]
  BY <1>1
<1>3. credit' = [w \in Runs |-> credit'[w]]
  OBVIOUS
<1>4. Ledger!Lapse
  BY <1>2, <1>3 DEF Ledger!Lapse
<1>5. used \in Nat /\ Limit \in Nat /\ \A w \in Runs : used + Credit(w) <= Limit
  BY FetchJobAssumption DEF TypeOK, SoleRunInv
<1> QED
  BY <1>1, <1>4, <1>5 DEF Ledger!Next

\* The step of one run, while no other run is going on.
LEMMA RunKeepsLedger ==
  ASSUME RespectQuota = {TRUE}, TypeOK, BatchInv, TypeOK', BatchInv', SoleRunInv,
         NEW w \in Runs,
         StartRun(w) \/ Step(w) \/ Answer(w) \/ FetchRateLimited(w),
         \A v \in Runs \ {w} : ~Live(v)
  PROVE  Ledger!Next /\ SoleRunInv'
<1> DEFINE credit == [v \in Runs |-> Credit(v)]
<1>1. w \in Workers /\ \A v \in Runs : v \in Workers
  BY DEF Workers
<1>2. ASSUME NEW v \in Runs \ {w}
      PROVE  /\ Credit(v) = 0 /\ Credit(v)' = 0
             /\ ~Live(v)' /\ local'[v] = local[v]
  <2>1. pc'[v] \in {pc[v], "dead"} /\ local'[v] = local[v]
    BY <1>1, OthersRest
  <2>2. pc[v] \in {"idle", "ended", "dead"}
    BY DEF Live
  <2> QED
    BY <2>1, <2>2 DEF Live, Credit, CreditAt, Uncharged, Done
<1>3. /\ used \in Nat /\ Limit \in Nat /\ used' \in Nat
      /\ \A v \in Runs : used + Credit(v) <= Limit
      /\ Credit(w) \in Nat /\ local[w].respect = TRUE
  BY FetchJobAssumption, CreditNats DEF TypeOK, SoleRunInv
<1>4. /\ Lapses(w) \/ Reserves(w) \/ Charges(w)
      /\ local'[w].respect = TRUE
  BY <1>3, RunMoves
<1>5. Credit(w)' \in Nat
  BY NextCreditNats
<1>6. /\ \A u, v \in Runs : Live(u)' /\ Live(v)' => u = v
      /\ \A v \in Runs : local'[v].respect = TRUE
  BY <1>2, <1>4 DEF SoleRunInv, SoleRun
<1>7. CASE Lapses(w)
  <2>1. used' = used /\ \A v \in Runs : Credit(v)' <= Credit(v)
    BY <1>2, <1>7 DEF Lapses
  <2> QED
    BY <1>6, <2>1, AllLapse DEF SoleRunInv, SoleRun
<1>8. CASE Reserves(w)
  <2>1. \A v \in Runs \ {w} : credit[v] = 0
    BY <1>2
  <2>2. credit' = [credit EXCEPT ![w] = credit'[w]]
    BY <1>2
  <2>3. credit'[w] \in 1 .. (Limit - used) /\ UNCHANGED used
    BY <1>8 DEF Reserves
  <2>4. Ledger!Next
    BY <2>1, <2>2, <2>3 DEF Ledger!Next, Ledger!Reserve
  <2>5. \A v \in Runs : used' + Credit(v)' <= Limit
    BY <1>2, <1>3, <1>5, <1>8 DEF Reserves
  <2> QED
    BY <1>6, <2>4, <2>5 DEF SoleRunInv, SoleRun
<1>9. CASE Charges(w)
  <2>1. credit[w] > 0
    BY <1>3, <1>5, <1>9 DEF Charges
  <2>2. credit' = [credit EXCEPT ![w] = @ - 1]
    BY <1>2, <1>9 DEF Charges
  <2>3. [m \in {1} |-> used]' = [[m \in {1} |-> used] EXCEPT ![1] = @ + 1]
    BY <1>9 DEF Charges
  <2>4. Ledger!Next
    BY <2>1, <2>2, <2>3 DEF Ledger!Next, Ledger!Charge
  <2>5. \A v \in Runs : used' + Credit(v)' <= Limit
    BY <1>2, <1>3, <1>5, <1>9 DEF Charges
  <2> QED
    BY <1>6, <2>4, <2>5 DEF SoleRunInv, SoleRun
<1> QED
  BY <1>4, <1>7, <1>8, <1>9

\* Cancelled requests, crashes and people at the database take no credit.
LEMMA EnvironmentKeepsLedger ==
  ASSUME TypeOK, BatchInv, TypeOK', BatchInv', SoleRunInv,
         \/ \E w \in Workers : Cancel(w)
         \/ \E p \in Processes : Crash(p)
         \/ \E e \in Entries : DeleteEntry(e) \/ UpdateEntry(e)
         \/ UNCHANGED vars
  PROVE  Ledger!Next /\ SoleRunInv'
<1>1. /\ UNCHANGED <<used, local>>
      /\ \A w \in Runs : pc'[w] = pc[w] \/ pc'[w] = "dead"
  BY DEF Cancel, Crash, Kill, DeleteEntry, UpdateEntry, vars, db, Workers
<1>2. ASSUME NEW w \in Runs
      PROVE  Credit(w)' <= Credit(w) /\ (Live(w)' => Live(w))
  <2>1. Credit(w) \in Nat
    BY CreditNats
  <2> QED
    BY <1>1, <2>1 DEF Live, Credit, CreditAt, Uncharged, Done
<1> QED
  BY <1>1, <1>2, AllLapse DEF SoleRunInv, SoleRun

\* A single run at a time: each step keeps the ledger.
LEMMA NextKeepsLedger ==
  ASSUME ~Overlap, RespectQuota = {TRUE}, Singles = {},
         TypeOK, BatchInv, TypeOK', BatchInv', SoleRunInv, [Next]_vars
  PROVE  Ledger!Next /\ SoleRunInv'
<1>1. Workers = Runs
  BY DEF Workers
<1>2. ASSUME NEW w \in Runs, StartRun(w)
      PROVE  Ledger!Next /\ SoleRunInv'
  <2>1. \A v \in Runs \ {w} : ~Live(v)
    BY <1>2 DEF StartRun, OneRunAtATime
  <2> QED
    BY <1>2, <2>1, RunKeepsLedger
<1>3. ASSUME NEW w \in Runs, Step(w) \/ Answer(w) \/ FetchRateLimited(w)
      PROVE  Ledger!Next /\ SoleRunInv'
  <2>1. local[w].respect = TRUE
    BY DEF SoleRunInv
  <2>2. StartRun(w) \/ Live(w)
    BY <1>3, <2>1, RunMoves
  <2>3. CASE Live(w)
    BY <1>3, <2>3, RunKeepsLedger DEF SoleRunInv, SoleRun
  <2> QED
    BY <1>2, <2>2, <2>3
<1>4. \A w \in Workers : ~StartSingle(w)
  BY DEF StartSingle
<1> QED
  BY <1>1, <1>2, <1>3, <1>4, EnvironmentKeepsLedger DEF Next, Rest

\* Runs that respect the quota, one at a time, are customers of QuotaLedger: a
\* batch is never longer than the quota has left, and each fetched profile is
\* charged to the batch it belongs to, whatever fails, dies or is cancelled.
THEOREM KeepsTheLedger ==
  ASSUME ~Overlap, RespectQuota = {TRUE}, Singles = {}
  PROVE  Spec => KeepsLedger
<1> DEFINE Inv == TypeOK /\ BatchInv /\ SoleRunInv
<1>1. Init => Inv /\ Ledger!Init
  BY InitTypes, InitSoleRunInv
<1>2. Inv /\ [Next]_vars => Inv' /\ [Ledger!Next]_(Ledger!vars)
  BY NextTypes, NextKeepsLedger
<1> QED
  BY <1>1, <1>2, PTL DEF Spec, KeepsLedger, Ledger!Spec

\* So the month's quota is kept, for any number of entries, runs, retries and
\* failures, any batch size and any limit.
THEOREM QuotaIsKept ==
  ASSUME ~Overlap, RespectQuota = {TRUE}, Singles = {}
  PROVE  Spec => []WithinQuota
<1> DEFINE Inv == TypeOK /\ BatchInv /\ SoleRunInv /\ WithinQuota
<1>1. Init => Inv
  <2>1. Init => WithinQuota
    BY FetchJobAssumption DEF Init, WithinQuota
  <2> QED
    BY <2>1, InitTypes, InitSoleRunInv
<1>2. Inv /\ [Next]_vars => Inv'
  <2> SUFFICES ASSUME Inv, [Next]_vars PROVE Inv'
    OBVIOUS
  <2>1. TypeOK' /\ BatchInv' /\ SoleRunInv'
    BY NextTypes, NextKeepsLedger
  <2>2. WithinQuota'
    <3>1. CASE Runs = {}
      <4>1. UNCHANGED used
        BY <3>1 DEF Next, Workers, Crash, DeleteEntry, UpdateEntry, Rest, vars, db
      <4> QED
        BY <4>1 DEF WithinQuota
    <3>2. CASE Runs # {}
      <4>1. PICK w \in Runs : TRUE
        BY <3>2
      <4>2. /\ Credit(w)' \in Nat /\ used' \in Nat /\ Limit \in Nat
            /\ used' + Credit(w)' <= Limit
        BY <2>1, <4>1, NextCreditNats, FetchJobAssumption DEF TypeOK, SoleRunInv
      <4> QED
        BY <4>2 DEF WithinQuota
    <3> QED
      BY <3>1, <3>2
  <2> QED
    BY <2>1, <2>2
<1>3. Inv => WithinQuota
  OBVIOUS
<1> QED
  BY <1>1, <1>2, <1>3, PTL DEF Spec

-------------------------------------------------------------------------------
(* One run at a time, beside any number of single fetches. *)

\* A step is taken by a worker that lives, or that starts.
LEMMA Starts ==
  ASSUME TypeOK, BatchInv, NEW w \in Workers, Moving(w)
  PROVE  StartRun(w) \/ (w \in Singles /\ pc[w] = "idle") \/ Live(w)
BY DEF Moving, Working, Outside, Chooses, Singled, Marks, Fetches, Proceeds, Rereads,
   Panics, Completes, GivesUp, Pauses, Live, Busy, InBatch

\* A worker that rests does not come to life.
LEMMA RestingLives ==
  ASSUME NEW v \in Workers, Resting(v), Live(v)'
  PROVE  Live(v)
BY DEF Resting, Live

\* At first no run is alive.
LEMMA InitSole == Init => SoleRun
BY DEF Init, SoleRun, Live, Workers

\* A run starts, unless runs overlap, only when no other one is alive.
LEMMA NextSole ==
  ASSUME ~Overlap, TypeOK, BatchInv, SoleRun, [Next]_vars
  PROVE  SoleRun'
<1> SUFFICES ASSUME NEW u \in Runs, NEW v \in Runs, Live(u)', Live(v)' PROVE u = v
  BY DEF SoleRun
<1>1. u \in Workers /\ v \in Workers /\ Runs \cap Singles = {}
  BY FetchJobAssumption DEF Workers
<1>2. ASSUME Resting(u), Resting(v) PROVE u = v
  BY <1>1, <1>2, RestingLives DEF SoleRun
<1>3. ASSUME NEW w \in Workers, Moving(w) PROVE u = v
  <2>1. \A x \in Workers \ {w} : Resting(x)
    BY <1>3 DEF Moving
  <2>2. CASE StartRun(w)
    <3>1. \A x \in Runs \ {w} : ~Live(x)
      BY <2>2 DEF StartRun, OneRunAtATime
    <3>2. u = w /\ v = w
      BY <1>1, <2>1, <3>1, RestingLives
    <3> QED
      BY <3>2
  <2>3. CASE w \in Singles
    BY <1>1, <1>2, <2>1, <2>3
  <2>4. CASE Live(w)
    <3>1. Live(u) /\ Live(v)
      BY <1>1, <2>1, <2>4, RestingLives
    <3> QED
      BY <3>1 DEF SoleRun
  <2> QED
    BY <1>3, <2>2, <2>3, <2>4, Starts
<1> QED
  BY <1>1, <1>2, <1>3, EntrySteps DEF Happening

\* While one run has entries in hand, no other has.
LEMMA Alone ==
  ASSUME SoleRun, NEW w \in Runs, pc[w] \in InBatch, NEW v \in Runs \ {w}
  PROVE  pc[v] \notin InBatch /\ (Resting(v) => pc'[v] \notin InBatch)
BY DEF SoleRun, Live, InBatch, Resting

\* What was asked for, or could not be marked, stays counted.
LEMMA TalliesLater ==
  ASSUME TypeOK, BatchInv, [Next]_vars, NEW e \in Entries
  PROVE  /\ asked[e] \in Nat /\ asked'[e] \in Nat /\ asked[e] <= asked'[e]
         /\ unmarked[e] \in Nat /\ unmarked'[e] \in Nat /\ unmarked[e] <= unmarked'[e]
<1>1. asked \in [Entries -> Nat] /\ unmarked \in [Entries -> Nat]
  BY DEF TypeOK
<1>2. \/ UNCHANGED asked
      \/ \E d \in Entries : asked' = [asked EXCEPT ![d] = @ + 1]
  BY EntrySteps DEF Moving, Working, Outside, Chooses, Singled, Marks, Fetches, Proceeds,
     Rereads, Panics, Completes, GivesUp, Pauses, Happening, Requeues, Adjusts, Tallies
<1>3. \/ UNCHANGED unmarked
      \/ \E d : unmarked' = [unmarked EXCEPT ![d] = @ + 1]
  BY EntrySteps DEF Moving, Working, Outside, Chooses, Singled, Marks, Fetches, Proceeds,
     Rereads, Panics, Completes, GivesUp, Pauses, Happening, Requeues, Adjusts, Tallies
<1>4. asked'[e] \in {asked[e], asked[e] + 1}
  BY <1>1, <1>2
<1>5. unmarked'[e] \in {unmarked[e], unmarked[e] + 1}
  BY <1>1, <1>3
<1> QED
  BY <1>1, <1>4, <1>5

\* The one entry of a batch is the current one.
LEMMA SingletonCurrent ==
  ASSUME NEW w \in Workers, NEW e \in Entries
  PROVE  /\ local[w].batch = {e} => Current(w) = e
         /\ local'[w].batch = {e} => Current(w)' = e
<1>1. Least({e}) \in {e}
  <2>1. {e} \subseteq Nat /\ {e} # {}
    BY DEF Entries
  <2> QED
    BY <2>1, LeastInSet
<1>2. Least({e}) = e
  BY <1>1
<1> QED
  BY <1>2 DEF Current

\* No single fetch is going on at first.
LEMMA InitSingle == Init => SingleInv
BY DEF Init, SingleInv, InBatch, Workers

\* A single fetch stays with the entry it was asked for.
LEMMA NextSingle ==
  ASSUME TypeOK, BatchInv, SingleInv, [Next]_vars
  PROVE  SingleInv'
<1> DEFINE Quiet == {"idle", "ended", "dead"}
<1> SUFFICES ASSUME NEW w \in Singles
             PROVE  /\ pc'[w] \in InBatch \cup Quiet
                    /\ pc'[w] \in InBatch =>
                         \E e \in Entries : local'[w].batch = {e} /\ asked'[e] >= 1
  BY DEF SingleInv
<1>1. w \in Workers /\ w \notin Runs
  BY FetchJobAssumption DEF Workers
<1>2. /\ pc[w] \in InBatch \cup Quiet
      /\ pc[w] \in InBatch => \E e \in Entries : local[w].batch = {e} /\ asked[e] >= 1
  BY DEF SingleInv
<1>3. ASSUME pc[w] \in InBatch, pc'[w] \in InBatch, local'[w].batch = local[w].batch
      PROVE  \E e \in Entries : local'[w].batch = {e} /\ asked'[e] >= 1
  <2>1. PICK e \in Entries : local[w].batch = {e} /\ asked[e] >= 1
    BY <1>2, <1>3
  <2>2. asked'[e] >= 1
    BY <2>1, TalliesLater
  <2> QED
    BY <1>3, <2>1, <2>2
<1>4. CASE Resting(w)
  <2>1. pc'[w] \in {pc[w], "dead"} /\ local'[w].batch = local[w].batch
    BY <1>4 DEF Resting
  <2>2. "dead" \in Quiet /\ "dead" \notin InBatch
    BY DEF InBatch
  <2> HIDE DEF Quiet
  <2> QED
    BY <1>2, <1>3, <2>1, <2>2
<1>5. CASE Moving(w)
  <2>1. ~StartRun(w)
    BY <1>1 DEF StartRun
  <2>2. pc[w] = "idle" \/ pc[w] \in InBatch
    <3>1. pc[w] = "idle" \/ Live(w)
      BY <1>1, <1>5, <2>1, Starts
    <3> QED
      BY <1>2, <3>1 DEF Live
  <2>3. Working(w) /\ ~Outside(w) /\ ~Chooses(w)
    BY <1>5, <2>1, <2>2 DEF Moving, Outside, Chooses, Live, InBatch
  <2>4. CASE Singled(w)
    <3>1. PICK e \in Entries : local'[w].batch = {e} /\ asked' = [asked EXCEPT ![e] = @ + 1]
      BY <2>4 DEF Singled
    <3>2. asked'[e] >= 1
      BY <3>1 DEF TypeOK
    <3> QED
      BY <2>4, <3>1, <3>2 DEF Singled, InBatch
  <2>5. CASE Leaves(w) /\ pc[w] \in InBatch
    <3>1. local[w].batch = {Current(w)}
      BY <1>1, <1>2, <2>5, SingletonCurrent
    <3>2. pc'[w] = "ended"
      BY <1>1, <2>5, <3>1 DEF Leaves
    <3> QED
      BY <3>2 DEF InBatch
  <2>6. CASE Panics(w)
    BY <2>6 DEF Panics, InBatch
  <2>7. CASE Marks(w) \/ Fetches(w) \/ Proceeds(w) \/ Rereads(w)
             \/ (pc[w] = "complete" /\ pc'[w] = "sleep" /\ Holds(w))
    <3>1. /\ pc[w] \in InBatch /\ pc'[w] \in InBatch
          /\ local'[w].batch = local[w].batch
      BY <2>7 DEF Marks, Fetches, Proceeds, Rereads, Holds, Busy, InBatch
    <3> QED
      BY <1>3, <3>1
  <2>8. \/ Completes(w) /\ Leaves(w)
        \/ Completes(w) /\ pc[w] = "complete" /\ pc'[w] = "sleep" /\ Holds(w)
        \/ ~Completes(w)
    BY DEF Completes
  <2>9. Completes(w) \/ GivesUp(w) \/ Pauses(w) => pc[w] \in InBatch
    BY DEF Completes, GivesUp, Pauses, InBatch
  <2>10. GivesUp(w) \/ Pauses(w) => Leaves(w)
    BY DEF GivesUp, Pauses
  <2> QED
    BY <2>3, <2>4, <2>5, <2>6, <2>7, <2>8, <2>9, <2>10 DEF Working
<1> QED
  BY <1>1, <1>4, <1>5, EntrySteps DEF Moving, Happening

-------------------------------------------------------------------------------
(* An entry is fetched as often as was asked. *)

\* A worker that rests neither gets an entry nor takes it up.
LEMMA RestingComes ==
  ASSUME NEW v \in Workers, Resting(v), NEW e
  PROVE  /\ Calling(v, e)' => Calling(v, e)
         /\ Asking(v, e)' => Asking(v, e)
         /\ Ahead(v, e)' => Ahead(v, e)
<1>1. local'[v].batch = local[v].batch /\ Current(v)' = Current(v)
  BY SameCurrent DEF Resting
<1>2. pc'[v] = pc[v] \/ pc'[v] = "dead"
  BY DEF Resting
<1> QED
  BY <1>1, <1>2 DEF Calling, Asking, Ahead, InBatch

\* Nor does a worker that leaves its entry for the next one.
LEMMA LeavingComes ==
  ASSUME TypeOK, SingleInv, NEW w \in Workers, pc[w] \in InBatch, Leaves(w), NEW e
  PROVE  ~Calling(w, e)' /\ ~Asking(w, e)' /\ (Ahead(w, e)' => Ahead(w, e))
<1>1. ~Calling(w, e)'
  BY DEF Leaves, Calling
<1>2. ~Asking(w, e)'
  <2> SUFFICES ASSUME w \in Singles, pc'[w] = "mark" PROVE FALSE
    BY DEF Asking
  <2>1. PICK d \in Entries : local[w].batch = {d}
    BY DEF SingleInv
  <2>2. Current(w) = d
    BY <2>1, SingletonCurrent
  <2> QED
    BY <2>1, <2>2 DEF Leaves
<1>3. Ahead(w, e)' => Ahead(w, e)
  BY DEF Leaves, Ahead, InBatch
<1> QED
  BY <1>1, <1>2, <1>3

\* Nor does one that goes on with its entry.
LEMMA GoingOnComes ==
  ASSUME NEW w \in Workers, local'[w].batch = local[w].batch, pc[w] \in InBatch,
         pc'[w] # "mark", NEW e
  PROVE  /\ ~Asking(w, e)' /\ (Ahead(w, e)' => Ahead(w, e))
         /\ Calling(w, e)' => Current(w) = e /\ pc'[w] \in {"fetch", "wait"}
BY SameCurrent DEF Asking, Ahead, Calling

\* Each entry is fetched once at first.
LEMMA InitOnce == Init => OnceInv
<1> SUFFICES ASSUME Init, NEW e \in Entries
             PROVE  /\ IsFiniteSet(Coming(e))
                    /\ fetched[e] + Cardinality(Coming(e)) + (IF Expected(e) THEN 1 ELSE 0)
                       <= 1 + asked[e] + unmarked[e]
  BY DEF OnceInv
<1>1. Coming(e) = {}
  BY DEF Init, Coming, Calling, Asking
<1>2. fetched[e] = 0 /\ asked[e] = 0 /\ unmarked[e] = 0
  BY DEF Init
<1> QED
  BY <1>1, <1>2, FS_EmptySet

\* No step fetches, takes up or requeues an entry unaccounted.
LEMMA NextOnce ==
  ASSUME ~Overlap, TypeOK, BatchInv, SoleRun, SingleInv, OnceInv, [Next]_vars
  PROVE  OnceInv'
<1> SUFFICES ASSUME NEW e \in Entries
             PROVE  /\ IsFiniteSet(Coming(e)')
                    /\ fetched'[e] + Cardinality(Coming(e)')
                       + (IF Expected(e)' THEN 1 ELSE 0)
                       <= 1 + asked'[e] + unmarked'[e]
  BY DEF OnceInv
<1> DEFINE C == Coming(e)
           Goal == /\ IsFiniteSet(C')
                   /\ fetched'[e] + Cardinality(C') + (IF Expected(e)' THEN 1 ELSE 0)
                      <= 1 + asked'[e] + unmarked'[e]
<1>1. /\ IsFiniteSet(C) /\ Cardinality(C) \in Nat
      /\ fetched[e] + Cardinality(C) + (IF Expected(e) THEN 1 ELSE 0)
         <= 1 + asked[e] + unmarked[e]
  BY FS_CardinalityType DEF OnceInv
<1>2. /\ asked[e] \in Nat /\ asked'[e] \in Nat /\ asked[e] <= asked'[e]
      /\ unmarked[e] \in Nat /\ unmarked'[e] \in Nat /\ unmarked[e] <= unmarked'[e]
      /\ fetched[e] \in Nat /\ fetched'[e] \in Nat
  BY TalliesLater, NextTypes DEF TypeOK
<1>3. \A v \in Workers : v \in C <=> Calling(v, e) \/ Asking(v, e)
  BY DEF Coming
<1>4. C' = {v \in Workers : Calling(v, e)' \/ Asking(v, e)'}
  BY DEF Coming
<1> SUFFICES Goal
  OBVIOUS
<1> HIDE DEF C
\* Nobody takes up the entry, and it is not put back.
<1>5. ASSUME C' \subseteq C, Expected(e)' => Expected(e), fetched'[e] = fetched[e]
      PROVE  Goal
  <2>1. IsFiniteSet(C') /\ Cardinality(C') \in Nat /\ Cardinality(C') <= Cardinality(C)
    BY <1>1, <1>5, FS_Subset, FS_CardinalityType
  <2> QED
    BY <1>1, <1>2, <1>5, <2>1
\* Somebody takes it up: it was expected and is not any more, or it was asked for
\* or could not be marked.
<1>6. ASSUME NEW w, C' \subseteq C \cup {w}, fetched'[e] = fetched[e],
             \/ Expected(e) /\ ~Expected(e)'
             \/ /\ Expected(e)' => Expected(e)
                /\ asked'[e] = asked[e] + 1 \/ unmarked'[e] = unmarked[e] + 1
      PROVE  Goal
  <2>1. IsFiniteSet(C \cup {w}) /\ Cardinality(C \cup {w}) \in {Cardinality(C), Cardinality(C) + 1}
    BY <1>1, FS_AddElement
  <2>2. IsFiniteSet(C') /\ Cardinality(C') \in Nat /\ Cardinality(C') <= Cardinality(C) + 1
    BY <1>1, <1>6, <2>1, FS_Subset, FS_CardinalityType
  <2> QED
    BY <1>1, <1>2, <1>6, <2>2
<1>7. CASE Happening
  <2>1. C' \subseteq C /\ \A v \in Runs : Ahead(v, e)' => Ahead(v, e)
    BY <1>3, <1>4, <1>7, RestingComes DEF Happening, Workers
  <2>2. UNCHANGED fetched
    BY <1>7 DEF Happening, Requeues, Adjusts, Tallies
  <2>3. CASE Requeues(e)
    <3>1. asked'[e] = asked[e] + 1
      <4>1. asked \in [Entries -> Nat] /\ asked' = [asked EXCEPT ![e] = @ + 1]
        BY <2>3 DEF Requeues, TypeOK
      <4> QED
        BY <4>1
    <3>2. IsFiniteSet(C') /\ Cardinality(C') \in Nat /\ Cardinality(C') <= Cardinality(C)
      BY <1>1, <2>1, FS_Subset, FS_CardinalityType
    <3> QED
      BY <1>1, <1>2, <2>2, <3>1, <3>2
  <2>4. CASE ~Requeues(e)
    <3>1. \/ UNCHANGED entry \/ \E d \in Entries : Writes(d, "GONE")
          \/ \E d \in Entries : Requeues(d) \/ Adjusts(d)
      BY <1>7 DEF Happening
    <3>2. ASSUME NEW d \in Entries, Requeues(d)
          PROVE  entry'[e] = entry[e]
      <4>1. d # e
        BY <2>4, <3>2
      <4> QED
        BY <3>2, <4>1 DEF Requeues, Writes
    <3>3. entry'[e].status = "PENDING" => entry[e].status = "PENDING"
      BY <3>1, <3>2 DEF Writes, Adjusts
    <3>4. Expected(e)' => Expected(e)
      BY <2>1, <3>3 DEF Expected
    <3> QED
      BY <1>5, <2>1, <2>2, <3>4
  <2> QED
    BY <2>3, <2>4
<1>8. ASSUME NEW w \in Workers, Moving(w)
      PROVE  Goal
  <2>1. /\ Working(w)
        /\ \A v \in Workers \ {w} : Resting(v)
        /\ Runs \cap Singles = {}
    BY <1>8, FetchJobAssumption DEF Moving
  <2>2. C' \subseteq C \cup {w}
    BY <1>3, <1>4, <2>1, RestingComes
  <2>3. \A v \in Runs \ {w} : Ahead(v, e)' => Ahead(v, e)
    BY <2>1, RestingComes DEF Workers
  <2>4. ~Calling(w, e)' /\ ~Asking(w, e)' => C' \subseteq C \ {w}
    BY <1>3, <1>4, <2>1, RestingComes
  <2>5. (Calling(w, e)' \/ Asking(w, e)' => Calling(w, e) \/ Asking(w, e)) => C' \subseteq C
    BY <1>3, <1>4, <2>2
  <2>6. ASSUME Ahead(w, e)' => Ahead(w, e) \/ w \notin Runs,
               entry'[e].status = "PENDING" => entry[e].status = "PENDING"
        PROVE  Expected(e)' => Expected(e)
    BY <2>3, <2>6 DEF Expected
  <2>7. CASE Outside(w) \/ Panics(w)
    <3>1. UNCHANGED <<entry, fetched>> /\ pc'[w] \notin InBatch
      BY <2>7 DEF Outside, Panics, InBatch, Tallies
    <3>2. ~Calling(w, e)' /\ ~Asking(w, e)' /\ ~Ahead(w, e)'
      BY <3>1 DEF Calling, Asking, Ahead, InBatch
    <3> QED
      BY <1>5, <2>4, <2>6, <3>1, <3>2
  <2>8. CASE Chooses(w)
    <3>1. UNCHANGED <<entry, fetched>> /\ pc'[w] = "mark" /\ w \notin Singles
      BY <2>8 DEF Chooses, SingleInv, InBatch, Tallies
    <3>2. ~Calling(w, e)' /\ ~Asking(w, e)'
      BY <3>1 DEF Calling, Asking
    <3>3. Ahead(w, e)' => Expected(e)
      BY <2>8 DEF Chooses, Ahead, Expected, Pending
    <3>4. Expected(e)' => Expected(e)
      BY <2>3, <3>1, <3>3 DEF Expected
    <3> QED
      BY <1>5, <2>4, <3>1, <3>2, <3>4
  <2>9. CASE Singled(w)
    <3>1. PICK d \in Entries : local'[w].batch = {d} /\ asked' = [asked EXCEPT ![d] = @ + 1]
      BY <2>9 DEF Singled
    <3>2. /\ UNCHANGED <<entry, fetched>> /\ pc'[w] = "mark" /\ w \notin Runs
          /\ Current(w)' = d
      BY <2>1, <2>9, <3>1, SingletonCurrent DEF Singled
    <3>3. Expected(e)' => Expected(e)
      BY <2>6, <3>2
    <3>4. CASE d = e
      <4>1. asked'[e] = asked[e] + 1
        BY <3>1, <3>4 DEF TypeOK
      <4> QED
        BY <1>6, <2>2, <3>2, <3>3, <4>1
    <3>5. CASE d # e
      <4>1. ~Calling(w, e)' /\ ~Asking(w, e)'
        BY <3>2, <3>5 DEF Calling, Asking
      <4> QED
        BY <1>5, <2>4, <3>2, <3>3, <4>1
    <3> QED
      BY <3>4, <3>5
  <2>10. CASE Marks(w)
    <3>1. /\ pc[w] = "mark" /\ pc'[w] = "fetch" /\ pc[w] \in InBatch /\ pc'[w] \in InBatch
          /\ local'[w].batch = local[w].batch /\ UNCHANGED fetched
          /\ Current(w)' = Current(w) /\ Current(w) \in local[w].batch
          /\ Current(w) \in Entries
      BY <2>10, SameCurrent, InLoop DEF Marks, Holds, InBatch
    <3>2. ~Asking(w, e)' /\ (Ahead(w, e)' => Ahead(w, e))
      BY <3>1, GoingOnComes
    <3>3. entry'[e].status = "PENDING" => entry[e].status = "PENDING"
      BY <2>10 DEF Marks, Writes
    <3>4. Expected(e)' => Expected(e)
      BY <2>6, <3>2, <3>3
    <3>5. CASE Current(w) # e
      <4>1. ~Calling(w, e)'
        BY <3>1, <3>5 DEF Calling
      <4> QED
        BY <1>5, <2>4, <3>1, <3>2, <3>4, <4>1
    <3>6. CASE Current(w) = e /\ w \in Singles
      <4>1. Asking(w, e)
        BY <3>1, <3>6 DEF Asking
      <4> QED
        BY <1>5, <2>5, <3>1, <3>4, <4>1
    <3>7. CASE Current(w) = e /\ w \in Runs
      <4>1. Ahead(w, e) /\ ~Ahead(w, e)'
        BY <3>1, <3>7 DEF Ahead
      <4>2. Expected(e)
        BY <3>7, <4>1 DEF Expected
      <4>3. CASE Writes(e, "FETCHING")
        <5>1. entry'[e].status # "PENDING"
          BY <4>3 DEF Writes
        <5>2. \A v \in Runs \ {w} : pc'[v] \notin InBatch
          BY <2>1, <3>1, <3>7, Alone DEF Workers
        <5>3. ~Expected(e)'
          BY <4>1, <5>1, <5>2 DEF Expected, Ahead
        <5> QED
          BY <1>6, <2>2, <3>1, <4>2, <5>3
      <4>4. CASE unmarked' = [unmarked EXCEPT ![e] = @ + 1]
        <5>1. unmarked'[e] = unmarked[e] + 1
          BY <4>4 DEF TypeOK
        <5> QED
          BY <1>6, <2>2, <3>1, <3>4, <5>1
      <4> QED
        BY <2>10, <3>7, <4>3, <4>4 DEF Marks
    <3> QED
      BY <3>5, <3>6, <3>7 DEF Workers
  <2>11. CASE Fetches(w)
    <3>1. /\ pc[w] = "fetch" /\ pc'[w] = "charge" /\ UNCHANGED entry
          /\ pc[w] \in InBatch /\ local'[w].batch = local[w].batch
      BY <2>11 DEF Fetches, InBatch
    <3>2. ~Asking(w, e)' /\ ~Calling(w, e)' /\ (Ahead(w, e)' => Ahead(w, e))
      BY <3>1, GoingOnComes
    <3>3. Expected(e)' => Expected(e)
      BY <2>6, <3>1, <3>2
    <3>4. CASE Current(w) = e
      <4>1. w \in C /\ C' \subseteq C \ {w} /\ fetched'[e] = fetched[e] + 1
        BY <1>3, <2>4, <2>11, <3>1, <3>2, <3>4, FetchedLater DEF Calling
      <4>2. IsFiniteSet(C \ {w}) /\ Cardinality(C \ {w}) = Cardinality(C) - 1
        BY <1>1, <4>1, FS_RemoveElement
      <4>3. IsFiniteSet(C') /\ Cardinality(C') \in Nat /\ Cardinality(C') <= Cardinality(C) - 1
        BY <4>1, <4>2, FS_Subset, FS_CardinalityType
      <4> QED
        BY <1>1, <1>2, <3>3, <4>1, <4>3
    <3>5. CASE Current(w) # e
      <4>1. fetched'[e] = fetched[e]
        BY <2>11, <3>5 DEF Fetches, TypeOK
      <4> QED
        BY <1>5, <2>4, <3>2, <3>3, <4>1
    <3> QED
      BY <3>4, <3>5
  <2>12. CASE Proceeds(w) \/ Rereads(w)
    <3>1. /\ pc[w] \in InBatch /\ pc'[w] # "mark" /\ UNCHANGED <<entry, fetched>>
          /\ local'[w].batch = local[w].batch
          /\ pc'[w] \in {"fetch", "wait"} => pc[w] \in {"fetch", "wait"}
      BY <2>12 DEF Proceeds, Rereads, Holds, Busy, InBatch, Tallies
    <3>2. /\ ~Asking(w, e)' /\ (Ahead(w, e)' => Ahead(w, e))
          /\ Calling(w, e)' => Calling(w, e)
      BY <3>1, GoingOnComes DEF Calling
    <3> QED
      BY <1>5, <2>5, <2>6, <3>1, <3>2
  <2>13. CASE Completes(w) \/ GivesUp(w) \/ Pauses(w)
    <3>1. /\ pc[w] \in InBatch /\ UNCHANGED fetched
          /\ Leaves(w) \/ (pc'[w] = "sleep" /\ local'[w].batch = local[w].batch)
      BY <2>13 DEF Completes, GivesUp, Pauses, Holds, InBatch, Tallies
    <3>2. ~Calling(w, e)' /\ ~Asking(w, e)' /\ (Ahead(w, e)' => Ahead(w, e))
      BY <3>1, LeavingComes, GoingOnComes
    <3>3. entry'[e].status = "PENDING" => entry[e].status = "PENDING"
      BY <2>13 DEF Completes, GivesUp, Pauses, Writes
    <3> QED
      BY <1>5, <2>4, <2>6, <3>1, <3>2, <3>3
  <2> QED
    BY <2>1, <2>7, <2>8, <2>9, <2>10, <2>11, <2>12, <2>13 DEF Working
<1>9. (\E w \in Workers : Moving(w)) \/ Happening
  BY EntrySteps
<1> QED
  BY <1>7, <1>8, <1>9

\* When runs do not overlap, the provider is called with success once for an entry,
\* and once more for each time that somebody asked for it, by a single fetch or in
\* the database, or that its mark FETCHING was lost.
THEOREM FetchedOnceHolds ==
  ASSUME ~Overlap
  PROVE  Spec => []FetchedOnce
<1> DEFINE Inv == TypeOK /\ BatchInv /\ SoleRun /\ SingleInv /\ OnceInv
<1>1. Inv => FetchedOnce
  <2> SUFFICES ASSUME Inv, NEW e \in Entries
               PROVE  fetched[e] <= 1 + asked[e] + unmarked[e]
    BY DEF FetchedOnce
  <2>1. Cardinality(Coming(e)) \in Nat
    BY FS_CardinalityType DEF OnceInv
  <2>2. fetched[e] \in Nat /\ asked[e] \in Nat /\ unmarked[e] \in Nat
    BY DEF TypeOK
  <2> QED
    BY <2>1, <2>2 DEF OnceInv
<1>2. Init => Inv
  BY InitTypes, InitSole, InitSingle, InitOnce
<1>3. Inv /\ [Next]_vars => Inv'
  BY NextTypes, NextSole, NextSingle, NextOnce
<1> QED
  BY <1>1, <1>2, <1>3, PTL DEF Spec

-------------------------------------------------------------------------------
(* What is settled stays so. *)

\* A single fetch has been asked for.
LEMMA SingleAsked ==
  ASSUME SingleInv, NEW w \in Singles, pc[w] \in InBatch
  PROVE  asked[Current(w)] >= 1
<1>1. PICK e \in Entries : local[w].batch = {e} /\ asked[e] >= 1
  BY DEF SingleInv
<1>2. Current(w) = e
  BY <1>1, SingletonCurrent DEF Workers
<1> QED
  BY <1>1, <1>2

\* Whoever writes an entry that no person asked for or set is a run with the entry
\* in hand.
LEMMA Writers ==
  ASSUME TypeOK, BatchInv, SingleInv, [Next]_vars, NEW e \in Entries, asked'[e] = 0,
         e \notin edited'
  PROVE  /\ asked[e] = 0 /\ e \notin edited
         /\ \/ entry'[e].status \in {entry[e].status, "GONE"}
            \/ \E w \in Runs :
                 /\ Moving(w) /\ Current(w) = e
                 /\ Marks(w) \/ Completes(w) \/ GivesUp(w)
<1>1. asked[e] = 0 /\ e \notin edited
  BY TalliesLater, EditedStays
<1>2. CASE Happening
  <2>1. ~Requeues(e)
    <3> SUFFICES ASSUME Requeues(e) PROVE FALSE
      OBVIOUS
    <3>1. asked' = [asked EXCEPT ![e] = @ + 1] /\ asked \in [Entries -> Nat]
      BY DEF Requeues, TypeOK
    <3>2. asked'[e] = asked[e] + 1
      BY <3>1
    <3> QED
      BY <1>1, <3>2
  <2>2. \/ UNCHANGED entry \/ \E d \in Entries : Writes(d, "GONE")
        \/ \E d \in Entries \ {e} : Requeues(d) \/ Adjusts(d)
    BY <1>2, <2>1 DEF Happening, Adjusts
  <2> QED
    BY <1>1, <2>2 DEF Requeues, Adjusts, Writes
<1>3. ASSUME NEW w \in Workers, Moving(w)
      PROVE  \/ entry'[e].status \in {entry[e].status, "GONE"}
             \/ /\ w \in Runs /\ Moving(w) /\ Current(w) = e
                /\ Marks(w) \/ Completes(w) \/ GivesUp(w)
  <2>1. CASE UNCHANGED entry
    BY <2>1
  <2>2. CASE Marks(w) \/ Completes(w) \/ GivesUp(w)
    <3>1. pc[w] \in InBatch
      BY <2>2 DEF Marks, Completes, GivesUp, InBatch
    <3>2. CASE Current(w) = e
      <4>1. w \notin Singles
        BY <1>1, <3>1, <3>2, SingleAsked
      <4> QED
        BY <1>3, <2>2, <3>2, <4>1 DEF Workers
    <3>3. CASE Current(w) # e
      <4>1. entry'[e] = entry[e]
        BY <2>2, <3>3 DEF Marks, Completes, GivesUp, Writes
      <4> QED
        BY <4>1
    <3> QED
      BY <3>2, <3>3
  <2> QED
    BY <1>3, <2>1, <2>2 DEF Moving, Working, Outside, Chooses, Singled, Fetches,
       Proceeds, Rereads, Panics, Pauses
<1> QED
  BY <1>1, <1>2, <1>3, EntrySteps

\* Nothing is settled at first.
LEMMA InitSettled == Init => SettledInv
BY DEF Init, SettledInv, Settled

\* An entry is settled by the run that has it in hand, and that is done with it.
LEMMA NextSettled ==
  ASSUME TypeOK, BatchInv, SoleRun, SingleInv, SettledInv, [Next]_vars
  PROVE  SettledInv'
<1> SUFFICES ASSUME NEW e \in Entries, Settled(e)', asked'[e] = 0,
                    e \notin edited', NEW v \in Runs,
                    pc'[v] \in InBatch, e \in local'[v].batch
             PROVE  pc'[v] = "sleep" /\ Current(v)' = e
  BY DEF SettledInv
<1>1. v \in Workers /\ asked[e] = 0 /\ e \notin edited
  BY Writers DEF Workers
<1>2. CASE Settled(e)
  <2>1. pc[v] \in InBatch /\ e \in local[v].batch => pc[v] = "sleep" /\ Current(v) = e
    BY <1>1, <1>2 DEF SettledInv
  <2>2. CASE Resting(v)
    <3>1. pc'[v] = pc[v] /\ local'[v] = local[v]
      BY <2>2 DEF Resting, InBatch
    <3>2. Current(v)' = Current(v)
      BY <1>1, <3>1, SameCurrent
    <3> QED
      BY <2>1, <3>1, <3>2
  <2>3. CASE Moving(v)
    <3>1. CASE Chooses(v)
      BY <1>2, <3>1 DEF Chooses, Pending, Settled
    <3>2. CASE Pauses(v)
      <4>1. pc[v] \in InBatch /\ Leaves(v)
        BY <3>2 DEF Pauses, InBatch
      <4>2. local'[v].batch = local[v].batch \ {Current(v)}
        BY <4>1 DEF Leaves, InBatch
      <4> QED
        BY <2>1, <4>1, <4>2
    <3>3. CASE Marks(v) \/ Fetches(v) \/ Proceeds(v) \/ Rereads(v) \/ Panics(v)
               \/ Completes(v) \/ GivesUp(v)
      <4>1. pc[v] \in InBatch \ {"sleep"}
        BY <3>3 DEF Marks, Fetches, Proceeds, Rereads, Panics, Completes, GivesUp,
           Busy, InBatch
      <4>2. local'[v].batch \subseteq local[v].batch
        <5>1. \/ local'[v].batch = local[v].batch
              \/ Leaves(v)
          BY <3>3 DEF Marks, Fetches, Proceeds, Rereads, Panics, Completes, GivesUp, Holds
        <5> QED
          BY <5>1 DEF Leaves, InBatch
      <4> QED
        BY <2>1, <4>1, <4>2
    <3>4. CASE Outside(v) \/ Singled(v)
      BY <3>4, FetchJobAssumption DEF Outside, Singled
    <3> QED
      BY <2>3, <3>1, <3>2, <3>3, <3>4 DEF Moving, Working
  <2> QED
    BY <1>1, <2>2, <2>3, EntrySteps DEF Moving, Happening
<1>3. CASE ~Settled(e)
  <2>1. PICK w \in Runs :
          /\ Moving(w) /\ Current(w) = e
          /\ Marks(w) \/ Completes(w) \/ GivesUp(w)
    BY <1>3, Writers DEF Settled
  <2>2. w \in Workers /\ pc[w] \in InBatch
    BY <2>1 DEF Workers, Marks, Completes, GivesUp, InBatch
  <2>3. v = w
    <3>1. v # w => Resting(v)
      BY <1>1, <2>1 DEF Moving
    <3> QED
      BY <2>2, <3>1, Alone
  <2>4. CASE Marks(w)
    <3>1. entry'[e].status \in {entry[e].status, "GONE", "FETCHING"}
      BY <2>1, <2>4 DEF Marks, Writes
    <3> QED
      BY <1>3, <3>1 DEF Settled
  <2>5. CASE Leaves(w)
    <3>1. local'[w].batch = local[w].batch \ {e}
      BY <2>1, <2>3, <2>5 DEF Leaves, InBatch
    <3> QED
      BY <2>3, <3>1
  <2>6. CASE pc'[w] = "sleep" /\ Holds(w)
    BY <2>1, <2>2, <2>3, <2>6, SameCurrent DEF Holds
  <2> QED
    BY <2>1, <2>4, <2>5, <2>6 DEF Completes, GivesUp
<1> QED
  BY <1>2, <1>3

\* When runs do not overlap, a completed, failed or missing entry is left as it is
\* until a person asks for it again or sets its status, whatever else fails, dies or is cancelled.
THEOREM SettledStays ==
  ASSUME ~Overlap
  PROVE  Spec => SettledStaysSettled
<1> DEFINE Inv == TypeOK /\ BatchInv /\ SoleRun /\ SingleInv /\ SettledInv
           Stays == \A e \in Entries :
                      Settled(e) /\ asked'[e] = 0 /\ e \notin edited'
                      => entry'[e].status \in {entry[e].status, "GONE"}
<1>1. Init => Inv
  BY InitTypes, InitSole, InitSingle, InitSettled
<1>2. Inv /\ [Next]_vars => Inv'
  BY NextTypes, NextSole, NextSingle, NextSettled
<1>3. Inv /\ [Next]_vars => [Stays]_vars
  <2> SUFFICES ASSUME Inv, [Next]_vars, NEW e \in Entries, Settled(e), asked'[e] = 0,
                      e \notin edited',
                      entry'[e].status \notin {entry[e].status, "GONE"}
               PROVE  FALSE
    OBVIOUS
  <2>1. PICK w \in Runs :
          /\ asked[e] = 0 /\ e \notin edited /\ Current(w) = e
          /\ Marks(w) \/ Completes(w) \/ GivesUp(w)
    BY Writers
  <2>2. w \in Workers /\ pc[w] \in InBatch \ {"sleep"}
    BY <2>1 DEF Workers, Marks, Completes, GivesUp, InBatch
  <2>3. e \in local[w].batch
    BY <2>1, <2>2, InLoop
  <2> QED
    BY <2>1, <2>2, <2>3 DEF SettledInv
<1> HIDE DEF Stays
<1>4. Spec => [][Stays]_vars
  BY <1>1, <1>2, <1>3, PTL DEF Spec
<1> QED
  BY <1>4 DEF SettledStaysSettled, Stays

-------------------------------------------------------------------------------
(* Runs leave their reports. *)

\* A deleted entry stays deleted.
LEMMA GoneStays ==
  ASSUME TypeOK, BatchInv, [Next]_vars
  PROVE  Deleted => Deleted'
<1> SUFFICES ASSUME NEW e \in Entries, entry[e].status = "GONE"
             PROVE  entry'[e].status = "GONE"
  BY DEF Deleted
<1>1. CASE UNCHANGED entry
  BY <1>1
<1>2. CASE \E d \in Entries, s \in Statuses : Writes(d, s)
  BY <1>2 DEF Writes
<1>3. ASSUME NEW w \in Workers, Completes(w)
      PROVE  entry'[e].status = "GONE"
  <2>1. CASE Current(w) = e
    BY <1>3, <2>1 DEF Completes
  <2>2. CASE Current(w) # e
    BY <1>3, <2>2 DEF Completes
  <2> QED
    BY <2>1, <2>2
<1>4. ASSUME NEW w \in Workers, Marks(w) \/ GivesUp(w)
      PROVE  entry'[e].status = "GONE"
  BY <1>4 DEF Marks, GivesUp, Writes
<1>5. CASE Happening
  BY <1>1, <1>2, <1>5 DEF Happening, Requeues, Adjusts, Settable, Statuses
<1>6. ASSUME NEW w \in Workers, Moving(w)
      PROVE  entry'[e].status = "GONE"
  BY <1>1, <1>3, <1>4, <1>6 DEF Moving, Working, Outside, Chooses, Singled, Fetches,
     Proceeds, Rereads, Panics, Pauses
<1> QED
  BY <1>5, <1>6, EntrySteps

\* A run comes to its report only with a number of calls that remain.
LEMMA NextRecord ==
  ASSUME TypeOK, BatchInv, WithinQuota, RecordInv, [Next]_vars
  PROVE  RecordInv'
<1> SUFFICES ASSUME NEW v \in Runs, pc'[v] = "record" PROVE local'[v].remaining >= 0
  BY DEF RecordInv, Valid
<1>1. v \in Workers
  BY DEF Workers
<1>2. ASSUME pc'[v] \in {pc[v], "dead"}, local'[v] = local[v]
      PROVE  local'[v].remaining >= 0
  BY <1>2 DEF RecordInv, Valid
<1>3. ASSUME NEW w \in Workers,
             StartRun(w) \/ StartSingle(w) \/ Step(w) \/ Answer(w) \/ FetchRateLimited(w)
      PROVE  local'[v].remaining >= 0
  <2>1. CASE v # w
    BY <1>1, <1>2, <1>3, <2>1, OthersRest
  <2>2. CASE v = w /\ ReadQuotaStatus(w)
    <3>1. \E n \in {0, Limit - used} : local'[v] = [local[v] EXCEPT !.remaining = n]
      BY <1>1, <2>2 DEF ReadQuotaStatus, Keep, TypeOK
    <3>2. Limit - used >= 0
      BY FetchJobAssumption DEF TypeOK, WithinQuota
    <3>3. local[v] \in Locals
      BY <1>1 DEF TypeOK
    <3> QED
      BY <3>1, <3>2, <3>3 DEF Locals
  <2>3. CASE v = w /\ ~ReadQuotaStatus(w)
    <3>1. pc'[w] # "record"
      <4>1. CASE StartRun(w) \/ StartSingle(w) \/ CheckQuota(w) \/ GetPendingBatch(w)
                 \/ RecordHistory(w) \/ RecordRefusal(w)
        BY <4>1 DEF StartRun, StartSingle, CheckQuota, GetPendingBatch, NothingPending,
           RecordHistory, RecordRefusal, Goto, TypeOK
      <4>2. CASE MarkFetching(w) \/ Answer(w) \/ FetchRateLimited(w) \/ WaitToRetry(w)
                 \/ Charge(w)
        BY <4>2, FetchEntries DEF Marks, Fetches, Proceeds, Busy, InBatch
      <4>3. CASE UploadRaw(w) \/ UploadCleaned(w) \/ FindProfile(w) \/ SaveProfile(w)
                 \/ RereadEntry(w) \/ CompleteEntry(w) \/ FailEntry(w) \/ Pause(w)
        BY <4>3, StoreEntries DEF Proceeds, Rereads, Panics, Completes, GivesUp, Pauses,
           Leaves, Busy, InBatch
      <4> QED
        BY <1>3, <2>3, <4>1, <4>2, <4>3 DEF Step
    <3> QED
      BY <2>3, <3>1
  <2> QED
    BY <2>1, <2>2, <2>3
<1>4. CASE \/ \E w \in Workers : Cancel(w)
           \/ \E p \in Processes : Crash(p)
           \/ \E e \in Entries : DeleteEntry(e) \/ UpdateEntry(e)
           \/ UNCHANGED vars
  <2>1. pc'[v] \in {pc[v], "dead"} /\ local'[v] = local[v]
    BY <1>1, <1>4 DEF Cancel, Crash, Kill, DeleteEntry, UpdateEntry, vars
  <2> QED
    BY <1>2, <2>1
<1> QED
  BY <1>3, <1>4 DEF Next, Rest

\* A run ends for want of entries, because something fails, or with its report.
LEMMA Ends ==
  ASSUME TypeOK, BatchInv, RecordInv, [Next]_vars, NEW w \in Runs,
         StartRun(w) \/ Step(w) \/ Answer(w) \/ FetchRateLimited(w),
         pc'[w] = "ended", local'[w].total > 0, Undisturbed', ~Deleted'
  PROVE  history'[w] # NoHistory
<1>1. w \in Workers /\ w \notin Singles /\ local[w] \in Locals
  BY FetchJobAssumption DEF Workers, TypeOK
<1>2. ~Fails(w) /\ ~Deleted
  BY <1>1, FailsDisturbs, GoneStays
<1>3. \A l : Goto(w, l) => pc'[w] = l
  BY <1>1 DEF Goto, TypeOK
<1>4. \A s : Report(local[w], s) # NoHistory
  BY DEF Report, NoHistory
<1>5. ASSUME NEW s, history' = [history EXCEPT ![w] = Report(local[w], s)]
      PROVE  history'[w] # NoHistory
  BY <1>4, <1>5 DEF TypeOK
<1>6. CASE StartRun(w) \/ CheckQuota(w) \/ GetPendingBatch(w)
  BY <1>2, <1>3, <1>6 DEF StartRun, CheckQuota, GetPendingBatch, NothingPending
<1>7. CASE \/ MarkFetching(w) \/ Answer(w) \/ FetchRateLimited(w) \/ WaitToRetry(w)
           \/ Charge(w)
  BY <1>1, <1>7, FetchEntries DEF Marks, Fetches, Proceeds, Busy, InBatch
<1>8. CASE \/ UploadRaw(w) \/ UploadCleaned(w) \/ FindProfile(w) \/ SaveProfile(w)
           \/ RereadEntry(w) \/ CompleteEntry(w) \/ FailEntry(w) \/ Pause(w)
  BY <1>1, <1>8, StoreEntries DEF Proceeds, Rereads, Panics, Completes, GivesUp,
     Pauses, Leaves, Busy, InBatch
<1>9. CASE ReadQuotaStatus(w)
  <2>1. \E n : local'[w] = [local[w] EXCEPT !.remaining = n]
    BY <1>1, <1>9 DEF ReadQuotaStatus, Keep, TypeOK
  <2>2. local'[w].total = local[w].total
    BY <1>1, <2>1 DEF Locals
  <2>3. ~NothingToReport(local[w])
    BY <2>2 DEF NothingToReport
  <2> QED
    BY <1>3, <1>9, <2>3 DEF ReadQuotaStatus
<1>10. CASE RecordHistory(w)
  <2>1. local[w].taken \subseteq Entries
    BY <1>1, LocalFields
  <2>2. \A e \in local[w].taken : entry[e].status # "GONE"
    BY <1>2, <2>1 DEF Deleted
  <2>3. Valid(local[w])
    BY <1>10 DEF RecordInv, RecordHistory
  <2>4. history' = [history EXCEPT ![w] = Report(local[w], Outcome(local[w]))]
    BY <1>2, <1>10, <2>2, <2>3 DEF RecordHistory
  <2> QED
    BY <1>5, <2>4
<1>11. CASE RecordRefusal(w)
  BY <1>2, <1>5, <1>11 DEF RecordRefusal
<1> QED
  BY <1>6, <1>7, <1>8, <1>9, <1>10, <1>11 DEF Step

\* A report is not lost again.
LEMMA NextRecorded ==
  ASSUME Singles = {}, TypeOK, BatchInv, RecordInv, RunsAreRecorded, [Next]_vars
  PROVE  RunsAreRecorded'
<1> SUFFICES ASSUME NEW v \in Runs, pc'[v] = "ended", local'[v].total > 0,
                    Undisturbed', ~Deleted'
             PROVE  history'[v] # NoHistory
  BY DEF RunsAreRecorded
<1>1. v \in Workers /\ Workers = Runs
  BY DEF Workers
<1>2. Undisturbed /\ ~Deleted
  BY FailsDisturbs, GoneStays
<1>3. ASSUME pc'[v] \in {pc[v], "dead"}, local'[v] = local[v], history'[v] = history[v]
      PROVE  history'[v] # NoHistory
  BY <1>2, <1>3 DEF RunsAreRecorded
<1>4. ASSUME NEW w \in Runs, StartRun(w) \/ Step(w) \/ Answer(w) \/ FetchRateLimited(w)
      PROVE  history'[v] # NoHistory
  <2>1. CASE v = w
    BY <1>4, <2>1, Ends
  <2>2. CASE v # w
    <3>1. \/ UNCHANGED history
          \/ \E h : history' = [history EXCEPT ![w] = h]
      BY <1>4 DEF StartRun, Step, CheckQuota, GetPendingBatch, MarkFetching,
         WaitToRetry, Charge, UploadRaw, UploadCleaned, FindProfile, SaveProfile,
         RereadEntry, CompleteEntry, FailEntry, Pause, ReadQuotaStatus, RecordHistory,
         RecordRefusal, Answer, FetchSucceeds, FetchNotFound, FetchFails,
         FetchRateLimited, db
    <3>2. history'[v] = history[v]
      BY <2>2, <3>1 DEF TypeOK
    <3>3. pc'[v] \in {pc[v], "dead"} /\ local'[v] = local[v]
      BY <1>1, <1>4, <2>2, OthersRest
    <3> QED
      BY <1>3, <3>2, <3>3
  <2> QED
    BY <2>1, <2>2
<1>5. CASE \/ \E w \in Workers : Cancel(w)
           \/ \E p \in Processes : Crash(p)
           \/ \E e \in Entries : DeleteEntry(e) \/ UpdateEntry(e)
           \/ UNCHANGED vars
  <2>1. pc'[v] \in {pc[v], "dead"} /\ UNCHANGED <<local, history>>
    BY <1>1, <1>5 DEF Cancel, Crash, Kill, DeleteEntry, UpdateEntry, vars, db
  <2> QED
    BY <1>3, <2>1
<1> QED
  BY <1>1, <1>4, <1>5 DEF Next, Rest, StartSingle

\* Runs that respect the quota, one at a time and with nothing else to use it, leave
\* their report when they have processed entries and come to their end undisturbed:
\* the quota they report is never overdrawn, so that the row is accepted.
THEOREM RunsAreRecordedHolds ==
  ASSUME ~Overlap, RespectQuota = {TRUE}, Singles = {}
  PROVE  Spec => []RunsAreRecorded
<1> DEFINE Inv == TypeOK /\ BatchInv /\ RecordInv /\ RunsAreRecorded
<1>1. Init => Inv
  <2>1. Init => RecordInv /\ RunsAreRecorded
    BY DEF Init, RecordInv, RunsAreRecorded, Workers
  <2> QED
    BY <2>1, InitTypes
<1>2. Inv /\ WithinQuota /\ [Next]_vars => Inv'
  BY NextTypes, NextRecord, NextRecorded
<1>3. Spec => []WithinQuota
  BY QuotaIsKept
<1> QED
  BY <1>1, <1>2, <1>3, PTL DEF Spec
===============================================================================
