---------------------------- MODULE EntryTable_proofs ----------------------------
(***************************************************************************)
(* What holds of EntryTable for every file, batch size, number of urns and *)
(* of statistics requests, and for any number of runs, changes and faults. *)
(***************************************************************************)
EXTENDS EntryTable, FiniteSetTheorems, TLAPS

-------------------------------------------------------------------------------
(* Small facts. *)

\* A row that is written stays one of the table, and so does an inserted one.
LEMMA Writing ==
  ASSUME status \in [Urns -> Statuses \cup {"NONE"}], ever \subseteq Urns, changes \in Nat,
         NEW u \in Urns, NEW s \in Statuses \cup {"NONE"}, Write(u, s)
  PROVE  /\ status' \in [Urns -> Statuses \cup {"NONE"}]
         /\ ever' \subseteq Urns
         /\ changes' \in Nat
BY DEF Write

\* A line within the file is an urn.
LEMMA LineIsUrn ==
  ASSUME NEW i \in 1 .. Len(Lines)
  PROVE  Lines[i] \in Urns
BY EntryTableAssumption

\* A number of rows is one.
LEMMA CountIsNat ==
  ASSUME NEW S
  PROVE  /\ IsFiniteSet({u \in Urns : status[u] \in S})
         /\ Count(S) \in Nat
BY EntryTableAssumption, FS_Subset, FS_CardinalityType DEF Count

\* The statistics after a line was counted.
LEMMA Counting ==
  ASSUME stats \in [Fields -> Nat], NEW fs, Counted(fs)
  PROVE  /\ stats' \in [Fields -> Nat]
         /\ \A f \in Fields : stats'[f] = IF f \in fs THEN stats[f] + 1 ELSE stats[f]
BY DEF Counted

\* The batch after another line.
LEMMA Collecting ==
  ASSUME batch \in Seq(Urns), NEW u \in Urns, batch' = Append(batch, u)
  PROVE  /\ batch' \in Seq(Urns)
         /\ Len(batch') = Len(batch) + 1
         /\ \A j \in 1 .. Len(batch) : batch'[j] = batch[j]
         /\ batch'[Len(batch) + 1] = u
OBVIOUS

-------------------------------------------------------------------------------
(* Type correctness. *)

\* The line at hand is in the file, and only save works on a batch.
Position ==
    /\ pc = "check" => lineNum >= 1
    /\ pc # "save" => done = 0

\* At first.
LEMMA InitTypes == Init => TypeOK /\ Position
<1> SUFFICES ASSUME Init PROVE TypeOK /\ Position
  OBVIOUS
<1>1. stats \in [Fields -> Nat]
  BY DEF Init, NoStats
<1>2. counts \in [Readers -> Seq(Nat)] /\ since \in [Readers -> Nat]
  BY DEF Init
<1>3. /\ MaxFaults \in Nat /\ MaxChanges \in Nat /\ MaxRuns \in Nat
      /\ Len(Lines) \in Nat
      /\ BatchSize \in Nat \ {0}
      /\ <<>> \in Seq(Urns)
  BY EntryTableAssumption
<1>4. status \in [Urns -> Statuses \cup {"NONE"}]
  BY DEF Init, Statuses
<1>5. ever \subseteq Urns
  BY DEF Init
<1>6. /\ pc = "idle" /\ dry = FALSE /\ lineNum = 0 /\ batch = <<>> /\ done = 0
      /\ refused = {} /\ changes = 0 /\ outside = 0 /\ runs = 0 /\ faults = 0
  BY DEF Init
<1>7. dry \in BOOLEAN
  BY <1>6
<1>8. batch \in Seq(Urns)
  BY <1>3, <1>6
<1> QED
  BY <1>1, <1>2, <1>3, <1>4, <1>5, <1>6, <1>7, <1>8 DEF TypeOK, Position

\* Every step keeps the types.
LEMMA NextTypes ==
  ASSUME TypeOK, Position, [Next]_vars
  PROVE  TypeOK' /\ Position'
<1> DEFINE Goal == TypeOK' /\ Position'
<1> USE DEF TypeOK, Position
<1>0. /\ MaxFaults \in Nat /\ MaxChanges \in Nat /\ MaxRuns \in Nat
      /\ BatchSize \in Nat \ {0} /\ Len(Lines) \in Nat /\ Len(batch) \in Nat
  BY EntryTableAssumption
<1>1. ASSUME StartImport PROVE Goal
  <2>1. stats' \in [Fields -> Nat]
    BY <1>1 DEF StartImport, NoStats
  <2> QED
    BY <1>0, <1>1, <2>1 DEF StartImport, table, reader
<1>2. ASSUME ScanLine PROVE Goal
  <2>1. stats' \in [Fields -> Nat]
    BY <1>2, Counting DEF ScanLine
  <2> QED
    BY <1>0, <1>2, <2>1 DEF ScanLine, table, reader
<1>3. ASSUME CheckLine PROVE Goal
  <2>1. stats' \in [Fields -> Nat]
    BY <1>3, Counting DEF CheckLine
  <2>2. Lines[lineNum] \in Urns
    BY <1>3, LineIsUrn DEF CheckLine
  <2>3. \/ batch' = batch
        \/ batch' \in Seq(Urns) /\ Len(batch') = Len(batch) + 1
    BY <1>3, <2>2, Collecting DEF CheckLine
  <2> QED
    BY <1>0, <1>3, <2>1, <2>3 DEF CheckLine, table, reader, Works, Fails, Full
<1>4. ASSUME SaveNext PROVE Goal
  <2>1. stats' \in [Fields -> Nat]
    BY <1>4, Counting DEF SaveNext, Duplicate
  <2>2. batch[done + 1] \in Urns
    BY <1>4 DEF SaveNext
  <2>3. /\ status' \in [Urns -> Statuses \cup {"NONE"}]
        /\ ever' \subseteq Urns
        /\ changes' \in Nat
    BY <1>4, <2>2, Writing DEF SaveNext, Insert, table, Statuses
  <2>4. faults' \in 0 .. MaxFaults
    BY <1>0, <1>4 DEF SaveNext, Works, Fails
  <2>5. /\ pc' \in {"scan", "save"} /\ batch' \in Seq(Urns) /\ done' \in Nat
        /\ pc' = "save" => done' < Len(batch')
        /\ pc' = "scan" => Len(batch') < BatchSize /\ done' = 0
    <3>1. Len(<<>>) = 0 /\ <<>> \in Seq(Urns)
      OBVIOUS
    <3>2. \/ done + 1 < Len(batch) /\ done' = done + 1 /\ pc' = pc /\ batch' = batch
          \/ done' = 0 /\ batch' = <<>> /\ pc' = "scan"
      BY <1>4 DEF SaveNext
    <3>3. pc = "save"
      BY <1>4 DEF SaveNext
    <3>4. CASE done + 1 < Len(batch) /\ done' = done + 1 /\ pc' = pc /\ batch' = batch
      BY <3>3, <3>4
    <3>5. CASE done' = 0 /\ batch' = <<>> /\ pc' = "scan"
      BY <1>0, <3>1, <3>5
    <3> QED
      BY <3>2, <3>4, <3>5
  <2> QED
    BY <1>4, <2>1, <2>3, <2>4, <2>5 DEF SaveNext, reader
<1>5. ASSUME EndOfFile PROVE Goal
  <2>1. batch # <<>> => Len(batch) > 0
    OBVIOUS
  <2> QED
    BY <1>0, <1>5, <2>1 DEF EndOfFile, BatchEmpty, table, reader
<1>6. ASSUME Die PROVE Goal
  BY <1>0, <1>6 DEF Die, table, reader, Fails
<1>7. ASSUME NEW u \in Urns, CreateEntry(u) \/ DeleteEntry(u)
             \/ \E s \in Statuses : UpdateStatus(u, s)
      PROVE  Goal
  <2>1. \E s \in Statuses \cup {"NONE"} : Write(u, s)
    BY <1>7 DEF CreateEntry, Insert, DeleteEntry, UpdateStatus, Statuses
  <2>2. Other
    BY <1>7 DEF CreateEntry, DeleteEntry, UpdateStatus
  <2>3. /\ status' \in [Urns -> Statuses \cup {"NONE"}]
        /\ ever' \subseteq Urns
        /\ changes' \in Nat
    BY <2>1, Writing
  <2> QED
    BY <1>0, <2>2, <2>3 DEF Other, import, reader
<1>8. ASSUME NEW r \in Readers, CountNext(r) PROVE Goal
  <2>1. Count(Query(Len(counts[r]) + 1)) \in Nat
    BY CountIsNat
  <2>2. /\ counts' \in [Readers -> Seq(Nat)]
        /\ refused' \subseteq Readers
        /\ since' \in [Readers -> Nat]
    <3>1. Append(counts[r], Count(Query(Len(counts[r]) + 1))) \in Seq(Nat)
      BY <2>1
    <3>2. changes \in Nat /\ since[r] \in Nat
      OBVIOUS
    <3> QED
      BY <1>8, <3>1, <3>2 DEF CountNext
  <2> QED
    BY <1>0, <1>8, <2>2 DEF CountNext, table, import, Works, Fails
<1>9. ASSUME UNCHANGED vars PROVE Goal
  BY <1>9 DEF vars, table, import, reader
<1> QED
  BY <1>1, <1>2, <1>3, <1>4, <1>5, <1>6, <1>7, <1>8, <1>9 DEF Next, Import, Rest

\* Every reachable state has the types EntryTable claims, and the batch of the
\* import never grows beyond its size (importLinkedInURNs).
THEOREM TypeCorrect == Spec => []TypeOK
<1>1. TypeOK /\ Position /\ [Next]_vars => (TypeOK /\ Position)'
  BY NextTypes
<1> QED
  BY <1>1, InitTypes, PTL DEF Spec

\* What the proofs below use of it.
LEMMA TypesHold == Spec => [](TypeOK /\ Position)
<1>1. TypeOK /\ Position /\ [Next]_vars => (TypeOK /\ Position)'
  BY NextTypes
<1> QED
  BY <1>1, InitTypes, PTL DEF Spec

-------------------------------------------------------------------------------
(* The statistics of the import. *)

\* The lines that are counted in total and not yet as anything else: the one that
\* is looked up, and what the batch still holds.
Open == Len(batch) - done + (IF pc = "check" THEN 1 ELSE 0)

AddsInv ==
    pc # "idle" =>
        /\ stats["total"] = lineNum
        /\ stats["total"] = stats["inserted"] + stats["skipped"] + stats["failed"] + Open
        /\ pc = "over" => lineNum = Len(Lines) /\ batch = <<>>

\* The four numbers after a line was counted.
LEMMA CountingEach ==
  ASSUME stats \in [Fields -> Nat], NEW fs, Counted(fs)
  PROVE  /\ stats'["total"] = IF "total" \in fs THEN stats["total"] + 1 ELSE stats["total"]
         /\ stats'["inserted"] = IF "inserted" \in fs THEN stats["inserted"] + 1
                                 ELSE stats["inserted"]
         /\ stats'["skipped"] = IF "skipped" \in fs THEN stats["skipped"] + 1
                                ELSE stats["skipped"]
         /\ stats'["failed"] = IF "failed" \in fs THEN stats["failed"] + 1
                               ELSE stats["failed"]
BY Counting DEF Fields

\* A line that is closed is counted as one of three.
LEMMA Closing ==
  ASSUME stats \in [Fields -> Nat],
         Counted({"inserted"}) \/ Counted({"skipped"}) \/ Counted({"failed"})
  PROVE  /\ stats'["total"] = stats["total"]
         /\ stats'["inserted"] + stats'["skipped"] + stats'["failed"]
               = stats["inserted"] + stats["skipped"] + stats["failed"] + 1
<1>1. /\ stats["inserted"] \in Nat
      /\ stats["skipped"] \in Nat
      /\ stats["failed"] \in Nat
  BY DEF Fields
<1>2. CASE Counted({"inserted"})
  BY <1>1, <1>2, CountingEach
<1>3. CASE Counted({"skipped"})
  BY <1>1, <1>3, CountingEach
<1>4. CASE Counted({"failed"})
  BY <1>1, <1>4, CountingEach
<1> QED
  BY <1>2, <1>3, <1>4

\* Every step keeps it.
LEMMA NextAdds ==
  ASSUME TypeOK, Position, AddsInv, [Next]_vars
  PROVE  AddsInv'
<1> USE DEF TypeOK, Position, AddsInv
<1>0. /\ Len(batch) \in Nat /\ Len(<<>>) = 0 /\ Len(Lines) \in Nat
      /\ Open \in Int
  BY EntryTableAssumption DEF Open
<1>a. /\ stats["total"] \in Nat /\ stats["inserted"] \in Nat
      /\ stats["skipped"] \in Nat /\ stats["failed"] \in Nat
  BY DEF Fields
<1>1. CASE StartImport
  <2>1. Open' = 0
    BY <1>0, <1>1 DEF StartImport, Open
  <2>2. /\ stats'["total"] = 0 /\ stats'["inserted"] = 0
        /\ stats'["skipped"] = 0 /\ stats'["failed"] = 0
    BY <1>1 DEF StartImport, NoStats, Fields
  <2> QED
    BY <1>1, <2>1, <2>2 DEF StartImport
<1>2. CASE ScanLine
  <2>1. pc = "scan" /\ lineNum' = lineNum + 1 /\ batch' = batch /\ done' = done
    BY <1>2 DEF ScanLine
  <2>2. CASE Counted({"total", "inserted"}) /\ pc' = pc
    <3>1. Open' = Open
      BY <2>1, <2>2 DEF Open
    <3>2. /\ stats'["total"] = stats["total"] + 1
          /\ stats'["inserted"] = stats["inserted"] + 1
          /\ stats'["skipped"] = stats["skipped"]
          /\ stats'["failed"] = stats["failed"]
      <4>1. /\ "total" \in {"total", "inserted"} /\ "inserted" \in {"total", "inserted"}
            /\ "skipped" \notin {"total", "inserted"} /\ "failed" \notin {"total", "inserted"}
        OBVIOUS
      <4> QED
        BY <2>2, <4>1, CountingEach
    <3>3. stats'["total"] = lineNum'
      BY <2>1, <3>2
    <3>4. stats'["total"] = stats'["inserted"] + stats'["skipped"] + stats'["failed"] + Open'
      <4>1. stats["total"] = stats["inserted"] + stats["skipped"] + stats["failed"] + Open
        BY <2>1
      <4> HIDE DEF TypeOK, Position, AddsInv
      <4>2. stats["total"] + 1 = stats["inserted"] + 1 + stats["skipped"] + stats["failed"] + Open
        BY <1>0, <1>a, <4>1
      <4> QED
        BY <3>1, <3>2, <4>2
    <3> QED
      BY <2>1, <2>2, <3>3, <3>4
  <2>3. CASE Counted({"total"}) /\ pc' = "check"
    <3>1. Open' = Open + 1
      BY <1>0, <2>1, <2>3 DEF Open
    <3>2. /\ stats'["total"] = stats["total"] + 1
          /\ stats'["inserted"] = stats["inserted"]
          /\ stats'["skipped"] = stats["skipped"]
          /\ stats'["failed"] = stats["failed"]
      BY <2>3, CountingEach
    <3>3. stats'["total"] = lineNum'
      BY <2>1, <3>2
    <3>4. stats'["total"] = stats'["inserted"] + stats'["skipped"] + stats'["failed"] + Open'
      <4>1. stats["total"] = stats["inserted"] + stats["skipped"] + stats["failed"] + Open
        BY <2>1
      <4> HIDE DEF TypeOK, Position, AddsInv
      <4>2. stats["total"] + 1 = stats["inserted"] + stats["skipped"] + stats["failed"] + (Open + 1)
        BY <1>0, <1>a, <4>1
      <4> QED
        BY <3>1, <3>2, <4>2
    <3> QED
      BY <2>3, <3>3, <3>4
  <2> QED
    BY <1>2, <2>2, <2>3 DEF ScanLine
<1>3. CASE CheckLine
  <2>1. Lines[lineNum] \in Urns
    BY <1>3, LineIsUrn DEF CheckLine
  <2>2. lineNum' = lineNum /\ done' = done /\ pc = "check" /\ pc' \in {"scan", "save"}
    BY <1>3 DEF CheckLine
  <2>3. CASE batch' = batch /\ (Counted({"skipped"}) \/ Counted({"failed"}))
    <3>1. Open' = Open - 1
      BY <1>0, <2>2, <2>3 DEF Open
    <3> QED
      BY <1>0, <1>a, <2>2, <2>3, <3>1, Closing
  <2>4. CASE batch' = Append(batch, Lines[lineNum]) /\ stats' = stats
    <3>1. Len(batch') = Len(batch) + 1
      BY <2>1, <2>4, Collecting
    <3>2. Open' = Open
      BY <1>0, <2>2, <3>1 DEF Open
    <3> QED
      BY <2>2, <2>4, <3>2
  <2> QED
    BY <1>3, <2>3, <2>4 DEF CheckLine
<1>4. CASE SaveNext
  <2>1. Counted({"inserted"}) \/ Counted({"skipped"}) \/ Counted({"failed"})
    BY <1>4 DEF SaveNext, Duplicate
  <2>2. \/ done + 1 < Len(batch) /\ done' = done + 1 /\ pc' = pc /\ batch' = batch
        \/ done + 1 = Len(batch) /\ done' = 0 /\ batch' = <<>> /\ pc' = "scan"
    BY <1>4 DEF SaveNext
  <2>3. lineNum' = lineNum /\ pc = "save"
    BY <1>4 DEF SaveNext
  <2>4. Open' = Open - 1
    BY <1>0, <2>2, <2>3 DEF Open
  <2>5. pc' \in {"save", "scan"}
    BY <2>2, <2>3
  <2>6. /\ stats'["total"] = stats["total"]
        /\ stats'["inserted"] + stats'["skipped"] + stats'["failed"]
              = stats["inserted"] + stats["skipped"] + stats["failed"] + 1
    BY <2>1, Closing
  <2> QED
    BY <1>0, <1>a, <2>3, <2>4, <2>5, <2>6
<1>5. CASE EndOfFile
  <2>1. Open' = Open
    BY <1>5 DEF EndOfFile, Open
  <2> QED
    BY <1>5, <2>1 DEF EndOfFile, BatchEmpty
<1>6. CASE Die
  BY <1>6 DEF Die
<1>7. CASE UNCHANGED import
  BY <1>7 DEF import, Open
<1>8. [Next]_vars /\ ~Import => UNCHANGED import
  BY DEF Next, CreateEntry, DeleteEntry, UpdateStatus, Other, CountNext, Rest, vars
<1> QED
  BY <1>1, <1>2, <1>3, <1>4, <1>5, <1>6, <1>7, <1>8 DEF Import

\* The statistics an import prints account for each line once, whatever fails
\* and however it races (importLinkedInURNs, executeBatch).
THEOREM StatisticsAddUp == Spec => []ImportAddsUp
<1>1. Init => AddsInv
  BY DEF Init, AddsInv
<1>2. TypeOK /\ Position /\ AddsInv /\ [Next]_vars => AddsInv'
  BY NextAdds
<1>3. TypeOK /\ Position /\ AddsInv => ImportAddsUp
  <2> SUFFICES ASSUME TypeOK, Position, AddsInv, pc = "over" PROVE ImportAddsUp
    BY DEF ImportAddsUp
  <2>1. Len(batch) = 0 /\ done = 0
    BY DEF AddsInv, Position
  <2> QED
    BY <2>1 DEF ImportAddsUp, AddsInv, Open, TypeOK, Fields
<1> QED
  BY <1>1, <1>2, <1>3, TypesHold, PTL DEF Spec

\* Every line read so far is in the table, or was, or is still to be written.
Waiting(i) ==
    \/ pc = "check" /\ i = lineNum
    \/ \E j \in done + 1 .. Len(batch) : batch[j] = Lines[i]

ListedInv ==
    /\ \A u \in Urns : status[u] # "NONE" => u \in ever
    /\ pc # "idle" /\ ~dry /\ stats["failed"] = 0 =>
           \A i \in 1 .. lineNum : Lines[i] \in ever \/ Waiting(i)

\* What is written is known.
LEMMA WritingIsKnown ==
  ASSUME TypeOK, NEW u \in Urns, NEW s, Write(u, s),
         \A v \in Urns : status[v] # "NONE" => v \in ever
  PROVE  /\ \A v \in Urns : status'[v] # "NONE" => v \in ever'
         /\ ever \subseteq ever'
         /\ u \in ever'
BY DEF Write, TypeOK

\* Every step keeps it.
LEMMA NextListed ==
  ASSUME TypeOK, Position, ListedInv, [Next]_vars
  PROVE  ListedInv'
<1> DEFINE Known  == \A u \in Urns : status[u] # "NONE" => u \in ever
           Listed == pc # "idle" /\ ~dry /\ stats["failed"] = 0 =>
                         \A i \in 1 .. lineNum : Lines[i] \in ever \/ Waiting(i)
<1> USE DEF TypeOK, Position, Fields
<1>0. /\ Len(batch) \in Nat /\ Len(<<>>) = 0 /\ Len(Lines) \in Nat
      /\ Known /\ Listed
  BY EntryTableAssumption DEF ListedInv
<1>1. CASE StartImport
  <2>1. Known'
    BY <1>0, <1>1 DEF StartImport, table
  <2>2. Listed'
    BY <1>1 DEF StartImport
  <2> QED
    BY <2>1, <2>2 DEF ListedInv
<1>2. CASE ScanLine
  <2>1. Known'
    BY <1>0, <1>2 DEF ScanLine, table
  <2>2. Listed'
    <3> SUFFICES ASSUME ~dry', stats'["failed"] = 0, NEW i \in 1 .. lineNum'
                 PROVE  Lines[i] \in ever' \/ Waiting(i)'
      OBVIOUS
    <3>1. /\ pc = "scan" /\ ~dry /\ pc' = "check" /\ lineNum' = lineNum + 1
          /\ batch' = batch /\ done' = done /\ ever' = ever
      BY <1>2 DEF ScanLine, table
    <3>2. stats["failed"] = 0
      BY <1>2, <3>1, Counting DEF ScanLine
    <3>3. CASE i = lineNum + 1
      BY <3>1, <3>3 DEF Waiting
    <3>4. CASE i \in 1 .. lineNum
      <4>1. Lines[i] \in ever \/ Waiting(i)
        BY <1>0, <3>1, <3>2, <3>4
      <4> QED
        BY <3>1, <4>1 DEF Waiting
    <3> QED
      BY <3>1, <3>3, <3>4
  <2> QED
    BY <2>1, <2>2 DEF ListedInv
<1>3. CASE CheckLine
  <2>1. Known'
    BY <1>0, <1>3 DEF CheckLine, table
  <2>2. Lines[lineNum] \in Urns
    BY <1>3, LineIsUrn DEF CheckLine
  <2>3. Listed'
    <3> SUFFICES ASSUME ~dry', stats'["failed"] = 0, NEW i \in 1 .. lineNum'
                 PROVE  Lines[i] \in ever' \/ Waiting(i)'
      OBVIOUS
    <3>1. /\ pc = "check" /\ ~dry /\ lineNum' = lineNum
          /\ done' = done /\ done = 0 /\ ever' = ever
      BY <1>3 DEF CheckLine, table
    <3>2. /\ stats["failed"] = 0
          /\ \/ status[Lines[lineNum]] # "NONE" /\ batch' = batch
             \/ batch' = Append(batch, Lines[lineNum])
      BY <1>3, Counting DEF CheckLine
    <3>3. Lines[i] \in ever \/ Waiting(i)
      BY <1>0, <3>1, <3>2
    <3>4. CASE status[Lines[lineNum]] # "NONE" /\ batch' = batch
      BY <1>0, <2>2, <3>1, <3>3, <3>4 DEF Waiting
    <3>5. CASE batch' = Append(batch, Lines[lineNum])
      <4>1. /\ Len(batch') = Len(batch) + 1
            /\ \A j \in 1 .. Len(batch) : batch'[j] = batch[j]
            /\ batch'[Len(batch) + 1] = Lines[lineNum]
        BY <2>2, <3>5, Collecting
      <4>2. CASE i = lineNum
        <5>1. Len(batch) + 1 \in done' + 1 .. Len(batch')
          BY <1>0, <3>1, <4>1
        <5> QED
          BY <3>1, <4>1, <4>2, <5>1 DEF Waiting
      <4>3. CASE \E j \in done + 1 .. Len(batch) : batch[j] = Lines[i]
        <5>1. PICK j \in 1 .. Len(batch) : batch[j] = Lines[i]
          BY <3>1, <4>3
        <5>2. j \in done' + 1 .. Len(batch') /\ batch'[j] = Lines[i]
          BY <1>0, <3>1, <4>1, <5>1
        <5> QED
          BY <3>1, <5>2 DEF Waiting
      <4> QED
        BY <3>1, <3>3, <4>2, <4>3 DEF Waiting
    <3> QED
      BY <3>2, <3>4, <3>5
  <2> QED
    BY <2>1, <2>3 DEF ListedInv
<1>4. CASE SaveNext
  <2>1. batch[done + 1] \in Urns
    BY <1>4 DEF SaveNext
  <2>2. /\ Known' /\ ever \subseteq ever'
        /\ stats'["failed"] = 0 => batch[done + 1] \in ever' /\ stats["failed"] = 0
    <3>1. CASE Insert(batch[done + 1]) /\ Counted({"inserted"})
      <4>1. stats'["failed"] = stats["failed"]
        BY <3>1, Counting
      <4>2. Write(batch[done + 1], "PENDING")
        BY <3>1 DEF Insert
      <4>3. TypeOK /\ \A v \in Urns : status[v] # "NONE" => v \in ever
        BY <1>0
      <4> HIDE DEF TypeOK, Position, Fields
      <4>4. /\ \A v \in Urns : status'[v] # "NONE" => v \in ever'
            /\ ever \subseteq ever' /\ batch[done + 1] \in ever'
        BY <2>1, <4>2, <4>3, WritingIsKnown
      <4> QED
        BY <4>1, <4>4
    <3>2. CASE ~Vacant(batch[done + 1]) /\ Duplicate /\ UNCHANGED table
      BY <1>0, <2>1, <3>2, Counting DEF Vacant, Duplicate, table
    <3>3. CASE Counted({"failed"}) /\ UNCHANGED table
      BY <1>0, <2>1, <3>3, Counting DEF table
    <3> QED
      BY <1>4, <3>1, <3>2, <3>3 DEF SaveNext
  <2>3. Listed'
    <3> SUFFICES ASSUME ~dry', stats'["failed"] = 0, NEW i \in 1 .. lineNum'
                 PROVE  Lines[i] \in ever' \/ Waiting(i)'
      OBVIOUS
    <3>1. /\ pc = "save" /\ ~dry /\ lineNum' = lineNum
          /\ \/ done + 1 < Len(batch) /\ done' = done + 1 /\ pc' = pc /\ batch' = batch
             \/ done + 1 = Len(batch)
      BY <1>4 DEF SaveNext
    <3>2. Lines[i] \in ever \/ \E j \in done + 1 .. Len(batch) : batch[j] = Lines[i]
      BY <1>0, <2>2, <3>1 DEF Waiting
    <3>3. CASE Lines[i] \in ever
      BY <2>2, <3>3
    <3>4. CASE \E j \in done + 1 .. Len(batch) : batch[j] = Lines[i]
      <4>1. PICK j \in done + 1 .. Len(batch) : batch[j] = Lines[i]
        BY <3>4
      <4>2. CASE j = done + 1
        BY <2>2, <4>1, <4>2
      <4>3. CASE j > done + 1
        <5>1. done + 1 < Len(batch)
          BY <1>0, <4>1, <4>3
        <5>2. j \in done' + 1 .. Len(batch') /\ batch'[j] = Lines[i]
          BY <1>0, <3>1, <4>1, <4>3, <5>1
        <5> QED
          BY <5>2 DEF Waiting
      <4> QED
        BY <1>0, <4>1, <4>2, <4>3
    <3> QED
      BY <3>2, <3>3, <3>4
  <2> QED
    BY <2>2, <2>3 DEF ListedInv
<1>5. CASE EndOfFile
  BY <1>0, <1>5 DEF EndOfFile, ListedInv, Waiting, table
<1>6. CASE Die
  BY <1>0, <1>6 DEF Die, ListedInv, table
<1>7. CASE UNCHANGED import /\ (UNCHANGED table \/ \E u \in Urns, s \in Statuses \cup {"NONE"} : Write(u, s))
  <2>1. Known' /\ ever \subseteq ever'
    BY <1>0, <1>7, WritingIsKnown DEF table
  <2>2. Listed'
    BY <1>0, <1>7, <2>1 DEF import, Waiting
  <2> QED
    BY <2>1, <2>2 DEF ListedInv
<1>8. [Next]_vars /\ ~Import =>
         UNCHANGED import /\ (UNCHANGED table \/ \E u \in Urns, s \in Statuses \cup {"NONE"} : Write(u, s))
  BY DEF Next, CreateEntry, DeleteEntry, UpdateStatus, Other, CountNext, Rest, vars,
         Insert, Statuses
<1> QED
  BY <1>1, <1>2, <1>3, <1>4, <1>5, <1>6, <1>7, <1>8 DEF Import

\* When an import ends without a failed line, every line of the file has got an
\* entry, its own or an older one, for any file and batch size.
THEOREM NoLineIsLost == Spec => []ImportedAll
<1>1. Init => ListedInv
  BY DEF Init, ListedInv
<1>2. TypeOK /\ Position /\ ListedInv /\ [Next]_vars => ListedInv'
  BY NextListed
<1>3. Init => AddsInv
  BY DEF Init, AddsInv
<1>4. TypeOK /\ Position /\ AddsInv /\ [Next]_vars => AddsInv'
  BY NextAdds
<1>5. TypeOK /\ AddsInv /\ ListedInv => ImportedAll
  <2> SUFFICES ASSUME TypeOK, AddsInv, ListedInv,
                      pc = "over", ~dry, stats["failed"] = 0, NEW i \in 1 .. Len(Lines)
               PROVE  Lines[i] \in ever
    BY DEF ImportedAll
  <2>1. lineNum = Len(Lines) /\ batch = <<>> /\ done \in Nat
    BY DEF AddsInv, TypeOK
  <2>2. Lines[i] \in ever \/ Waiting(i)
    BY <2>1 DEF ListedInv
  <2>3. ~ \E j \in done + 1 .. Len(batch) : batch[j] = Lines[i]
    BY <2>1
  <2> QED
    BY <2>2, <2>3 DEF Waiting
<1> QED
  BY <1>1, <1>2, <1>3, <1>4, <1>5, TypesHold, PTL DEF Spec

-------------------------------------------------------------------------------
(* The statistics of the entries. *)

\* The rows of the statuses S in a table st, and how many.
In(st, S)  == {u \in Urns : st[u] \in S}
Cnt(st, S) == Cardinality(In(st, S))

\* The statuses a request has not counted after k counts.
Left == <<Statuses, Statuses \ {"PENDING"}, {"COMPLETED", "FAILED", "NOT_FOUND"},
          {"FAILED", "NOT_FOUND"}, {"NOT_FOUND"}>>

\* What it has counted by status.
Part(c, k) == IF Len(c) >= k THEN c[k] ELSE 0
Taken(c)   == Part(c, 2) + Part(c, 3) + Part(c, 4) + Part(c, 5)

\* What is counted and what is left miss the total by d at the most.
Near(st, c, d) == c[1] - (Taken(c) + Cnt(st, Left[Len(c)])) \in -d .. d

StatsInv ==
    \A r \in Readers :
        /\ Len(counts[r]) <= 5
        /\ Len(counts[r]) >= 1 => Near(status, counts[r], changes - since[r])

\* A number of rows is one.
LEMMA CntIsNat ==
  ASSUME NEW st, NEW S
  PROVE  IsFiniteSet(In(st, S)) /\ Cnt(st, S) \in Nat
BY EntryTableAssumption, FS_Subset, FS_CardinalityType DEF In, Cnt

\* One write changes a number of rows by one at the most.
LEMMA CountMoves ==
  ASSUME NEW st, NEW u \in Urns, NEW s, NEW S,
         NEW tt, \A v \in Urns \ {u} : tt[v] = st[v]
  PROVE  Cnt(tt, S) \in Cnt(st, S) - 1 .. Cnt(st, S) + 1
<1> DEFINE A == In(st, S)
           B == In(tt, S)
<1>1. A \ {u} = B \ {u}
  BY DEF In
<1>2. IsFiniteSet(A) /\ IsFiniteSet(B) /\ Cnt(st, S) \in Nat /\ Cnt(tt, S) \in Nat
  BY CntIsNat
<1>3. Cnt(st, S) = Cardinality(A) /\ Cnt(tt, S) = Cardinality(B)
  BY DEF Cnt
<1> HIDE DEF A, B
<1>4. /\ Cardinality(A \ {u}) = IF u \in A THEN Cardinality(A) - 1 ELSE Cardinality(A)
      /\ Cardinality(B \ {u}) = IF u \in B THEN Cardinality(B) - 1 ELSE Cardinality(B)
  BY <1>2, FS_RemoveElement
<1> QED
  BY <1>1, <1>2, <1>3, <1>4

\* Rows of disjoint sets of statuses add up.
LEMMA CountSplits ==
  ASSUME NEW st, NEW S, NEW T, S \cap T = {}
  PROVE  Cnt(st, S \cup T) = Cnt(st, S) + Cnt(st, T)
<1> DEFINE A == In(st, S)
           B == In(st, T)
<1>1. In(st, S \cup T) = A \cup B /\ A \cap B = {}
  BY DEF In
<1>2. IsFiniteSet(A) /\ IsFiniteSet(B) /\ Cnt(st, S) \in Nat /\ Cnt(st, T) \in Nat
  BY CntIsNat
<1>3. /\ Cnt(st, S) = Cardinality(A)
      /\ Cnt(st, T) = Cardinality(B)
      /\ Cnt(st, S \cup T) = Cardinality(A \cup B)
  BY <1>1 DEF Cnt
<1> HIDE DEF A, B
<1>4. Cardinality(A \cup B) = Cardinality(A) + Cardinality(B) - Cardinality(A \cap B)
  BY <1>2, FS_Union
<1>5. Cardinality(A \cap B) = 0
  BY <1>1, FS_EmptySet
<1> QED
  BY <1>2, <1>3, <1>4, <1>5

\* What is left before a count by status is what is counted and what is left then.
LEMMA LeftSplits ==
  ASSUME NEW st, NEW k \in 1 .. 4
  PROVE  Cnt(st, Left[k]) = Cnt(st, Query(k + 1)) + Cnt(st, Left[k + 1])
<1>1. /\ Query(k + 1) \cup Left[k + 1] = Left[k]
      /\ Query(k + 1) \cap Left[k + 1] = {}
  <2>1. CASE k = 1
    BY <2>1 DEF Query, Order, Left, Statuses
  <2>2. CASE k = 2
    BY <2>2 DEF Query, Order, Left, Statuses
  <2>3. CASE k = 3
    BY <2>3 DEF Query, Order, Left
  <2>4. CASE k = 4
    BY <2>4 DEF Query, Order, Left
  <2> QED
    BY <2>1, <2>2, <2>3, <2>4
<1> QED
  BY <1>1, CountSplits

\* What has been taken is a number.
LEMMA TakenIsNat ==
  ASSUME NEW c \in Seq(Nat), Len(c) >= 1
  PROVE  Taken(c) \in Nat /\ c[1] \in Nat
BY DEF Taken, Part

\* A count by status is added to what has been taken.
LEMMA TakenGrows ==
  ASSUME NEW c \in Seq(Nat), NEW n \in Nat, Len(c) \in 1 .. 4
  PROVE  /\ Taken(Append(c, n)) = Taken(c) + n
         /\ Append(c, n)[1] = c[1]
         /\ Len(Append(c, n)) = Len(c) + 1
<1> DEFINE d == Append(c, n)
<1>1. /\ Len(d) = Len(c) + 1
      /\ \A i \in 1 .. Len(c) : d[i] = c[i] /\ c[i] \in Nat
      /\ d[Len(c) + 1] = n
  OBVIOUS
<1> HIDE DEF d
<1>2. CASE Len(c) = 1
  <2>1. Taken(c) = 0 + 0 + 0 + 0 /\ Taken(d) = d[2] + 0 + 0 + 0
    BY <1>1, <1>2 DEF Taken, Part
  <2>2. d[2] = n
    BY <1>1, <1>2
  <2> QED
    BY <1>1, <1>2, <2>1, <2>2 DEF d
<1>3. CASE Len(c) = 2
  <2>1. Taken(c) = c[2] + 0 + 0 + 0 /\ Taken(d) = d[2] + d[3] + 0 + 0
    BY <1>1, <1>3 DEF Taken, Part
  <2>2. d[2] = c[2] /\ d[3] = n /\ c[2] \in Nat
    BY <1>1, <1>3
  <2> QED
    BY <1>1, <1>3, <2>1, <2>2 DEF d
<1>4. CASE Len(c) = 3
  <2>1. Taken(c) = c[2] + c[3] + 0 + 0 /\ Taken(d) = d[2] + d[3] + d[4] + 0
    BY <1>1, <1>4 DEF Taken, Part
  <2>2. d[2] = c[2] /\ d[3] = c[3] /\ d[4] = n /\ c[2] \in Nat /\ c[3] \in Nat
    BY <1>1, <1>4
  <2> QED
    BY <1>1, <1>4, <2>1, <2>2 DEF d
<1>5. CASE Len(c) = 4
  <2>1. Taken(c) = c[2] + c[3] + c[4] + 0 /\ Taken(d) = d[2] + d[3] + d[4] + d[5]
    BY <1>1, <1>5 DEF Taken, Part
  <2>2. /\ d[2] = c[2] /\ d[3] = c[3] /\ d[4] = c[4] /\ d[5] = n
        /\ c[2] \in Nat /\ c[3] \in Nat /\ c[4] \in Nat
    BY <1>1, <1>5
  <2> QED
    BY <1>1, <1>5, <2>1, <2>2 DEF d
<1> QED
  BY <1>2, <1>3, <1>4, <1>5

\* A write takes the counts one further from the total.
LEMMA NearAfterWrite ==
  ASSUME NEW st, NEW u \in Urns, NEW tt, \A v \in Urns \ {u} : tt[v] = st[v],
         NEW c \in Seq(Nat), Len(c) >= 1, NEW d \in Int, Near(st, c, d)
  PROVE  Near(tt, c, d + 1)
<1> DEFINE S == Left[Len(c)]
<1>1. Cnt(tt, S) \in Cnt(st, S) - 1 .. Cnt(st, S) + 1
  BY CountMoves
<1>2. Cnt(tt, S) \in Nat /\ Cnt(st, S) \in Nat
  BY CntIsNat
<1>3. Taken(c) \in Nat /\ c[1] \in Nat
  BY TakenIsNat
<1>4. /\ c[1] - (Taken(c) + Cnt(st, S)) \in -d .. d
      /\ Near(tt, c, d + 1) <=> c[1] - (Taken(c) + Cnt(tt, S)) \in -(d + 1) .. (d + 1)
  BY DEF Near
<1> DEFINE x == c[1] - (Taken(c) + Cnt(st, S))
           y == c[1] - (Taken(c) + Cnt(tt, S))
<1> HIDE DEF S
<1>5. x \in Int /\ y \in Int /\ x - 1 <= y /\ y <= x + 1
  BY <1>1, <1>2, <1>3
<1>6. -d <= x /\ x <= d
  BY <1>4, <1>5
<1> HIDE DEF x, y
<1>7. y \in -(d + 1) .. (d + 1)
  BY <1>5, <1>6
<1> QED
  BY <1>4, <1>7 DEF y

\* A count of the table as it is takes them no further.
LEMMA NearAfterCount ==
  ASSUME NEW st, NEW c \in Seq(Nat), Len(c) \in 1 .. 4, NEW d \in Int, Near(st, c, d)
  PROVE  Near(st, Append(c, Cnt(st, Query(Len(c) + 1))), d)
<1> DEFINE n == Cnt(st, Query(Len(c) + 1))
           e == Append(c, n)
<1>1. n \in Nat /\ Cnt(st, Left[Len(c)]) \in Nat /\ Cnt(st, Left[Len(c) + 1]) \in Nat
  BY CntIsNat
<1>2. Taken(e) = Taken(c) + n /\ e[1] = c[1] /\ Len(e) = Len(c) + 1
  BY <1>1, TakenGrows
<1>3. Cnt(st, Left[Len(c)]) = n + Cnt(st, Left[Len(c) + 1])
  BY LeftSplits
<1>4. Taken(c) \in Nat /\ c[1] \in Nat
  BY TakenIsNat
<1>5. c[1] - (Taken(c) + Cnt(st, Left[Len(c)])) \in -d .. d
  BY DEF Near
<1> HIDE DEF n, e
<1>6. Near(st, e, d)
  <2>1. Taken(e) + Cnt(st, Left[Len(e)]) = Taken(c) + Cnt(st, Left[Len(c)])
    BY <1>1, <1>2, <1>3, <1>4
  <2> QED
    BY <1>2, <1>5, <2>1 DEF Near
<1> QED
  BY <1>6 DEF n, e

\* The first count is the total, and everything is left.
LEMMA NearAtFirst ==
  ASSUME NEW st, NEW c, c = <<Cnt(st, Query(1))>>
  PROVE  Len(c) = 1 /\ Near(st, c, 0)
<1>1. Query(1) = Statuses /\ Left[1] = Statuses
  BY DEF Query, Order, Left
<1>2. Len(c) = 1 /\ c[1] = Cnt(st, Statuses) /\ Taken(c) = 0
  BY <1>1 DEF Taken, Part
<1>3. Cnt(st, Statuses) \in Nat
  BY CntIsNat
<1> QED
  BY <1>1, <1>2, <1>3 DEF Near

\* Every step keeps it.
LEMMA NextStats ==
  ASSUME TypeOK, StatsInv, [Next]_vars
  PROVE  StatsInv'
<1> DEFINE Fine(r) == /\ Len(counts'[r]) <= 5
                      /\ Len(counts'[r]) >= 1 => Near(status', counts'[r], changes' - since'[r])
<1> SUFFICES ASSUME NEW r \in Readers PROVE Fine(r)
  BY DEF StatsInv
<1>0. /\ counts[r] \in Seq(Nat) /\ Len(counts[r]) \in Nat
      /\ since[r] \in Nat /\ changes \in Nat /\ changes - since[r] \in Int
      /\ Len(counts[r]) <= 5
      /\ Len(counts[r]) >= 1 => Near(status, counts[r], changes - since[r])
  BY DEF TypeOK, StatsInv
<1>1. ASSUME UNCHANGED <<status, changes>>, counts'[r] = counts[r], since'[r] = since[r]
      PROVE  Fine(r)
  BY <1>0, <1>1
<1>2. ASSUME UNCHANGED reader, NEW u \in Urns, NEW s, Write(u, s)
      PROVE  Fine(r)
  <2>1. /\ \A v \in Urns \ {u} : status'[v] = status[v]
        /\ counts' = counts /\ since' = since
    BY <1>2 DEF Write, reader, TypeOK
  <2>2. changes' - since'[r] = (changes - since[r]) + 1
    BY <1>0, <1>2, <2>1 DEF Write
  <2>3. Len(counts[r]) >= 1 => Near(status', counts[r], (changes - since[r]) + 1)
    BY <1>0, <2>1, NearAfterWrite
  <2> QED
    BY <1>0, <2>1, <2>2, <2>3
<1>3. ASSUME NEW q \in Readers, CountNext(q)
      PROVE  Fine(r)
  <2>1. UNCHANGED <<status, changes>>
    BY <1>3 DEF CountNext, table
  <2>2. CASE counts'[r] = counts[r] /\ since'[r] = since[r]
    BY <1>1, <2>1, <2>2
  <2>3. CASE ~(counts'[r] = counts[r] /\ since'[r] = since[r])
    <3> DEFINE k == Len(counts[r])
               n == Cnt(status, Query(k + 1))
    <3>1. /\ k <= 4
          /\ counts'[r] = Append(counts[r], n)
          /\ since'[r] = IF k + 1 = 1 THEN changes ELSE since[r]
      <4>1. \/ UNCHANGED <<counts, since>>
            \/ /\ Len(counts[q]) + 1 <= 5
               /\ counts' = [counts EXCEPT ![q] = Append(counts[q], Count(Query(Len(counts[q]) + 1)))]
               /\ since' = [since EXCEPT ![q] = IF Len(counts[q]) + 1 = 1 THEN changes ELSE since[q]]
        BY <1>3 DEF CountNext
      <4>2. counts \in [Readers -> Seq(Nat)] /\ since \in [Readers -> Nat]
        BY DEF TypeOK
      <4>3. q = r
        BY <2>3, <4>1, <4>2
      <4>4. n = Count(Query(k + 1))
        BY DEF Count, Cnt, In
      <4> QED
        BY <1>0, <2>3, <4>1, <4>2, <4>3, <4>4
    <3>2. n \in Nat
      BY CntIsNat
    <3>6. n = Cnt(status, Query(k + 1))
      OBVIOUS
    <3> HIDE DEF n
    <3>3. Len(counts'[r]) = k + 1
      BY <1>0, <3>1, <3>2
    <3>4. CASE k = 0
      <4>1. counts'[r] = <<Cnt(status, Query(1))>>
        <5>1. counts[r] = <<>>
          BY <1>0, <3>4
        <5>2. Append(<<>>, n) = <<n>>
          OBVIOUS
        <5> QED
          BY <3>1, <3>4, <3>6, <5>1, <5>2
      <4>2. Near(status, counts'[r], 0)
        BY <4>1, NearAtFirst
      <4>3. changes' - since'[r] = 0
        BY <1>0, <2>1, <3>1, <3>4
      <4> QED
        BY <2>1, <3>3, <3>4, <4>2, <4>3
    <3>5. CASE k \in 1 .. 4
      <4>1. Near(status, Append(counts[r], n), changes - since[r])
        <5>1. /\ Near(status, counts[r], changes - since[r])
              /\ counts[r] \in Seq(Nat)
              /\ changes - since[r] \in Int
          <6>1. k >= 1
            <7> HIDE DEF k
            <7> QED
              BY <3>5
          <6> QED
            BY <1>0, <6>1
        <5>2. Near(status, Append(counts[r], Cnt(status, Query(k + 1))), changes - since[r])
          BY <3>5, <5>1, NearAfterCount
        <5> QED
          BY <3>6, <5>2
      <4>2. changes' - since'[r] = changes - since[r]
        BY <1>0, <2>1, <3>1, <3>5
      <4> QED
        BY <2>1, <3>1, <3>3, <3>5, <4>1, <4>2
    <3>7. k \in 0 .. 4
      <4>1. k \in Nat
        BY <1>0
      <4>2. k <= 4
        BY <3>1
      <4> HIDE DEF k
      <4> QED
        BY <4>1, <4>2
    <3> QED
      BY <3>4, <3>5, <3>7
  <2> QED
    BY <2>2, <2>3
<1> HIDE DEF Fine
<1>4. CASE \E q \in Readers : CountNext(q)
  BY <1>3, <1>4
<1>5. CASE UNCHANGED reader /\ UNCHANGED table
  BY <1>1, <1>5 DEF reader, table
<1>6. CASE UNCHANGED reader /\ \E u \in Urns, s \in Statuses \cup {"NONE"} : Write(u, s)
  BY <1>2, <1>6
<1>7. \/ \E q \in Readers : CountNext(q)
      \/ UNCHANGED reader /\ UNCHANGED table
      \/ UNCHANGED reader /\ \E u \in Urns, s \in Statuses \cup {"NONE"} : Write(u, s)
  <2>1. CASE SaveNext
    <3>1. UNCHANGED reader
      BY <2>1 DEF SaveNext
    <3>2. UNCHANGED table \/ Insert(batch[done + 1])
      BY <2>1 DEF SaveNext
    <3>3. batch[done + 1] \in Urns
      BY <2>1 DEF SaveNext, TypeOK
    <3> QED
      BY <3>1, <3>2, <3>3 DEF Insert, Statuses
  <2>2. CASE StartImport \/ ScanLine \/ CheckLine \/ EndOfFile \/ Die
    BY <2>2 DEF StartImport, ScanLine, CheckLine, EndOfFile, Die
  <2>3. CASE \E u \in Urns : CreateEntry(u)
    BY <2>3 DEF CreateEntry, Other, Insert, Statuses
  <2>4. CASE \E u \in Urns : DeleteEntry(u)
    BY <2>4 DEF DeleteEntry, Other
  <2>5. CASE \E u \in Urns, s \in Statuses : UpdateStatus(u, s)
    BY <2>5 DEF UpdateStatus, Other
  <2>6. CASE UNCHANGED vars
    BY <2>6 DEF vars
  <2> QED
    BY <2>1, <2>2, <2>3, <2>4, <2>5, <2>6 DEF Next, Import, Rest
<1> QED
  BY <1>4, <1>5, <1>6, <1>7

\* The counts of GetStats miss the total by no more than the entries that changed
\* while they were taken, for any number of entries and of requests at once.
THEOREM StatsAreClose == Spec => []StatsOffByChanges
<1>1. Init => StatsInv
  <2>1. Len(<<>>) = 0
    OBVIOUS
  <2> QED
    BY <2>1 DEF Init, StatsInv
<1>2. TypeOK /\ StatsInv /\ [Next]_vars => StatsInv'
  BY NextStats
<1>3. TypeOK /\ StatsInv => StatsOffByChanges
  <2> SUFFICES ASSUME TypeOK, StatsInv, NEW r \in Readers, Len(counts[r]) = 5
               PROVE  Missed(r) \in -(changes - since[r]) .. (changes - since[r])
    BY DEF StatsOffByChanges
  <2> DEFINE c == counts[r]
             m == Cnt(status, {"NOT_FOUND"})
  <2>1. Near(status, c, changes - since[r])
    BY DEF StatsInv
  <2>2. Taken(c) = c[2] + c[3] + c[4] + c[5]
    BY DEF Taken, Part
  <2>3. Left[Len(c)] = {"NOT_FOUND"}
    BY DEF Left
  <2>4. Missed(r) = c[1] - (c[2] + c[3] + c[4] + c[5] + m)
    BY DEF Missed, Count, Cnt, In
  <2> QED
    BY <2>1, <2>2, <2>3, <2>4 DEF Near
<1> QED
  BY <1>1, <1>2, <1>3, TypeCorrect, PTL DEF Spec

===============================================================================
