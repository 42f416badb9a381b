-------------------------------- MODULE EntryTable -------------------------------
(***************************************************************************)
(* The table of profile entries under those who fill it, change it and     *)
(* count it at the same time: the import script                            *)
(* (scripts/import_linkedin_urns/main.go), the mutations and fetches that  *)
(* create, change and delete entries, and GetStats                         *)
(* (pkg/adapter/repository/profileentryrepository/query.go).               *)
(*                                                                         *)
(* Every statement of the import and of GetStats is one step.  Creations   *)
(* and fetches are seen only through the rows they write; modules          *)
(* ProfileStore and FetchJob have their steps.                             *)
(***************************************************************************)
EXTENDS Integers, Sequences, FiniteSets

CONSTANTS
    Urns,        \* values of linkedin_urn
    Lines,       \* the lines of the file, without the empty ones
    BatchSize,   \* the -batch flag
    Readers,     \* statistics requests
    MaxRuns,     \* bound: runs of the import
    MaxChanges,  \* bound: changes of the table by others than the import
    MaxFaults    \* bound: failed statements, and imports that are killed

ASSUME EntryTableAssumption ==
    /\ IsFiniteSet(Urns)
    /\ Lines \in Seq(Urns)
    /\ BatchSize \in Nat \ {0}
    /\ {MaxRuns, MaxChanges, MaxFaults} \subseteq Nat

Statuses == {"PENDING", "FETCHING", "COMPLETED", "FAILED", "NOT_FOUND"}

VARIABLES
    status,   \* the status of the row of each urn, "NONE" without a row
    pc,       \* next step of the import
    dry,      \* the -dry-run flag
    lineNum,  \* lines read
    batch,    \* urnsToInsert
    done,     \* creates of the batch that executeBatch has tried
    stats,    \* ImportStats
    counts,   \* the counts each statistics request has so far
    refused,  \* the statistics requests that have failed
    ever,     \* history: urns that have had a row
    changes,  \* history: changes of the table
    since,    \* history: those before the first count of each request
    outside,  \* history: those by others than the import
    runs,     \* history: runs of the import
    faults    \* history: failures

table  == <<status, ever, changes>>
import == <<pc, dry, lineNum, batch, done, stats>>
reader == <<counts, refused, since>>
vars   == <<table, import, reader, outside, runs, faults>>

Fields  == {"total", "inserted", "skipped", "failed"}
NoStats == [f \in Fields |-> 0]

Init ==
    /\ status \in [Urns -> {"NONE", "COMPLETED"}]
    /\ pc = "idle"
    /\ dry = FALSE
    /\ lineNum = 0
    /\ batch = <<>>
    /\ done = 0
    /\ stats = NoStats
    /\ counts = [r \in Readers |-> <<>>]
    /\ refused = {}
    /\ since = [r \in Readers |-> 0]
    /\ ever = {u \in Urns : status[u] # "NONE"}
    /\ changes = 0
    /\ outside = 0
    /\ runs = 0
    /\ faults = 0

-------------------------------------------------------------------------------
(* Rows. *)

Works == UNCHANGED faults
Fails == faults < MaxFaults /\ faults' = faults + 1

Write(u, s) ==
    /\ status' = [status EXCEPT ![u] = s]
    /\ ever' = ever \cup {u}
    /\ changes' = changes + 1

\* The unique index on linkedin_urn.
Vacant(u) == status[u] = "NONE"

Insert(u) == Vacant(u) /\ Write(u, "PENDING")

-------------------------------------------------------------------------------
(* The import. *)

\* One more line is counted as fs.
Counted(fs) == stats' = [f \in Fields |-> IF f \in fs THEN stats[f] + 1 ELSE stats[f]]

\* A run, the first or a repeated one; its statistics start from zero.
StartImport ==
    /\ pc \in {"idle", "over"}
    /\ runs < MaxRuns
    /\ runs' = runs + 1
    /\ pc' = "scan"
    /\ dry' \in BOOLEAN
    /\ lineNum' = 0
    /\ batch' = <<>>
    /\ done' = 0
    /\ stats' = NoStats
    /\ UNCHANGED <<table, reader, outside, faults>>

\* A dry run counts a line as inserted and looks no further.
ScanLine ==
    /\ pc = "scan"
    /\ lineNum < Len(Lines)
    /\ lineNum' = lineNum + 1
    /\ \/ dry /\ Counted({"total", "inserted"}) /\ UNCHANGED pc
       \/ ~dry /\ Counted({"total"}) /\ pc' = "check"
    /\ UNCHANGED <<table, dry, batch, done, reader, outside, runs, faults>>

Full(n) == n >= BatchSize

\* The line is looked up in the table, not in the batch that is being collected.
CheckLine ==
    LET u == Lines[lineNum]
    IN  /\ pc = "check"
        /\ \/ /\ Works
              /\ status[u] # "NONE"
              /\ Counted({"skipped"})
              /\ pc' = "scan"
              /\ UNCHANGED batch
           \/ /\ Works
              /\ status[u] = "NONE"
              /\ batch' = Append(batch, u)
              /\ pc' = IF Full(Len(batch) + 1) THEN "save" ELSE "scan"
              /\ UNCHANGED stats
           \/ /\ Fails
              /\ Counted({"failed"})
              /\ pc' = "scan"
              /\ UNCHANGED batch
        /\ UNCHANGED <<table, dry, lineNum, done, reader, outside, runs>>

NotCounted == UNCHANGED stats  \* mutant: a duplicate is not counted
Duplicate  == Counted({"skipped"})

\* executeBatch: one create after another, whatever became of the last one.
SaveNext ==
    LET u == batch[done + 1]
    IN  /\ pc = "save"
        /\ \/ Works /\ Insert(u) /\ Counted({"inserted"})
           \/ Works /\ ~Vacant(u) /\ Duplicate /\ UNCHANGED table
           \/ Fails /\ Counted({"failed"}) /\ UNCHANGED table
        /\ \/ /\ done + 1 < Len(batch)
              /\ done' = done + 1
              /\ UNCHANGED <<pc, batch>>
           \/ /\ done + 1 = Len(batch)
              /\ done' = 0
              /\ batch' = <<>>
              /\ pc' = "scan"
        /\ UNCHANGED <<dry, lineNum, reader, outside, runs>>

NothingLeft == TRUE  \* mutant: only full batches are written
BatchEmpty  == batch = <<>>

\* The end of the file; what is left is one more batch.
EndOfFile ==
    /\ pc = "scan"
    /\ lineNum = Len(Lines)
    /\ pc' = IF BatchEmpty THEN "over" ELSE "save"
    /\ UNCHANGED <<table, dry, lineNum, batch, done, stats, reader, outside, runs,
                   faults>>

\* The script is killed, and what it has collected is gone.
Die ==
    /\ pc \notin {"idle", "over"}
    /\ Fails
    /\ pc' = "idle"
    /\ batch' = <<>>
    /\ done' = 0
    /\ UNCHANGED <<table, dry, lineNum, stats, reader, outside, runs>>

-------------------------------------------------------------------------------
(* The others. *)

Other ==
    /\ outside < MaxChanges
    /\ outside' = outside + 1
    /\ UNCHANGED <<import, reader, runs, faults>>

\* The last statement of Create.
CreateEntry(u) == Other /\ Insert(u)

\* UpdateStatus and UpdateAfterFetch of a fetch, or a person who edits the row.
UpdateStatus(u, s) ==
    /\ Other
    /\ status[u] \notin {"NONE", s}
    /\ Write(u, s)

DeleteEntry(u) ==
    /\ Other
    /\ status[u] # "NONE"
    /\ Write(u, "NONE")

-------------------------------------------------------------------------------
(* GetStats. *)

\* What is counted by each query: all rows, and then those of one status.  Rows
\* of status NOT_FOUND are in the total only.
Order == <<Statuses, {"PENDING"}, {"FETCHING"}, {"COMPLETED"}, {"FAILED"}>>

Count(S) == Cardinality({u \in Urns : status[u] \in S})

\* SameAgain is a mutant: the last query asks for the status of the one before.
SameAgain(k) == Order[IF k = 5 THEN 4 ELSE k]
Query(k)     == Order[k]

CountNext(r) ==
    LET k == Len(counts[r]) + 1
    IN  /\ k <= 5
        /\ r \notin refused
        /\ \/ /\ Works
              /\ counts' = [counts EXCEPT ![r] = Append(@, Count(Query(k)))]
              /\ since' = [since EXCEPT ![r] = IF k = 1 THEN changes ELSE @]
              /\ UNCHANGED refused
           \/ /\ Fails
              /\ refused' = refused \cup {r}
              /\ UNCHANGED <<counts, since>>
        /\ UNCHANGED <<table, import, outside, runs>>

-------------------------------------------------------------------------------
Import == StartImport \/ ScanLine \/ CheckLine \/ SaveNext \/ EndOfFile \/ Die

Rest == pc \in {"idle", "over"} /\ UNCHANGED vars

Next ==
    \/ Import
    \/ \E u \in Urns :
           \/ CreateEntry(u)
           \/ DeleteEntry(u)
           \/ \E s \in Statuses : UpdateStatus(u, s)
    \/ \E r \in Readers : CountNext(r)
    \/ Rest

Spec == Init /\ [][Next]_vars

-------------------------------------------------------------------------------
(* Properties. *)

\* Each variable has its type, and a batch has room.
TypeOK ==
    /\ status \in [Urns -> Statuses \cup {"NONE"}]
    /\ pc \in {"idle", "scan", "check", "save", "over"}
    /\ dry \in BOOLEAN
    /\ lineNum \in 0 .. Len(Lines)
    /\ batch \in Seq(Urns)
    /\ done \in Nat
    /\ pc = "save" => done < Len(batch)
    /\ pc \in {"scan", "check"} => Len(batch) < BatchSize
    /\ stats \in [Fields -> Nat]
    /\ counts \in [Readers -> Seq(Nat)]
    /\ refused \subseteq Readers
    /\ since \in [Readers -> Nat]
    /\ ever \subseteq Urns
    /\ changes \in Nat
    /\ outside \in 0 .. MaxChanges
    /\ runs \in 0 .. MaxRuns
    /\ faults \in 0 .. MaxFaults

\* The statistics a finished import prints account for each line of the file once,
\* through lines that repeat, entries created meanwhile and statements that fail
\* (importLinkedInURNs and executeBatch).
ImportAddsUp ==
    pc = "over" =>
        /\ stats["total"] = Len(Lines)
        /\ stats["total"] = stats["inserted"] + stats["skipped"] + stats["failed"]

\* When an import ends without a failed line, every line of the file has got an
\* entry, its own or an older one, the last lines too if they fill no batch.
ImportedAll ==
    pc = "over" /\ ~dry /\ stats["failed"] = 0 =>
        \A i \in 1 .. Len(Lines) : Lines[i] \in ever

Missed(r) ==
    LET c == counts[r]
    IN  c[1] - (c[2] + c[3] + c[4] + c[5] + Count({"NOT_FOUND"}))

\* GetStats counts status by status while entries change.  Its counts and the
\* entries of status NOT_FOUND, which it does not count, miss the total by no more
\* than the changes since it began.
StatsOffByChanges ==
    \A r \in Readers :
        Len(counts[r]) = 5 =>
            Missed(r) \in -(changes - since[r]) .. (changes - since[r])
===============================================================================
