------------------------------ MODULE ConnPool_proofs ----------------------------
(***************************************************************************)
(* What holds of ConnPool for every set of users and every size of the     *)
(* pool: who holds a connection when, that the pool is never overdrawn,    *)
(* and in which states alone the server is stuck.                          *)
(***************************************************************************)
EXTENDS ConnPool, FiniteSetTheorems, TLAPS

(* The inductive invariant. *)

\* Who holds connections: a transaction is a mutation's, between its begin and
\* its end, and a statement holds one while it runs.
HoldersInv ==
    \A u \in Users :
        /\ pc[u] = "begin" => u \in Mutations
        /\ tx[u] => u \in Mutations /\ pc[u] \in {"ready", "wait", "statement", "call", "backoff"}
        /\ rows[u] <=> pc[u] = "statement"

\* The types of the variables, without the bound of the pool.
Types ==
    /\ pc \in [Users -> Labels]
    /\ left \in [Users -> 0 .. MaxSteps]
    /\ tx \in [Users -> BOOLEAN]
    /\ rows \in [Users -> BOOLEAN]
    /\ cancelled \in [Users -> BOOLEAN]

\* Both, and the bound of the pool.
Inv == Types /\ HoldersInv /\ Busy <= MaxConns

-------------------------------------------------------------------------------
(* How many connections are held. *)

\* A part of a finite set is no larger than the set.
LEMMA PartIsSmaller ==
  ASSUME NEW S, NEW T, IsFiniteSet(T), S \subseteq T
  PROVE  IsFiniteSet(S) /\ Cardinality(S) \in Nat /\ Cardinality(S) <= Cardinality(T)
<1>1. IsFiniteSet(S) /\ Cardinality(S) <= Cardinality(T)
  BY FS_Subset
<1> QED
  BY <1>1, FS_CardinalityType

\* A part of a finite set and one more element is larger by one at most.
LEMMA OneMoreElement ==
  ASSUME NEW S, NEW T, NEW x, IsFiniteSet(T), S \subseteq T \cup {x}
  PROVE  Cardinality(S) <= Cardinality(T) + 1
<1>1. IsFiniteSet(T \cup {x}) /\ Cardinality(T \cup {x}) <= Cardinality(T) + 1
  <2>1. Cardinality(T) \in Nat
    BY FS_CardinalityType
  <2> QED
    BY <2>1, FS_AddElement
<1>2. Cardinality(S) \in Nat /\ Cardinality(S) <= Cardinality(T \cup {x})
  BY <1>1, PartIsSmaller
<1>3. Cardinality(T) \in Nat /\ Cardinality(T \cup {x}) \in Nat
  BY <1>1, FS_CardinalityType
<1> QED
  BY <1>1, <1>2, <1>3

\* The holders of either kind are users, and finitely many.
LEMMA HoldersFinite ==
  /\ IsFiniteSet(InTx) /\ Cardinality(InTx) \in Nat
  /\ IsFiniteSet(InUse) /\ Cardinality(InUse) \in Nat
<1>1. IsFiniteSet(Users)
  BY ConnPoolAssumption, FS_Union DEF Users
<1>2. InTx \subseteq Users /\ InUse \subseteq Users
  BY DEF InTx, InUse
<1> QED
  BY <1>1, <1>2, PartIsSmaller

\* The same in the next state.
LEMMA NextHoldersFinite ==
  (/\ IsFiniteSet(InTx) /\ Cardinality(InTx) \in Nat
   /\ IsFiniteSet(InUse) /\ Cardinality(InUse) \in Nat)'
BY HoldersFinite, PTL

\* Who gives connections back overdraws nothing.
LEMMA GivingBack ==
  ASSUME Busy <= MaxConns, InTx' \subseteq InTx, InUse' \subseteq InUse
  PROVE  Busy' <= MaxConns
<1>1. Cardinality(InTx') <= Cardinality(InTx) /\ Cardinality(InUse') <= Cardinality(InUse)
  BY HoldersFinite, PartIsSmaller
<1> QED
  BY <1>1, HoldersFinite, NextHoldersFinite, ConnPoolAssumption DEF Busy

\* Nor does one that takes a single connection while one is free.
LEMMA TakingOne ==
  ASSUME Free, NEW u,
         \/ InTx' \subseteq InTx \cup {u} /\ InUse' \subseteq InUse
         \/ InTx' \subseteq InTx /\ InUse' \subseteq InUse \cup {u}
  PROVE  Busy' <= MaxConns
<1>1. CASE InTx' \subseteq InTx \cup {u} /\ InUse' \subseteq InUse
  <2>1. Cardinality(InTx') <= Cardinality(InTx) + 1
    BY <1>1, HoldersFinite, OneMoreElement
  <2>2. Cardinality(InUse') <= Cardinality(InUse)
    BY <1>1, HoldersFinite, PartIsSmaller
  <2> QED
    BY <2>1, <2>2, HoldersFinite, NextHoldersFinite, ConnPoolAssumption DEF Busy, Free
<1>2. CASE InTx' \subseteq InTx /\ InUse' \subseteq InUse \cup {u}
  <2>1. Cardinality(InUse') <= Cardinality(InUse) + 1
    BY <1>2, HoldersFinite, OneMoreElement
  <2>2. Cardinality(InTx') <= Cardinality(InTx)
    BY <1>2, HoldersFinite, PartIsSmaller
  <2> QED
    BY <2>1, <2>2, HoldersFinite, NextHoldersFinite, ConnPoolAssumption DEF Busy, Free
<1> QED
  BY <1>1, <1>2

-------------------------------------------------------------------------------
(* The inductive invariant. *)

\* At first nobody holds a connection.
LEMMA InitInv == Init => Inv
<1> SUFFICES ASSUME Init PROVE Inv
  OBVIOUS
<1>1. Types /\ HoldersInv
  BY ConnPoolAssumption DEF Init, Types, HoldersInv, Labels
<1>2. InTx = {} /\ InUse = {}
  BY DEF Init, InTx, InUse
<1>3. Busy <= MaxConns
  BY <1>2, FS_EmptySet, ConnPoolAssumption DEF Busy
<1> QED
  BY <1>1, <1>3 DEF Inv

\* Every step keeps the types.
LEMMA NextTypes ==
  ASSUME Types, [Next]_vars
  PROVE  Types'
<1> USE ConnPoolAssumption DEF Types, Labels, Goto
<1>1. ASSUME NEW u \in Users, Arrive(u) PROVE Types'
  BY <1>1 DEF Arrive
<1>2. ASSUME NEW u \in Users, BeginTx(u) PROVE Types'
  BY <1>2 DEF BeginTx
<1>3. ASSUME NEW u \in Users, Ask(u) PROVE Types'
  BY <1>3 DEF Ask
<1>4. ASSUME NEW u \in Users, Execute(u) PROVE Types'
  BY <1>4 DEF Execute
<1>5. ASSUME NEW u \in Users, Answered(u) PROVE Types'
  <2>1. left' \in [Users -> 0 .. MaxSteps]
    BY <1>5 DEF Answered, MayEndHere
  <2> QED
    BY <1>5, <2>1 DEF Answered, Release
<1>6. ASSUME NEW u \in Users, CallProvider(u) PROVE Types'
  BY <1>6 DEF CallProvider
<1>7. ASSUME NEW u \in Users, CallReturns(u) PROVE Types'
  <2>1. left' \in [Users -> 0 .. MaxSteps]
    BY <1>7 DEF CallReturns, MayEndHere
  <2> QED
    BY <1>7, <2>1 DEF CallReturns
<1>8. ASSUME NEW u \in Users, AcquireFails(u) PROVE Types'
  <2>1. left' \in [Users -> 0 .. MaxSteps]
    BY <1>8 DEF AcquireFails, MayEndHere
  <2> QED
    BY <1>8, <2>1 DEF AcquireFails
<1>9. ASSUME NEW u \in Users, Finish(u) PROVE Types'
  BY <1>9 DEF Finish, CloseTx
<1>10. ASSUME NEW u \in Users, Cancel(u) PROVE Types'
  BY <1>10 DEF Cancel
<1>11. ASSUME NEW u \in Users, AwaitDone(u) PROVE Types'
  BY <1>11 DEF AwaitDone
<1>12. ASSUME NEW u \in Users, Throttled(u) PROVE Types'
  BY <1>12 DEF Throttled
<1>13. ASSUME NEW u \in Users, Retry(u) PROVE Types'
  <2>1. left' \in [Users -> 0 .. MaxSteps]
    BY <1>13 DEF Retry, MayEndHere
  <2> QED
    BY <1>13, <2>1 DEF Retry
<1>14. CASE UNCHANGED vars
  BY <1>14 DEF vars
<1> QED
  BY <1>1, <1>2, <1>3, <1>4, <1>5, <1>6, <1>7, <1>8, <1>9, <1>10, <1>11, <1>12, <1>13,
     <1>14 DEF Next, Work, Rest

\* Every step keeps to who may hold a connection, and when.
LEMMA NextHolders ==
  ASSUME Types, HoldersInv, [Next]_vars
  PROVE  HoldersInv'
<1> USE DEF Types, HoldersInv, Goto
<1>1. ASSUME NEW u \in Users, Arrive(u) PROVE HoldersInv'
  BY <1>1 DEF Arrive
<1>2. ASSUME NEW u \in Users, BeginTx(u) PROVE HoldersInv'
  BY <1>2 DEF BeginTx
<1>3. ASSUME NEW u \in Users, Ask(u) PROVE HoldersInv'
  BY <1>3 DEF Ask
<1>4. ASSUME NEW u \in Users, Execute(u) PROVE HoldersInv'
  BY <1>4 DEF Execute
<1>5. ASSUME NEW u \in Users, Answered(u) PROVE HoldersInv'
  BY <1>5 DEF Answered, Release
<1>6. ASSUME NEW u \in Users, CallProvider(u) PROVE HoldersInv'
  BY <1>6 DEF CallProvider
<1>7. ASSUME NEW u \in Users, CallReturns(u) PROVE HoldersInv'
  BY <1>7 DEF CallReturns
<1>8. ASSUME NEW u \in Users, AcquireFails(u) PROVE HoldersInv'
  BY <1>8 DEF AcquireFails, GivesUp
<1>9. ASSUME NEW u \in Users, Finish(u) PROVE HoldersInv'
  BY <1>9 DEF Finish, CloseTx
<1>10. ASSUME NEW u \in Users, Cancel(u) PROVE HoldersInv'
  BY <1>10 DEF Cancel
<1>11. ASSUME NEW u \in Users, AwaitDone(u) PROVE HoldersInv'
  BY <1>11 DEF AwaitDone
<1>12. ASSUME NEW u \in Users, Throttled(u) PROVE HoldersInv'
  BY <1>12 DEF Throttled
<1>13. ASSUME NEW u \in Users, Retry(u) PROVE HoldersInv'
  BY <1>13 DEF Retry
<1>14. CASE UNCHANGED vars
  BY <1>14 DEF vars
<1> QED
  BY <1>1, <1>2, <1>3, <1>4, <1>5, <1>6, <1>7, <1>8, <1>9, <1>10, <1>11, <1>12, <1>13,
     <1>14 DEF Next, Work, Rest

\* Every step keeps within the pool: only BeginTx and Execute take a connection,
\* and they take a free one.
LEMMA NextBounded ==
  ASSUME Types, Busy <= MaxConns, [Next]_vars
  PROVE  (Busy <= MaxConns)'
<1> USE DEF Types
<1>1. ASSUME NEW u \in Users, BeginTx(u) PROVE Busy' <= MaxConns
  <2>1. InTx' \subseteq InTx \cup {u} /\ InUse' \subseteq InUse
    BY <1>1 DEF BeginTx, InTx, InUse
  <2> QED
    BY <1>1, <2>1, TakingOne DEF BeginTx
<1>2. ASSUME NEW u \in Users, Execute(u) PROVE Busy' <= MaxConns
  <2>1. InTx' \subseteq InTx /\ InUse' \subseteq InUse \cup {u}
    BY <1>2 DEF Execute, InTx, InUse
  <2> QED
    BY <1>2, <2>1, TakingOne DEF Execute
<1>3. ASSUME UNCHANGED <<tx, rows>> PROVE Busy' <= MaxConns
  <2>1. InTx' = InTx /\ InUse' = InUse
    BY <1>3 DEF InTx, InUse
  <2> QED
    BY <2>1, GivingBack
<1>4. ASSUME NEW u \in Users, tx' = [tx EXCEPT ![u] = FALSE], UNCHANGED rows
      PROVE  Busy' <= MaxConns
  <2>1. InTx' \subseteq InTx /\ InUse' = InUse
    BY <1>4 DEF InTx, InUse
  <2> QED
    BY <2>1, GivingBack
<1>5. ASSUME NEW u \in Users, rows' = [rows EXCEPT ![u] = FALSE], UNCHANGED tx
      PROVE  Busy' <= MaxConns
  <2>1. InTx' = InTx /\ InUse' \subseteq InUse
    BY <1>5 DEF InTx, InUse
  <2> QED
    BY <2>1, GivingBack
<1>6. ASSUME NEW u \in Users, Work(u) PROVE Busy' <= MaxConns
  BY <1>1, <1>2, <1>3, <1>4, <1>5, <1>6
     DEF Work, Ask, Answered, Release, CallProvider, CallReturns, Throttled, Retry,
         AcquireFails, Finish, CloseTx
<1> QED
  BY <1>3, <1>4, <1>6 DEF Next, Rest, vars, Arrive, Cancel, AwaitDone

\* The invariant, of every reachable state.
LEMMA Reachable == Spec => []Inv
<1>1. Init => Inv
  BY InitInv
<1>2. Inv /\ [Next]_vars => Inv'
  BY NextTypes, NextHolders, NextBounded DEF Inv
<1> QED
  BY <1>1, <1>2, PTL DEF Spec

-------------------------------------------------------------------------------
(* The theorems. *)

\* The pool is never overdrawn: what Transactioner holds for the mutations and
\* what the statements of all users hold is MaxConns connections at most.
THEOREM TypeCorrect == Spec => []TypeOK
<1>1. Inv => TypeOK
  BY DEF Inv, Types, TypeOK
<1> QED
  BY <1>1, Reachable, PTL

\* In a stuck state every connection is the transaction of a mutation that waits
\* for its next statement.
LEMMA StuckHolders ==
  ASSUME Inv, Stuck
  PROVE  Cardinality({u \in Mutations : tx[u] /\ pc[u] = "wait"}) = MaxConns
<1>1. InUse = {}
  BY DEF Inv, HoldersInv, Stuck, Waiting, InUse
<1>2. InTx = {u \in Mutations : tx[u] /\ pc[u] = "wait"}
  BY DEF Inv, HoldersInv, Stuck, Waiting, InTx, Users
<1>3. Busy = Cardinality(InTx)
  BY <1>1, FS_EmptySet, HoldersFinite DEF Busy
<1>4. Busy = MaxConns
  BY <1>3, HoldersFinite, ConnPoolAssumption DEF Inv, Stuck, Free
<1> QED
  BY <1>2, <1>3, <1>4

\* The server is stuck only when as many mutations as the pool has connections
\* have opened their transaction and wait for a statement outside of it.
THEOREM StuckOnlyByMutations == Spec => []StuckOnlyWhenFull
<1>1. Inv => StuckOnlyWhenFull
  BY StuckHolders DEF StuckOnlyWhenFull
<1> QED
  BY <1>1, Reachable, PTL

\* What keeps the server from it: a pool larger than the number of mutations that
\* it works on at once, whatever the queries and the cron jobs do.
THEOREM RoomyPoolNeverStuck ==
  ASSUME Cardinality(Mutations) < MaxConns
  PROVE  Spec => []~Stuck
<1>1. Inv => ~Stuck
  <2> SUFFICES ASSUME Inv, Stuck PROVE FALSE
    OBVIOUS
  <2> DEFINE full == {u \in Mutations : tx[u] /\ pc[u] = "wait"}
  <2>1. Cardinality(full) = MaxConns
    BY StuckHolders
  <2>2. Cardinality(full) <= Cardinality(Mutations) /\ Cardinality(Mutations) \in Nat
    <3>1. full \subseteq Mutations /\ IsFiniteSet(Mutations)
      BY ConnPoolAssumption
    <3> HIDE DEF full
    <3> QED
      BY <3>1, PartIsSmaller, FS_CardinalityType
  <2> QED
    BY <2>1, <2>2, ConnPoolAssumption
<1> QED
  BY <1>1, Reachable, PTL
===============================================================================
