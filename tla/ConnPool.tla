--------------------------------- MODULE ConnPool --------------------------------
(***************************************************************************)
(* The connections of the server's one pool                                *)
(* (pkg/infrastructure/datastore/datastore.go), and who holds them.        *)
(*                                                                         *)
(* entgql.Transactioner (pkg/infrastructure/graphql/graphql.go) opens a    *)
(* transaction around every GraphQL mutation, and with it takes a          *)
(* connection until the response is complete.  The repositories do not use *)
(* that transaction: they send each statement through the plain client, so *)
(* a mutation needs a second connection for each of its statements.        *)
(* Queries, the REST handlers and the cron jobs hold a connection for one  *)
(* statement at a time.                                                    *)
(***************************************************************************)
EXTENDS Integers, FiniteSets

CONSTANTS
    Mutations,  \* GraphQL requests that mutate
    Others,     \* other requests, and the cron jobs of the server
    Requests,   \* those of either kind whose client can go away
    MaxConns,   \* poolConfig.MaxConns
    MaxSteps    \* bound: statements and calls of one user

Users == Mutations \cup Others

ASSUME ConnPoolAssumption ==
    /\ IsFiniteSet(Mutations) /\ IsFiniteSet(Others)
    /\ Mutations \cap Others = {}
    /\ Requests \subseteq Users
    /\ MaxConns \in Nat \ {0}
    /\ MaxSteps \in Nat

VARIABLES
    pc,        \* what each user is doing
    left,      \* statements and calls it still has to make
    tx,        \* whether its transaction holds a connection
    rows,      \* whether its statement holds a connection
    cancelled  \* whether its client has gone away

vars == <<pc, left, tx, rows, cancelled>>

Init ==
    /\ pc = [u \in Users |-> "idle"]
    /\ left = [u \in Users |-> 0]
    /\ tx = [u \in Users |-> FALSE]
    /\ rows = [u \in Users |-> FALSE]
    /\ cancelled = [u \in Users |-> FALSE]

-------------------------------------------------------------------------------
(* Helpers. *)

InTx  == {u \in Users : tx[u]}
InUse == {u \in Users : rows[u]}
Busy  == Cardinality(InTx) + Cardinality(InUse)

Goto(u, label) == pc' = [pc EXCEPT ![u] = label]

AlmostFree == Busy + 1 < MaxConns  \* mutant: the last connection is never given
Free       == Busy < MaxConns

-------------------------------------------------------------------------------
(* One user after another. *)

\* A request comes in, or a job is started; only a mutation begins a transaction.
Arrive(u) ==
    /\ pc[u] = "idle"
    /\ \E n \in 0 .. MaxSteps : left' = [left EXCEPT ![u] = n]
    /\ Goto(u, IF u \in Mutations THEN "begin" ELSE "ready")
    /\ UNCHANGED <<tx, rows, cancelled>>

\* OpenTx: BEGIN takes a connection, and keeps it.
BeginTx(u) ==
    /\ pc[u] = "begin"
    /\ ~cancelled[u]
    /\ Free
    /\ tx' = [tx EXCEPT ![u] = TRUE]
    /\ Goto(u, "ready")
    /\ UNCHANGED <<left, rows, cancelled>>

\* A repository sends a statement through the client of the pool.
Ask(u) ==
    /\ pc[u] = "ready"
    /\ left[u] > 0
    /\ left' = [left EXCEPT ![u] = @ - 1]
    /\ Goto(u, "wait")
    /\ UNCHANGED <<tx, rows, cancelled>>

Execute(u) ==
    /\ pc[u] = "wait"
    /\ ~cancelled[u]
    /\ Free
    /\ rows' = [rows EXCEPT ![u] = TRUE]
    /\ Goto(u, "statement")
    /\ UNCHANGED <<left, tx, cancelled>>

\* A failure may be the end of the handler.
MayEndHere(u) == {left, [left EXCEPT ![u] = 0]}

Leak(u)    == UNCHANGED rows  \* mutant: the rows are not closed
Release(u) == rows' = [rows EXCEPT ![u] = FALSE]

\* The statement is answered, or fails, as it also does when its context is
\* cancelled; its connection goes back.
Answered(u) ==
    /\ pc[u] = "statement"
    /\ Release(u)
    /\ left' \in MayEndHere(u)
    /\ Goto(u, "ready")
    /\ UNCHANGED <<tx, cancelled>>

\* A fetch calls the provider, and the bucket, within its transaction.
CallProvider(u) ==
    /\ pc[u] = "ready"
    /\ left[u] > 0
    /\ left' = [left EXCEPT ![u] = @ - 1]
    /\ Goto(u, "call")
    /\ UNCHANGED <<tx, rows, cancelled>>

CallReturns(u) ==
    /\ pc[u] = "call"
    /\ left' \in MayEndHere(u)
    /\ Goto(u, "ready")
    /\ UNCHANGED <<tx, rows, cancelled>>

\* The provider answers 429: fetchProfileWithRetry sleeps and calls again, as
\* often as that happens; only the end of its context ends the sleep and the call.
Throttled(u) ==
    /\ pc[u] = "call"
    /\ Goto(u, "backoff")
    /\ UNCHANGED <<left, tx, rows, cancelled>>

Retry(u) ==
    /\ pc[u] = "backoff"
    /\ \/ /\ cancelled[u]
          /\ left' \in MayEndHere(u)
          /\ Goto(u, "ready")
       \/ /\ ~cancelled[u]
          /\ Goto(u, "call")
          /\ UNCHANGED left
    /\ UNCHANGED <<tx, rows, cancelled>>

NeverFails(u) == FALSE  \* mutant: the wait does not look at the context
GivesUp(u)    == cancelled[u]

\* To wait for a connection ends with the context: without a transaction there
\* is no response to compute; without a statement the handler ends, or drops the
\* error and goes on.
AcquireFails(u) ==
    /\ GivesUp(u)
    /\ \/ pc[u] = "begin" /\ Goto(u, "over")
       \/ pc[u] = "wait" /\ Goto(u, "ready")
    /\ left' \in MayEndHere(u)
    /\ UNCHANGED <<tx, rows, cancelled>>

CloseTx(u) == tx' = [tx EXCEPT ![u] = FALSE]

\* The response is complete: Commit, or Rollback if it holds an error.
Finish(u) ==
    /\ pc[u] = "ready"
    /\ left[u] = 0
    /\ CloseTx(u)
    /\ Goto(u, "over")
    /\ UNCHANGED <<left, rows, cancelled>>

\* The client goes away.
Cancel(u) ==
    /\ u \in Requests
    /\ pc[u] \notin {"idle", "over"}
    /\ ~cancelled[u]
    /\ cancelled' = [cancelled EXCEPT ![u] = TRUE]
    /\ UNCHANGED <<pc, left, tx, rows>>

\* database/sql rolls the transaction of a cancelled context back by itself,
\* while the handler is still at work.
AwaitDone(u) ==
    /\ cancelled[u]
    /\ tx[u]
    /\ tx' = [tx EXCEPT ![u] = FALSE]
    /\ UNCHANGED <<pc, left, rows, cancelled>>

Work(u) ==
    \/ BeginTx(u)
    \/ Ask(u)
    \/ Execute(u)
    \/ Answered(u)
    \/ CallProvider(u)
    \/ CallReturns(u)
    \/ Throttled(u)
    \/ Retry(u)
    \/ AcquireFails(u)
    \/ Finish(u)

Rest == (\A u \in Users : pc[u] = "over") /\ UNCHANGED vars

Next ==
    \/ \E u \in Users : Arrive(u) \/ Work(u) \/ Cancel(u) \/ AwaitDone(u)
    \/ Rest

Spec == Init /\ [][Next]_vars

\* Handlers run, statements and calls are answered, and a free connection is
\* given to somebody who waits; clients come and go as they like, and the provider
\* may answer each call with 429.
FairSpec == Spec /\ \A u \in Users : WF_vars(Work(u)) /\ WF_vars(AwaitDone(u))

-------------------------------------------------------------------------------
(* Properties. *)

Labels == {"idle", "begin", "ready", "wait", "statement", "call", "backoff", "over"}

\* Type invariant of the connection pool, with the bound of the pool.
TypeOK ==
    /\ pc \in [Users -> Labels]
    /\ left \in [Users -> 0 .. MaxSteps]
    /\ tx \in [Users -> BOOLEAN]
    /\ rows \in [Users -> BOOLEAN]
    /\ cancelled \in [Users -> BOOLEAN]
    /\ Busy <= MaxConns

\* Somebody waits for a connection, there is none, and nobody who has one can
\* give it back without getting another one first.
Waiting(u) == pc[u] \in {"begin", "wait"} /\ ~cancelled[u]

Stuck ==
    /\ \E u \in Users : Waiting(u)
    /\ ~Free
    /\ \A u \in InTx \cup InUse : Waiting(u)

\* The server is stuck only when as many mutations as there are connections
\* have begun their transaction and wait for their next statement: no mix of
\* queries, jobs, failures, provider calls and clients that left does it.
StuckOnlyWhenFull ==
    Stuck => Cardinality({u \in Mutations : tx[u] /\ pc[u] = "wait"}) = MaxConns

\* If there is time and again a connection that is not a transaction's, nobody waits
\* for ever for one, although statements of mutations, queries and jobs compete for
\* it: who has arrived is served, or gets to its next call of the provider.  There a
\* mutation may stay for good, and its transaction keeps its connection, while the
\* provider answers 429.
Live(u)    == pc[u] \notin {"idle", "over"}
Calling(u) == pc[u] \in {"call", "backoff"}
Roomy      == Cardinality(InTx) < MaxConns

ServedWhenRoomy ==
    []<>Roomy => \A u \in Users : Live(u) ~> (~Live(u) \/ Calling(u))

\* A request whose client has gone away ends and gives its connections back,
\* even while everybody else is stuck.
CancelledEnds ==
    \A u \in Users : cancelled[u] ~> pc[u] = "over" /\ ~tx[u] /\ ~rows[u]
===============================================================================
