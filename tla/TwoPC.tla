------------------------------- MODULE TwoPC -------------------------------
(***************************************************************************)
(* The two-phase commit coordinator's Put driving a fixed set of SQL       *)
(* storage workers.  The coordinator (package twopc) is not among the      *)
(* sources; its control flow is taken from the spec (4.3, 5, 7).  The      *)
(* workers are the Storage module (src/unnamed/part_001), instantiated.    *)
(*                                                                         *)
(* Put p uses context p.  Each worker call runs in its own goroutine: a    *)
(* dispatched call sits in "inflight" until it executes, atomically with   *)
(* the worker's phase method.  The coordinator waits until every worker of *)
(* the phase has answered or the context fires; after a timeout the calls  *)
(* still in flight run later, with the cancelled context.  When Put        *)
(* returns, its deferred cancel() cancels the context, and database/sql    *)
(* rolls back every transaction begun under it.                            *)
(***************************************************************************)
EXTENDS Naturals, Sequences, FiniteSets

CONSTANTS
    Workers,       \* the storage workers of the Put
    TxIDs,         \* TxID values, as naturals (0 is a Storage's zero value)
    PutTxIDs,      \* the TxIDs callers give to Put
    Stmts,
    MaxQueries,
    MaxApplied,
    MaxPuts,       \* number of Put calls, made one after the other
    HookFailures   \* the hooks that may return an error

ASSUME TwoPCAssumption ==
    /\ PutTxIDs \subseteq TxIDs
    /\ MaxPuts \in Nat \ {0}
    /\ HookFailures \subseteq {"beforePrepare", "beforeCommit"}

\* Put p runs under context p.
Ctxs == 1..MaxPuts

VARIABLES
    tx, txCtx, id, queries, applied, ret,      \* the workers
    put, phase, putBatch, inflight, waiting, failed, outcome, faulted,
    prepOK,                                    \* the coordinator
    cancelled                                  \* contexts, shared

W == INSTANCE Storage WITH Storages <- Workers

NoBatch == [id |-> 0, queries |-> <<>>]
PutBatches == {el \in W!ExecLogs : el.id \in PutTxIDs}

C == INSTANCE Coordinator WITH Batches <- PutBatches

workerVars == <<tx, txCtx, id, queries, applied, ret>>
coordVars == <<put, phase, putBatch, inflight, waiting, failed, outcome,
               faulted, prepOK>>
vars == <<workerVars, coordVars, cancelled>>

Init == W!Init /\ C!Init

\* The worker's phase method for call c; f is the injected database error.
WorkerStep(c, f) ==
    LET el == putBatch[c.ctx] IN
    CASE c.op = "prepare"  -> W!Prepare(c.w, el, c.ctx, f)
      [] c.op = "commit"   -> W!Commit(c.w, el, c.ctx, f)
      [] c.op = "rollback" -> W!Rollback(c.w, el) /\ ~f

\* A worker goroutine runs its call, atomically with the phase method (the
\* Storage mutex), and returns its error to the coordinator.
Exec(c, f) ==
    /\ WorkerStep(c, f)
    /\ C!Answer(c, ret'[c.w].ok, f)

\* A step of the coordinator alone.
CoordStep ==
    /\ \/ \E el \in PutBatches : C!BeforePrepareFails(el) \/ C!StartPut(el)
       \/ C!PutStep
    /\ UNCHANGED workerVars

\* database/sql rolls back a transaction whose context is done.
AutoRollback(w) ==
    /\ W!AutoRollback(w)
    /\ UNCHANGED coordVars

Next ==
    \/ CoordStep
    \/ \E c \in inflight, f \in BOOLEAN : Exec(c, f)
    \/ \E w \in Workers : AutoRollback(w)

(***************************************************************************)
(* Fairness: a dispatched goroutine eventually runs, the coordinator       *)
(* eventually moves on once the answers are in, and database/sql's         *)
(* awaitDone goroutine eventually rolls back a transaction whose context   *)
(* is done.  Callers need not call Put and deadlines need not fire.        *)
(***************************************************************************)
Fairness ==
    /\ \A c \in C!Call : WF_vars(\E f \in BOOLEAN : Exec(c, f))
    /\ WF_vars((\E h \in BOOLEAN : C!PrepareDone(h)) /\ UNCHANGED workerVars)
    /\ WF_vars(C!CommitDone /\ UNCHANGED workerVars)
    /\ WF_vars(C!RollbackDone /\ UNCHANGED workerVars)
    /\ \A w \in Workers : WF_vars(AutoRollback(w))

Spec == Init /\ [][Next]_vars
FairSpec == Spec /\ Fairness

-----------------------------------------------------------------------------
TypeOK == W!TypeOK /\ C!TypeOK

\* The coordinator's safety property, over the composition.
CommitAfterAllPrepared == C!CommitAfterAllPrepared

(***************************************************************************)
(* A failed Put leaves nothing behind: once Put p has returned an error,   *)
(* eventually no worker holds a transaction begun under p's context.  It   *)
(* rests on the rollback fan-out, on BeginTx refusing a cancelled context  *)
(* for Prepare calls that run after a timeout, and on late Commit calls    *)
(* failing on it.                                                           *)
(***************************************************************************)
FailedPutCleansUp ==
    \A p \in Ctxs :
        outcome[p] = "err" ~> \A w \in Workers : ~(tx[w] # "nil" /\ txCtx[w] = p)

(***************************************************************************)
(* What the spec's scenarios say (8, "Happy 2PC", run repeatedly): as long *)
(* as no hook, database call or deadline has failed, every Put returns nil. *)
(***************************************************************************)
NoSpuriousFailure ==
    (\A p \in Ctxs : ~faulted[p]) => \A p \in Ctxs : outcome[p] # "err"
=============================================================================
