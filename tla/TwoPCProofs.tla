---------------------------- MODULE TwoPCProofs ----------------------------
(***************************************************************************)
(* The coordinator driving Storage workers implements the coordinator of  *)
(* the Coordinator module: each step of the composition is a coordinator   *)
(* step or leaves the coordinator's variables alone.  The safety property *)
(* proved there for any worker answers then holds of the composition.     *)
(***************************************************************************)
EXTENDS TwoPC, TLAPS

CP == INSTANCE CoordinatorProofs WITH Batches <- PutBatches

(***************************************************************************)
(* What the refinement needs of the workers: every phase method leaves a   *)
(* Boolean result (the error the goroutine returns), and every call in    *)
(* flight names a worker and one of the three phases.                      *)
(***************************************************************************)
RInv ==
    /\ ret \in [Workers -> W!Results]
    /\ \A c \in inflight : c.w \in Workers /\ c.op \in C!Ops

LEMMA RInvInit == Init => RInv
BY DEF Init, W!Init, C!Init, RInv, W!Results

\* Every outcome of a phase method is a Return of a Boolean result.
LEMMA WorkerStepReturns ==
    ASSUME RInv, NEW c \in inflight, NEW f \in BOOLEAN, WorkerStep(c, f)
    PROVE  \E op \in {"prepare", "commit", "rollback"}, ok \in BOOLEAN :
               W!Return(c.w, op, ok)
<1> DEFINE el == putBatch[c.ctx]
<1>1. CASE c.op = "prepare"
    <2>1. W!Prepare(c.w, el, c.ctx, f)
        BY <1>1, Zenon DEF WorkerStep
    <2>2. QED
        BY <2>1 DEF W!Prepare, W!Reprepare, W!PrepareConflict,
                   W!BeginTxFails, W!BeginTx
<1>2. CASE c.op = "commit"
    <2>1. W!Commit(c.w, el, c.ctx, f)
        BY <1>2, Zenon DEF WorkerStep
    <2>2. QED
        BY <2>1 DEF W!Commit, W!CommitNotPrepared, W!CommitConflict,
                   W!CommitExecFails, W!CommitExec
<1>3. CASE c.op = "rollback"
    <2>1. W!Rollback(c.w, el)
        BY <1>3, Zenon DEF WorkerStep
    <2>2. QED
        BY <2>1 DEF W!Rollback, W!RollbackConflict, W!RollbackTx
<1>4. QED
    BY <1>1, <1>2, <1>3 DEF RInv, C!Ops

\* A worker goroutine's result is a Boolean, and ret keeps its type.
LEMMA ExecResult ==
    ASSUME RInv, NEW c \in inflight, NEW f \in BOOLEAN, WorkerStep(c, f)
    PROVE  /\ ret' \in [Workers -> W!Results]
           /\ ret'[c.w].ok \in BOOLEAN
<1>1. PICK op \in {"prepare", "commit", "rollback"}, ok \in BOOLEAN :
          W!Return(c.w, op, ok)
    BY WorkerStepReturns
<1>2. c.w \in Workers
    BY DEF RInv
<1>3. QED
    BY <1>1, <1>2 DEF RInv, W!Return, W!Results

\* Each step of the composition keeps RInv and is a coordinator step or a
\* stutter of the coordinator's variables.
LEMMA RefineStep ==
    RInv /\ [Next]_vars => RInv' /\ [C!Next]_(C!vars)
<1> SUFFICES ASSUME RInv, [Next]_vars PROVE RInv' /\ [C!Next]_(C!vars)
    OBVIOUS
<1>1. ASSUME NEW el \in PutBatches,
             C!BeforePrepareFails(el) \/ C!StartPut(el),
             UNCHANGED workerVars
      PROVE  RInv' /\ [C!Next]_(C!vars)
    BY <1>1 DEF RInv, workerVars, C!Next, C!BeforePrepareFails, C!StartPut,
               C!Calls, C!Ops
<1>2. ASSUME C!PutStep, UNCHANGED workerVars
      PROVE  RInv' /\ [C!Next]_(C!vars)
    <2>1. RInv'
        BY <1>2 DEF RInv, workerVars, C!PutStep, C!Timeout, C!PrepareDone,
                   C!CommitDone, C!RollbackDone, C!StartRollback,
                   C!ReturnPut, C!Calls, C!Ops
    <2>2. QED
        BY <1>2, <2>1 DEF C!Next
<1>3. ASSUME NEW c \in inflight, NEW f \in BOOLEAN, Exec(c, f)
      PROVE  RInv' /\ [C!Next]_(C!vars)
    <2>1. /\ ret' \in [Workers -> W!Results]
          /\ ret'[c.w].ok \in BOOLEAN
        BY <1>3, ExecResult DEF Exec
    <2>2. RInv'
        BY <1>3, <2>1 DEF RInv, Exec, C!Answer
    <2>3. C!Next
        BY <1>3, <2>1 DEF Exec, C!Next
    <2>4. QED
        BY <2>2, <2>3
<1>4. ASSUME NEW w \in Workers, AutoRollback(w)
      PROVE  RInv' /\ [C!Next]_(C!vars)
    BY <1>4 DEF AutoRollback, W!AutoRollback, RInv, coordVars, C!vars,
               C!coordVars
<1>5. CASE UNCHANGED vars
    BY <1>5 DEF vars, workerVars, coordVars, RInv, C!vars, C!coordVars
<1>6. QED
    BY <1>1, <1>2, <1>3, <1>4, <1>5 DEF Next, CoordStep

(***************************************************************************)
(* The Storage-backed coordinator implements the abstract coordinator:    *)
(* the workers' phase methods and database/sql's rollbacks only answer    *)
(* calls the coordinator dispatched, with a Boolean error, or stay out of *)
(* the coordinator's state.                                                *)
(***************************************************************************)
THEOREM ImplementsCoordinator == Spec => C!Spec
<1>1. Init => RInv /\ C!Init
    BY RInvInit DEF Init
<1>2. RInv /\ [Next]_vars => RInv' /\ [C!Next]_(C!vars)
    BY RefineStep
<1>3. QED
    BY <1>1, <1>2, PTL DEF Spec, C!Spec

(***************************************************************************)
(* Prepare happens-before Commit with Storage workers, for every instance *)
(* of the constants: no Commit of a Put reaches a worker unless every      *)
(* worker's Storage.Prepare returned nil for that Put.                     *)
(***************************************************************************)
THEOREM CommitAfterAllPreparedHolds == Spec => []CommitAfterAllPrepared
<1>1. C!Init <=> CP!Init
    BY DEF C!Init, CP!Init, C!Ctxs, CP!Ctxs
<1>2. [C!Next]_(C!vars) <=> [CP!Next]_(CP!vars)
    BY Zenon
       DEF C!Next, CP!Next, C!vars, CP!vars, C!coordVars, CP!coordVars,
           C!BeforePrepareFails, CP!BeforePrepareFails, C!StartPut,
           CP!StartPut, C!Answer, CP!Answer, C!PutStep, CP!PutStep,
           C!Timeout, CP!Timeout, C!PrepareDone, CP!PrepareDone,
           C!CommitDone, CP!CommitDone, C!RollbackDone, CP!RollbackDone,
           C!StartRollback, CP!StartRollback, C!ReturnPut, CP!ReturnPut,
           C!Calls, CP!Calls, C!Awaited, CP!Awaited, C!Ops, CP!Ops,
           C!Ctxs, CP!Ctxs
<1>3. C!Spec => CP!Spec
    BY <1>1, <1>2, PTL DEF C!Spec, CP!Spec
<1>4. CP!CommitAfterAllPrepared <=> CommitAfterAllPrepared
    BY DEF CP!CommitAfterAllPrepared, CommitAfterAllPrepared,
           C!CommitAfterAllPrepared
<1>5. QED
    BY ImplementsCoordinator, <1>3, <1>4, CP!CommitAfterAllPreparedHolds, PTL
=============================================================================
