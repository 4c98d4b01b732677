------------------------- MODULE CoordinatorProofs -------------------------
(***************************************************************************)
(* Proofs about the coordinator's Put, for every set of workers, batches  *)
(* and number of Puts, and whatever the workers answer: Answer takes any  *)
(* ok and fault flag, so the result holds for every worker model that the *)
(* compositions (TwoPC, RaftTwoPC, MockWorkerTwoPC) conjoin with it.       *)
(***************************************************************************)
EXTENDS Coordinator, TLAPS

(***************************************************************************)
(* While Prepare's answers are collected, every worker the phase no longer *)
(* awaits has either answered this Put's Prepare with nil or failed the    *)
(* Put (an error, or the deadline, which empties waiting and sets failed). *)
(* This is what PrepareDone reads when it finds waiting empty and failed   *)
(* unset.                                                                   *)
(***************************************************************************)
PrepareJoin ==
    phase = "prepare" =>
        \A v \in Workers \ waiting : <<v, put>> \in prepOK \/ failed

\* The inductive invariant: the property and the join's bookkeeping.
IInv == CommitAfterAllPrepared /\ PrepareJoin

LEMMA InitIInv == Init => IInv
BY DEF Init, IInv, CommitAfterAllPrepared, PrepareJoin

\* prepOK never shrinks, so the property survives every step that adds no
\* Commit call.
LEMMA StepIInv == IInv /\ [Next]_vars => IInv'
<1> SUFFICES ASSUME IInv, [Next]_vars PROVE IInv'
    OBVIOUS
<1> USE DEF IInv, CommitAfterAllPrepared, PrepareJoin
<1>1. ASSUME NEW b \in Batches, BeforePrepareFails(b) PROVE IInv'
    BY <1>1 DEF BeforePrepareFails
<1>2. ASSUME NEW b \in Batches, StartPut(b) PROVE IInv'
    <2>1. CommitAfterAllPrepared'
        BY <1>2 DEF StartPut, Calls
    <2>2. PrepareJoin'
        BY <1>2 DEF StartPut
    <2>3. QED
        BY <2>1, <2>2
<1>3. ASSUME NEW c \in inflight, NEW ok \in BOOLEAN, NEW f \in BOOLEAN,
             Answer(c, ok, f)
      PROVE IInv'
    <2>1. CommitAfterAllPrepared'
        BY <1>3 DEF Answer
    <2>2. PrepareJoin'
        BY <1>3 DEF Answer
    <2>3. QED
        BY <2>1, <2>2
<1>4. CASE Timeout
    BY <1>4 DEF Timeout
<1>5. ASSUME NEW h \in BOOLEAN, PrepareDone(h) PROVE IInv'
    <2>1. CASE failed \/ h
        BY <1>5, <2>1 DEF PrepareDone, StartRollback, Calls
    <2>2. CASE ~(failed \/ h)
        \* waiting is empty and failed unset: every worker answered nil.
        <3>1. \A v \in Workers : <<v, put>> \in prepOK
            BY <1>5, <2>2 DEF PrepareDone
        <3>2. QED
            BY <1>5, <2>2, <3>1 DEF PrepareDone, Calls
    <2>3. QED
        BY <2>1, <2>2
<1>6. CASE CommitDone
    BY <1>6 DEF CommitDone, StartRollback, ReturnPut, Calls
<1>7. CASE RollbackDone
    BY <1>7 DEF RollbackDone, ReturnPut
<1>8. CASE UNCHANGED vars
    BY <1>8 DEF vars, coordVars
<1>9. QED
    BY <1>1, <1>2, <1>3, <1>4, <1>5, <1>6, <1>7, <1>8 DEF Next, PutStep

(***************************************************************************)
(* Prepare happens-before Commit at every worker, for every instance of    *)
(* the constants: no Commit of a Put is ever dispatched unless every       *)
(* worker answered that Put's Prepare with nil, through any interleaving  *)
(* of answers, late answers of earlier Puts, deadlines and hook failures.  *)
(***************************************************************************)
THEOREM CommitAfterAllPreparedHolds == Spec => []CommitAfterAllPrepared
<1>1. Init => IInv
    BY InitIInv
<1>2. IInv /\ [Next]_vars => IInv'
    BY StepIInv
<1>3. IInv => CommitAfterAllPrepared
    BY DEF IInv
<1>4. QED
    BY <1>1, <1>2, <1>3, PTL DEF Spec
=============================================================================
