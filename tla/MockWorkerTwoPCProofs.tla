----------------------- MODULE MockWorkerTwoPCProofs -----------------------
(***************************************************************************)
(* Proofs about the coordinator's Put against MockTwoPCWorkers.  Until a   *)
(* deadline fires, every call of a phase is awaited, and the workers are  *)
(* back in state "" whenever Put returns; after it, a failed Put is the   *)
(* timed-out one or a later one.                                           *)
(***************************************************************************)
EXTENDS MockWorkerTwoPC, TLAPS

\* Worker w holds the current Put's batch, prepared.
Prepared(w) == wstate[w] = "prepared" /\ wdata[w] = putBatch[put]

\* The calls in flight are exactly the awaited ones of the current phase.
PhaseCalls == {c \in C!Calls(phase, put) : c.w \in waiting}

(***************************************************************************)
(* The inductive invariant.  Between Puts no call is in flight and every  *)
(* worker is in state "".  During a Put, the workers the phase still      *)
(* awaits are in the state the phase's method expects, the others in the  *)
(* state it leaves; the phase has not failed unless it is the rollback of *)
(* a hook failure; and an error was only ever returned for a fault.       *)
(***************************************************************************)
IInv ==
    /\ put \in 0..MaxPuts
    /\ waiting \subseteq Workers
    /\ cancelled \subseteq 1..put
    /\ wstate \in [Workers -> {Unset, "prepared"}]
    /\ DOMAIN wdata = Workers
    /\ outcome \in [Ctxs -> {"none", "ok", "err"}]
    /\ faulted \in [Ctxs -> BOOLEAN]
    /\ phase \in {"idle"} \cup C!Ops
    /\ phase = "idle" => inflight = {} /\ \A w \in Workers : wstate[w] = Unset
    /\ phase # "idle" => put \in Ctxs /\ put \notin cancelled
    /\ phase # "idle" => inflight = PhaseCalls
    /\ phase \in {"prepare", "commit"} => ~failed
    /\ phase = "prepare" =>
           \A w \in Workers : IF w \in waiting THEN wstate[w] = Unset ELSE Prepared(w)
    /\ phase \in {"commit", "rollback"} =>
           \A w \in Workers : IF w \in waiting THEN Prepared(w) ELSE wstate[w] = Unset
    /\ phase = "rollback" => faulted[put]
    /\ \A q \in Ctxs : outcome[q] = "err" => faulted[q]

\* The facts about the constants the proofs use (kept apart: the SMT
\* backend cannot read the empty string that Unset stands for).
LEMMA MaxPutsNat == MaxPuts \in Nat
BY MockWorkerTwoPCAssumption

LEMMA UnsetNotPrepared == Unset # "prepared"
BY Zenon DEF Unset

LEMMA InitIInv == Init => IInv
BY MaxPutsNat
   DEF Init, C!Init, IInv, Ctxs, C!Ctxs, C!Ops

\* A step of the coordinator between Puts or at the end of one.
LEMMA StartIInv ==
    ASSUME IInv, NEW b \in BatchValues,
           C!BeforePrepareFails(b) \/ C!StartPut(b), UNCHANGED workerVars
    PROVE  IInv'
<1>1. CASE C!BeforePrepareFails(b)
    BY <1>1, MaxPutsNat
       DEF IInv, C!BeforePrepareFails, workerVars, Ctxs, C!Ctxs, C!Ops
<1>2. CASE C!StartPut(b)
    BY <1>2, MaxPutsNat
       DEF IInv, C!StartPut, workerVars, Ctxs, C!Ctxs, C!Ops, C!Calls,
           PhaseCalls, Prepared
<1>3. QED
    BY <1>1, <1>2

\* PrepareDone, CommitDone and RollbackDone, once every answer is in.
LEMMA JoinIInv ==
    ASSUME IInv,
           \/ \E h \in BOOLEAN : C!PrepareDone(h)
           \/ C!CommitDone
           \/ C!RollbackDone,
           UNCHANGED workerVars
    PROVE  IInv'
<1> USE DEF IInv, workerVars, Ctxs, C!Ctxs, C!Ops, C!Calls, PhaseCalls,
            Prepared, C!Awaited
<1>1. ASSUME NEW h \in BOOLEAN, C!PrepareDone(h) PROVE IInv'
    <2>1. CASE h
        BY <1>1, <2>1 DEF C!PrepareDone, C!StartRollback
    <2>2. CASE ~h
        BY <1>1, <2>2 DEF C!PrepareDone
    <2>3. QED
        BY <2>1, <2>2
\* Put returns: no call is left in flight and every worker is in "".
<1>2. ASSUME phase \in {"commit", "rollback"}, waiting = {},
             C!ReturnPut(IF phase = "rollback" THEN "err" ELSE "ok"),
             UNCHANGED <<inflight, waiting, put, putBatch, failed, faulted,
                         prepOK, workerVars>>,
             phase = "rollback" => faulted[put]
      PROVE  IInv'
    <2>1. inflight = {} /\ \A w \in Workers : wstate[w] = Unset
        BY <1>2
    <2>2. phase' = "idle" /\ cancelled' \subseteq 1..put'
        <3>1. put' = put /\ put \in 1..MaxPuts /\ cancelled \subseteq 1..put
            BY <1>2
        <3>2. phase' = "idle" /\ cancelled' = cancelled \cup {put}
            BY <1>2 DEF C!ReturnPut
        <3>3. QED
            <4> HIDE DEF IInv, PhaseCalls, Prepared, C!Calls, C!Awaited,
                         workerVars, Ctxs, C!Ctxs, C!Ops
            <4> QED
                BY <3>1, <3>2, MaxPutsNat
    <2>3. \A q \in Ctxs : outcome'[q] = "err" => faulted'[q]
        BY <1>2, MaxPutsNat DEF C!ReturnPut
    <2>4. outcome' \in [Ctxs -> {"none", "ok", "err"}]
        BY <1>2, MaxPutsNat DEF C!ReturnPut
    <2>5. QED
        BY <1>2, <2>1, <2>2, <2>3, <2>4
<1>3. CASE C!CommitDone
    <2>1. ~failed
        BY <1>3 DEF C!CommitDone
    <2>2. C!ReturnPut("ok")
        BY <1>3, <2>1 DEF C!CommitDone
    <2>3. QED
        BY <1>2, <1>3, <2>1, <2>2 DEF C!CommitDone
<1>4. CASE C!RollbackDone
    BY <1>2, <1>4 DEF C!RollbackDone
<1>5. QED
    BY <1>1, <1>3, <1>4
\* A worker goroutine answers a call of the current phase: the worker moves
\* to the state the phase leaves, and (as every awaited worker is in the
\* state the method expects) its method returns nil.
LEMMA ExecIInv ==
    ASSUME IInv, NEW c \in inflight, Exec(c)
    PROVE  IInv'
<1> DEFINE b == putBatch[c.ctx]
<1>1. /\ phase # "idle"
      /\ c.op = phase /\ c.ctx = put /\ c.w \in waiting /\ c.w \in Workers
      /\ c = [w |-> c.w, op |-> phase, ctx |-> put]
    BY DEF IInv, PhaseCalls, C!Calls
<1>2. PICK ok \in BOOLEAN :
          /\ CASE c.op = "prepare"  -> Prepare(c.w, b, ok)
               [] c.op = "commit"   -> Commit(c.w, b, ok)
               [] c.op = "rollback" -> Rollback(c.w, b, ok)
          /\ C!Answer(c, ok, FALSE)
    BY DEF Exec
<1>3. /\ inflight' = inflight \ {c}
      /\ waiting' = waiting \ {c.w}
      /\ failed' = (failed \/ (c.op # "rollback" /\ ~ok))
      /\ faulted' = faulted
      /\ UNCHANGED <<put, phase, putBatch, outcome, cancelled>>
    BY <1>1, <1>2 DEF C!Answer, IInv, Ctxs, C!Ctxs
<1>4. PhaseCalls' = PhaseCalls \ {c}
    BY <1>1, <1>3 DEF PhaseCalls, C!Calls
<1>5. CASE phase = "prepare"
    <2>1. Prepare(c.w, b, ok)
        BY <1>1, <1>2, <1>5, Zenon
    <2>2. wstate[c.w] = Unset
        BY <1>1, <1>5 DEF IInv
    <2>3. /\ ok
          /\ wstate' = [wstate EXCEPT ![c.w] = "prepared"]
          /\ wdata' = [wdata EXCEPT ![c.w] = putBatch[put]]
        BY <1>1, <2>1, <2>2 DEF Prepare
    <2>4. QED
        BY <1>1, <1>3, <1>4, <1>5, <2>3, UnsetNotPrepared
           DEF IInv, Prepared
<1>6. CASE phase = "commit"
    <2>1. Commit(c.w, b, ok)
        BY <1>1, <1>2, <1>6, Zenon
    <2>2. Prepared(c.w)
        BY <1>1, <1>6 DEF IInv
    <2>3. /\ ok
          /\ wstate' = [wstate EXCEPT ![c.w] = Unset]
          /\ wdata' = wdata
        BY <1>1, <2>1, <2>2 DEF Commit, Matches, Prepared
    <2>4. QED
        BY <1>1, <1>3, <1>4, <1>6, <2>3, UnsetNotPrepared
           DEF IInv, Prepared
<1>7. CASE phase = "rollback"
    <2>1. Rollback(c.w, b, ok)
        BY <1>1, <1>2, <1>7, Zenon
    <2>2. Prepared(c.w)
        BY <1>1, <1>7 DEF IInv
    <2>3. /\ wstate' = [wstate EXCEPT ![c.w] = Unset]
          /\ wdata' = [wdata EXCEPT ![c.w] = 0]
        BY <1>1, <2>1, <2>2 DEF Rollback, Matches, Prepared
    <2>4. QED
        BY <1>1, <1>3, <1>4, <1>7, <2>3, UnsetNotPrepared
           DEF IInv, Prepared
<1>8. QED
    BY <1>1, <1>5, <1>6, <1>7 DEF IInv, C!Ops
\* Until a deadline fires, every step keeps the invariant.
LEMMA StepIInv ==
    ASSUME IInv, [Next]_vars, timedOut' = {}
    PROVE  IInv'
<1>1. CASE CoordStep
    <2>1. UNCHANGED workerVars
        BY <1>1 DEF CoordStep
    <2>2. ~(timedOut' = timedOut \cup {put})
        OBVIOUS
    <2>3. CASE \E b \in BatchValues : C!BeforePrepareFails(b) \/ C!StartPut(b)
        BY <2>1, <2>3, StartIInv
    <2>4. CASE \/ \E h \in BOOLEAN : C!PrepareDone(h)
               \/ C!CommitDone
               \/ C!RollbackDone
        BY <2>1, <2>4, JoinIInv
    <2>5. QED
        BY <1>1, <2>2, <2>3, <2>4 DEF CoordStep
<1>2. ASSUME NEW c \in inflight, Exec(c) PROVE IInv'
    BY <1>2, ExecIInv
<1>3. CASE UNCHANGED vars
    BY <1>3 DEF vars, coordVars, workerVars, IInv, PhaseCalls, Prepared
<1>4. QED
    BY <1>1, <1>2, <1>3 DEF Next

(***************************************************************************)
(* The invariant for every deadline.  IInv holds until the first deadline  *)
(* fires.  Every Put whose deadline fired is faulted, and none is later    *)
(* than the current one, so a Put that returns an error after that is the  *)
(* timed-out Put itself or a later one.                                    *)
(***************************************************************************)
LateFacts ==
    /\ put \in 0..MaxPuts
    /\ phase \in {"idle"} \cup C!Ops
    /\ phase # "idle" => put \in Ctxs
    /\ outcome \in [Ctxs -> {"none", "ok", "err"}]
    /\ faulted \in [Ctxs -> BOOLEAN]
    /\ timedOut \subseteq 1..put
    /\ \A q \in timedOut : faulted[q]
    /\ NoSpuriousFailure

LateInv == LateFacts /\ (timedOut = {} => IInv)

LEMMA InitLate == Init => LateInv
BY InitIInv, MaxPutsNat
   DEF Init, C!Init, LateInv, LateFacts, NoSpuriousFailure, Ctxs, C!Ctxs,
       C!Ops

\* The history only grows.
LEMMA TimedOutGrows == [Next]_vars => timedOut \subseteq timedOut'
BY DEF Next, CoordStep, Exec, vars

\* The steps that return no error and leave the history alone keep LateFacts
\* when put, phase and faulted stay in range and faulted only grows.
LEMMA QuietStep ==
    ASSUME LateFacts, UNCHANGED timedOut,
           put' \in 0..MaxPuts, put \leq put',
           phase' \in {"idle"} \cup C!Ops, phase' # "idle" => put' \in Ctxs,
           outcome' \in [Ctxs -> {"none", "ok", "err"}],
           faulted' \in [Ctxs -> BOOLEAN],
           \A q \in Ctxs : faulted[q] => faulted'[q],
           \A q \in Ctxs : outcome'[q] = "err" =>
               outcome[q] = "err" \/ faulted'[q]
    PROVE  LateFacts'
<1>1. timedOut' \subseteq 1..put'
    BY MaxPutsNat DEF LateFacts
<1>2. \A q \in timedOut' : faulted'[q]
    BY MaxPutsNat DEF LateFacts, Ctxs
<1>3. NoSpuriousFailure'
    BY DEF LateFacts, NoSpuriousFailure
<1>. QED
    BY <1>1, <1>2, <1>3 DEF LateFacts

LEMMA StepLate == LateInv /\ [Next]_vars => LateInv'
<1> SUFFICES ASSUME LateInv, [Next]_vars PROVE LateInv'
    OBVIOUS
<1>0. LateFacts
    BY DEF LateInv
<1>1. timedOut' = {} => IInv'
    <2> SUFFICES ASSUME timedOut' = {} PROVE IInv'
        OBVIOUS
    <2>1. timedOut = {}
        BY TimedOutGrows
    <2>. QED
        BY <2>1, StepIInv DEF LateInv
<1>2. ASSUME NEW b \in BatchValues, C!BeforePrepareFails(b),
             UNCHANGED timedOut
      PROVE  LateFacts'
    BY <1>0, <1>2, MaxPutsNat, QuietStep
       DEF LateFacts, C!BeforePrepareFails, Ctxs, C!Ctxs
<1>3. ASSUME NEW b \in BatchValues, C!StartPut(b), UNCHANGED timedOut
      PROVE  LateFacts'
    BY <1>0, <1>3, MaxPutsNat, QuietStep
       DEF LateFacts, C!StartPut, Ctxs, C!Ctxs, C!Ops
<1>4. ASSUME C!Timeout, timedOut' = timedOut \cup {put} PROVE LateFacts'
    BY <1>0, <1>4, MaxPutsNat
       DEF LateFacts, C!Timeout, NoSpuriousFailure, Ctxs, C!Ctxs, C!Ops
<1>5. ASSUME NEW h \in BOOLEAN, C!PrepareDone(h), UNCHANGED timedOut
      PROVE  LateFacts'
    BY <1>0, <1>5, MaxPutsNat, QuietStep
       DEF LateFacts, C!PrepareDone, C!StartRollback, Ctxs, C!Ctxs, C!Ops
<1>6. ASSUME C!CommitDone, UNCHANGED timedOut PROVE LateFacts'
    BY <1>0, <1>6, MaxPutsNat, QuietStep
       DEF LateFacts, C!CommitDone, C!StartRollback, C!ReturnPut, Ctxs,
           C!Ctxs, C!Ops
\* RollbackDone returns an error: the Put was faulted by a hook or by its
\* own deadline, or an earlier deadline fired.
<1>7. ASSUME C!RollbackDone, UNCHANGED timedOut PROVE LateFacts'
    <2>1. phase = "rollback" /\ put \in Ctxs
        BY <1>0, <1>7 DEF C!RollbackDone, LateFacts
    <2>2. faulted[put] \/ \E q \in timedOut : q < put
        <3>1. CASE timedOut = {}
            BY <2>1, <3>1 DEF LateInv, IInv
        <3>2. CASE timedOut # {}
            <4>1. PICK q \in timedOut : TRUE
                BY <3>2
            <4>2. q \in 1..put /\ faulted[q]
                BY <1>0, <4>1 DEF LateFacts
            <4>. QED
                BY <2>1, <4>1, <4>2, MaxPutsNat DEF Ctxs, C!Ctxs
        <3>. QED
            BY <3>1, <3>2
    <2>. QED
        BY <1>0, <1>7, <2>1, <2>2, MaxPutsNat
           DEF LateFacts, C!RollbackDone, C!ReturnPut, NoSpuriousFailure,
               Ctxs, C!Ctxs
<1>8. ASSUME NEW c \in inflight, Exec(c) PROVE LateFacts'
    <2>1. PICK ok \in BOOLEAN : C!Answer(c, ok, FALSE) /\ UNCHANGED timedOut
        BY <1>8 DEF Exec
    <2>2. faulted' = faulted
        BY <1>0, <2>1 DEF C!Answer, LateFacts
    <2>3. UNCHANGED <<put, phase, outcome>>
        BY <2>1 DEF C!Answer
    <2>. QED
        BY <1>0, <2>1, <2>2, <2>3 DEF LateFacts, NoSpuriousFailure
<1>9. ASSUME UNCHANGED vars PROVE LateFacts'
    <2>1. UNCHANGED <<put, phase, outcome, faulted, timedOut>>
        BY <1>9 DEF vars, coordVars
    <2>. QED
        BY <1>0, <2>1 DEF LateFacts, NoSpuriousFailure
<1>10. LateFacts'
    <2>1. CASE CoordStep
        BY <2>1, <1>2, <1>3, <1>4, <1>5, <1>6, <1>7 DEF CoordStep
    <2>. QED
        BY <2>1, <1>8, <1>9, Zenon DEF Next
<1>. QED
    BY <1>1, <1>10 DEF LateInv

(***************************************************************************)
(* For every number of workers, batches and Puts, with or without         *)
(* deadlines, a Put returns an error only if a hook failure or its own     *)
(* deadline faulted it, or an earlier Put's deadline fired: until a        *)
(* deadline fires, Commit or Rollback has put every MockTwoPCWorker back   *)
(* in state "" before the next Put starts.                                 *)
(***************************************************************************)
THEOREM NoSpuriousFailureHolds == Spec => []NoSpuriousFailure
<1>1. Init => LateInv
    BY InitLate
<1>2. LateInv /\ [Next]_vars => LateInv'
    BY StepLate
<1>3. LateInv => NoSpuriousFailure
    BY DEF LateInv, LateFacts
<1>4. QED
    BY <1>1, <1>2, <1>3, PTL DEF Spec
-----------------------------------------------------------------------------
CP == INSTANCE CoordinatorProofs WITH Batches <- BatchValues, NoBatch <- -1

\* Each step of the composition is a coordinator step or leaves the
\* coordinator's variables alone: a worker method's call returns through
\* C!Answer with the Boolean the method computed and no injected fault.
LEMMA RefineStep == [Next]_vars => [C!Next]_(C!vars)
<1> SUFFICES ASSUME [Next]_vars PROVE [C!Next]_(C!vars)
  OBVIOUS
<1>1. CASE CoordStep
  BY <1>1, Zenon DEF CoordStep, C!Next, C!PutStep
<1>2. ASSUME NEW c \in inflight, Exec(c) PROVE C!Next
  <2>1. PICK ok \in BOOLEAN : C!Answer(c, ok, FALSE)
    BY <1>2 DEF Exec
  <2>. QED
    BY <2>1, Zenon DEF C!Next
<1>3. CASE UNCHANGED vars
  BY <1>3 DEF vars, coordVars, C!vars, C!coordVars
<1>. QED
  BY <1>1, <1>2, <1>3 DEF Next

(***************************************************************************)
(* The coordinator driving MockTwoPCWorkers implements the abstract       *)
(* coordinator, for every set of workers and batches, with or without     *)
(* deadlines and hook failures: MockTwoPCWorker's methods only answer the *)
(* calls the coordinator dispatched.                                       *)
(***************************************************************************)
THEOREM ImplementsCoordinator == Spec => C!Spec
<1>1. Init => C!Init
  BY DEF Init
<1>2. [Next]_vars => [C!Next]_(C!vars)
  BY RefineStep
<1>. QED
  BY <1>1, <1>2, PTL DEF Spec, C!Spec

(***************************************************************************)
(* Prepare happens-before Commit with MockTwoPCWorkers, deadlines         *)
(* included: no Commit of a Put is dispatched unless every worker's        *)
(* Prepare returned nil for that Put.                                      *)
(***************************************************************************)
THEOREM CommitAfterAllPreparedHolds == Spec => []C!CommitAfterAllPrepared
<1>1. C!Init <=> CP!Init
  BY DEF C!Init, CP!Init, C!Ctxs, CP!Ctxs
<1>2. [C!Next]_(C!vars) <=> [CP!Next]_(CP!vars)
  BY Zenon
     DEF C!Next, CP!Next, C!vars, CP!vars, C!coordVars, CP!coordVars,
         C!BeforePrepareFails, CP!BeforePrepareFails, C!StartPut,
         CP!StartPut, C!Answer, CP!Answer, C!PutStep, CP!PutStep,
         C!Timeout, CP!Timeout, C!PrepareDone, CP!PrepareDone,
         C!CommitDone, CP!CommitDone, C!RollbackDone, CP!RollbackDone,
         C!StartRollback, CP!StartRollback, C!ReturnPut, CP!ReturnPut,
         C!Calls, CP!Calls, C!Awaited, CP!Awaited, C!Ops, CP!Ops,
         C!Ctxs, CP!Ctxs
<1>3. C!Spec => CP!Spec
  BY <1>1, <1>2, PTL DEF C!Spec, CP!Spec
<1>4. CP!CommitAfterAllPrepared <=> C!CommitAfterAllPrepared
  BY DEF CP!CommitAfterAllPrepared, C!CommitAfterAllPrepared
<1>. QED
  BY ImplementsCoordinator, <1>3, <1>4, CP!CommitAfterAllPreparedHolds, PTL
=============================================================================
