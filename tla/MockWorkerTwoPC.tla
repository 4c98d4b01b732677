--------------------------- MODULE MockWorkerTwoPC ---------------------------
(***************************************************************************)
(* The coordinator's Put against the kayak tests' MockTwoPCWorker          *)
(* (src/kayak/mock_kayak_test.go, lines 71-76 and 200-247).  The worker    *)
(* keeps state ("" or "prepared"), the prepared data and a running total;  *)
(* it ignores the context it is given.  Each call is one step: the worker  *)
(* has no lock, and calls that overlap are a data race (see the hazards).  *)
(* Write batches are int64 values, so the type assertion of Prepare always *)
(* succeeds and reflect.DeepEqual compares the values.                     *)
(***************************************************************************)
EXTENDS Integers

CONSTANTS
    Workers,       \* the MockTwoPCWorkers of the Put
    BatchValues,   \* the int64 write batches callers give to Put
    MaxPuts,       \* number of Put calls
    HookFailures,  \* the hooks that may return an error
    Deadlines      \* whether the coordinator's deadline may fire

ASSUME MockWorkerTwoPCAssumption ==
    /\ Workers # {}
    /\ BatchValues \subseteq Nat
    /\ MaxPuts \in Nat \ {0}
    /\ HookFailures \subseteq {"beforePrepare", "beforeCommit"}
    /\ Deadlines \in BOOLEAN

Ctxs == 1..MaxPuts

VARIABLES
    put, phase, putBatch, inflight, waiting, failed, outcome, faulted,
    prepOK, cancelled,   \* the coordinator
    wstate,   \* MockTwoPCWorker.state
    wdata,    \* MockTwoPCWorker.data
    wtotal,   \* MockTwoPCWorker.total
    timedOut  \* history: the Puts whose deadline fired

\* A Put not made yet has batch -1, which no caller passes here.
C == INSTANCE Coordinator WITH Batches <- BatchValues, NoBatch <- -1

\* The zero value of MockTwoPCWorker.state: not prepared.
Unset == ""

coordVars == <<put, phase, putBatch, inflight, waiting, failed, outcome,
               faulted, prepOK, cancelled>>
workerVars == <<wstate, wdata, wtotal>>
vars == <<coordVars, workerVars, timedOut>>

Init ==
    /\ C!Init
    /\ wstate = [w \in Workers |-> Unset]
    /\ wdata = [w \in Workers |-> 0]
    /\ wtotal = [w \in Workers |-> 0]
    /\ timedOut = {}

-----------------------------------------------------------------------------
(***************************************************************************)
(* The worker's methods; ok is whether the method returns nil.            *)
(***************************************************************************)

\* Prepare (lines 200-215): only from state "".
Prepare(w, b, ok) ==
    /\ ok = (wstate[w] = Unset)
    /\ IF ok THEN /\ wstate' = [wstate EXCEPT ![w] = "prepared"]
                  /\ wdata' = [wdata EXCEPT ![w] = b]
             ELSE UNCHANGED <<wstate, wdata>>
    /\ UNCHANGED wtotal

\* The batch given matches the prepared one (lines 219-225, 235-241).
Matches(w, b) == wstate[w] = "prepared" /\ wdata[w] = b

\* Commit (lines 217-231): add the prepared data to the total.
Commit(w, b, ok) ==
    /\ ok = Matches(w, b)
    /\ IF ok THEN /\ wtotal' = [wtotal EXCEPT ![w] = @ + wdata[w]]
                  /\ wstate' = [wstate EXCEPT ![w] = Unset]
             ELSE UNCHANGED <<wstate, wtotal>>
    /\ UNCHANGED wdata

\* Mutant of Rollback: the state is not reset.
RollbackKeepsState(w, b, ok) ==
    /\ ok = Matches(w, b)
    /\ IF ok THEN wdata' = [wdata EXCEPT ![w] = 0]
             ELSE UNCHANGED wdata
    /\ UNCHANGED <<wstate, wtotal>>

\* Rollback (lines 233-247): drop the prepared data.
Rollback(w, b, ok) ==
    /\ ok = Matches(w, b)
    /\ IF ok THEN /\ wdata' = [wdata EXCEPT ![w] = 0]
                  /\ wstate' = [wstate EXCEPT ![w] = Unset]
             ELSE UNCHANGED <<wstate, wdata>>
    /\ UNCHANGED wtotal

\* The goroutine of call c runs the worker's method and returns its error
\* to the coordinator.
Exec(c) ==
    \E ok \in BOOLEAN :
        /\ LET b == putBatch[c.ctx] IN
           CASE c.op = "prepare"  -> Prepare(c.w, b, ok)
             [] c.op = "commit"   -> Commit(c.w, b, ok)
             [] c.op = "rollback" -> Rollback(c.w, b, ok)
        /\ C!Answer(c, ok, FALSE)
        /\ UNCHANGED timedOut

\* A coordinator step; a deadline that fires is recorded in the history.
CoordStep ==
    /\ \/ /\ \/ \E b \in BatchValues : C!BeforePrepareFails(b) \/ C!StartPut(b)
             \/ \E h \in BOOLEAN : C!PrepareDone(h)
             \/ C!CommitDone
             \/ C!RollbackDone
          /\ UNCHANGED timedOut
       \/ /\ Deadlines /\ C!Timeout
          /\ timedOut' = timedOut \cup {put}
    /\ UNCHANGED workerVars

Next ==
    \/ CoordStep
    \/ \E c \in inflight : Exec(c)

Spec == Init /\ [][Next]_vars

-----------------------------------------------------------------------------
TypeOK ==
    /\ C!TypeOK
    /\ wstate \in [Workers -> {Unset, "prepared"}]
    /\ wdata \in [Workers -> BatchValues \cup {0}]
    /\ wtotal \in [Workers -> Nat]
    /\ timedOut \subseteq Ctxs

(***************************************************************************)
(* A Put fails only for a reason injected into it or left by a deadline:  *)
(* a Put returns an error only if a hook failure was injected into it or  *)
(* its own deadline fired (faulted), or the deadline of an earlier Put     *)
(* fired.  The last case is the wedge of lines 200-247: a timed-out Put's  *)
(* Prepare may run after its Rollback and leave the worker "prepared".     *)
(* Otherwise, whatever hook failures came before, Commit and Rollback      *)
(* have put every worker back in state "" when the next Put starts.        *)
(***************************************************************************)
NoSpuriousFailure ==
    \A p \in Ctxs :
        outcome[p] = "err" => faulted[p] \/ \E q \in timedOut : q < p
=============================================================================
