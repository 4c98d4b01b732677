---------------------------- MODULE Coordinator ----------------------------
(***************************************************************************)
(* The two-phase commit coordinator's Put (package twopc).  Its code is    *)
(* not among the sources; the control flow is the spec's (4.3, 5).        *)
(*                                                                         *)
(* Put p runs under context p.  Each worker call runs in a goroutine of   *)
(* its own: a dispatched call sits in "inflight" until the worker answers *)
(* it (Answer).  The coordinator joins the answers of a phase, or stops    *)
(* waiting when the context's deadline fires; calls still in flight then  *)
(* answer later, and their answers are dropped.  When Put returns, its    *)
(* deferred cancel() cancels the context.  Puts are made one after the     *)
(* other, as the package's tests make them.                                *)
(*                                                                         *)
(* Worker answers are arbitrary here; a composition (TwoPC, RaftTwoPC)    *)
(* conjoins Answer with the step of a worker model that computes them.    *)
(***************************************************************************)
EXTENDS Naturals

CONSTANTS
    Workers,       \* the workers of the Put
    Batches,       \* the write batches callers give to Put
    NoBatch,       \* the batch of a Put not made yet
    MaxPuts,       \* number of Put calls
    HookFailures   \* the hooks that may return an error

\* Put p runs under context p.
Ctxs == 1..MaxPuts

VARIABLES
    put,       \* number of Puts started; the current Put's context
    phase,     \* "idle", or the phase whose answers the coordinator awaits
    putBatch,  \* the batch of each Put
    inflight,  \* worker calls dispatched and not yet answered
    waiting,   \* workers whose answer the current phase still awaits
    failed,    \* a call of the current Put's prepare/commit phase failed
    outcome,   \* what each Put returned
    faulted,   \* a fault was injected during each Put (ghost)
    prepOK,    \* <<w, p>>: worker w answered Prepare of Put p with nil (ghost)
    cancelled  \* the contexts that are done

coordVars == <<put, phase, putBatch, inflight, waiting, failed, outcome,
               faulted, prepOK>>
vars == <<coordVars, cancelled>>

Ops == {"prepare", "commit", "rollback"}
Call == [w : Workers, op : Ops, ctx : Ctxs]

\* The calls of one phase of Put p, one per worker (parallel fan-out).
Calls(op, p) == [w : Workers, op : {op}, ctx : {p}]

\* The workers a phase waits for: none once the context is done.
Awaited == IF put \in cancelled THEN {} ELSE Workers

Init ==
    /\ put = 0
    /\ phase = "idle"
    /\ putBatch = [p \in Ctxs |-> NoBatch]
    /\ inflight = {}
    /\ waiting = {}
    /\ failed = FALSE
    /\ outcome = [p \in Ctxs |-> "none"]
    /\ faulted = [p \in Ctxs |-> FALSE]
    /\ prepOK = {}
    /\ cancelled = {}

-----------------------------------------------------------------------------
\* Put returns r; its deferred cancel() cancels the context.
ReturnPut(r) ==
    /\ outcome' = [outcome EXCEPT ![put] = r]
    /\ phase' = "idle"
    /\ cancelled' = cancelled \cup {put}

\* Rollback is dispatched to every worker; its errors are never surfaced,
\* and an error of the beforeRollback hook does not stop it.
StartRollback ==
    /\ phase' = "rollback"
    /\ inflight' = inflight \cup Calls("rollback", put)
    /\ waiting' = Awaited

\* Put, beforePrepare hook returns an error: return it, no worker is called.
BeforePrepareFails(b) ==
    /\ "beforePrepare" \in HookFailures
    /\ phase = "idle" /\ put < MaxPuts
    /\ put' = put + 1
    /\ putBatch' = [putBatch EXCEPT ![put + 1] = b]
    /\ outcome' = [outcome EXCEPT ![put + 1] = "err"]
    /\ faulted' = [faulted EXCEPT ![put + 1] = TRUE]
    /\ cancelled' = cancelled \cup {put + 1}
    /\ UNCHANGED <<phase, inflight, waiting, failed, prepOK>>

\* Put: dispatch Prepare to all workers in parallel.
StartPut(b) ==
    /\ phase = "idle" /\ put < MaxPuts
    /\ put' = put + 1
    /\ putBatch' = [putBatch EXCEPT ![put + 1] = b]
    /\ phase' = "prepare"
    /\ inflight' = inflight \cup Calls("prepare", put + 1)
    /\ waiting' = Workers
    /\ failed' = FALSE
    /\ UNCHANGED <<cancelled, outcome, faulted, prepOK>>

\* Worker call c returns (ok: err == nil); f: a fault was injected into it.
\* The coordinator takes the answer if it still waits for it, and an error
\* of prepare or commit fails the Put.
Answer(c, ok, f) ==
    /\ c \in inflight
    /\ inflight' = inflight \ {c}
    /\ IF c.ctx = put /\ c.op = phase /\ c.w \in waiting
         THEN /\ waiting' = waiting \ {c.w}
              /\ failed' = (failed \/ (c.op # "rollback" /\ ~ok))
         ELSE UNCHANGED <<waiting, failed>>
    /\ faulted' = [faulted EXCEPT ![c.ctx] = @ \/ f]
    /\ prepOK' = IF c.op = "prepare" /\ ok
                   THEN prepOK \cup {<<c.w, c.ctx>>} ELSE prepOK
    /\ UNCHANGED <<put, phase, putBatch, outcome, cancelled>>

\* The context's deadline fires while the coordinator waits.
Timeout ==
    /\ phase \in Ops
    /\ put \notin cancelled
    /\ cancelled' = cancelled \cup {put}
    /\ waiting' = {}
    /\ failed' = (failed \/ phase # "rollback")
    /\ faulted' = [faulted EXCEPT ![put] = TRUE]
    /\ UNCHANGED <<put, phase, putBatch, inflight, outcome, prepOK>>

\* Mutant of PrepareDone: the prepare errors collected are not looked at.
PrepareDoneIgnoresErrors(hookFails) ==
    /\ phase = "prepare" /\ waiting = {}
    /\ hookFails => "beforeCommit" \in HookFailures
    /\ IF hookFails
         THEN /\ StartRollback
              /\ failed' = TRUE
         ELSE /\ phase' = "commit"
              /\ inflight' = inflight \cup Calls("commit", put)
              /\ waiting' = Awaited
              /\ failed' = (put \in cancelled)
    /\ faulted' = [faulted EXCEPT ![put] = @ \/ hookFails]
    /\ UNCHANGED <<cancelled, put, putBatch, outcome, prepOK>>

\* All prepares answered: roll back on failure, else beforeCommit, then
\* dispatch Commit (a done context fails the phase at once).
PrepareDone(hookFails) ==
    /\ phase = "prepare" /\ waiting = {}
    /\ hookFails => "beforeCommit" \in HookFailures
    /\ IF failed \/ hookFails
         THEN /\ StartRollback
              /\ failed' = TRUE
         ELSE /\ phase' = "commit"
              /\ inflight' = inflight \cup Calls("commit", put)
              /\ waiting' = Awaited
              /\ failed' = (put \in cancelled)
    /\ faulted' = [faulted EXCEPT ![put] = @ \/ hookFails]
    /\ UNCHANGED <<cancelled, put, putBatch, outcome, prepOK>>

\* All commits answered: return nil, or roll back and return the error.
CommitDone ==
    /\ phase = "commit" /\ waiting = {}
    /\ IF failed
         THEN StartRollback /\ UNCHANGED <<outcome, cancelled>>
         ELSE ReturnPut("ok") /\ UNCHANGED <<inflight, waiting>>
    /\ UNCHANGED <<put, putBatch, failed, faulted, prepOK>>

\* The rollbacks answered (or the context fired): return the first error.
RollbackDone ==
    /\ phase = "rollback" /\ waiting = {}
    /\ ReturnPut("err")
    /\ UNCHANGED <<put, putBatch, inflight, waiting, failed, faulted, prepOK>>

\* The coordinator's own steps, after Put is called.
PutStep ==
    \/ Timeout
    \/ \E h \in BOOLEAN : PrepareDone(h)
    \/ CommitDone
    \/ RollbackDone

\* The coordinator against workers that may answer anything.
Next ==
    \/ \E b \in Batches : BeforePrepareFails(b) \/ StartPut(b)
    \/ \E c \in inflight, ok, f \in BOOLEAN : Answer(c, ok, f)
    \/ PutStep

Spec == Init /\ [][Next]_vars

-----------------------------------------------------------------------------
TypeOK ==
    /\ put \in 0..MaxPuts
    /\ phase \in {"idle"} \cup Ops
    /\ putBatch \in [Ctxs -> Batches \cup {NoBatch}]
    /\ inflight \subseteq Call
    /\ waiting \subseteq Workers
    /\ failed \in BOOLEAN
    /\ outcome \in [Ctxs -> {"none", "ok", "err"}]
    /\ faulted \in [Ctxs -> BOOLEAN]
    /\ prepOK \subseteq Workers \X Ctxs
    /\ cancelled \subseteq Ctxs

(***************************************************************************)
(* Prepare happens-before Commit at every worker (spec 5): no Commit of a  *)
(* Put is ever dispatched unless every worker has answered that Put's      *)
(* Prepare with nil.  It spans the fan-out, the join and the timeout.      *)
(***************************************************************************)
CommitAfterAllPrepared ==
    \A c \in inflight :
        c.op = "commit" => \A v \in Workers : <<v, c.ctx>> \in prepOK
=============================================================================
