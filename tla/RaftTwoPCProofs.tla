--------------------------- MODULE RaftTwoPCProofs ---------------------------
(***************************************************************************)
(* Proofs about the coordinator's Put against the twopc test's RPC nodes,  *)
(* for every set of nodes and policies, with or without network failures  *)
(* and whichever deadlines fire.  Until a Put before the current one has   *)
(* timed out, nothing but the current Put's calls reaches a node; after   *)
(* that a late Prepare may take a node over (run raft_late).               *)
(***************************************************************************)
EXTENDS RaftTwoPC, TLAPS

\* The calls the current phase still awaits, one per node.
PhaseCalls == {c \in C!Calls(phase, put) : c.w \in waiting}

(***************************************************************************)
(* The inductive invariant.  Every call in flight and every request on the *)
(* wire belongs to the current Put; while its context is live they are the *)
(* awaited calls of the current phase, and none is left once a Put whose   *)
(* deadline did not fire returns.  Every Prepare served for the current Put *)
(* therefore writes its TxID, so a node that answered Prepare with nil,    *)
(* every node in the commit phase, and the target of every Commit request  *)
(* on the wire hold that TxID; and a Commit is only dispatched once every  *)
(* node's Prepare answered nil.                                             *)
(***************************************************************************)
\* The types the proofs need.
Types ==
    /\ put \in 0..MaxPuts
    /\ phase \in {"idle"} \cup C!Ops
    /\ DOMAIN putBatch = Ctxs
    /\ waiting \subseteq Nodes
    /\ failed \in BOOLEAN
    /\ inflight \subseteq C!Call
    /\ sent \subseteq C!Call /\ wire \subseteq sent
    /\ replies \subseteq [c : C!Call, code : ErrCodes]
    /\ rtxid \in [Nodes -> Nat]
    /\ rstate \in [Nodes -> RaftTxStates]
    /\ cancelled \subseteq 1..put

\* Which calls and requests exist: only the current Put's, and while its
\* context is live only the awaited calls of its phase.
CallsOfPut ==
    /\ put = 0 => phase = "idle" /\ inflight = {} /\ wire = {}
    /\ put # 0 => putBatch[put] = put
    /\ \A c \in sent : c.ctx \in 1..put
    /\ \A c \in inflight \cup wire : c.ctx = put
    /\ \A r \in replies : r.c \in sent /\ r.c \notin wire
    /\ phase = "idle" /\ put # 0 => put \in cancelled
    /\ phase = "idle" /\ put \notin timedOut => inflight = {} /\ wire = {}
    /\ put \notin timedOut => put \notin cancelled \/ phase = "idle"
    /\ phase # "idle" /\ put \notin cancelled =>
           inflight = PhaseCalls /\ wire \subseteq inflight

\* The coordinator's join: a Commit goes out only after every nil Prepare.
Join ==
    /\ phase = "prepare" =>
           \A v \in Nodes \ waiting : <<v, put>> \in prepOK \/ failed
    /\ \A c \in inflight \cup wire :
           c.op = "commit" => \A v \in Nodes : <<v, c.ctx>> \in prepOK

\* The nodes hold the current Put's TxID where a Commit may reach them.
TxIDs ==
    /\ \A r \in replies :
           r.c.op = "prepare" /\ r.code = 0 /\ r.c.ctx = put =>
               rtxid[r.c.w] = put
    /\ phase = "prepare" /\ ~failed =>
           \A v \in Nodes \ waiting : rtxid[v] = put
    /\ phase = "commit" => \A v \in Nodes : rtxid[v] = put
    /\ \A c \in wire : c.op = "commit" => rtxid[c.w] = put

IInv == Types /\ CallsOfPut /\ Join /\ TxIDs /\ NoCommitWithoutAllPrepared

LEMMA MaxPutsNat == MaxPuts \in Nat \ {0}
BY RaftTwoPCAssumption

LEMMA InitIInv == Init => IInv
<1> SUFFICES ASSUME Init PROVE IInv
    OBVIOUS
<1>1. /\ put = 0 /\ phase = "idle" /\ inflight = {} /\ waiting = {}
      /\ failed = FALSE /\ prepOK = {} /\ cancelled = {}
      /\ rtxid = [n \in Nodes |-> 0]
      /\ rstate = [n \in Nodes |-> "Initialized"]
      /\ sent = {} /\ wire = {} /\ replies = {}
    BY DEF Init, C!Init
<1>2. DOMAIN putBatch = Ctxs
    BY DEF Init, C!Init, C!Ctxs, Ctxs
<1>3. rtxid \in [Nodes -> Nat] /\ rstate \in [Nodes -> RaftTxStates]
    BY <1>1 DEF RaftTxStates
<1>4. put \in 0..MaxPuts /\ cancelled \subseteq 1..put
    BY <1>1, MaxPutsNat
<1>5. NoCommitWithoutAllPrepared
    BY <1>1 DEF NoCommitWithoutAllPrepared
<1>6. QED
    BY <1>1, <1>2, <1>3, <1>4, <1>5 DEF IInv, Types, CallsOfPut, Join, TxIDs

(***************************************************************************)
(* A node call of the current Put returns to the coordinator (DialFails,   *)
(* Reply, CallDeadline): the node leaves waiting if the phase awaits it,  *)
(* and a nil answer to Prepare comes from a node holding the Put's TxID.   *)
(***************************************************************************)
LEMMA AnswerIInv ==
    ASSUME IInv, NEW c \in inflight, NEW ok \in BOOLEAN, NEW f \in BOOLEAN,
           C!Answer(c, ok, f), UNCHANGED <<nodeVars, sent, wire, timedOut>>,
           replies' \subseteq replies,
           c \notin wire \/ put \in cancelled,
           ok /\ c.op = "prepare" => rtxid[c.w] = put
    PROVE  IInv'
<1>1. c.ctx = put /\ put # 0 /\ c \in C!Call
    BY DEF IInv, CallsOfPut, Types
<1>2. /\ inflight' = inflight \ {c}
      /\ UNCHANGED <<put, phase, putBatch, outcome, cancelled>>
      /\ prepOK' = IF c.op = "prepare" /\ ok
                      THEN prepOK \cup {<<c.w, c.ctx>>} ELSE prepOK
    BY DEF C!Answer
<1>3. (c.op = phase /\ c.w \in waiting) => /\ waiting' = waiting \ {c.w}
           /\ failed' = (failed \/ (c.op # "rollback" /\ ~ok))
    BY <1>1 DEF C!Answer
<1>4. ~(c.op = phase /\ c.w \in waiting) => UNCHANGED <<waiting, failed>>
    BY <1>1 DEF C!Answer
<1>5. Types'
    BY <1>2, <1>3, <1>4 DEF IInv, Types, nodeVars
<1>6. CallsOfPut'
    <2>1. ASSUME phase # "idle", put \notin cancelled
          PROVE  inflight' = PhaseCalls' /\ wire' \subseteq inflight'
        <3>1. inflight = PhaseCalls /\ wire \subseteq inflight
            BY <2>1 DEF IInv, CallsOfPut
        <3>2. c.op = phase /\ c.w \in waiting
            BY <3>1 DEF PhaseCalls, C!Calls
        <3>3. QED
            BY <1>1, <1>2, <1>3, <2>1, <3>1, <3>2 DEF PhaseCalls, C!Calls
    <2>2. QED
        BY <1>1, <1>2, <2>1 DEF IInv, CallsOfPut
<1>7. Join'
    <2>1. prepOK \subseteq prepOK' /\ (failed => failed')
        <3>1. prepOK \subseteq prepOK'
            BY <1>2
        <3>2. CASE c.op = phase /\ c.w \in waiting
            BY <1>3, <3>1, <3>2
        <3>3. CASE ~(c.op = phase /\ c.w \in waiting)
            BY <1>4, <3>1, <3>3
        <3>4. QED
            BY <3>1, <3>2, <3>3
    <2>2. ASSUME phase' = "prepare", NEW v \in Nodes \ waiting'
          PROVE  <<v, put'>> \in prepOK' \/ failed'
        <3>1. CASE v = c.w /\ c.op = phase /\ c.w \in waiting
            BY <1>1, <1>2, <1>3, <2>2, <3>1
        <3>2. CASE ~(v = c.w /\ c.op = phase /\ c.w \in waiting)
            <4>1. v \notin waiting
                BY <1>3, <1>4, <2>2, <3>2
            <4>2. QED
                BY <1>2, <2>1, <2>2, <4>1 DEF IInv, Join
        <3>3. QED
            BY <3>1, <3>2
    <2>3. \A d \in inflight' \cup wire' :
              d.op = "commit" => \A v \in Nodes : <<v, d.ctx>> \in prepOK'
        BY <1>2, <2>1 DEF IInv, Join
    <2>4. QED
        BY <2>2, <2>3 DEF Join
<1>8. TxIDs'
    BY <1>1, <1>2, <1>3, <1>4 DEF IInv, TxIDs, nodeVars
<1>9. NoCommitWithoutAllPrepared'
    BY <1>2 DEF IInv, NoCommitWithoutAllPrepared, nodeVars
<1>10. QED
    BY <1>5, <1>6, <1>7, <1>8, <1>9 DEF IInv

\* testNodeReset and the policy, then Put: its beforePrepare hook fails, or
\* it dispatches Prepare.  Nothing of the previous Put is left in flight.
LEMMA StartIInv ==
    ASSUME IInv, timedOut = {}, NEW pol \in Policies, TestCase(pol),
           C!BeforePrepareFails(put + 1) \/ C!StartPut(put + 1),
           UNCHANGED <<netVars, timedOut>>
    PROVE  IInv'
<1>1. phase = "idle" /\ put < MaxPuts /\ put \in Nat
    BY DEF C!BeforePrepareFails, C!StartPut, IInv, Types
<1>2. put \notin timedOut /\ put + 1 \notin timedOut'
    OBVIOUS
<1>3. /\ inflight = {} /\ wire = {}
      /\ \A r \in replies : r.c.ctx \in 1..put
    BY <1>1, <1>2 DEF IInv, CallsOfPut
<1>4. /\ rstate' = [n \in Nodes |-> "Initialized"] /\ rtxid' = rtxid
      /\ UNCHANGED <<sent, wire, replies>>
    BY DEF TestCase, netVars
<1>5. NoCommitWithoutAllPrepared'
    BY <1>4 DEF NoCommitWithoutAllPrepared
<1>6. rstate' \in [Nodes -> RaftTxStates]
    BY <1>4 DEF RaftTxStates
<1>7. put + 1 \in Ctxs
    BY <1>1, MaxPutsNat DEF Ctxs
<1>8. CASE C!BeforePrepareFails(put + 1)
    <2>1. /\ put' = put + 1 /\ putBatch'[put + 1] = put + 1
          /\ DOMAIN putBatch' = Ctxs
          /\ cancelled' = cancelled \cup {put + 1}
          /\ UNCHANGED <<phase, inflight, waiting, failed, prepOK>>
        BY <1>7, <1>8 DEF C!BeforePrepareFails, IInv, Types
    <2>2. Types'
        BY <1>1, <1>4, <1>6, <2>1, MaxPutsNat DEF IInv, Types
    <2>3. CallsOfPut'
        BY <1>1, <1>3, <1>4, <2>1 DEF IInv, CallsOfPut, Types
    <2>4. Join' /\ TxIDs'
        BY <1>1, <1>3, <1>4, <2>1 DEF Join, TxIDs
    <2>5. QED
        BY <1>5, <2>2, <2>3, <2>4 DEF IInv
<1>9. CASE C!StartPut(put + 1)
    <2>1. /\ put' = put + 1 /\ putBatch'[put + 1] = put + 1
          /\ DOMAIN putBatch' = Ctxs
          /\ phase' = "prepare" /\ waiting' = Nodes /\ failed' = FALSE
          /\ inflight' = C!Calls("prepare", put + 1)
          /\ UNCHANGED <<cancelled, prepOK>>
        BY <1>3, <1>7, <1>9 DEF C!StartPut, IInv, Types
    <2>2. PhaseCalls' = inflight'
        BY <2>1 DEF PhaseCalls, C!Calls
    <2>3. Types'
        <3>1. inflight' \subseteq C!Call
            BY <1>7, <2>1 DEF C!Calls, C!Call, C!Ops, C!Ctxs, Ctxs
        <3>2. put' \in 0..MaxPuts /\ cancelled' \subseteq 1..put'
            BY <1>1, <2>1, MaxPutsNat DEF IInv, Types
        <3>3. QED
            BY <1>4, <1>6, <2>1, <3>1, <3>2 DEF IInv, Types, C!Ops
    <2>4. CallsOfPut'
        BY <1>1, <1>3, <1>4, <2>1, <2>2 DEF IInv, CallsOfPut, Types, C!Calls
    <2>5. Join' /\ TxIDs'
        BY <1>1, <1>3, <1>4, <2>1 DEF Join, TxIDs, C!Calls
    <2>6. QED
        BY <1>5, <2>3, <2>4, <2>5 DEF IInv
<1>10. QED
    BY <1>8, <1>9

\* The deadline of the current Put fires: waiting is emptied and the phase
\* fails; the calls and requests in flight stay.
LEMMA TimeoutIInv ==
    ASSUME IInv, C!Timeout, timedOut' = timedOut \cup {put},
           UNCHANGED <<nodeVars, netVars>>
    PROVE  IInv'
<1>1. /\ phase \in C!Ops /\ put # 0 /\ put \in 1..MaxPuts
      /\ cancelled' = cancelled \cup {put} /\ waiting' = {}
      /\ failed' = (failed \/ phase # "rollback")
      /\ UNCHANGED <<put, phase, putBatch, inflight, outcome, prepOK>>
    BY DEF C!Timeout, IInv, Types, CallsOfPut, C!Ops
<1>2. Types'
    BY <1>1 DEF IInv, Types, nodeVars, netVars
<1>3. CallsOfPut'
    BY <1>1 DEF IInv, CallsOfPut, netVars, C!Ops
<1>4. Join' /\ TxIDs'
    BY <1>1 DEF IInv, Join, TxIDs, nodeVars, netVars
<1>5. NoCommitWithoutAllPrepared'
    BY <1>1 DEF IInv, NoCommitWithoutAllPrepared, nodeVars
<1>6. QED
    BY <1>2, <1>3, <1>4, <1>5 DEF IInv

\* The join of a phase is complete and the coordinator dispatches Rollback
\* to every node (PrepareDone on an error, CommitDone after a failed Commit).
LEMMA StartRollbackIInv ==
    ASSUME IInv, phase \in {"prepare", "commit"}, waiting = {},
           C!StartRollback, failed' = TRUE,
           UNCHANGED <<put, putBatch, cancelled, prepOK, nodeVars, netVars,
                       timedOut>>
    PROVE  IInv'
<1>1. put \in 1..MaxPuts /\ put \in Ctxs
    BY MaxPutsNat DEF IInv, Types, CallsOfPut, Ctxs
<1>2. /\ phase' = "rollback"
      /\ inflight' = inflight \cup C!Calls("rollback", put)
      /\ waiting' = C!Awaited
    BY DEF C!StartRollback
<1>3. put \notin cancelled => inflight = {} /\ wire = {}
    BY DEF IInv, CallsOfPut, PhaseCalls
<1>4. Types'
    <2>1. inflight' \subseteq C!Call
        BY <1>1, <1>2 DEF IInv, Types, C!Calls, C!Call, C!Ops, C!Ctxs, Ctxs
    <2>2. waiting' \subseteq Nodes
        BY <1>2 DEF C!Awaited
    <2>3. QED
        BY <1>2, <2>1, <2>2 DEF IInv, Types, nodeVars, netVars, C!Ops
<1>5. CallsOfPut'
    <2>1. put \notin cancelled => inflight' = PhaseCalls'
        BY <1>2, <1>3 DEF PhaseCalls, C!Calls, C!Awaited
    <2>2. QED
        BY <1>1, <1>2, <1>3, <2>1 DEF IInv, CallsOfPut, netVars, C!Calls
<1>6. Join' /\ TxIDs'
    BY <1>2 DEF IInv, Join, TxIDs, nodeVars, netVars, C!Calls
<1>7. NoCommitWithoutAllPrepared'
    BY DEF IInv, NoCommitWithoutAllPrepared, nodeVars
<1>8. QED
    BY <1>4, <1>5, <1>6, <1>7 DEF IInv

\* Every node's Prepare answered nil and beforeCommit passed: the
\* coordinator dispatches Commit to every node.
LEMMA StartCommitIInv ==
    ASSUME IInv, phase = "prepare", waiting = {}, ~failed,
           phase' = "commit",
           inflight' = inflight \cup C!Calls("commit", put),
           waiting' = C!Awaited,
           failed' = (put \in cancelled),
           UNCHANGED <<put, putBatch, cancelled, prepOK, nodeVars, netVars,
                       timedOut>>
    PROVE  IInv'
<1>1. put \in 1..MaxPuts /\ put \in Ctxs
    BY MaxPutsNat DEF IInv, Types, CallsOfPut, Ctxs
<1>2. \A v \in Nodes : <<v, put>> \in prepOK /\ rtxid[v] = put
    BY DEF IInv, Join, TxIDs
<1>3. put \notin cancelled => inflight = {} /\ wire = {}
    BY DEF IInv, CallsOfPut, PhaseCalls
<1>4. Types'
    <2>1. inflight' \subseteq C!Call
        BY <1>1 DEF IInv, Types, C!Calls, C!Call, C!Ops, C!Ctxs, Ctxs
    <2>2. waiting' \subseteq Nodes
        BY DEF C!Awaited
    <2>3. QED
        BY <2>1, <2>2 DEF IInv, Types, nodeVars, netVars, C!Ops
<1>5. CallsOfPut'
    <2>1. put \notin cancelled => inflight' = PhaseCalls'
        BY <1>3 DEF PhaseCalls, C!Calls, C!Awaited
    <2>2. QED
        BY <1>1, <1>3, <2>1 DEF IInv, CallsOfPut, netVars, C!Calls
<1>6. Join'
    BY <1>2 DEF IInv, Join, netVars, C!Calls
<1>7. TxIDs'
    BY <1>2 DEF IInv, TxIDs, nodeVars, netVars
<1>8. NoCommitWithoutAllPrepared'
    BY DEF IInv, NoCommitWithoutAllPrepared, nodeVars
<1>9. QED
    BY <1>4, <1>5, <1>6, <1>7, <1>8 DEF IInv

\* Put returns after its commit or rollback phase: its context is
\* cancelled, and nothing of it is in flight unless its deadline fired.
LEMMA ReturnIInv ==
    ASSUME IInv, phase \in {"commit", "rollback"}, waiting = {},
           NEW r, C!ReturnPut(r),
           UNCHANGED <<put, putBatch, inflight, waiting, failed, prepOK,
                       nodeVars, netVars, timedOut>>
    PROVE  IInv'
<1>1. put \in 1..MaxPuts
    BY MaxPutsNat DEF IInv, Types, CallsOfPut
<1>2. phase' = "idle" /\ cancelled' = cancelled \cup {put}
    BY DEF C!ReturnPut
<1>3. put \notin timedOut => inflight = {} /\ wire = {}
    BY DEF IInv, CallsOfPut, PhaseCalls
<1>4. Types'
    BY <1>1, <1>2 DEF IInv, Types, nodeVars, netVars
<1>5. CallsOfPut'
    BY <1>1, <1>2, <1>3 DEF IInv, CallsOfPut, netVars
<1>6. Join' /\ TxIDs'
    BY <1>2 DEF IInv, Join, TxIDs, nodeVars, netVars
<1>7. NoCommitWithoutAllPrepared'
    BY DEF IInv, NoCommitWithoutAllPrepared, nodeVars
<1>8. QED
    BY <1>4, <1>5, <1>6, <1>7 DEF IInv

(***************************************************************************)
(* A RaftNodeRPCServer serves a request of the current Put, whose batch    *)
(* carries the TxID put.  It writes no TxID but put, and it commits only a *)
(* node that holds put, once every node's Prepare of put answered nil.    *)
(***************************************************************************)
LEMMA ServeIInv ==
    ASSUME IInv, NEW c \in wire, Serve(c), UNCHANGED timedOut
    PROVE  IInv'
<1>1. /\ c \in C!Call /\ c \in sent /\ c.w \in Nodes
      /\ c.ctx = put /\ put \in 1..MaxPuts /\ putBatch[c.ctx] = put
    BY DEF IInv, Types, CallsOfPut, C!Call
<1>2. PICK code \in ErrCodes :
          /\ Handler(c, code)
          /\ replies' = replies \cup {[c |-> c, code |-> code]}
    BY DEF Serve
<1>3. /\ wire' = wire \ {c}
      /\ UNCHANGED <<put, phase, putBatch, inflight, waiting, failed,
                     prepOK, cancelled, policy, sent>>
    BY DEF Serve, coordVars
<1>4. rtxid \in [Nodes -> Nat] /\ rstate \in [Nodes -> RaftTxStates]
    BY DEF IInv, Types
<1> DEFINE
      Typed == rtxid' \in [Nodes -> Nat] /\ rstate' \in [Nodes -> RaftTxStates]
      OnlyPut == \A v \in Nodes : rtxid'[v] = put \/ rtxid'[v] = rtxid[v]
      PrepWrites == c.op = "prepare" /\ code = 0 => rtxid'[c.w] = put
<1>5. Typed /\ OnlyPut /\ PrepWrites /\ NoCommitWithoutAllPrepared'
    <2>1. CASE c.op = "prepare"
        <3>1. RPCPrepare(c.w, put, code)
            BY <1>1, <1>2, <2>1, Zenon DEF Handler
        <3>2. \/ code = 2 /\ UNCHANGED <<rtxid, rstate>>
              \/ /\ rtxid' = [rtxid EXCEPT ![c.w] = put]
                 /\ rstate' = [rstate EXCEPT ![c.w] = "Prepared"]
            BY <3>1 DEF RPCPrepare
        <3>3. Typed /\ OnlyPut /\ PrepWrites
            BY <1>1, <1>4, <3>2 DEF RaftTxStates
        <3>4. NoCommitWithoutAllPrepared'
            BY <1>1, <1>3, <1>4, <3>2 DEF IInv, NoCommitWithoutAllPrepared
        <3>5. QED
            BY <3>3, <3>4
    <2>2. CASE c.op = "commit"
        <3>1. RPCCommit(c.w, put, code)
            BY <1>1, <1>2, <2>2, Zenon DEF Handler
        <3>2. /\ UNCHANGED rtxid
              /\ \/ UNCHANGED rstate
                 \/ rstate' = [rstate EXCEPT ![c.w] = "Committed"]
            BY <3>1 DEF RPCCommit
        <3>3. rtxid[c.w] = put /\ \A m \in Nodes : <<m, put>> \in prepOK
            BY <1>1, <2>2 DEF IInv, TxIDs, Join
        <3>4. Typed /\ OnlyPut /\ PrepWrites
            BY <1>4, <2>2, <3>2 DEF RaftTxStates
        <3>5. NoCommitWithoutAllPrepared'
            BY <1>1, <1>3, <1>4, <3>2, <3>3
            DEF IInv, NoCommitWithoutAllPrepared
        <3>6. QED
            BY <3>4, <3>5
    <2>3. CASE c.op = "rollback"
        <3>1. RPCRollback(c.w, put, code)
            BY <1>1, <1>2, <2>3, Zenon DEF Handler
        <3>2. UNCHANGED rtxid /\ rstate' = [rstate EXCEPT ![c.w] = "RolledBack"]
            BY <3>1 DEF RPCRollback
        <3>3. Typed /\ OnlyPut /\ PrepWrites
            BY <1>4, <2>3, <3>2 DEF RaftTxStates
        <3>4. NoCommitWithoutAllPrepared'
            BY <1>1, <1>3, <1>4, <3>2 DEF IInv, NoCommitWithoutAllPrepared
        <3>5. QED
            BY <3>3, <3>4
    <2>4. QED
        BY <1>1, <2>1, <2>2, <2>3 DEF C!Call, C!Ops
<1>6. Types'
    BY <1>1, <1>2, <1>3, <1>5 DEF IInv, Types, Typed
<1>7. CallsOfPut'
    BY <1>1, <1>2, <1>3 DEF IInv, CallsOfPut, PhaseCalls
<1>8. Join'
    BY <1>3 DEF IInv, Join
<1>9. TxIDs'
    <2>1. \A r \in replies' :
              r.c.op = "prepare" /\ r.code = 0 /\ r.c.ctx = put' =>
                  rtxid'[r.c.w] = put'
        BY <1>2, <1>3, <1>5 DEF IInv, TxIDs, Types, C!Call, OnlyPut, PrepWrites
    <2>2. \A v \in Nodes : rtxid[v] = put => rtxid'[v] = put
        BY <1>5 DEF OnlyPut
    <2>3. phase' = "prepare" /\ ~failed' =>
              \A v \in Nodes \ waiting' : rtxid'[v] = put'
        BY <1>3, <2>2 DEF IInv, TxIDs
    <2>4. phase' = "commit" => \A v \in Nodes : rtxid'[v] = put'
        BY <1>3, <2>2 DEF IInv, TxIDs
    <2>5. \A d \in wire' : d.op = "commit" => rtxid'[d.w] = put'
        BY <1>3, <2>2 DEF IInv, TxIDs, Types, C!Call
    <2>6. QED
        BY <2>1, <2>3, <2>4, <2>5 DEF TxIDs
<1>10. QED
    BY <1>5, <1>6, <1>7, <1>8, <1>9 DEF IInv

\* client.Call writes the request of an awaited call of the live Put.
LEMMA SendIInv ==
    ASSUME IInv, NEW c \in inflight, Send(c), UNCHANGED timedOut
    PROVE  IInv'
<1>1. /\ c \in C!Call /\ c.ctx = put /\ c \notin sent
      /\ put \notin cancelled /\ phase # "idle" /\ put \in 1..MaxPuts
    BY DEF Send, IInv, Types, CallsOfPut
<1>2. inflight = PhaseCalls /\ wire \subseteq inflight
    BY <1>1 DEF IInv, CallsOfPut
<1>3. c.op = phase
    BY <1>2 DEF PhaseCalls, C!Calls
<1>4. /\ sent' = sent \cup {c} /\ wire' = wire \cup {c}
      /\ UNCHANGED <<put, phase, putBatch, inflight, waiting, failed,
                     prepOK, cancelled, rtxid, rstate, replies>>
    BY DEF Send, coordVars, nodeVars
<1>5. Types'
    BY <1>1, <1>4 DEF IInv, Types
<1>6. CallsOfPut'
    <2>1. \A r \in replies' : r.c \in sent' /\ r.c \notin wire'
        BY <1>1, <1>4 DEF IInv, CallsOfPut
    <2>2. /\ \A d \in sent' : d.ctx \in 1..put'
          /\ \A d \in inflight' \cup wire' : d.ctx = put'
        BY <1>1, <1>4 DEF IInv, CallsOfPut
    <2>3. inflight' = PhaseCalls' /\ wire' \subseteq inflight'
        BY <1>2, <1>4 DEF PhaseCalls
    <2>4. QED
        BY <1>1, <1>4, <2>1, <2>2, <2>3 DEF IInv, CallsOfPut
<1>7. Join'
    BY <1>4 DEF IInv, Join
<1>8. TxIDs'
    BY <1>1, <1>3, <1>4 DEF IInv, TxIDs, Types, C!Call
<1>9. NoCommitWithoutAllPrepared'
    BY <1>4 DEF IInv, NoCommitWithoutAllPrepared
<1>10. QED
    BY <1>5, <1>6, <1>7, <1>8, <1>9 DEF IInv

\* A call of the current Put returns: the dial fails, the response is read,
\* or the deadline set on the connection has passed.
LEMMA ReturnCallIInv ==
    ASSUME IInv, NEW c \in inflight,
           DialFails(c) \/ Reply(c) \/ CallDeadline(c), UNCHANGED timedOut
    PROVE  IInv'
<1>1. c.ctx = put /\ c \in C!Call
    BY DEF IInv, CallsOfPut, Types
<1>2. CASE DialFails(c)
    <2>1. c \notin wire
        BY <1>2 DEF DialFails, IInv, Types
    <2>2. QED
        BY <1>2, <2>1, AnswerIInv DEF DialFails, netVars
<1>3. CASE Reply(c)
    <2>1. PICK r \in replies :
              /\ r.c = c
              /\ C!Answer(c, r.code = 0, FALSE)
              /\ replies' = replies \ {r}
        BY <1>3 DEF Reply
    <2>2. c \notin wire
        BY <2>1 DEF IInv, CallsOfPut
    <2>3. r.code = 0 /\ c.op = "prepare" => rtxid[c.w] = put
        BY <1>1, <2>1 DEF IInv, TxIDs
    <2>4. UNCHANGED <<nodeVars, sent, wire>>
        BY <1>3 DEF Reply
    <2>5. QED
        BY <2>1, <2>2, <2>3, <2>4, AnswerIInv
<1>4. CASE CallDeadline(c)
    <2>1. put \in cancelled
        BY <1>1, <1>4 DEF CallDeadline
    <2>2. QED
        BY <1>4, <2>1, AnswerIInv DEF CallDeadline, netVars
<1>5. QED
    BY <1>2, <1>3, <1>4

\* Every step of the test that leaves no earlier Put timed out keeps the
\* invariant; a new Put starts only when no deadline has fired at all.
LEMMA StepIInv ==
    ASSUME IInv, [Next]_vars, NEW p, put' = p, timedOut' \subseteq {p},
           timedOut \subseteq timedOut', put' = put \/ timedOut = {}
    PROVE  IInv'
<1>1. CASE \E pol \in Policies :
              /\ TestCase(pol)
              /\ C!BeforePrepareFails(put + 1) \/ C!StartPut(put + 1)
           /\ UNCHANGED <<netVars, timedOut>>
    <2>1. put' = put + 1 /\ put \in Nat
        BY <1>1 DEF C!BeforePrepareFails, C!StartPut, IInv, Types
    <2>2. timedOut = {}
        BY <2>1
    <2>. QED
        BY <1>1, <2>2, StartIInv
<1>2. CASE put \in Deadlines /\ C!Timeout /\ timedOut' = timedOut \cup {put}
           /\ UNCHANGED <<nodeVars, netVars>>
    BY <1>2, TimeoutIInv
<1>3. CASE \E h \in BOOLEAN : C!PrepareDone(h)
           /\ UNCHANGED <<nodeVars, netVars, timedOut>>
    <2>1. PICK h \in BOOLEAN : C!PrepareDone(h)
        BY <1>3
    <2>2. CASE failed \/ h
        BY <1>3, <2>1, <2>2, StartRollbackIInv DEF C!PrepareDone
    <2>3. CASE ~(failed \/ h)
        BY <1>3, <2>1, <2>3, StartCommitIInv DEF C!PrepareDone
    <2>4. QED
        BY <2>2, <2>3
<1>4. CASE C!CommitDone /\ UNCHANGED <<nodeVars, netVars, timedOut>>
    <2>1. CASE failed
        <3>1. failed \in BOOLEAN
            BY DEF IInv, Types
        <3>2. QED
            BY <1>4, <2>1, <3>1, StartRollbackIInv DEF C!CommitDone
    <2>2. CASE ~failed
        BY <1>4, <2>2, ReturnIInv DEF C!CommitDone
    <2>3. QED
        BY <2>1, <2>2
<1>5. CASE C!RollbackDone /\ UNCHANGED <<nodeVars, netVars, timedOut>>
    BY <1>5, ReturnIInv DEF C!RollbackDone
<1>6. CASE /\ \E c \in inflight :
                 RaftNodePrepare(c) \/ RaftNodeCommit(c) \/ RaftNodeRollback(c)
           /\ UNCHANGED timedOut
    <2>1. PICK c \in inflight : PhaseCall(c)
        BY <1>6 DEF RaftNodePrepare, RaftNodeCommit, RaftNodeRollback
    <2>2. QED
        BY <1>6, <2>1, SendIInv, ReturnCallIInv DEF PhaseCall
<1>7. CASE (\E c \in wire : Serve(c)) /\ UNCHANGED timedOut
    BY <1>7, ServeIInv
<1>8. CASE UNCHANGED vars
    BY <1>8 DEF vars, coordVars, nodeVars, netVars, IInv, Types, CallsOfPut,
                Join, TxIDs, NoCommitWithoutAllPrepared, PhaseCalls
<1>9. QED
    BY <1>1, <1>2, <1>3, <1>4, <1>5, <1>6, <1>7, <1>8, Zenon
    DEF Next, CoordStep

(***************************************************************************)
(* The invariant for every set of deadlines.  put only grows, and a Put    *)
(* is recorded as timed out only while it is the current one, so once an  *)
(* earlier Put has timed out that stays so; until then IInv holds.         *)
(***************************************************************************)
TimedOutPast == put \in Nat /\ \A q \in timedOut : q \in Nat /\ q <= put

RInv == TimedOutPast /\ (NoEarlierTimeout => IInv)

\* What a step does to put and to the history.
LEMMA PutHistoryStep ==
    ASSUME put \in Nat, [Next]_vars
    PROVE  /\ put' = put \/ put' = put + 1
           /\ put' = put + 1 => timedOut' = timedOut
           /\ timedOut' = timedOut \/ timedOut' = timedOut \cup {put}
<1>1. CASE /\ \E pol \in Policies :
                 /\ TestCase(pol)
                 /\ C!BeforePrepareFails(put + 1) \/ C!StartPut(put + 1)
           /\ UNCHANGED <<netVars, timedOut>>
    BY <1>1 DEF C!BeforePrepareFails, C!StartPut
<1>2. CASE put \in Deadlines /\ C!Timeout /\ timedOut' = timedOut \cup {put}
    BY <1>2 DEF C!Timeout
<1>3. CASE /\ \/ \E h \in BOOLEAN : C!PrepareDone(h)
              \/ C!CommitDone
              \/ C!RollbackDone
           /\ UNCHANGED timedOut
    BY <1>3 DEF C!PrepareDone, C!CommitDone, C!RollbackDone
<1>4. ASSUME NEW c \in inflight, PhaseCall(c), UNCHANGED timedOut
      PROVE  put' = put
    BY <1>4 DEF PhaseCall, DialFails, Send, Reply, CallDeadline, C!Answer,
                coordVars
<1>5. ASSUME NEW c \in wire, Serve(c) PROVE put' = put
    BY <1>5 DEF Serve, coordVars
<1>6. CASE /\ \/ \E c \in inflight :
                    RaftNodePrepare(c) \/ RaftNodeCommit(c) \/ RaftNodeRollback(c)
              \/ \E c \in wire : Serve(c)
           /\ UNCHANGED timedOut
    <2>1. put' = put
        BY <1>4, <1>5, <1>6
           DEF RaftNodePrepare, RaftNodeCommit, RaftNodeRollback
    <2>. QED
        BY <1>6, <2>1
<1>7. CASE UNCHANGED vars
    BY <1>7 DEF vars, coordVars
<1>8. QED
    BY <1>1, <1>2, <1>3, <1>6, <1>7, Zenon DEF Next, CoordStep

LEMMA InitRInv == Init => RInv
BY InitIInv DEF Init, C!Init, RInv, TimedOutPast

LEMMA StepRInv == RInv /\ [Next]_vars => RInv'
<1> SUFFICES ASSUME RInv, [Next]_vars PROVE RInv'
    OBVIOUS
<1>1. /\ put' = put \/ put' = put + 1
      /\ put' = put + 1 => timedOut' = timedOut
      /\ timedOut' = timedOut \/ timedOut' = timedOut \cup {put}
    BY PutHistoryStep DEF RInv, TimedOutPast
<1>2. TimedOutPast'
    BY <1>1 DEF RInv, TimedOutPast
<1>3. ASSUME NoEarlierTimeout' PROVE IInv'
    <2>1. timedOut \subseteq timedOut' /\ timedOut' \subseteq {put'}
        BY <1>1, <1>3 DEF NoEarlierTimeout
    <2>2. put' = put \/ timedOut = {}
        BY <1>1, <2>1 DEF RInv, TimedOutPast
    <2>3. NoEarlierTimeout
        BY <2>1, <2>2 DEF NoEarlierTimeout
    <2>4. IInv
        BY <2>3 DEF RInv
    <2>. QED
        BY <2>1, <2>2, <2>4, StepIInv
<1>. QED
    BY <1>2, <1>3 DEF RInv

(***************************************************************************)
(* All or nothing at the nodes, for every set of nodes, every policy and   *)
(* with or without network failures, whichever deadlines fire: until a    *)
(* Put before the current one has timed out, a RaftNodeRPCServer is        *)
(* Committed under TxID t only if every node answered the Prepare of Put t *)
(* with nil.  raft_pass checks NoCommitWithoutAllPrepared on two nodes and *)
(* two Puts, the second of which may time out; raft_late shows it failing  *)
(* once an earlier Put has timed out.                                       *)
(***************************************************************************)
THEOREM NoCommitWithoutAllPreparedHolds ==
    Spec => [](NoEarlierTimeout => NoCommitWithoutAllPrepared)
<1>1. Init => RInv
    BY InitRInv
<1>2. RInv /\ [Next]_vars => RInv'
    BY StepRInv
<1>3. RInv => (NoEarlierTimeout => NoCommitWithoutAllPrepared)
    BY DEF RInv, IInv
<1>4. QED
    BY <1>1, <1>2, <1>3, PTL DEF Spec

-----------------------------------------------------------------------------
CP == INSTANCE CoordinatorProofs
          WITH Workers <- Nodes, Batches <- Ctxs, NoBatch <- 0

\* The only fact about the state the refinement needs: the number of Puts
\* made is a natural, so the next Put's TxID put + 1 is a batch (a TxID in
\* Ctxs) whenever put < MaxPuts.
PutNat == put \in Nat

\* Each step of the composition keeps PutNat and is a coordinator step or
\* leaves the coordinator's variables alone.  A phase method's call returns
\* through C!Answer with a Boolean error; the test's reset, the connection
\* and the RPC server's handlers touch none of the coordinator's variables.
LEMMA RefineStep ==
    PutNat /\ [Next]_vars => PutNat' /\ [C!Next]_(C!vars)
<1> SUFFICES ASSUME PutNat, [Next]_vars PROVE PutNat' /\ [C!Next]_(C!vars)
  OBVIOUS
<1>1. ASSUME NEW pol \in Policies,
             C!BeforePrepareFails(put + 1) \/ C!StartPut(put + 1)
      PROVE  PutNat' /\ C!Next
  <2>1. put + 1 \in Ctxs /\ put' = put + 1
    BY <1>1, MaxPutsNat DEF PutNat, Ctxs, C!BeforePrepareFails, C!StartPut
  <2>2. PutNat'
    BY <2>1 DEF PutNat
  <2>3. C!Next
    BY <1>1, <2>1, Zenon DEF C!Next
  <2>. QED
    BY <2>2, <2>3
<1>2. ASSUME C!PutStep, UNCHANGED <<nodeVars, netVars>>
      PROVE  PutNat' /\ C!Next
  <2>1. put' = put
    BY <1>2 DEF C!PutStep, C!Timeout, C!PrepareDone, C!CommitDone,
               C!RollbackDone
  <2>. QED
    BY <1>2, <2>1 DEF PutNat, C!Next
<1>3. CASE CoordStep
  BY <1>1, <1>2, <1>3, Zenon DEF CoordStep, C!PutStep
<1>4. ASSUME NEW c \in inflight, PhaseCall(c) PROVE PutNat' /\ [C!Next]_(C!vars)
  <2>1. CASE DialFails(c) \/ CallDeadline(c)
    <3>1. C!Answer(c, FALSE, TRUE) \/ C!Answer(c, FALSE, FALSE)
      BY <2>1 DEF DialFails, CallDeadline
    <3>2. put' = put
      BY <3>1 DEF C!Answer
    <3>. QED
      BY <3>1, <3>2, Zenon DEF PutNat, C!Next
  <2>2. CASE Reply(c)
    <3>1. PICK r \in replies : C!Answer(c, r.code = 0, FALSE)
      BY <2>2 DEF Reply
    <3>2. put' = put
      BY <3>1 DEF C!Answer
    <3>. QED
      BY <3>1, <3>2, Zenon DEF PutNat, C!Next
  <2>3. CASE Send(c)
    BY <2>3 DEF Send, PutNat, coordVars, C!vars, C!coordVars
  <2>. QED
    BY <1>4, <2>1, <2>2, <2>3, Zenon DEF PhaseCall
<1>5. ASSUME NEW c \in wire, Serve(c) PROVE PutNat' /\ [C!Next]_(C!vars)
  BY <1>5 DEF Serve, PutNat, coordVars, C!vars, C!coordVars
<1>6. CASE UNCHANGED vars
  BY <1>6 DEF vars, coordVars, PutNat, C!vars, C!coordVars
<1>. QED
  BY <1>3, <1>4, <1>5, <1>6
     DEF Next, RaftNodePrepare, RaftNodeCommit, RaftNodeRollback

(***************************************************************************)
(* The coordinator driving RaftNodes over RPC implements the abstract     *)
(* coordinator, for every set of nodes and policies, with or without       *)
(* network failures, whichever Puts' deadlines may fire.                   *)
(***************************************************************************)
THEOREM ImplementsCoordinator == Spec => C!Spec
<1>1. Init => PutNat /\ C!Init
  BY DEF Init, PutNat, C!Init
<1>2. PutNat /\ [Next]_vars => PutNat' /\ [C!Next]_(C!vars)
  BY RefineStep
<1>. QED
  BY <1>1, <1>2, PTL DEF Spec, C!Spec

(***************************************************************************)
(* Prepare happens-before Commit at the coordinator with RaftNodes, every  *)
(* deadline included: no Commit of a Put is dispatched unless every node's *)
(* Prepare RPC answered ErrCode 0 for it.  raft_late shows that this does  *)
(* not make the nodes safe: a late Prepare served after the commit phase   *)
(* starts still overwrites a node (NoCommitWithoutAllPrepared).            *)
(***************************************************************************)
THEOREM CommitAfterAllPreparedHolds == Spec => []C!CommitAfterAllPrepared
<1>1. C!Init <=> CP!Init
  BY DEF C!Init, CP!Init, C!Ctxs, CP!Ctxs
<1>2. [C!Next]_(C!vars) <=> [CP!Next]_(CP!vars)
  BY Zenon
     DEF C!Next, CP!Next, C!vars, CP!vars, C!coordVars, CP!coordVars,
         C!BeforePrepareFails, CP!BeforePrepareFails, C!StartPut,
         CP!StartPut, C!Answer, CP!Answer, C!PutStep, CP!PutStep,
         C!Timeout, CP!Timeout, C!PrepareDone, CP!PrepareDone,
         C!CommitDone, CP!CommitDone, C!RollbackDone, CP!RollbackDone,
         C!StartRollback, CP!StartRollback, C!ReturnPut, CP!ReturnPut,
         C!Calls, CP!Calls, C!Awaited, CP!Awaited, C!Ops, CP!Ops,
         C!Ctxs, CP!Ctxs
<1>3. C!Spec => CP!Spec
  BY <1>1, <1>2, PTL DEF C!Spec, CP!Spec
<1>4. CP!CommitAfterAllPrepared <=> C!CommitAfterAllPrepared
  BY DEF CP!CommitAfterAllPrepared, C!CommitAfterAllPrepared
<1>. QED
  BY ImplementsCoordinator, <1>3, <1>4, CP!CommitAfterAllPreparedHolds, PTL
=============================================================================
