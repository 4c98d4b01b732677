----------------------------- MODULE RaftTwoPC -----------------------------
(***************************************************************************)
(* The coordinator's Put against the RPC workers of the twopc package's    *)
(* test (src/unnamed/part_002).  A RaftNode's phase method dials a new     *)
(* connection, sets the context's deadline on it and makes one RPC; the    *)
(* RaftNodeRPCServer runs the handler under r.mu, on the txid and state    *)
(* it keeps.  The global test policy injects errors into the handlers.    *)
(* As the tests do, each Put is preceded by testNodeReset and a choice of  *)
(* policy.                                                                 *)
(*                                                                         *)
(* A request written to the connection is served exactly once, whenever   *)
(* the server gets to it; the client stops waiting when the deadline       *)
(* passes, and a request not yet written then is never written.          *)
(***************************************************************************)
EXTENDS Naturals

CONSTANTS
    Nodes,         \* the RaftNodes of the test
    MaxPuts,       \* Put number p carries TxID p
    HookFailures,  \* the hooks that may return an error
    Policies,      \* the values the tests give policy
    NetFailures,   \* whether etls.Dial / InitClientConn / SetDeadline may fail
    Deadlines      \* the Puts whose deadline may fire before they finish

ASSUME RaftTwoPCAssumption ==
    /\ Nodes # {}
    /\ MaxPuts \in Nat \ {0}
    /\ HookFailures \subseteq {"beforePrepare", "beforeCommit"}
    /\ Policies \subseteq {"AllGood", "FailOnPrepare", "FailOnCommit"}
    /\ NetFailures \in BOOLEAN
    /\ Deadlines \subseteq 1..MaxPuts

Ctxs == 1..MaxPuts

VARIABLES
    put, phase, putBatch, inflight, waiting, failed, outcome, faulted,
    prepOK, cancelled,     \* the coordinator
    rtxid,     \* RaftNodeRPCServer.txid
    rstate,    \* RaftNodeRPCServer.state
    policy,    \* the test's global policy
    sent,      \* calls whose request was written to the connection
    wire,      \* requests written and not yet served
    replies,   \* responses written back: [c |-> call, code |-> ErrCode]
    timedOut   \* history: the Puts whose deadline fired

\* The batch of Put p is the RaftWriteBatchReq with TxID p; 0 is NoBatch.
C == INSTANCE Coordinator WITH Workers <- Nodes, Batches <- Ctxs, NoBatch <- 0

coordVars == <<put, phase, putBatch, inflight, waiting, failed, outcome,
               faulted, prepOK, cancelled>>
nodeVars == <<rtxid, rstate, policy>>
netVars == <<sent, wire, replies>>
vars == <<coordVars, nodeVars, netVars, timedOut>>

RaftTxStates == {"Initialized", "Prepared", "Committed", "RolledBack"}
ErrCodes == 0..2

\* NewRaftNode (lines 104-119): txid 0, state Initailized.
Init ==
    /\ C!Init
    /\ rtxid = [n \in Nodes |-> 0]
    /\ rstate = [n \in Nodes |-> "Initialized"]
    /\ policy \in Policies
    /\ sent = {} /\ wire = {} /\ replies = {}
    /\ timedOut = {}

-----------------------------------------------------------------------------
(***************************************************************************)
(* The RPC handlers (lines 154-205), each atomic under r.mu.  code is the *)
(* ErrCode the response carries.                                           *)
(***************************************************************************)

\* RPCPrepare: a conflicting prepare is reported, yet still takes the node
\* over unless the policy fails it.
RPCPrepare(n, t, code) ==
    LET inconsistent == rstate[n] = "Prepared" /\ rtxid[n] # t IN
    IF policy = "FailOnPrepare"
      THEN code = 2 /\ UNCHANGED <<rtxid, rstate>>
      ELSE /\ code = IF inconsistent THEN 1 ELSE 0
           /\ rtxid' = [rtxid EXCEPT ![n] = t]
           /\ rstate' = [rstate EXCEPT ![n] = "Prepared"]

\* RPCCommit: the state becomes Committed even when inconsistent.
RPCCommit(n, t, code) ==
    LET inconsistent == rstate[n] # "Prepared" \/ rtxid[n] # t IN
    IF policy = "FailOnCommit"
      THEN code = 2 /\ UNCHANGED <<rtxid, rstate>>
      ELSE /\ code = IF inconsistent THEN 1 ELSE 0
           /\ rstate' = [rstate EXCEPT ![n] = "Committed"]
           /\ UNCHANGED rtxid

\* RPCRollback: the state becomes RolledBack whatever it was.
RPCRollback(n, t, code) ==
    /\ code = IF rstate[n] # "Prepared" \/ rtxid[n] # t THEN 1 ELSE 0
    /\ rstate' = [rstate EXCEPT ![n] = "RolledBack"]
    /\ UNCHANGED rtxid

Handler(c, code) ==
    LET t == putBatch[c.ctx] IN
    CASE c.op = "prepare"  -> RPCPrepare(c.w, t, code)
      [] c.op = "commit"   -> RPCCommit(c.w, t, code)
      [] c.op = "rollback" -> RPCRollback(c.w, t, code)

-----------------------------------------------------------------------------
(***************************************************************************)
(* The client side: RaftNode.Prepare, Commit, Rollback (lines 207-349),    *)
(* which differ only in the RPC they call.                                 *)
(***************************************************************************)

\* etls.Dial, rpc.InitClientConn or conn.SetDeadline returns an error.
DialFails(c) ==
    /\ NetFailures
    /\ c \in inflight \ sent
    /\ C!Answer(c, FALSE, TRUE)
    /\ UNCHANGED <<nodeVars, netVars>>

\* client.Call writes the request before the deadline.
Send(c) ==
    /\ c \in inflight \ sent
    /\ c.ctx \notin cancelled
    /\ sent' = sent \cup {c}
    /\ wire' = wire \cup {c}
    /\ UNCHANGED <<coordVars, nodeVars, replies>>

\* The server runs the handler and writes the response.
Serve(c) ==
    /\ c \in wire
    /\ \E code \in ErrCodes :
          /\ Handler(c, code)
          /\ replies' = replies \cup {[c |-> c, code |-> code]}
    /\ wire' = wire \ {c}
    /\ UNCHANGED <<coordVars, policy, sent>>

\* client.Call returns the response; ErrCode > 0 is the call's error.
Reply(c) ==
    /\ \E r \in replies :
          /\ r.c = c
          /\ C!Answer(c, r.code = 0, FALSE)
          /\ replies' = replies \ {r}
    /\ UNCHANGED <<nodeVars, sent, wire>>

\* The deadline set on the connection has passed: the write or the read of
\* client.Call fails.  A request already written may still be served.
CallDeadline(c) ==
    /\ c.ctx \in cancelled
    /\ C!Answer(c, FALSE, FALSE)
    /\ UNCHANGED <<nodeVars, netVars>>

\* One step of a phase method's call c.
PhaseCall(c) == DialFails(c) \/ Send(c) \/ Reply(c) \/ CallDeadline(c)

RaftNodePrepare(c) == c.op = "prepare" /\ PhaseCall(c)
RaftNodeCommit(c) == c.op = "commit" /\ PhaseCall(c)
RaftNodeRollback(c) == c.op = "rollback" /\ PhaseCall(c)

-----------------------------------------------------------------------------
(***************************************************************************)
(* The test: before each Put, testNodeReset (lines 366-374) sets every    *)
(* node's state to Initailized, without the lock, and the test sets the    *)
(* global policy (lines 401-424).  Late requests of an earlier Put may be  *)
(* served before or after it.                                               *)
(***************************************************************************)
TestCase(pol) ==
    /\ policy' = pol
    /\ rstate' = [n \in Nodes |-> "Initialized"]
    /\ UNCHANGED rtxid

\* A coordinator step; a deadline that fires is recorded in the history.
CoordStep ==
    \/ /\ \E pol \in Policies :
            /\ TestCase(pol)
            /\ C!BeforePrepareFails(put + 1) \/ C!StartPut(put + 1)
       /\ UNCHANGED <<netVars, timedOut>>
    \/ /\ put \in Deadlines /\ C!Timeout
       /\ timedOut' = timedOut \cup {put}
       /\ UNCHANGED <<nodeVars, netVars>>
    \/ /\ \/ \E h \in BOOLEAN : C!PrepareDone(h)
          \/ C!CommitDone
          \/ C!RollbackDone
       /\ UNCHANGED <<nodeVars, netVars, timedOut>>

Next ==
    \/ CoordStep
    \/ /\ \/ \E c \in inflight :
                RaftNodePrepare(c) \/ RaftNodeCommit(c) \/ RaftNodeRollback(c)
          \/ \E c \in wire : Serve(c)
       /\ UNCHANGED timedOut

Spec == Init /\ [][Next]_vars

-----------------------------------------------------------------------------
TypeOK ==
    /\ C!TypeOK
    /\ rtxid \in [Nodes -> {0} \cup Ctxs]
    /\ rstate \in [Nodes -> RaftTxStates]
    /\ policy \in Policies
    /\ sent \subseteq C!Call /\ wire \subseteq sent
    /\ replies \subseteq [c : C!Call, code : ErrCodes]
    /\ timedOut \subseteq Ctxs

(***************************************************************************)
(* All or nothing at the nodes: a node is Committed under TxID t only if  *)
(* every node answered the Prepare of the Put with TxID t with nil.  It    *)
(* relates the handlers' state to the coordinator's join, across the Puts  *)
(* of a test and the late requests of earlier ones.                        *)
(***************************************************************************)
NoCommitWithoutAllPrepared ==
    \A n \in Nodes :
        rstate[n] = "Committed" =>
            \A m \in Nodes : <<m, rtxid[n]>> \in prepOK

\* History: no Put before the current one has had its deadline fire, so no
\* late request of an earlier Put can still reach a node.
NoEarlierTimeout == timedOut \subseteq {put}

=============================================================================
