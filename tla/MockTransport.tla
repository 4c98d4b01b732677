---------------------------- MODULE MockTransport ----------------------------
(***************************************************************************)
(* The kayak tests' mock transport (src/kayak/mock_kayak_test.go).         *)
(* Request runs sendRequest on the TARGET's MockTransport: the request     *)
(* goes to the target's queue and the caller waits on the target's        *)
(* waitQueue, which every caller of that target shares.  A caller that     *)
(* takes another request's response puts it back, unless that request's  *)
(* caller gave up (giveUp map), in which case it deletes the mark and     *)
(* drops the response.  The target's requests are served by one test      *)
(* goroutine reading Process().                                             *)
(*                                                                         *)
(* One target is modelled: each target's queues and map are its own.      *)
(* Each client goroutine makes one request.  Channels are FIFO sequences;  *)
(* their 1000-slot buffers are never full at these sizes.                   *)
(***************************************************************************)
EXTENDS Naturals, Sequences, FiniteSets

CONSTANTS
    Clients,    \* goroutines calling Request on the target
    Deadlined,  \* the clients whose context has a deadline
    Responder   \* whether a goroutine serves the target's requests

ASSUME MockTransportAssumption ==
    /\ Deadlined \subseteq Clients
    /\ Responder \in BOOLEAN

NoID == 0

VARIABLES
    reqSeq,     \* router.reqSeq
    pc,         \* where each client goroutine is
    reqID,      \* the RequestID of each client's request
    held,       \* the response a client took from waitQueue and checks
    queue,      \* the target's request channel (request IDs)
    waitQueue,  \* the target's response channel (response IDs)
    giveUp,     \* the target's giveUp map: the IDs marked true
    responded   \* the request IDs the responder answered (ghost)

vars == <<reqSeq, pc, reqID, held, queue, waitQueue, giveUp, responded>>

PCs == {"idle", "wait", "check", "giveup", "done", "timedout"}

Init ==
    /\ reqSeq = 0
    /\ pc = [c \in Clients |-> "idle"]
    /\ reqID = [c \in Clients |-> NoID]
    /\ held = [c \in Clients |-> NoID]
    /\ queue = <<>> /\ waitQueue = <<>>
    /\ giveUp = {}
    /\ responded = {}

\* Request and sendRequest up to the send on the queue (lines 128-151):
\* atomic.AddUint64 gives the ID.
Request(c) ==
    /\ pc[c] = "idle"
    /\ reqSeq' = reqSeq + 1
    /\ reqID' = [reqID EXCEPT ![c] = reqSeq + 1]
    /\ queue' = Append(queue, reqSeq + 1)
    /\ pc' = [pc EXCEPT ![c] = "wait"]
    /\ UNCHANGED <<held, waitQueue, giveUp, responded>>

\* The select picks <-r.ctx.Done() (line 155): the deadline has passed.
Deadline(c) ==
    /\ c \in Deadlined
    /\ pc[c] = "wait"
    /\ pc' = [pc EXCEPT ![c] = "giveup"]
    /\ UNCHANGED <<reqSeq, reqID, held, queue, waitQueue, giveUp, responded>>

\* m.giveUp[r.RequestID] = true; return ctx.Err() (lines 159-160).
GiveUp(c) ==
    /\ pc[c] = "giveup"
    /\ giveUp' = giveUp \cup {reqID[c]}
    /\ pc' = [pc EXCEPT ![c] = "timedout"]
    /\ UNCHANGED <<reqSeq, reqID, held, queue, waitQueue, responded>>

\* The select picks res := <-m.waitQueue (lines 161-162, 169-172): its own
\* response is returned, another one is checked.
Receive(c) ==
    /\ pc[c] = "wait"
    /\ waitQueue # <<>>
    /\ waitQueue' = Tail(waitQueue)
    /\ IF Head(waitQueue) = reqID[c]
         THEN pc' = [pc EXCEPT ![c] = "done"] /\ UNCHANGED held
         ELSE /\ pc' = [pc EXCEPT ![c] = "check"]
              /\ held' = [held EXCEPT ![c] = Head(waitQueue)]
    /\ UNCHANGED <<reqSeq, reqID, queue, giveUp, responded>>

\* Mutant of Recheck: a response nobody gave up on is dropped too.
RecheckDrops(c) ==
    /\ pc[c] = "check"
    /\ giveUp' = giveUp \ {held[c]}
    /\ held' = [held EXCEPT ![c] = NoID]
    /\ pc' = [pc EXCEPT ![c] = "wait"]
    /\ UNCHANGED <<reqSeq, reqID, queue, waitQueue, responded>>

\* Another request's response (lines 162-168): put it back unless its
\* caller gave up, else delete the mark and drop it.
Recheck(c) ==
    /\ pc[c] = "check"
    /\ IF held[c] \notin giveUp
         THEN waitQueue' = Append(waitQueue, held[c]) /\ UNCHANGED giveUp
         ELSE giveUp' = giveUp \ {held[c]} /\ UNCHANGED waitQueue
    /\ held' = [held EXCEPT ![c] = NoID]
    /\ pc' = [pc EXCEPT ![c] = "wait"]
    /\ UNCHANGED <<reqSeq, reqID, queue, responded>>

\* The test's responder takes a request from Process() and calls
\* SendResponse (lines 190-198), which sends on the target's waitQueue.
Serve ==
    /\ Responder
    /\ queue # <<>>
    /\ queue' = Tail(queue)
    /\ waitQueue' = Append(waitQueue, Head(queue))
    /\ responded' = responded \cup {Head(queue)}
    /\ UNCHANGED <<reqSeq, pc, reqID, held, giveUp>>

Next ==
    \/ \E c \in Clients :
          Request(c) \/ Deadline(c) \/ GiveUp(c) \/ Receive(c) \/ Recheck(c)
    \/ Serve

(***************************************************************************)
(* Fairness: the responder and a goroutine that has taken a response keep *)
(* running (weak fairness), and a goroutine that can receive from         *)
(* waitQueue again and again eventually does (strong fairness; Go's        *)
(* select and channel queues give no more).  Deadlines need not fire.      *)
(***************************************************************************)
Fairness ==
    /\ WF_vars(Serve)
    /\ \A c \in Clients :
          WF_vars(GiveUp(c)) /\ WF_vars(Recheck(c)) /\ SF_vars(Receive(c))

Spec == Init /\ [][Next]_vars
FairSpec == Spec /\ Fairness

-----------------------------------------------------------------------------
TypeOK ==
    /\ reqSeq \in Nat
    /\ pc \in [Clients -> PCs]
    /\ reqID \in [Clients -> Nat]
    /\ held \in [Clients -> Nat]
    /\ queue \in Seq(Nat) /\ waitQueue \in Seq(Nat)
    /\ giveUp \subseteq Nat
    /\ responded \subseteq Nat

\* How many copies of response id are in waitQueue or held by a caller.
Copies(id) ==
    Cardinality({i \in 1..Len(waitQueue) : waitQueue[i] = id})
        + Cardinality({c \in Clients : pc[c] = "check" /\ held[c] = id})

(***************************************************************************)
(* A response is never lost or duplicated while its caller waits: once    *)
(* the responder has answered a request whose caller is still waiting, the *)
(* response exists exactly once, in waitQueue or in the hands of a caller  *)
(* that took it by mistake.  It spans the put-back loop of every caller    *)
(* and the giveUp marks of the others.                                     *)
(***************************************************************************)
ResponseNotLost ==
    \A c \in Clients :
        pc[c] \in {"wait", "check"} /\ reqID[c] \in responded =>
            Copies(reqID[c]) = 1

(***************************************************************************)
(* A caller that is alone on the target (every other caller has returned) *)
(* eventually returns: it takes its own response, drops responses whose   *)
(* callers gave up, and re-queues the rest.  That EVERY caller returns    *)
(* does not hold even under this fairness: two waiters may take and put   *)
(* back each other's responses forever (lines 161-168).                   *)
(***************************************************************************)
AloneReturns ==
    \A c \in Clients :
        (pc[c] = "wait" /\ \A d \in Clients \ {c} : pc[d] \in {"done", "timedout"})
            ~> pc[c] \in {"done", "timedout"}

(***************************************************************************)
(* The giveUp map is a plain Go map: no two callers may touch it at the    *)
(* same time while one of them writes (Go stops the process on concurrent  *)
(* map writes, and a read racing a write is undefined).  A caller writes   *)
(* at line 159 and at line 167, and reads at line 164.                      *)
(***************************************************************************)
WritesGiveUp(c) == pc[c] = "giveup" \/ (pc[c] = "check" /\ held[c] \in giveUp)
AccessesGiveUp(c) == pc[c] \in {"giveup", "check"}

NoGiveUpRace ==
    \A c, d \in Clients :
        c # d => ~(WritesGiveUp(c) /\ AccessesGiveUp(d))
=============================================================================
