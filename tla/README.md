# TLA+ verification of ThunderDB's transactional replication plane

This directory holds TLA+ models of the ThunderDB node (the Go code under
`src/`), the TLC configurations that model-check them, and TLAPS proofs.
`PROJECT.json` lists every component, run, mutant, source mapping, finding,
hazard and theorem; this file explains them.

## The system

The parts the source and `spec.md` name, and how they interact:

| Part | Source | Role |
|---|---|---|
| Storage worker | `src/unnamed/part_001` (package storage) | One SQL transaction per instance; `Prepare`, `Commit`, `Rollback` are the 2PC phases, each under the instance mutex. `openDB` shares DB handles per file through a locked index. |
| 2PC coordinator | not in `src/` (package twopc; only its test is) | `Put(workers, batch)`: before-hooks, parallel Prepare, Commit or Rollback fan-out under one deadline context. |
| Test RPC worker | `src/unnamed/part_002` (twopc test) | `RaftNode`: a client that dials a local RPC server per call; `RaftNodeRPCServer` keeps `txid` and `state` under a mutex; a global `policy` injects failures. |
| Mock transport | `src/kayak/mock_kayak_test.go` | A per-target request queue and a shared wait queue; a response for another request ID is put back unless that request gave up. |
| Mock 2PC worker | `src/kayak/mock_kayak_test.go` | `MockTwoPCWorker`: state, prepared data and a total, no lock, context ignored. |
| Block index | `src/sqlchain/blockindex.go` | Hash to node map with parent pointers under an RWMutex; `ancestor` walks parents; `indexKey` builds the on-disk key. |
| Public-key store | `src/crypto/kms/pubkeystore_test.go` | Tests only; the store itself is not in `src/`. |
| DSN parsing | `src/unnamed/part_001` lines 1-47 | Test only. |
| Serialization | `src/unnamed/part_003` | Tests of the binary encoding of leaf types. |
| Build script | `src/unnamed/part_000` | Shell build/versioning. |

The coordinator calls the workers' phase methods in parallel goroutines and
joins them. Three kinds of worker are modelled against the same coordinator:
the Storage worker, the RPC worker of the twopc test, and the kayak mock
worker. The coordinator's deadline and its deferred `cancel()` reach each of
them differently. In the Storage worker, database/sql rolls back a
transaction whose context is done, while `s.tx` still points at it. In the
RPC worker, the deadline is set on the connection: a request written before
it is still served after it. The mock worker ignores the context.

## Modules

### `Storage` (src/unnamed/part_001, lines 88-262)

State, one entry per Storage instance:

- `tx`: `s.tx`. It is "nil", "active", or "done" when database/sql has rolled
  the transaction back because its context finished.
- `txCtx`: the context `BeginTx` got.
- `id`: `s.id`.
- `queries`: `s.queries`.
- `applied`: the statements `ExecContext` ran in the open transaction.
- `ret`: what the last phase method returned.
- `cancelled`: the contexts that are done.

TxIDs are naturals; 0 is the zero TxID of a fresh Storage. A statement is a
record tagged with the TxID of the ExecLog that carried it, so that
properties can tell whose statements a transaction ran.

Each phase method runs under `s.Lock()`, so each is one atomic step. Each is
split into one action per outcome, following the code's branches:

- Prepare: `Reprepare`, `PrepareConflict`, `BeginTxFails`, `BeginTx`.
- Commit: `CommitNotPrepared`, `CommitConflict`, `CommitExecFails` (the first
  `ExecContext` fails: roll back, clear) and `CommitExec`. `CommitExec` runs
  all statements, returns nil and leaves the transaction open, as line 229
  does.
- Rollback: `RollbackConflict`, `RollbackTx`.

`AutoRollback` is database/sql's reaction to a finished context. `CancelCtx`
is a caller's cancel or deadline. Database errors are inputs chosen by `\E`
(`beginFails`, `execFails`).

### `OpenDB` (src/unnamed/part_001, lines 79-135)

`New`'s `openDB`, with several goroutines calling it. A DSN is reduced to
what `openDB` reads of it: the file name and the `mode` and `cache`
parameters.

- `Start`: parse, and either open a private in-memory database at once
  (line 112) or go to the lookup.
- `Lookup`: lines 118-120, under the lock.
- `Open`: `sql.Open`, without the lock.
- `Insert`: lines 129-131, under the lock.
- `OpenError`: the error path of `NewDSN` and of `sql.Open`.

### `Coordinator` (twopc, from the spec)

`Put` number p runs under context p; Puts are sequential, as the tests make
them. The actions are:

- `StartPut` and `BeforePrepareFails`.
- `Answer`: a worker goroutine returns. The answer is dropped if the phase
  no longer waits for it.
- `Timeout`: the deadline fires while the coordinator waits. Calls in flight
  still run later with the cancelled context.
- `PrepareDone`: the beforeCommit hook, then either the Commit fan-out or a
  rollback.
- `CommitDone` and `RollbackDone`: Put returns, and the deferred `cancel()`
  runs.

There are two ghost variables. `faulted` records whether a fault was injected
during a Put. `prepOK` records which workers answered a Put's Prepare with
nil. Worker answers are arbitrary in this module; each composition below
conjoins `Answer` with a worker's step.

### `TwoPC` (Coordinator with Storage workers)

`Exec` runs a dispatched call as the worker's phase method and answers it in
one step. `AutoRollback` is the workers' database/sql goroutine.

### `RaftTwoPC` (Coordinator with the twopc test's RPC workers, part_002)

The server side is `RPCPrepare`, `RPCCommit` and `RPCRollback` (lines
154-205), each atomic under `r.mu`.

The client side of each phase method (`RaftNodePrepare`, `RaftNodeCommit`,
`RaftNodeRollback`, lines 207-349) is one of four steps:

- `DialFails`: `etls.Dial`, `InitClientConn` or `SetDeadline` fails.
- `Send`: the request is written before the deadline.
- `Reply`: the response is read.
- `CallDeadline`: the call fails after the deadline.

`Serve` runs the handler for a written request, at any later time. The
test's `testNodeReset` and its choice of `policy` start each Put
(`TestCase`). Put p carries TxID p. The history variable `timedOut` records
the Puts whose deadline fired; `NoEarlierTimeout` says none before the
current one did.

### `MockTransport` (kayak mock, lines 90-198)

One target transport. Each target's queue, waitQueue and giveUp map are its
own, and `Request` waits on the target's waitQueue. Several client
goroutines each make one request. The actions are:

- `Request`: lines 124-151.
- `Deadline`: `ctx.Done` wins the select.
- `GiveUp`: line 159.
- `Receive`: the select takes a response.
- `Recheck`: lines 162-168; the response is put back or dropped.
- `Serve`: the test's responder goroutine calls `SendResponse`.

### `MockWorkerTwoPC` (Coordinator with MockTwoPCWorker, lines 200-247)

`Prepare`, `Commit` and `Rollback` as the code writes them. `Matches` is the
state and `reflect.DeepEqual` check the last two share. As in `RaftTwoPC`,
the history variable `timedOut` records the Puts whose deadline fired.

### `BlockIndex` and `BlockAncestor` (src/sqlchain/blockindex.go)

Node objects with parent links, numbered in order of allocation. The actions
are `NewBlockNode`, `InitBlockNode` and `AddBlock`. `InitBlockNode` is
applied only to nodes that are not indexed and are nobody's parent, because
the spec says inserted nodes are never mutated.

`BlockAncestor` extends `BlockIndex` with the walk of lines 58-70 (`Walk`,
`Ancestor`), written as a recursive operator. It also holds `RefAncestor`,
the reference the walk is checked against: k parent links up. The module is
kept apart so that `BlockIndexProofs` reaches no recursive operator.

`IndexKey` builds the key byte by byte, as lines 72-77 do. `HasBlock` and
`LookupNode` are the index's reads (lines 101-113), and `Indexed` is the set
of nodes the index holds. `BlockNode` is the struct of lines 26-30.

## Runs

| Run | Checks | Shows |
|---|---|---|
| `storage_pass` | `TxIdentity` | Under any order of calls, cancellations and auto-rollbacks, a Storage's open transaction holds only the statements of the TxID it records, and none survive the transaction. |
| `opendb_race` (violation) | `SharedHandle` | Two concurrent `New` calls for one file get different handles (lock released between lookup and insert). |
| `twopc_pass` | `CommitAfterAllPrepared`, `FailedPutCleansUp` | No Commit is dispatched before every worker's Prepare succeeded. A failed Put eventually leaves no transaction bound to its context, despite late goroutines. |
| `twopc_wedge` (violation) | `NoSpuriousFailure` | With no fault at all, the second Put with a new TxID fails: the first Put's transactions are still open, because Commit returns nil at part_001:229 without committing or clearing `s.tx` (spec 4.2 says it commits and clears). |
| `raft_pass` | `NoCommitWithoutAllPrepared` | With two Puts, the second of which may hit its deadline, no node is Committed under a TxID that not every node prepared. |
| `raft_late` (violation) | `NoCommitWithoutAllPrepared` | A Prepare written before Put 1's deadline is served during Put 2. It takes node n1 over (line 170), and Put 2's Commit marks n1 Committed under TxID 1 (line 190). |
| `transport_pass` | `ResponseNotLost`, `AloneReturns` | With three callers, two of them with deadlines, a waiting caller's response exists exactly once once it is sent. A caller left alone eventually returns. |
| `transport_race` (violation) | `NoGiveUpRace` | Caller c1, whose deadline fired, writes giveUp at line 159 while caller c2, which took c1's response from waitQueue, reads giveUp at line 164, with no lock. |
| `mockworker_pass` | `NoSpuriousFailure` | With hook errors and deadlines, a Put fails only if a hook failure or its own deadline faulted it, or an earlier Put's deadline fired. The last case is the wedge: a late Prepare runs after its Put's Rollback and leaves a worker prepared (lines 200-215). Without it, every MockTwoPCWorker is back in state "" after each Put. |
| `blockindex_pass` | `AncestorCorrect` | `ancestor` agrees with the reference through every order of node creation, re-initialisation and insertion. |
| `blockindex_key` (violation) | `IndexKeyInjective` | Hashes that differ only in their last four bytes give the same `indexKey` (line 75 copies HashSize-4 bytes). |

Every property of a passing run has a mutant in `PROJECT.json`: a plausible
bug in the mapped definition (a dropped guard, a missing reset, an
off-by-one) under which TLC finds the property violated.

Other disagreements met while modelling, with no run of their own, are
recorded as hazards in `PROJECT.json`:

- the handle index of `openDB` keyed by file name only, which gives a shared
  in-memory database and the disk file of the same name one handle;
- a node returned by `LookupNode` that a second `AddBlock` of the same hash
  has replaced in the index (blockindex.go:111).

### Bounds

- Storage run: one Storage, TxIDs 0..2, statement lists of up to 2
  statements of one text, two contexts, and at most 4 executed statements.
- Coordinator runs: two workers or nodes, and two sequential Puts. Two Puts
  are the fewest that show interference between a Put and its predecessor's
  goroutines. Two workers are the fewest that show a partial failure.
- RPC workers: `Deadlines` is the set of Puts whose deadline may fire. The
  passing run lets only the last Put's deadline fire, so late requests,
  dial failures and deadline errors all occur, but no later Put can meet
  them. `raft_late` lets the first Put's deadline fire. With both deadlines
  the passing run would take over 10 million states; the theorem below
  covers every set of deadlines.
- Transport run: three callers. Three are needed for a caller to take a
  response whose owner is between its deadline and its giveUp write while a
  third waits.
- Block index run: up to four nodes over three 5-byte hashes. Four nodes give
  chains of three links with re-initialisation.

### Fairness

`TwoPC!Fairness` is weak fairness for each dispatched call (the Go runtime
runs every started goroutine), for the coordinator's steps after the join,
and for database/sql's awaitDone goroutine. Nothing forces a caller to call
`Put` or a deadline to fire.

`MockTransport!Fairness` has these parts:

- Weak fairness for the responder and for a caller that holds a response.
- Strong fairness for a caller's receive, since it is enabled again and again
  while responses keep arriving.
- Deadlines are not forced.

Even under this fairness, two waiters can trade each other's responses
forever: W1 takes R2 and puts it back, then W2 takes R1 and puts it back,
and so on. The code returns only with probability 1 under the scheduler,
which no fairness condition states. So the passing run checks
`AloneReturns`: a caller left alone on the target returns. The livelock is
recorded as a hazard.

Several runs set `CHECK_DEADLOCK FALSE`, because after the last Put or
request the system is idle.

## Proofs

`StorageProofs` proves `TypeCorrect` (`Spec => []TypeOK`) and
`TxIdentityHolds` (`Spec => []TxIdentity`), for all values of the constants
that satisfy `StorageAssumption`.

`TxIdentity` is inductive together with `TypeOK`. The step proof needs the
statement lists to be sequences of tagged statements. It also needs the
lemma `ExecLogQueries`: the statements of an ExecLog carry its TxID. Each
step is proved per outcome action, which is the only way the provers handle
the disjunctions of primed EXCEPTs.

`CoordinatorProofs` proves `CommitAfterAllPreparedHolds`:
`Spec => []CommitAfterAllPrepared` for the abstract coordinator, with no
assumption on the constants and whatever the workers answer. The property
alone is not inductive. A step of `PrepareDone` dispatches the Commits, and
is safe only if every worker answered the current Put's Prepare with nil.
The strengthening `PrepareJoin` says so: during the prepare phase, every
worker that is no longer awaited either answered with nil or marked the Put
failed. A deadline empties `waiting` and sets `failed`. A late answer of an
earlier Put changes neither. `prepOK` only grows.

`TwoPCProofs` proves `ImplementsCoordinator` (`TwoPC!Spec => C!Spec`). The
refinement mapping is the identity on the coordinator's variables. The
argument:

- A coordinator step of the composition is a step of `Coordinator`.
- A worker goroutine's step is `C!Answer` with the Boolean its phase method
  returned.
- database/sql's `AutoRollback` leaves the coordinator's variables alone.

It rests on the invariant `RInv`: `ret` is a function from workers to
results, and every call in flight names a worker and a phase. The lemma
`WorkerStepReturns` shows that every outcome of Prepare, Commit and Rollback
is a `Return` with a Boolean result.

From these, `CommitAfterAllPreparedHolds` carries the coordinator's theorem
over to the Storage composition. That is the property `twopc_pass` checks,
now proved for all workers, TxIDs and Puts.

`MockWorkerTwoPCProofs` proves `NoSpuriousFailureHolds`:
`Spec => []NoSpuriousFailure`, for every number of workers, batches and
Puts, with or without deadlines. The invariant `LateInv` has two parts.
`LateFacts` holds in every state:

- Every Put in `timedOut` is faulted and is not later than the current one.
- The property itself.

The second part, `timedOut = {} => IInv`, follows the Put phase by phase
until the first deadline fires:

- Between Puts, no call is in flight and every worker is `Unset`.
- During a phase, the calls in flight are exactly the awaited workers'
  calls of that phase.
- An awaited worker is in the state the phase's method expects. Every other
  worker is in the state the method leaves behind.
- The prepare and commit phases have not failed.
- A rollback follows a hook failure.
- An error was only returned for a faulted Put.

Until a deadline fires, every worker method returns nil, so only an
injected hook error can make a Put fail. A deadline faults its own Put, and
every later Put may fail: the property allows that, and only that. TLC
shows that the wedge does happen. Without the `timedOut` clause the
property fails on `mockworker_pass`'s instance.

`RaftTwoPCProofs` proves `NoCommitWithoutAllPreparedHolds`:
`Spec => [](NoEarlierTimeout => NoCommitWithoutAllPrepared)`, for every set
of nodes and policies, with or without network failures, and whichever
deadlines fire. `raft_late` shows that the property fails once an earlier
Put has timed out, so it holds exactly up to that point. The invariant
`RInv` says two things. First, `TimedOutPast`: no Put in `timedOut` is later
than the current one. Second, `NoEarlierTimeout => IInv`.

Once an earlier Put has timed out, it stays so (lemma `PutHistoryStep`):
`put` only grows, and only the current Put is ever added to `timedOut`. A
new Put therefore starts inside `IInv` only when no deadline has fired at
all. `IInv` has four named groups:

- `Types`: the types the proofs need.
- `CallsOfPut`: every call in flight and every request on the wire belongs
  to the current Put. While its context is live they are the awaited calls
  of the current phase. A Put whose deadline did not fire leaves nothing
  behind when it returns.
- `Join`: in the prepare phase, every node no longer awaited answered nil or
  failed the Put. Every Commit in flight or on the wire is of a Put all of
  whose nodes answered Prepare with nil.
- `TxIDs`: a nil Prepare reply of the current Put, every node once the
  commit phase starts, and the target of every Commit on the wire hold the
  current Put's TxID. Because every served request is the current Put's,
  the handlers write no other TxID.

So `RPCCommit` marks a node Committed only under a TxID that every node
prepared. The step lemma has one lemma per kind of step. There are three for
the coordinator's phase ends (`StartRollbackIInv`, `StartCommitIInv`,
`ReturnIInv`). `SendIInv` and `ServeIInv` cover the connection, and
`ServeIInv` splits on the three handlers. `ReturnCallIInv` covers the three
ways a call returns, through `AnswerIInv`.

`MockTransportProofs` proves `ResponseNotLostHolds`: `Spec =>
[]ResponseNotLost` for every set of callers and deadlines, with no
assumption. `Copies` counts a response's positions in `waitQueue` and the
callers that hold it between receiving and checking it. It is written with
index sets rather than `SelectSeq`, so that no recursive operator is
reached. The inductive invariant has four groups:

- `IDs`: request IDs are drawn from `reqSeq` and are distinct across
  callers with a request.
- `Places`: a request is on the queue or has been answered, not both.
  Answers are on the wait queue or held.
- `Unique`: both queues are injective, and a held response is in no queue.
- `Waiting`: a waiting caller has not given up, and if it has been answered,
  its response is queued or held.

So a waiting caller's response has exactly one copy. The lemmas
`AppendRangeInj` and `TailRangeInj` give the range and injectivity of a
sequence after `Append` and `Tail`. `Receive` and `Recheck` are each proved
in two cases: the response is the caller's own, or it is put back.

`MockWorkerTwoPCProofs` and `RaftTwoPCProofs` each also prove
`ImplementsCoordinator` (`Spec => C!Spec`) for their composition, as
`TwoPCProofs` does for Storage workers. Both hold for every value of the
constants, with any deadlines. The refinement mapping is again the identity
on the coordinator's variables:

- A mock worker's `Exec` answers through `C!Answer` with the Boolean its
  method computed.
- A RaftNode's `DialFails`, `Reply` and `CallDeadline` answer through
  `C!Answer` with a Boolean error. `Send`, `Serve` and the test's
  `TestCase` leave the coordinator's variables alone.

The RPC composition needs only `PutNat` (`put \in Nat`). It shows that the
TxID `put + 1` that `StartPut` is given is a batch of `C`.

From each refinement, `CommitAfterAllPreparedHolds` carries the abstract
coordinator's theorem over: the coordinator dispatches a Commit only after
every worker's Prepare returned nil. For RaftNodes this holds whichever
deadlines fire. The node-level `NoCommitWithoutAllPrepared` holds only until
an earlier Put times out, and `raft_late` shows it failing after that. The difference
is a late Prepare served after the commit phase starts: the coordinator's
join is right, but a node's state is overwritten behind it.

`BlockIndexProofs` proves `TypeCorrect`, for every hash set, hash size and
node bound that satisfy `BlockIndexAssumption`. The nodes form a sequence of
blockNodes whose parents are allocated nodes or nil, and the index maps each
hash to an allocated node or nil. `newBlockNode` appends a node and leaves
every earlier node as it was (lemma `NewNodeFacts`).

The following are only model-checked:

- The liveness properties `FailedPutCleansUp` and `AloneReturns`. TLAPS does
  not reason about fairness or ENABLED.
- `AncestorCorrect`. `Ancestor` is recursive, and a module with a RECURSIVE
  operator cannot carry TLAPS proofs here. Even as a recursive function,
  what the walk returns for every chain would need induction over the
  parent links, which the installed provers cannot instantiate.

## Not modelled

The public-key store, DSN parsing and serialization are only tests in
`src/`; the build script is I/O. The transport router's map of transports
(`getTransport`, `ResetTransport`) only creates and drops queues. The RPC
server's start and stop are network I/O. See `PROJECT.json` "components".
