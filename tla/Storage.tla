------------------------------ MODULE Storage ------------------------------
(***************************************************************************)
(* The SQL storage worker of the two-phase commit (src/unnamed/part_001,   *)
(* package storage).  Each Storage holds at most one database/sql           *)
(* transaction, the TxID it belongs to and the statements buffered by the  *)
(* last Prepare.  Prepare, Commit and Rollback run under the instance's    *)
(* mutex, so each is one atomic step here.                                  *)
(*                                                                         *)
(* The transaction handle is abstracted to the three states database/sql   *)
(* gives it: no handle (s.tx == nil), an active transaction, and a handle   *)
(* whose transaction database/sql has already rolled back because the      *)
(* context passed to BeginTx was cancelled ("done"; s.tx stays non-nil).   *)
(* Statements are abstracted to records tagged with the TxID of the         *)
(* ExecLog that carried them, so that a property can tell whose statements *)
(* a transaction executed.                                                  *)
(***************************************************************************)
EXTENDS Naturals, Sequences

CONSTANTS
    Storages,    \* the Storage instances (one per DSN)
    TxIDs,       \* TxID values {ConnectionID, SeqNo, Timestamp}, as naturals
    Stmts,       \* statement texts
    MaxQueries,  \* longest statement list of an ExecLog
    Ctxs,        \* the contexts callers pass in (identified by naturals > 0)
    MaxApplied   \* bound on the statements one open transaction executes

ASSUME StorageAssumption ==
    /\ Storages # {}
    /\ TxIDs \subseteq Nat /\ 0 \in TxIDs
    /\ Stmts # {}
    /\ MaxQueries \in Nat \ {0}
    /\ Ctxs \subseteq Nat \ {0}
    /\ MaxApplied \in Nat

\* The zero TxID a fresh Storage holds in s.id (Go zero value of TxID).
ZeroTxID == 0

\* No context: the value of txCtx when there is no transaction handle.
NoCtx == 0

\* A statement, tagged with the TxID of the ExecLog that carried it.
Query == [tx : TxIDs, q : Stmts]

\* The non-empty statement lists an ExecLog for TxID t can carry.
QueryLists(t) ==
    UNION { [1..k -> {[tx |-> t, q |-> x] : x \in Stmts}] : k \in 1..MaxQueries }

\* ExecLog (part_001 lines 89-94): the TxID fields and the statement list.
ExecLogs == UNION { [id : {t}, queries : QueryLists(t)] : t \in TxIDs }

TxStates == {"nil", "active", "done"}

\* What a phase method returned: the operation and whether err == nil.
Results == [op : {"none", "prepare", "commit", "rollback"}, ok : BOOLEAN]

VARIABLES
    tx,         \* s.tx: "nil", or the state of the database/sql transaction
    txCtx,      \* the context s.tx was begun with (database/sql binds them)
    id,         \* s.id
    queries,    \* s.queries
    applied,    \* statements s.tx has executed so far (ExecContext)
    cancelled,  \* the contexts that are done
    ret         \* the result of the last phase method of each Storage

storageVars == <<tx, txCtx, id, queries, applied, ret>>
vars == <<tx, txCtx, id, queries, applied, cancelled, ret>>

Return(s, op, ok) == ret' = [ret EXCEPT ![s] = [op |-> op, ok |-> ok]]

\* New (lines 159-170): no transaction, zero TxID, nothing buffered.
Init ==
    /\ tx = [s \in Storages |-> "nil"]
    /\ txCtx = [s \in Storages |-> NoCtx]
    /\ id = [s \in Storages |-> ZeroTxID]
    /\ queries = [s \in Storages |-> <<>>]
    /\ applied = [s \in Storages |-> <<>>]
    /\ cancelled = {}
    /\ ret = [s \in Storages |-> [op |-> "none", ok |-> TRUE]]

-----------------------------------------------------------------------------
(***************************************************************************)
(* Prepare (lines 173-203), called with context c.  It has four outcomes,  *)
(* one action each.  beginFails is the outcome of db.BeginTx on a live     *)
(* context (a database error); BeginTx always fails on a cancelled one.    *)
(***************************************************************************)

\* Mutant of Reprepare: the equalTxID check is dropped.
ReprepareAnyTx(s, el) ==
    /\ tx[s] # "nil"
    /\ queries' = [queries EXCEPT ![s] = el.queries]
    /\ Return(s, "prepare", TRUE)
    /\ UNCHANGED <<tx, txCtx, id, applied, cancelled>>

\* A transaction is open and the ExecLog has its TxID: replace the statements.
Reprepare(s, el) ==
    /\ tx[s] # "nil"
    /\ el.id = id[s]
    /\ queries' = [queries EXCEPT ![s] = el.queries]
    /\ Return(s, "prepare", TRUE)
    /\ UNCHANGED <<tx, txCtx, id, applied, cancelled>>

\* A transaction of another TxID is open: "inconsistent state".
PrepareConflict(s, el) ==
    /\ tx[s] # "nil"
    /\ el.id # id[s]
    /\ Return(s, "prepare", FALSE)
    /\ UNCHANGED <<tx, txCtx, id, queries, applied, cancelled>>

\* db.BeginTx returns an error; s.tx is assigned nil.
BeginTxFails(s, c, beginFails) ==
    /\ tx[s] = "nil"
    /\ c \in cancelled \/ beginFails
    /\ Return(s, "prepare", FALSE)
    /\ UNCHANGED <<tx, txCtx, id, queries, applied, cancelled>>

\* Mutant of BeginTx: the transaction is begun on a done context too.
BeginTxIgnoresCtx(s, el, c, beginFails) ==
    /\ tx[s] = "nil"
    /\ ~beginFails
    /\ tx' = [tx EXCEPT ![s] = "active"]
    /\ txCtx' = [txCtx EXCEPT ![s] = c]
    /\ id' = [id EXCEPT ![s] = el.id]
    /\ queries' = [queries EXCEPT ![s] = el.queries]
    /\ Return(s, "prepare", TRUE)
    /\ UNCHANGED <<applied, cancelled>>

\* db.BeginTx succeeds: record the TxID and the statements.
BeginTx(s, el, c, beginFails) ==
    /\ tx[s] = "nil"
    /\ c \notin cancelled /\ ~beginFails
    /\ tx' = [tx EXCEPT ![s] = "active"]
    /\ txCtx' = [txCtx EXCEPT ![s] = c]
    /\ id' = [id EXCEPT ![s] = el.id]
    /\ queries' = [queries EXCEPT ![s] = el.queries]
    /\ Return(s, "prepare", TRUE)
    /\ UNCHANGED <<applied, cancelled>>

Prepare(s, el, c, beginFails) ==
    \/ Reprepare(s, el)
    \/ PrepareConflict(s, el)
    \/ BeginTxFails(s, c, beginFails)
    \/ BeginTx(s, el, c, beginFails)

(***************************************************************************)
(* Commit (lines 206-237).  The buffered statements run in order through  *)
(* s.tx.ExecContext(c, q).  One fails when the transaction is done, when c *)
(* is cancelled, or when the database reports an error (execFails); then   *)
(* the transaction is rolled back and cleared.  When all succeed Commit    *)
(* returns nil and leaves s.tx and s.queries as they are: the code never   *)
(* calls s.tx.Commit().                                                     *)
(***************************************************************************)
ExecFails(s, c, execFails) ==
    /\ queries[s] # <<>>
    /\ tx[s] = "done" \/ c \in cancelled \/ execFails

\* No transaction is open: "tx not prepared".
CommitNotPrepared(s) ==
    /\ tx[s] = "nil"
    /\ Return(s, "commit", FALSE)
    /\ UNCHANGED <<tx, txCtx, id, queries, applied, cancelled>>

\* A transaction of another TxID is open: "inconsistent state".
CommitConflict(s, el) ==
    /\ tx[s] # "nil"
    /\ el.id # id[s]
    /\ Return(s, "commit", FALSE)
    /\ UNCHANGED <<tx, txCtx, id, queries, applied, cancelled>>

\* A statement fails: s.tx.Rollback(), s.tx = nil, s.queries = nil.
CommitExecFails(s, el, c, execFails) ==
    /\ tx[s] # "nil"
    /\ el.id = id[s]
    /\ ExecFails(s, c, execFails)
    /\ tx' = [tx EXCEPT ![s] = "nil"]
    /\ txCtx' = [txCtx EXCEPT ![s] = NoCtx]
    /\ queries' = [queries EXCEPT ![s] = <<>>]
    /\ applied' = [applied EXCEPT ![s] = <<>>]
    /\ Return(s, "commit", FALSE)
    /\ UNCHANGED <<id, cancelled>>

\* Every statement succeeds; the transaction stays open.
CommitExec(s, el, c, execFails) ==
    /\ tx[s] # "nil"
    /\ el.id = id[s]
    /\ ~ExecFails(s, c, execFails)
    /\ Len(applied[s]) + Len(queries[s]) <= MaxApplied
    /\ applied' = [applied EXCEPT ![s] = applied[s] \o queries[s]]
    /\ Return(s, "commit", TRUE)
    /\ UNCHANGED <<tx, txCtx, id, queries, cancelled>>

Commit(s, el, c, execFails) ==
    \/ CommitNotPrepared(s)
    \/ CommitConflict(s, el)
    \/ CommitExecFails(s, el, c, execFails)
    \/ CommitExec(s, el, c, execFails)

(***************************************************************************)
(* Rollback (lines 240-262).  The TxID is compared even when no           *)
(* transaction is open; the context is not used.                           *)
(***************************************************************************)

\* The ExecLog's TxID is not s.id: "inconsistent state".
RollbackConflict(s, el) ==
    /\ el.id # id[s]
    /\ Return(s, "rollback", FALSE)
    /\ UNCHANGED <<tx, txCtx, id, queries, applied, cancelled>>

\* The TxID matches: roll back and clear whatever is open (a no-op if nil).
RollbackTx(s, el) ==
    /\ el.id = id[s]
    /\ tx' = [tx EXCEPT ![s] = "nil"]
    /\ txCtx' = [txCtx EXCEPT ![s] = NoCtx]
    /\ queries' = [queries EXCEPT ![s] = <<>>]
    /\ applied' = [applied EXCEPT ![s] = <<>>]
    /\ Return(s, "rollback", TRUE)
    /\ UNCHANGED <<id, cancelled>>

Rollback(s, el) ==
    \/ RollbackConflict(s, el)
    \/ RollbackTx(s, el)

(***************************************************************************)
(* database/sql rolls back a transaction whose BeginTx context is done     *)
(* (its awaitDone goroutine); the Storage still holds the handle.          *)
(***************************************************************************)
AutoRollback(s) ==
    /\ tx[s] = "active"
    /\ txCtx[s] \in cancelled
    /\ tx' = [tx EXCEPT ![s] = "done"]
    /\ applied' = [applied EXCEPT ![s] = <<>>]
    /\ UNCHANGED <<txCtx, id, queries, cancelled, ret>>

\* A caller's context is cancelled or reaches its deadline.
CancelCtx(c) ==
    /\ c \notin cancelled
    /\ cancelled' = cancelled \cup {c}
    /\ UNCHANGED storageVars

Next ==
    \/ \E s \in Storages, el \in ExecLogs, c \in Ctxs, f \in BOOLEAN :
          Prepare(s, el, c, f) \/ Commit(s, el, c, f)
    \/ \E s \in Storages, el \in ExecLogs : Rollback(s, el)
    \/ \E s \in Storages : AutoRollback(s)
    \/ \E c \in Ctxs : CancelCtx(c)

Spec == Init /\ [][Next]_vars

-----------------------------------------------------------------------------
TypeOK ==
    /\ tx \in [Storages -> TxStates]
    /\ txCtx \in [Storages -> Ctxs \cup {NoCtx}]
    /\ id \in [Storages -> TxIDs]
    /\ queries \in [Storages -> Seq(Query)]
    /\ applied \in [Storages -> Seq(Query)]
    /\ cancelled \subseteq Ctxs
    /\ ret \in [Storages -> Results]

(***************************************************************************)
(* Transaction identity (spec 5: "no interleaving with statements from     *)
(* other TxIDs because Storage enforces one open tx").  Every statement a  *)
(* Storage has buffered or executed in its open transaction came in an     *)
(* ExecLog with the TxID the Storage records, no statements survive the   *)
(* transaction's end, and a transaction database/sql rolled back has       *)
(* executed nothing that is still pending.  Breaking it takes a Prepare    *)
(* and a second Prepare or Commit under another TxID.                      *)
(***************************************************************************)
TxIdentityAt(s) ==
    /\ tx[s] = "nil" => queries[s] = <<>> /\ applied[s] = <<>>
    /\ tx[s] = "done" => applied[s] = <<>>
    /\ \A i \in DOMAIN queries[s] : queries[s][i].tx = id[s]
    /\ \A i \in DOMAIN applied[s] : applied[s][i].tx = id[s]

TxIdentity == \A s \in Storages : TxIdentityAt(s)

=============================================================================
