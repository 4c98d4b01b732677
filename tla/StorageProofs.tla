--------------------------- MODULE StorageProofs ---------------------------
(***************************************************************************)
(* Proofs about the storage worker: its type invariant and TxIdentity hold *)
(* in every reachable state, for every value of the constants that         *)
(* satisfies StorageAssumption.  Each step is proved one outcome of a      *)
(* phase method at a time.                                                  *)
(***************************************************************************)
EXTENDS Storage, SequenceTheorems, TLAPS

\* Every statement list an ExecLog can carry is a sequence of statements,
\* all tagged with the ExecLog's TxID.
LEMMA ExecLogQueries ==
    ASSUME NEW el \in ExecLogs
    PROVE  /\ el.id \in TxIDs
           /\ el.queries \in Seq(Query)
           /\ \A i \in DOMAIN el.queries : el.queries[i].tx = el.id
<1>1. PICK t \in TxIDs : el \in [id : {t}, queries : QueryLists(t)]
  BY DEF ExecLogs
<1>2. PICK k \in 1..MaxQueries :
          el.queries \in [1..k -> {[tx |-> t, q |-> x] : x \in Stmts}]
  BY <1>1 DEF QueryLists
<1>3. k \in Nat
  BY StorageAssumption
<1>4. el.queries \in [1..k -> Query]
  BY <1>2 DEF Query
<1>5. QED
  BY <1>1, <1>2, <1>3, <1>4

\* The statements of a concatenation all carry a tag both parts carry.
LEMMA ConcatTags ==
    ASSUME NEW a \in Seq(Query), NEW b \in Seq(Query), NEW t,
           \A i \in DOMAIN a : a[i].tx = t,
           \A i \in DOMAIN b : b[i].tx = t
    PROVE  \A i \in DOMAIN (a \o b) : (a \o b)[i].tx = t
<1> SUFFICES ASSUME NEW i \in DOMAIN (a \o b) PROVE (a \o b)[i].tx = t
  OBVIOUS
<1>1. CASE i \in 1..Len(a)
  BY <1>1
<1>2. CASE i \in Len(a)+1..Len(a)+Len(b)
  BY <1>2
<1>3. QED
  BY <1>1, <1>2

-----------------------------------------------------------------------------
(***************************************************************************)
(* Type correctness.                                                        *)
(***************************************************************************)
LEMMA TypeInit == Init => TypeOK
  BY StorageAssumption DEF Init, TypeOK, NoCtx, ZeroTxID, Results, TxStates

LEMMA TypeStep == TypeOK /\ [Next]_vars => TypeOK'
<1> SUFFICES ASSUME TypeOK, [Next]_vars PROVE TypeOK'
  OBVIOUS
<1>. USE DEF TypeOK, Results, TxStates, Return
<1>1. ASSUME NEW s \in Storages, NEW el \in ExecLogs, NEW c \in Ctxs,
             NEW f \in BOOLEAN, Prepare(s, el, c, f)
      PROVE  TypeOK'
  <2>1. el.id \in TxIDs /\ el.queries \in Seq(Query)
    BY ExecLogQueries
  <2>2. CASE Reprepare(s, el)
    BY <2>1, <2>2 DEF Reprepare
  <2>3. CASE PrepareConflict(s, el)
    BY <2>3 DEF PrepareConflict
  <2>4. CASE BeginTxFails(s, c, f)
    BY <2>4 DEF BeginTxFails
  <2>5. CASE BeginTx(s, el, c, f)
    BY <2>1, <2>5 DEF BeginTx
  <2>6. QED
    BY <1>1, <2>2, <2>3, <2>4, <2>5 DEF Prepare
<1>2. ASSUME NEW s \in Storages, NEW el \in ExecLogs, NEW c \in Ctxs,
             NEW f \in BOOLEAN, Commit(s, el, c, f)
      PROVE  TypeOK'
  <2>1. CASE CommitNotPrepared(s)
    BY <2>1 DEF CommitNotPrepared
  <2>2. CASE CommitConflict(s, el)
    BY <2>2 DEF CommitConflict
  <2>3. CASE CommitExecFails(s, el, c, f)
    BY <2>3 DEF CommitExecFails, NoCtx
  <2>4. CASE CommitExec(s, el, c, f)
    BY <2>4 DEF CommitExec
  <2>5. QED
    BY <1>2, <2>1, <2>2, <2>3, <2>4 DEF Commit
<1>3. ASSUME NEW s \in Storages, NEW el \in ExecLogs, Rollback(s, el)
      PROVE  TypeOK'
  <2>1. CASE RollbackConflict(s, el)
    BY <2>1 DEF RollbackConflict
  <2>2. CASE RollbackTx(s, el)
    BY <2>2 DEF RollbackTx, NoCtx
  <2>3. QED
    BY <1>3, <2>1, <2>2 DEF Rollback
<1>4. ASSUME NEW s \in Storages, AutoRollback(s)
      PROVE  TypeOK'
  BY <1>4 DEF AutoRollback
<1>5. ASSUME NEW c \in Ctxs, CancelCtx(c)
      PROVE  TypeOK'
  BY <1>5 DEF CancelCtx, storageVars
<1>6. CASE UNCHANGED vars
  BY <1>6 DEF vars
<1>7. QED
  BY <1>1, <1>2, <1>3, <1>4, <1>5, <1>6 DEF Next

\* The type invariant of the storage worker holds in every reachable state.
THEOREM TypeCorrect == Spec => []TypeOK
BY TypeInit, TypeStep, PTL DEF Spec

-----------------------------------------------------------------------------
(***************************************************************************)
(* TxIdentity.  It is inductive together with TypeOK: the proof that a step *)
(* keeps it needs the statement lists to be sequences of tagged statements *)
(* (TypeOK) and the ExecLog's own tags (ExecLogQueries).  Only the stepping *)
(* Storage s can change; for the others TxIdentityAt is unchanged.          *)
(***************************************************************************)
LEMMA IdentityInit == Init => TxIdentity
<1> SUFFICES ASSUME Init, NEW s \in Storages PROVE TxIdentityAt(s)
  BY DEF TxIdentity
<1>1. queries[s] = <<>> /\ applied[s] = <<>>
  BY DEF Init
<1>2. DOMAIN queries[s] = {} /\ DOMAIN applied[s] = {}
  BY <1>1
<1>3. QED
  BY <1>1, <1>2 DEF TxIdentityAt

LEMMA IdentityStep == TypeOK /\ TxIdentity /\ [Next]_vars => TxIdentity'
<1> SUFFICES ASSUME TypeOK, TxIdentity, [Next]_vars,
                    NEW t \in Storages
             PROVE  TxIdentityAt(t)'
  BY DEF TxIdentity
<1>. USE DEF TypeOK
<1>0. TxIdentityAt(t)
  BY DEF TxIdentity
<1>1. ASSUME NEW s \in Storages, NEW el \in ExecLogs, NEW c \in Ctxs,
             NEW f \in BOOLEAN, Prepare(s, el, c, f)
      PROVE  TxIdentityAt(t)'
  <2>1. /\ el.queries \in Seq(Query)
        /\ \A i \in DOMAIN el.queries : el.queries[i].tx = el.id
    BY ExecLogQueries
  <2>2. CASE Reprepare(s, el)
    BY <1>0, <2>1, <2>2 DEF Reprepare, TxIdentityAt
  <2>3. CASE PrepareConflict(s, el)
    BY <1>0, <2>3 DEF PrepareConflict, TxIdentityAt
  <2>4. CASE BeginTxFails(s, c, f)
    BY <1>0, <2>4 DEF BeginTxFails, TxIdentityAt
  <2>5. CASE BeginTx(s, el, c, f)
    BY <1>0, <2>1, <2>5 DEF BeginTx, TxIdentityAt
  <2>6. QED
    BY <1>1, <2>2, <2>3, <2>4, <2>5 DEF Prepare
<1>2. ASSUME NEW s \in Storages, NEW el \in ExecLogs, NEW c \in Ctxs,
             NEW f \in BOOLEAN, Commit(s, el, c, f)
      PROVE  TxIdentityAt(t)'
  <2>1. CASE CommitNotPrepared(s)
    BY <1>0, <2>1 DEF CommitNotPrepared, TxIdentityAt
  <2>2. CASE CommitConflict(s, el)
    BY <1>0, <2>2 DEF CommitConflict, TxIdentityAt
  <2>3. CASE CommitExecFails(s, el, c, f)
    BY <1>0, <2>3 DEF CommitExecFails, TxIdentityAt
  <2>4. CASE CommitExec(s, el, c, f)
    <3>1. CASE t # s
      BY <1>0, <2>4, <3>1 DEF CommitExec, TxIdentityAt
    <3>2. CASE t = s
      <4>1. \A i \in DOMAIN (applied[s] \o queries[s]) :
                (applied[s] \o queries[s])[i].tx = id[s]
        BY <1>0, <3>2, ConcatTags DEF TxIdentityAt
      <4>2. tx[s] = "done" => queries[s] = <<>>
        BY <2>4 DEF CommitExec, ExecFails
      <4>3. tx[s] = "done" => applied[s] \o queries[s] = <<>>
        BY <1>0, <3>2, <4>2 DEF TxIdentityAt
      <4>4. QED
        BY <1>0, <2>4, <3>2, <4>1, <4>3 DEF CommitExec, TxIdentityAt
    <3>3. QED
      BY <3>1, <3>2
  <2>5. QED
    BY <1>2, <2>1, <2>2, <2>3, <2>4 DEF Commit
<1>3. ASSUME NEW s \in Storages, NEW el \in ExecLogs, Rollback(s, el)
      PROVE  TxIdentityAt(t)'
  <2>1. CASE RollbackConflict(s, el)
    BY <1>0, <2>1 DEF RollbackConflict, TxIdentityAt
  <2>2. CASE RollbackTx(s, el)
    BY <1>0, <2>2 DEF RollbackTx, TxIdentityAt
  <2>3. QED
    BY <1>3, <2>1, <2>2 DEF Rollback
<1>4. ASSUME NEW s \in Storages, AutoRollback(s)
      PROVE  TxIdentityAt(t)'
  BY <1>0, <1>4 DEF AutoRollback, TxIdentityAt
<1>5. ASSUME NEW c \in Ctxs, CancelCtx(c)
      PROVE  TxIdentityAt(t)'
  BY <1>0, <1>5 DEF CancelCtx, storageVars, TxIdentityAt
<1>6. CASE UNCHANGED vars
  BY <1>0, <1>6 DEF vars, TxIdentityAt
<1>7. QED
  BY <1>1, <1>2, <1>3, <1>4, <1>5, <1>6 DEF Next

(***************************************************************************)
(* Every statement a Storage has buffered or executed in its open          *)
(* transaction belongs to the TxID it records, and none outlives the       *)
(* transaction (the equalTxID checks of Prepare, Commit and Rollback).     *)
(***************************************************************************)
THEOREM TxIdentityHolds == Spec => []TxIdentity
<1>1. Init => TypeOK /\ TxIdentity
  BY TypeInit, IdentityInit
<1>2. TypeOK /\ TxIdentity /\ [Next]_vars => (TypeOK /\ TxIdentity)'
  BY TypeStep, IdentityStep
<1>3. QED
  BY <1>1, <1>2, PTL DEF Spec

=============================================================================
