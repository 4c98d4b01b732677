------------------------------ MODULE MCTwoPC ------------------------------
(* Small instances of the coordinator and its storage workers for TLC.    *)
(* The pass run gives both Puts one TxID (a retry after a failure); the   *)
(* wedge run gives them two, so the second Put opens a new transaction.    *)
EXTENDS TwoPC

MCTxIDs == 0..2
MCPutTxIDs == {1}
MCWedgeTxIDs == {1, 2}
MCStmts == {"a"}
MCHooks == {"beforePrepare", "beforeCommit"}
=============================================================================
