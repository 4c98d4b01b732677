----------------------------- MODULE MCStorage -----------------------------
(* Small instance of Storage for TLC: one Storage, TxIDs 0..2 (0 is the    *)
(* zero value a fresh Storage holds), one statement text, lists of up to   *)
(* two statements, two caller contexts.                                     *)
EXTENDS Storage

MCTxIDs == 0..2
MCStmts == {"a"}
MCCtxs == 1..2
=============================================================================
