CONSTANTS
    Workers = {w1, w2}
    TxIDs <- MCTxIDs
    PutTxIDs <- MCWedgeTxIDs
    Stmts <- MCStmts
    MaxQueries = 1
    MaxApplied = 2
    MaxPuts = 2
    HookFailures <- MCHooks
SPECIFICATION Spec
INVARIANT NoSpuriousFailure
CHECK_DEADLOCK FALSE
