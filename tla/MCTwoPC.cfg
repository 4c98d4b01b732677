CONSTANTS
    Workers = {w1, w2}
    TxIDs <- MCTxIDs
    PutTxIDs <- MCPutTxIDs
    Stmts <- MCStmts
    MaxQueries = 1
    MaxApplied = 2
    MaxPuts = 2
    HookFailures <- MCHooks
SPECIFICATION FairSpec
INVARIANT CommitAfterAllPrepared
PROPERTY FailedPutCleansUp
CHECK_DEADLOCK FALSE
