CONSTANTS
    Storages = {s1}
    TxIDs <- MCTxIDs
    Stmts <- MCStmts
    MaxQueries = 2
    Ctxs <- MCCtxs
    MaxApplied = 4

SPECIFICATION Spec

INVARIANT TxIdentity
