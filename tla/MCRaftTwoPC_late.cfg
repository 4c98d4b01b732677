CONSTANTS
    Nodes = {n1, n2}
    MaxPuts = 2
    HookFailures <- MCHooks
    Policies <- MCPolicies
    NetFailures = TRUE
    Deadlines = {1}
SPECIFICATION Spec
INVARIANT NoCommitWithoutAllPrepared
CHECK_DEADLOCK FALSE
