CONSTANTS
    Workers = {w1, w2}
    BatchValues <- MCBatchValues
    MaxPuts = 2
    HookFailures <- MCHooks
    Deadlines = TRUE
SPECIFICATION Spec
INVARIANT NoSpuriousFailure
CHECK_DEADLOCK FALSE
