CONSTANTS
    Callers = {g1, g2}
    DSNs <- MCFileDSNs
    Failures = TRUE
SPECIFICATION Spec
INVARIANT SharedHandle
CHECK_DEADLOCK FALSE
