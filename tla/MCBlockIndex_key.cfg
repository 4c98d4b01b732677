CONSTANTS
    BlockHashes <- MCHashes
    HashSize = 5
    MaxNodes = 4
SPECIFICATION Spec
INVARIANT IndexKeyInjective
CHECK_DEADLOCK FALSE
