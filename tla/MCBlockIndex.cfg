CONSTANTS
    BlockHashes <- MCHashes
    HashSize = 5
    MaxNodes = 4
SPECIFICATION Spec
INVARIANT AncestorCorrect
CHECK_DEADLOCK FALSE
