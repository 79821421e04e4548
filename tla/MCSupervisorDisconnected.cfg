SPECIFICATION SafeSpec
CONSTANTS
    Cap = 2
    MaxRetries = 2
    Lifetimes <- MCLifetimes
CHECK_DEADLOCK FALSE
INVARIANTS
    DisconnectedExactlyOnce
