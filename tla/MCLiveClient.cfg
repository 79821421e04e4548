SPECIFICATION Spec
CONSTANTS
    Cap = 1
    MaxRetries = 1
    Lifetimes <- MCLifetimes
    MaxFrames = 2
    Bodies <- MCBodies
CHECK_DEADLOCK FALSE
INVARIANTS
    TypeOK
    InOrderOverSessions
    OneSessionAtATime
PROPERTIES
    ImplementsSupervisor
