SPECIFICATION Spec
CONSTANTS
    Cap = 2
    MaxRetries = 5
    Lifetimes <- MCLifetimes
CHECK_DEADLOCK FALSE
INVARIANTS
    TypeOK
    StreamWellFormed
    BudgetHonest
PROPERTIES
    ImplementsEventStream
    SessionDiscipline
    NeverDropsWhileLive
    RetriesArePaced
    CancelStopsRetries
    CancelCloses
    RetriesEnd
