SPECIFICATION Spec
CONSTANTS
    Cap = 2
    MaxFrames = 2
    Bodies <- MCBodies
CHECK_DEADLOCK FALSE
INVARIANTS
    TypeOK
    EventsInOrder
    RawComesFirst
    AliveWhileReading
    QuietAfterReturn
PROPERTIES
    AckedIsOffered
    CancelReturns
    OpenSessionEnds
