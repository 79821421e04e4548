SPECIFICATION DialedSpec
CONSTANTS
    FetchAttempts = 3
    NameLengths = {0, 255}
    Cap = 1
    MaxFrames = 1
    Bodies <- MCBodies
CHECK_DEADLOCK FALSE
INVARIANTS
    DialedTypeOK
    InStep
    TunnelAligned
    NothingLeftOpen
    NoCookieIsHonest
PROPERTIES
    SetupEnds
    ImplementsWssSession
