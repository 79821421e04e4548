SPECIFICATION ClientFairSpec
CONSTANTS
    Cap = 1
    MaxFrames = 1
    Bodies <- MCBodies
CHECK_DEADLOCK FALSE
PROPERTIES
    CancelReturnsFromAnyPeer
