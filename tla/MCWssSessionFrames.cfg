SPECIFICATION SafeSpec
CONSTANTS
    Cap = 2
    MaxFrames = 2
    Bodies <- MCBodies
CHECK_DEADLOCK FALSE
INVARIANTS
    WholeFrames
