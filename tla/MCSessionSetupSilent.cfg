SPECIFICATION ClientSpec
CONSTANTS
    FetchAttempts = 2
    NameLengths = {0, 255}
CHECK_DEADLOCK FALSE
PROPERTY CancelEndsSetup
