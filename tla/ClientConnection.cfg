SPECIFICATION Spec
CONSTANTS
    PING_INTERVAL = 3
    PONG_TIMEOUT = 1
    MAX_MISSED_PONGS = 2
    MaxRetries = 3
INVARIANTS
    GivenUpInTime
    OneAttempt
PROPERTIES
    ClosedOnlyWhenQuiet
    Replaced
CHECK_DEADLOCK FALSE
