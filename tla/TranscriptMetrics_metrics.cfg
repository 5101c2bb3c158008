SPECIFICATION MetricsSpec
CONSTANTS
    None = None
    Calls <- AllCalls
    Timeout = 2
    Grace = 1
    Lag = 1
    MaxSetup = 2
    MaxCleanup = 1
    MaxLines = 2
INVARIANTS
    CountersConsistent
    AllOrNothing
CHECK_DEADLOCK FALSE
