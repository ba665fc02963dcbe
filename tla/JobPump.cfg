SPECIFICATION FairSpec
CONSTANTS
    MAX_ATTEMPTS = 2
    MaxActions = 4
    CALLS_TIME_OUT = TRUE
INVARIANTS
    OneInFlightUntilGivenUp
    ResultsBelong
PROPERTIES
    BusyEnds
    ResultReported
CHECK_DEADLOCK FALSE
