SPECIFICATION HSpec
CONSTANTS
    Q64 = 4
    ORACLE_RING_CAP = 2
    USES_CLOCK = TRUE
    MaxClock = 3
    ReserveValues <- MCReserveValues
INVARIANTS
    ObservationsExactUnlessBlind
    AccumulatorCatchesUp
    RingOrdered
CHECK_DEADLOCK FALSE
