SPECIFICATION FairSpec
CONSTANTS
    U128_MAX = 4095
    FEE_BPS_DENOMINATOR = 4
    MINIMUM_LIQUIDITY = 2
    FEE_TIERS = {1}
    SwapAmountIn = 8
    MinAmountOut = 2
    Fees = 1
    PoolReserves <- MCPoolReserves
    Callers <- MCCallers
    MaxFaults = 2
INVARIANTS
    OkMeansReceived
    NoLossIfReady
PROPERTIES
    ExchangeSpec
    Settles
CHECK_DEADLOCK FALSE
