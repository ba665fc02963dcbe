SPECIFICATION Spec
CONSTANTS
    U128_MAX = 4095
    FEE_BPS_DENOMINATOR = 4
    MINIMUM_LIQUIDITY = 2
    FEE_TIERS = {1}
    SwapAmountIn = 8
    MinAmountOut = 2
    Fees = 1
    PoolReserves <- MCPoolReserves
    Callers <- MCUnready
    MaxFaults = 0
INVARIANTS
    NoLoss
CHECK_DEADLOCK FALSE
