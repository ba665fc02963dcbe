SPECIFICATION Spec
CONSTANTS
    X = "X"
    Y = "Y"
    Tokens = {"X", "Y"}
    WLEZ = "Y"
    FEES = 1
    U128_MAX = 255
    FEE_BPS_DENOMINATOR = 4
    MINIMUM_LIQUIDITY = 2
    FEE_TIERS = {1}
    Worlds <- MCWorlds
    SwapRequests <- MCSwapRequests
    LiquidityRequests <- MCLiquidityRequests
    TransferAmounts = {2}
    OthersAmounts = {5}
    MaxCalls = 2
    MaxInFlight = 2
    MaxOthers = 1
    MaxClock = 1
INVARIANTS
    ServedAsAsked
PROPERTIES
    BoundsHonoured
    NothingOverwritten
CHECK_DEADLOCK FALSE
