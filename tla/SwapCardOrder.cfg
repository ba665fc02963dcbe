SPECIFICATION Spec
CONSTANTS
    U128_MAX = 6143
    F64_EXACT = 256
    F64_ONE = 512
    F64_STEPS <- MCSteps
    FEE_BPS_DENOMINATOR = 8
    MINIMUM_LIQUIDITY = 2
    FEE_TIERS = {1, 3}
    QUOTE_UNIT = 100
    JS_PLAIN = 270
    Amounts = {16, 24}
    Slips <- MCSlips
    Deposits <- MCDeposits
    InitialFees = {1}
    InitialCard <- MCInitialCard
    BRIDGE_TIMES_OUT = FALSE
    MaxEdits = 1
    MaxMoves = 2
INVARIANT QuoteIsForPaidLeg
CHECK_DEADLOCK FALSE
