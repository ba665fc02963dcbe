SPECIFICATION MCSpec
CONSTANTS
    U128_MAX = 63
    FEE_BPS_DENOMINATOR = 4
    MINIMUM_LIQUIDITY = 2
    FEE_TIERS = {1}
    Users = {u1}
    PerUser = 20
    InitialBalance <- MCInitialBalance
    Q64 = 8
    ORACLE_RING_CAP = 1
    USES_CLOCK = TRUE
    MaxClock = 1
    Amounts = {1, 2, 5}
    Limits = {1, 9}
    MaxOps = 5
INVARIANTS
    ExitNeverBlocked
    QuotesAgree
    AmmTypeOK
    VaultCoversReserves
    PoolStaysFunded
PROPERTIES
    OracleSpec
    PublicSwapTicks
    LpShareValue
    FeeAccruesToReserves
    LedgerFollowsPool
CHECK_DEADLOCK FALSE
