SPECIFICATION Spec
CONSTANTS
    j1 = j1
    j2 = j2
    Jobs = {j1, j2}
    U128_MAX = 63
    FEE_BPS_DENOMINATOR = 4
    MINIMUM_LIQUIDITY = 2
    FEE_TIERS = {1}
    FEES = 1
    WLEZ_SIDE = "B"
    InitialLedger <- MCInitialLedger
    Amounts = {4}
    Limits = {1, 2}
    OthersAmounts = {2}
    MaxOthers = 2
SYMMETRY Symmetry
INVARIANTS
    LedgerSolvent
    AbortsOnlyUnfunded
PROPERTIES
    ChainIsAtomic
CHECK_DEADLOCK FALSE
