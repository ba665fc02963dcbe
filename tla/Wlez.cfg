SPECIFICATION WlezSpec
CONSTANTS
    u1 = u1
    u2 = u2
    Users = {u1, u2}
    InitialNative <- MCInitialNative
    LezAmounts = {1, 2, 3}
    U128_MAX = 7
INVARIANTS
    VaultBacksSupply
    AlwaysRedeemable
    NativeConserved
CHECK_DEADLOCK FALSE
