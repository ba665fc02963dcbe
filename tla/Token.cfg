SPECIFICATION TokenSpec
SYMMETRY Symmetry
CONSTANTS
    Definitions = {d1, d2}
    Accounts = {a1, a2, a3, a4}
    NoDefinition = NoDefinition
    Amounts = {0, 1, 2, 3}
    U128_MAX = 4
INVARIANTS
    SupplyAccounted
    OneMaster
PROPERTIES
    PrintingSparesMaster
    HoldingKeepsToken
CHECK_DEADLOCK FALSE
