SPECIFICATION FairSpec
CONSTANTS
    Note = {n1, n2}
    Account = {a1, a2}
    Worker = {w1, w2, ui}
    Syncer = ui
    NoAccount = none
    Nobody = nobody
    MaxChanges = 2
    MaxOps = 2
INVARIANTS
    CopiesHonest
    FundsReachable
PROPERTIES
    FileCatchesUp
