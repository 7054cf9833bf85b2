CONSTANTS
    a = a
    b = b
    c = c
    Ids = {a, b, c}
    Minters = {a}
    None = None
    Terms <- TwoKinds
    MaxNonce = 3
    InitialBalances = {0, 21}
    Amounts = {}
    MaxMints = 2
SPECIFICATION Spec
VIEW LedgerView
INVARIANTS
    SingleHolder
    MBRCovers
PROPERTIES
    RollbackRestores
    NoTokenLost
    FrozenStays
