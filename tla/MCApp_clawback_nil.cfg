CONSTANTS
    a = a
    b = b
    c = c
    Ids = {a, b, c}
    Minters = {a}
    None = None
    Terms <- Plain
    MaxNonce = 2
    InitialBalances = {16}
    Amounts = {}
    MaxMints = 2
SPECIFICATION Spec
VIEW LedgerView
INVARIANT NeverPanics
