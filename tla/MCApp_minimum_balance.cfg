CONSTANTS
    a = a
    b = b
    c = c
    Ids = {a, b}
    Minters = {a}
    None = None
    Terms <- Plain
    MaxNonce = 2
    InitialBalances = {16}
    Amounts <- GiveAndTake
    MaxMints = 1
SPECIFICATION Spec
VIEW LedgerView
INVARIANT KeepsMinimum
