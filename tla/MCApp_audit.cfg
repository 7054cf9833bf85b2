CONSTANTS
    a = a
    b = b
    c = c
    Ids = {a, b}
    Minters = {a}
    None = None
    Terms <- RegulatedB
    MaxNonce = 3
    InitialBalances = {0, 16}
    Amounts <- GiveAndTake
    MaxMints = 1
SPECIFICATION Spec
INVARIANTS
    TypeOK
    Solvent
    ReleaseCovered
    NonceCountsChain
    BalanceAudit
    MBRAudit
    ChainsAgree
PROPERTIES
    ImplementsTokenLedger
