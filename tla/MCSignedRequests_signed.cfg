CONSTANTS
    a = a
    b = b
    Ids = {a, b}
    NoId = NoId
    MaxGen = 2
    Kinds = {"Transfer", "MintToken", "ClawbackToken", "BurnToken", "FreezeToken",
             "GetAccount", "LookupToken", "SubscribeEvents"}
    ToolKinds = {"Transfer", "AuthorizeTokenTransfer", "ClawbackToken"}
    Tools = {t1}
    Ages <- MinutesOld
    MaxTotal = 2
SYMMETRY Symmetry
SPECIFICATION Spec
INVARIANTS
    Authentic
    OncePerSignature
    CAKept
    MismatchExplained
