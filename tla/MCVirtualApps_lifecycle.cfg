CONSTANTS
    None = None
    Plans <- CommandLines
    IdBits = 4
    RandomIds <- FourIds
SPECIFICATION Spec
CHECK_DEADLOCK FALSE
INVARIANTS
    ServedWhileRunning
    ClosestAgree
PROPERTIES
    ShutdownCompletes
