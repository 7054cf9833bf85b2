\* GetBlocks can leave the server and every reader waiting: see getblocks_deadlock.
CONSTANTS
    tui = tui
    rest = rest
    Readers = {tui, rest}
    MaxBlocks = 3
SPECIFICATION Spec
CHECK_DEADLOCK FALSE
INVARIANTS
    TypeOK
    ReadStable
    LockedConsistent
