CONSTANTS
    tui = tui
    rest = rest
    Readers = {tui, rest}
    MaxBlocks = 3
SPECIFICATION Spec
CHECK_DEADLOCK FALSE
PROPERTY AppendCompletes
