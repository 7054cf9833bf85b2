CONSTANTS
    Ids = {1, 2, 3, 4}
    Tokens = {1, 2, 3}
    None = None
    OutOfRange = OutOfRange
    ClawbackAddress <- Clawbacks
    FreezeAddress <- Freezers
    MaxTransactions = 3
SPECIFICATION Spec
VIEW ScreenView
CHECK_DEADLOCK FALSE
INVARIANTS
    NoIndexPanic
    ListedFromSource
PROPERTIES
    SubmitsWhatIsShown
