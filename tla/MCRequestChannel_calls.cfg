CONSTANTS
    first = first
    retry = retry
    later = later
    Calls = {first, retry, later}
    Nonce <- RetryNonces
    Timed = {first, retry}
    Runners = {1}
    QueueCap = 2
SPECIFICATION Spec
INVARIANTS
    TypeOK
    OutcomeTruthful
    AppliedOnce
    NoPendingLeak
PROPERTIES
    CallReturns
    StopCompletes
    Answered
    QueuedIsAnswered
