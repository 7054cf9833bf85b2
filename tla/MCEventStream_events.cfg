CONSTANTS
    a = a
    b = b
    one = one
    two = two
    Nobody = Nobody
    Accounts = {a, b}
    Requests <- MixedRequests
    Streams = {one, two}
    Subscriber <- Subscribers
    Filter <- Filters
    MaxEvents = 2
SPECIFICATION Spec
INVARIANTS
    TypeOK
    OneStreamPerAccount
    RoutedOnce
PROPERTIES
    NothingMissed
    StreamEnds
