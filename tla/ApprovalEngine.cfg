CONSTANTS
    Requests = {q1, q2}
    Resolvers = {alice, bob}
    NoRequest = NoRequest
SPECIFICATION FairSpec
CHECK_DEADLOCK FALSE
INVARIANTS
    TypeOK
    StatusTellsTheWait
    TrailTellsTheStory
PROPERTIES
    TooLateExpires
    ClaimedIsSettled
    ImplementsGate
