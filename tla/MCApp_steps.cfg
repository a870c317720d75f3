SPECIFICATION FairAppSpec
CONSTANTS
    r1 = r1  r2 = r2
    Requests = {r1, r2}
    Kinds <- AllKinds
    MaxAttempts = 2
INVARIANTS
    TypeOK
    StreamOrdered
    EndsAreTold
    PicturesAccounted
    CallsBounded
    OneResponse
    Traceable
    Hardened
PROPERTIES
    TimedStepsEnd
CHECK_DEADLOCK FALSE
