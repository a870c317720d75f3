SPECIFICATION AppSpec
CONSTANTS
    r1 = r1  r2 = r2
    Requests = {r1}
    Kinds <- AllKinds
    MaxAttempts = 4
INVARIANTS
    ErrorsWrapped
CHECK_DEADLOCK FALSE
