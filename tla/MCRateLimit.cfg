CONSTANTS
    Request = {q1, q2, q3}
    GlobalLimit = 2
    AuthLimit = 1
    Minute = 2
    Life = 3
    MaxDelay = 1
    MaxClock = 5
    MaxFaults = 1
SYMMETRY Symmetric
CHECK_DEADLOCK FALSE
SPECIFICATION Spec
INVARIANTS
    TypeOK
    LimitHolds
    LimitedForAReason
