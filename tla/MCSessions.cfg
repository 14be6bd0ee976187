CONSTANTS
    Browser = {b1, b2}
    Request = {r1, r2, r3}
    User = {u1, u2}
    Nobody = Nobody
    TTL = 2
    MaxFaults = 1
CHECK_DEADLOCK FALSE
SPECIFICATION FairSpec
INVARIANTS
    TypeOK
    ActsAsOwner
PROPERTIES
    EndedStaysEnded
    LogoutTakesEffect
