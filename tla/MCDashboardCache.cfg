CONSTANTS
    Reader = {r1, r2}
    Writer = {w1, w2}
    TTL = 2
    MaxFill = 2
    MaxCommits = 3
    MaxClears = 1
SPECIFICATION FairSpec
INVARIANTS
    TypeOK
    StalenessIsBounded
PROPERTIES
    EventuallyCurrent
