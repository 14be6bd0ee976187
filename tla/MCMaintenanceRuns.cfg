CONSTANTS
    Job = {j1, j2}
    Worker = {w1}
    MaxAttempts = 2
    MaxFaults = 2
    MaxRequestFaults = 1
CHECK_DEADLOCK FALSE
SPECIFICATION FairSpec
INVARIANTS
    TypeOK
    RunIsHonest
PROPERTIES
    TaskEnds
