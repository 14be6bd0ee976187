CONSTANTS
    Process = {p1, p2, p3}
    Files = 2
    Creating = {1}
    MaxFaults = 1
CHECK_DEADLOCK FALSE
SPECIFICATION FairSpec
INVARIANTS
    TypeOK
    SetupIsSound
    OneSucceeds
PROPERTIES
    SetupEnds
