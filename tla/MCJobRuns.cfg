CONSTANTS
    Job = {j1, j2}
    Worker = {w1, w2}
    MaxAttempts = 2
    MaxFaults = 2
CHECK_DEADLOCK FALSE
SPECIFICATION FairSpec
INVARIANTS
    TypeOK
    ExecutionIsVisible
    RowTellsTheEnd
PROPERTIES
    SuccessIsStable
    AcceptedSettles
