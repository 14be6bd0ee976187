SPECIFICATION FairProcess
CONSTANTS
    Command = {"setup", "serve", "worker"}
    Handler = {h1, h2}
CHECK_DEADLOCK FALSE
INVARIANTS
    ProcessTypeOK
    ClosesUnderNobody
    NothingLeftOpen
PROPERTIES
    SignalEnds
