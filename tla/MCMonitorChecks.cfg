CONSTANTS
    Monitor = {m1, m2}
    Incident = {i1, i2, i3}
    NoMonitor = NoMonitor
    Worker = {w1, w2}
    MaxChecks = 3
CHECK_DEADLOCK FALSE
SPECIFICATION FairSpec
INVARIANTS
    TypeOK
    HealthInv
    SummaryIsOneCheck
PROPERTIES
    ImplementsHealth
    ChecksEnd
