CONSTANTS
    Monitor = {m1, m2, m3}
    Scheduler = {s1, s2}
    Worker = {w1}
    Limit = 2
    MaxBacklog = 1
    MaxRequests = 1
    MaxFaults = 1
SPECIFICATION FairSchedule
INVARIANTS
    ScheduleTypeOK
PROPERTIES
    NoStarvation
