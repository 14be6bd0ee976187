CONSTANTS
    Reader = {r1, r2}
    Writer = {w1, w2}
    TTL = 2
    MaxFill = 2
    MaxCommits = 1
    MaxClears = 2
SPECIFICATION Spec
INVARIANTS
    ClearForcesRebuild
