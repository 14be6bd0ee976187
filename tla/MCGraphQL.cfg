SPECIFICATION ExecutionSpec
CONSTANTS
    Request = {r1, r2}
    admin = admin
    operator = operator
    viewer = viewer
    User = {admin, operator, viewer}
    Nobody = Nobody
    Role <- MCRole
    Operation <- MCOperation
SYMMETRY Symmetric
CHECK_DEADLOCK FALSE
INVARIANTS
    ExecutionTypeOK
    EffectsAreAllowed
    NullsAreExplained
