SPECIFICATION Spec
CONSTANTS
    Requests = {r1, r2}
    Quantities = {1, 2}
    MaxOps = 4
INVARIANT DeletedLeavesNothing
CHECK_DEADLOCK FALSE
