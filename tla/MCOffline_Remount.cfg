SPECIFICATION Spec
CONSTANTS
    create = create
    edit = edit
    other = other
    a = a
    b = b
    NoOp = NoOp
    Ops <- ThreeOps
    Refs <- MCRefs
    Orgs = {a, b}
    MaxRetries = 2
    Plans <- Remounts
INVARIANTS ExactlyOnce
CHECK_DEADLOCK FALSE
