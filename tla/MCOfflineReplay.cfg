SPECIFICATION FairSpec
CONSTANTS
    create = create
    edit = edit
    other = other
    a = a
    b = b
    NoOp = NoOp
    Ops <- ThreeOps
    Refs <- MCRefs
    Orgs = {a, b}
    MaxRetries = 2
    Plans <- Replays
INVARIANTS TypeOK NothingLost OnceUnlessDoubtful AttemptedInOrder
PROPERTIES FlushEnds QueuedIsSent
CHECK_DEADLOCK FALSE
