SPECIFICATION Spec
CONSTANTS
    i1 = i1
    i2 = i2
    i3 = i3
    p1 = p1
    p2 = p2
    p3 = p3
    None = None
    Items <- MCItems3
    ChoiceItems = {}
    Pumps <- MCPumps3
    Cancels = {k1}
    Confirms = {c1}
    Kind = "review"
    MaxReviewQueueItems = 2
    MaxSessions = 2
    AnyOrder = FALSE
SYMMETRY MCSymmetry
CHECK_DEADLOCK FALSE
INVARIANTS
    TypeOK
    QueueAccounting
    SinglePump
    NoLostWakeup
    ItemsAccountedFor
