SPECIFICATION FairSpec
CONSTANTS
    w1 = w1
    w2 = w2
    q1 = q1
    q2 = q2
    q3 = q3
    None = None
    Runs <- MCRuns2
    Workers <- MCWorkers2
    Requests <- MCRequests1
    Calls = {"Cancel", "ResumeGate", "ResumeFrom"}
    Nodes <- MCNodes
    Start = 1
    GateNodes <- MCGateFirst
    ClarifyNodes = {}
    Success <- MCSuccessFirst
    Failure <- MCFailure
    Priorities = {1, 2}
    MaxLimit = 2
    AutoRetryMax = 0
    MaxRestarts = 0
    MayHalt = FALSE
CHECK_DEADLOCK FALSE
INVARIANTS
    TypeOK
    SlotAccounting
PROPERTIES
    
    QueuedIsAdmitted
