SPECIFICATION Spec
CONSTANTS
    w1 = w1
    w2 = w2
    q1 = q1
    q2 = q2
    q3 = q3
    None = None
    Runs <- MCRuns1
    Workers <- MCWorkers2
    Requests <- MCRequests2
    Calls = {"Cancel", "ResumeFrom"}
    Nodes <- MCNodes
    Start = 1
    GateNodes <- MCGate
    ClarifyNodes = {}
    Success <- MCSuccess
    Failure <- MCFailure
    Priorities = {1}
    MaxLimit = 1
    AutoRetryMax = 0
    MaxRestarts = 0
    MayHalt = FALSE
SYMMETRY MCSymmetry
PROPERTY OnlyZombiesLoseTheSlot
CHECK_DEADLOCK FALSE
