SPECIFICATION Spec
CONSTANTS
    w1 = w1
    w2 = w2
    q1 = q1
    q2 = q2
    q3 = q3
    None = None
    Runs <- MCRuns1
    Workers <- MCWorkers2
    Requests <- MCRequests2
    Calls = {"Cancel", "ResumeGate", "ResumeFrom"}
    Nodes <- MCNodes
    Start = 1
    GateNodes <- MCGate
    ClarifyNodes = {1}
    Success <- MCSuccess
    Failure <- MCFailure
    Priorities = {1}
    MaxLimit = 2
    AutoRetryMax = 0
    MaxRestarts = 1
    MayHalt = TRUE
SYMMETRY MCSymmetry
INVARIANT ExecSlotHeld
PROPERTY ClaimIsPrivate
CHECK_DEADLOCK FALSE
