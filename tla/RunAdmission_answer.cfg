SPECIFICATION Spec
CONSTANTS
    w1 = w1
    w2 = w2
    q1 = q1
    q2 = q2
    q3 = q3
    None = None
    Runs <- MCRuns1
    Workers <- MCWorkers2
    Requests <- MCRequests2
    Calls = {"ResumeGate", "ResumeFrom"}
    Nodes <- MCNodes3
    Start = 1
    GateNodes <- MCGate
    ClarifyNodes = {1}
    Success <- MCSuccess3
    Failure <- MCFailure3
    Priorities = {1}
    MaxLimit = 2
    AutoRetryMax = 1
    MaxRestarts = 0
    MayHalt = FALSE
SYMMETRY MCSymmetry
INVARIANTS WaitingIsAnswerable RunningIsAttended
CHECK_DEADLOCK FALSE
