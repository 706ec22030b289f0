\* Two jobs, the first of which cannot be addressed, two workers and one fault.
SPECIFICATION FairSpec
CONSTANTS
    w1 = w1  w2 = w2
    NumJobs = 2
    Workers <- TwoWorkers
    MaxAttempts = 3
    Limit = 2
    Unreachable = {1}
    MaxFaults = 1
INVARIANTS
    TypeOK
    ClaimIsRespected
    AttemptsWithinLimit
    AttemptLogIsFree
PROPERTIES
    SettledIsFinal
    QueuedJobSettles
CHECK_DEADLOCK FALSE
