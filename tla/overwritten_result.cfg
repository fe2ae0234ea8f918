\* One lost lock: the final status of an execution is overwritten.
CONSTANTS
    p1 = p1
    p2 = p2
    s1 = s1
    s2 = s2
    s3 = s3
    e1 = e1
    e2 = e2
    Process = {p1, p2}
    Slot = {s1, s2}
    ProcessOf <- OneSlotEach
    Execution = {e1}
    FaultBound <- OneLockLoss
    Results <- OkOrTimeout
    QueueAttempts = 3
    MaxStalledCount = 1
    StallOutlivesStale = TRUE
    NoSlot = NoSlot
    NoExecution = NoExecution
SPECIFICATION Spec
INVARIANT FinalizedOnce
\* Once the last execution has ended nothing is left to do.
CHECK_DEADLOCK FALSE
