\* Crashes, failing database calls, a lost publication and a restart.
CONSTANTS
    p1 = p1
    p2 = p2
    s1 = s1
    s2 = s2
    s3 = s3
    e1 = e1
    e2 = e2
    Process = {p1, p2}
    Slot = {s1, s2}
    ProcessOf <- OneSlotEach
    Execution = {e1, e2}
    FaultBound <- AllButLockLoss
    Results <- OkOrTimeout
    QueueAttempts = 3
    MaxStalledCount = 1
    StallOutlivesStale = FALSE
    NoSlot = NoSlot
    NoExecution = NoExecution
SPECIFICATION Spec
INVARIANT TypeOK
INVARIANT AttemptsCoverRuns
INVARIANT FinalizedOnce
PROPERTY ImplementsLifecycle
PROPERTY TerminalNeverRerun
\* Once the last execution has ended nothing is left to do.
CHECK_DEADLOCK FALSE
