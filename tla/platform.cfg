\* Overlapping requests, a failing one among them, and a crash of the worker.
CONSTANTS
    p1 = p1
    s1 = s1
    Process = {p1}
    Slot = {s1}
    ProcessOf <- OneSlot
    Execution = {e1, e2}
    FaultBound <- CrashAndLoss
    Results <- OneResult
    QueueAttempts = 3
    MaxStalledCount = 1
    StallOutlivesStale = TRUE
    NoSlot = NoSlot
    NoExecution = NoExecution
    Session = {a}
    Known = {a}
    RunRateLimitCount = 1
    RunRateLimitWindow = 0
    MaxConcurrent = 2
    MaxDelay = 0
    FailureBound = 1
SPECIFICATION PlatformFairSpec
INVARIANT PlatformTypeOK
INVARIANT AcceptedRunIsKept
PROPERTY ImplementsAdmission
PROPERTY FinalAnswerStands
PROPERTY AcceptedRunIsAnswered
\* Once the last execution has ended nothing is left to do.
CHECK_DEADLOCK FALSE
