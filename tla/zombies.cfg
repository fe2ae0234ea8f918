\* Slots that keep working after they lost the lock of their job.
CONSTANTS
    p1 = p1
    p2 = p2
    s1 = s1
    s2 = s2
    s3 = s3
    e1 = e1
    e2 = e2
    Process = {p1}
    Slot = {s1, s2, s3}
    ProcessOf <- ThreeInOne
    Execution = {e1}
    FaultBound <- LockLosses
    Results <- EveryKind
    QueueAttempts = 3
    MaxStalledCount = 2
    StallOutlivesStale = FALSE
    NoSlot = NoSlot
    NoExecution = NoExecution
SPECIFICATION Spec
INVARIANT AuditTrailMatchesRow
INVARIANT SingleClaim
INVARIANT ErrorTypeMatchesStatus
PROPERTY TerminalStaysTerminal
SYMMETRY SlotSymmetry
\* Once the last execution has ended nothing is left to do.
CHECK_DEADLOCK FALSE
