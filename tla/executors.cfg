\* Every race between the limits, the streams and the end of a Python program,
\* and every way a script can end after any output; helpers end.
CONSTANTS
    MaxOutput = 3
    PipeSize = 2
    CharSize = 2
    WriteBound = 4
    Read = {p1, p2}
    FaultBound = 1
    MaxText = 2
    MaxBytes = 3
    TextBound = 6
SPECIFICATION RegistrySpec
INVARIANT RegistryTypeOK
INVARIANT NothingLost
INVARIANT VerdictFits
INVARIANT OutputBounded
INVARIANT NoTimerLeft
INVARIANT DirRemovedAfterRun
INVARIANT StdoutBounded
INVARIANT ScriptVerdictFits
INVARIANT NoIsolateLeft
PROPERTY ImplementsCodeExecutor
PROPERTY ExecuteSettles
\* Once execute is done nothing is left to do.
CHECK_DEADLOCK FALSE
