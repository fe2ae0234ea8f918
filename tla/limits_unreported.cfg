\* A limit stops a script.
CONSTANTS
    MaxOutput = 3
    MaxText = 2
    MaxBytes = 3
    WriteBound = 8
SPECIFICATION Spec
INVARIANT LimitsReported
CHECK_DEADLOCK FALSE
