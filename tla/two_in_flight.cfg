\* Two overlapping requests are both admitted.
CONSTANTS
    Session = {a, b}
    Known = {a}
    Request = {r1, r2}
    RunRateLimitCount = 2
    RunRateLimitWindow = 1
    MaxConcurrent = 2
    MaxDelay = 1
    FailureBound = 0
SPECIFICATION Spec
INVARIANT OneAtATime
