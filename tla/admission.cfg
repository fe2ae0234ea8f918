\* Overlapping requests, at most one failing call.
CONSTANTS
    Session = {a, b}
    Known = {a}
    Request = {r1, r2, r3, r4}
    RunRateLimitCount = 2
    RunRateLimitWindow = 1
    MaxConcurrent = 2
    MaxDelay = 1
    FailureBound = 1
SPECIFICATION FairSpec
INVARIANT TypeOK
INVARIANT InFlightBounded
INVARIANT RateBounded
PROPERTY SessionReopens
