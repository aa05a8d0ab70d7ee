\* A retry while the only cycle of the request runs.
CONSTANTS
    Requests = {r1}
    NullRequest = r0
    NoRequest = none
    Threads = {t1}
    Compatible = {r1}
    Draft <- MCDraft
    Target <- MCTarget
    HasDeadline = {}
    PrefixLen = 1
    MaxAttempts = 1
    MaxDepth = 2
    BranchCount = 1
    MaxOutstanding = 2
    RatioNum = 0
    RatioDen = 1
    SpeculatingEnabled = TRUE
    MaxCycles = 2
    MaxRollbacks = 0
    MaxBypasses = 0
    MaxSubmits = 1
    MaxRetries = 1
    MaxEpoch = 0
SPECIFICATION Spec
PROPERTY EarlierAttemptCommitsNothing
CHECK_DEADLOCK FALSE
