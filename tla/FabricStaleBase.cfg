\* Two cycles of one request overlap.
CONSTANTS
    Requests = {r1}
    NullRequest = r0
    NoRequest = none
    Threads = {t1, t2}
    Compatible = {r1}
    Draft <- MCDraft
    Target <- MCTarget
    HasDeadline = {}
    PrefixLen = 1
    MaxAttempts = 1
    MaxDepth = 2
    BranchCount = 1
    MaxOutstanding = 2
    RatioNum = 0
    RatioDen = 1
    SpeculatingEnabled = TRUE
    MaxCycles = 2
    MaxRollbacks = 0
    MaxBypasses = 0
    MaxSubmits = 1
    MaxRetries = 0
    MaxEpoch = 0
SPECIFICATION Spec
PROPERTY WrongBaseCommitsNothing
CHECK_DEADLOCK FALSE
