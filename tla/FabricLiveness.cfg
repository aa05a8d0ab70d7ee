\* Two threads and two requests that share the counters gating admission, overlapping cycles.
CONSTANTS
    Requests = {r1, r2}
    NullRequest = r0
    NoRequest = none
    Threads = {t1, t2}
    Compatible = {r1, r2}
    Draft <- MCDraft
    Target <- MCTarget
    HasDeadline = {r1}
    PrefixLen = 1
    MaxAttempts = 0
    MaxDepth = 1
    BranchCount = 1
    MaxOutstanding = 8
    RatioNum = 1
    RatioDen = 2
    SpeculatingEnabled = TRUE
    MaxCycles = 1
    MaxRollbacks = 0
    MaxBypasses = 1
    MaxSubmits = 2
    MaxRetries = 0
    MaxEpoch = 0
SPECIFICATION FairSpec
INVARIANT AcceptedTokensAreCommitted
PROPERTY RefinesAuthority
PROPERTY EconomicGateIsPermanent
PROPERTY ClosedRequestQuiesces
CHECK_DEADLOCK FALSE
