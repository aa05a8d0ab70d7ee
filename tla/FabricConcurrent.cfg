\* Two threads run overlapping cycles of two branches on one request and race with
\* cancel, complete, retry, rollback and an epoch roll; the request has one of
\* eight model pairs.
CONSTANTS
    Requests <- MCRequests
    NullRequest = r0
    NoRequest = none
    Threads = {t1, t2}
    Compatible <- MCCompatible
    Draft <- MCDraft
    Target <- MCTarget
    HasDeadline = {}
    PrefixLen = 1
    MaxAttempts = 1
    MaxDepth = 2
    BranchCount = 2
    MaxOutstanding = 1
    RatioNum = 0
    RatioDen = 1
    SpeculatingEnabled = TRUE
    MaxCycles = 3
    MaxRollbacks = 1
    MaxBypasses = 1
    MaxSubmits = 1
    MaxRetries = 1
    MaxEpoch = 1
SPECIFICATION Spec
SYMMETRY ThreadSymmetry
INVARIANT TypeOK
INVARIANT GenerationTracksLength
INVARIANT ProposalsTileSequence
INVARIANT AttemptsInOrder
INVARIANT InFlightOnReachedBase
INVARIANT CommitsVerifiedRuns
INVARIANT AtMostOneActiveBranch
INVARIANT CancelledPhase
INVARIANT OutstandingBounded
INVARIANT InterpretablePairsOnly
PROPERTY AppendOnly
PROPERTY ClosedNeverCommits
CHECK_DEADLOCK FALSE
