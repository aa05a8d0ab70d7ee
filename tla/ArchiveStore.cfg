CONSTANTS
    WordBase = 4
    MaxRequests = 2
    MaxTokens = 2
    None = None
    Ids = {6}
    MaxCommits = 2
    MaxFaults = 1
SPECIFICATION Spec
INVARIANTS SavedIsRecoverable RecoveredWasSaved
CHECK_DEADLOCK FALSE
