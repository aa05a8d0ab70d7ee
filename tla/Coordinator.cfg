CONSTANTS
    Proposers = {p1, p2}
    Verifiers = {v1}
    Drivers = {d1}
    None = None
    Boots = {1, 2}
    ReqIds = {1}
    Depths = {0, 1}
    BranchCounts = {2}
    ProbeKinds = {"prevBoot"}
    MaxCommands = 2
    CommandTypes = {"Submit", "Replay", "Probe", "RollEpoch", "Status", "Shutdown"}
SPECIFICATION Spec
SYMMETRY ProposerSymmetry
INVARIANTS TypeOK GenerationsAgree EvidenceIsCurrent QuietBetweenCycles LiveResultsAreCurrent RepliesInStep
CHECK_DEADLOCK FALSE
