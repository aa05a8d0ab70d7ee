CONSTANTS
    Proposers = {p1}
    Verifiers = {v1}
    Drivers = {d1, d2}
    None = None
    Boots = {1}
    ReqIds = {1}
    Depths = {1}
    BranchCounts = {1}
    ProbeKinds = {"epoch"}
    MaxCommands = 2
    CommandTypes = {"Submit"}
SPECIFICATION Spec
PROPERTY CommandAnswered
CHECK_DEADLOCK FALSE
