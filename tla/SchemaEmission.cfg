SPECIFICATION Spec
CONSTANTS
    e1 = e1
    e2 = e2
    x = x
    y = y
    short = short
    long = long
    None = None
    Blank = Blank
    Emitter = {e1, e2}
    ConsolidatorId <- MCConsolidatorId
    ReadQuorum = 2
    PromoteAt = 1
    DeprecateAt = 1
    RecoverAt = 1
    Summary = {x, y}
    Text = {short, long}
    Supports = {0, 1}
    Disagreeing = {1}
    IndexLimit = 1
    MaxRuns = 2
    MaxSchemas = 3
    MaxItems = 3
    OutsideVotes <- MCOutsideVotes
    MaxFaults = 1
SYMMETRY Symmetry
CONSTRAINT Explored
INVARIANTS TypeOK NoTwin RowsMatchLog DecidedAtBirth HiddenIsRecoverable
CHECK_DEADLOCK FALSE
