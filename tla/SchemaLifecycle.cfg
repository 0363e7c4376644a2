SPECIFICATION Spec
CONSTANTS
    s1 = s1
    w1 = w1
    w2 = w2
    e1 = e1
    e2 = e2
    e3 = e3
    None = None
    Blank = Blank
    Schema = {s1}
    Window = {w1, w2, Blank}
    Emitter = {e1, e2, e3}
    Quorum = 3
    PromoteAt = 2
    DeprecateAt = 1
    RecoverAt = 2
    MaxEvents = 10
INVARIANTS TypeOK QuorumReached BallotOpen DecisionsAccepted FreshRecovery
CHECK_DEADLOCK FALSE
