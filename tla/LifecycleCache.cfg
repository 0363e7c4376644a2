SPECIFICATION CacheSpec
CONSTANTS
    c1 = c1
    c2 = c2
    i1 = i1
    i2 = i2
    Caller = {c1, c2}
    Inode = {i1, i2}
    Lifecycle = {2}
    QuorumChoice = {1, 2}
    MaxCreated = 2
    MaxRewrites = 2
    MaxFaults = 1
    MaxCalls = 3
INVARIANTS CacheTypeOK NoRepeat FreshAnswer
SYMMETRY Symmetry
CHECK_DEADLOCK FALSE
