SPECIFICATION Spec
CONSTANTS
    a = a
    b = b
    x = x
    y = y
    Caller = {a, b}
    Consolidator = {a, b}
    Content = {x, y}
    MaxMemories = 2
    MaxCalls = 3
    MaxFaults = 1
SYMMETRY Symmetry
INVARIANTS TypeOK OneVectorPerContent ForgottenStays VectorsHaveRows MergeKeepsOne LockIsReleased
CHECK_DEADLOCK FALSE
