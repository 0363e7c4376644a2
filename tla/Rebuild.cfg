SPECIFICATION Spec
CONSTANTS
    app = app
    admin = admin
    x = x
    y = y
    Caller = {app, admin}
    Rebuilder = {app, admin}
    Content = {x, y}
    MaxEvents = 2
    MaxRebuilds = 2
    MaxCalls = 1
    MaxFaults = 1
SYMMETRY Symmetry
INVARIANTS RebuildComplete RebuiltOnce
CHECK_DEADLOCK FALSE
