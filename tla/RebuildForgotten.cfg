SPECIFICATION Spec
CONSTANTS
    app = app
    admin = admin
    x = x
    y = y
    Caller = {admin}
    Rebuilder = {admin}
    Content = {x, y}
    MaxEvents = 2
    MaxRebuilds = 1
    MaxCalls = 0
    MaxFaults = 0
SYMMETRY Symmetry
INVARIANT DeletedStaysGone
CHECK_DEADLOCK FALSE
