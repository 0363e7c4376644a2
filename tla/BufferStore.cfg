SPECIFICATION FairSpec
CONSTANTS
    p1 = p1
    p2 = p2
    r1 = r1
    Proc = {p1, p2}
    Reader = {r1}
    MaxEvents = 2
    MaxRewrites = 2
    MaxFaults = 2
    Tagged <- MCTagged
INVARIANTS TypeOK NoLostAppend RewritesStick ScanComplete
PROPERTIES ImplementsLog CallsReturn
CHECK_DEADLOCK FALSE
