SPECIFICATION Spec
CONSTANTS
    x = x
    y = y
    Content = {x, y}
    Factual = {x, y}
    Contradicts <- MCContradicts
    IdsPerTick = 1
    Window = 1
    MaxTick = 2
    MaxEvents = 2
    MaxRuns = 3
    MaxOverlap = 2
    MaxFaults = 1
INVARIANTS LossExplained OneEpisode NewerFactStays
SYMMETRY Symmetry
CHECK_DEADLOCK FALSE
