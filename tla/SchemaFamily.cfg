SPECIFICATION FamilySpec
CONSTANTS
    t1 = t1
    t2 = t2
    t3 = t3
    NoCap = NoCap
    Size = 4
    Feature = {t1, t2, t3}
    Tau <- Taus
    Config <- Configs
    MaxSupports = 1
    MaxContradictions = 1
    PromoteAt = 3
    DeprecateAt = 2
    RecoverAt = 2
SYMMETRY Symmetry
INVARIANTS SingleLinkage BorrowsFromSimilar MatesDecideAlike
CHECK_DEADLOCK FALSE
