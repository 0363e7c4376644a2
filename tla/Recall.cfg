SPECIFICATION Spec
CONSTANTS
    alice = alice
    bob = bob
    Size = 3
    Caller = alice
    Owner = {alice, bob}
    Limits = {1, 2}
    TopK = 3
    PoolFactor = 2
    TextWeight = 3
    VectorWeight = 3
    MaxWrites = 1
    Ownerships <- MCOwnerships
    SchemaSets <- MCSchemaSets
    Merits <- MCMerits
    MentionSets <- MCMentionSets
    Rows <- MCRows
    VectorSets <- MCVectorSets
    Orders <- MCOrders
INVARIANTS SameAnswer NothingHidden TouchedReadable RespectsRanks
CHECK_DEADLOCK FALSE
