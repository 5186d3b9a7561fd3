\* Three callers; a token without expires_in is within the refresh buffer at once.
SPECIFICATION FairStoreSpec
CONSTANTS
    t1 = t1
    t2 = t2
    t3 = t3
    Tasks <- MCTasks3
    Buffer = 1
    Lifetimes = {3}
    DefaultLife = 1
    BackStep = 1
    MaxTime = 2
    MaxTokens = 2
INVARIANTS
    LockHeldAcrossFetch
    CacheHitIsFresh
PROPERTIES
    CacheMovesForward
    ImplementsCache
    EveryCallerLeaves
CHECK_DEADLOCK FALSE
