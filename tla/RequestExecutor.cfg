\* Two calls of any kind under a silent server, with tokens withdrawn.
SPECIFICATION FairSpec
CONSTANTS
    t1 = t1
    t2 = t2
    Tasks <- MCTasks2
    Kinds = {"read", "test", "kbWrite", "vtbWrite"}
    Buffer = 1
    Lifetimes = {2}
    DefaultLife = 2
    BackStep = 0
    MaxTime = 0
    MaxTokens = 3
    MaxRevoked = 2
INVARIANTS
    TypeOK
    WriteAppliedOnce
    RetryTokenIsNew
    HonestAnswers
PROPERTY
    DeadlinedCallsEnd
CHECK_DEADLOCK FALSE
