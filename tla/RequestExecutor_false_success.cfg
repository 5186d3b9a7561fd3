\* A write whose connection breaks.
SPECIFICATION Spec
CONSTANTS
    t1 = t1
    t2 = t2
    Tasks <- MCTasks1
    Kinds = {"vtbWrite"}
    Buffer = 1
    Lifetimes = {3}
    DefaultLife = 2
    BackStep = 0
    MaxTime = 0
    MaxTokens = 2
    MaxRevoked = 1
INVARIANT
    SuccessMeansApplied
CHECK_DEADLOCK FALSE
