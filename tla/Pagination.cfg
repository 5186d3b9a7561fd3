\* Rows come and go and pages fail, each of them or not.
SPECIFICATION FairSpec
CONSTANTS
    Rows <- MCRows
    PageSize = 2
    Caps = {3, 4, 5}
    Troubles <- AnyTrouble
INVARIANTS
    TypeOK
    NoneLost
    NoneTwice
    AsOneQuery
PROPERTY
    QueryEnds
CHECK_DEADLOCK FALSE
