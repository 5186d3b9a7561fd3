\* Two jobs, from any state of the instance and with every failure.
SPECIFICATION FairSpec
CONSTANTS
    kb1 = kb1
    kb2 = kb2
    r1 = r1
    r2 = r2
    r3 = r3
    same = same
    other = other
    NumJobs = 2
    Articles <- MCArticles
    Titles <- MCTitles
    Rows <- MCRows
    ArticleOfRow <- MCArticleOfRow
    MaxRetries = 1
    Scenes <- MCScenes
INVARIANTS
    TypeOK
    PublishedIsTrue
    NoDuplicatesPublished
    PublishedOnce
PROPERTY
    BatchEnds
CHECK_DEADLOCK FALSE
