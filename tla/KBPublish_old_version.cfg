\* An article published before, with a new draft.
SPECIFICATION Spec
CONSTANTS
    kb1 = kb1
    kb2 = kb2
    r1 = r1
    r2 = r2
    r3 = r3
    same = same
    other = other
    NumJobs = 1
    Articles <- MCArticles
    Titles <- MCTitles
    Rows <- MCRows
    ArticleOfRow <- MCArticleOfRow
    MaxRetries = 1
    Scenes <- NewVersionAlone
INVARIANT
    PublishedRowMeansCommitted
CHECK_DEADLOCK FALSE
