\* A publish beside two tool calls of any kind, with every failure and with none.
SPECIFICATION FairToolsSpec
CONSTANTS
    kb1 = kb1
    kb2 = kb2
    noNumber = noNumber
    r1 = r1
    r2 = r2
    r3 = r3
    same = same
    other = other
    call1 = call1
    call2 = call2
    vtb1 = vtb1
    NumJobs = 2
    Articles <- MCArticles
    Titles = {same, other}
    Rows <- MCRows
    ArticleOfRow <- MCArticleOfRow
    MaxRetries = 0
    Scenes <- MCScenes
    Tools = {call1, call2}
    ToolCalls <- MCToolCalls
    TaskNumbers = {vtb1}
INVARIANTS
    UpdateHitsDraft
    RetiredMeansGone
    AnswersTrue
    DuplicatesNeedClash
    ReportPredictsPublish
PROPERTY
    KBToolsEnd
CHECK_DEADLOCK FALSE
