\* The breached SLAs of the last days.
SPECIFICATION Spec
CONSTANTS
    FieldsOf <- MCFieldsOf
    Rank <- MCRank
    TextOf <- MCTextOf
    Matches <- MCMatches
    RecordNumbers <- MCRecordNumbers
    ContentWords <- MCContentWords
    DateTexts <- MCDateTexts
    KnownCallers <- MCKnownCallers
    CategoryFiltering = FALSE
    DAYS_AGO <- MCDaysAgo
    LettersBefore <- MCLettersBefore
    Calls <- WindowCalls
    Rows <- MCRows
INVARIANT BreachedInWindow
CHECK_DEADLOCK FALSE
