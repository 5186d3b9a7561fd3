\* One phrase, an example of the tool's own text.
SPECIFICATION Spec
CONSTANTS
    FieldsOf <- MCFieldsOf
    Rank <- MCRank
    TextOf <- MCTextOf
    Matches <- MCMatches
    RecordNumbers <- MCRecordNumbers
    ContentWords <- MCContentWords
    DateTexts <- MCDateTexts
    KnownCallers <- MCKnownCallers
    CategoryFiltering = FALSE
    DAYS_AGO <- MCDaysAgo
    LettersBefore <- MCLettersBefore
    Calls <- ExampleCalls
    Rows <- MCRows
INVARIANT ExampleUnderstood
CHECK_DEADLOCK FALSE
