\* Every tool; the forms of a filter alone and in pairs, the cues of a phrase one of each kind.
SPECIFICATION Spec
CONSTANTS
    FieldsOf <- MCFieldsOf
    Rank <- MCRank
    TextOf <- MCTextOf
    Matches <- MCMatches
    RecordNumbers <- MCRecordNumbers
    ContentWords <- MCContentWords
    DateTexts <- MCDateTexts
    KnownCallers <- MCKnownCallers
    CategoryFiltering = FALSE
    DAYS_AGO <- MCDaysAgo
    LettersBefore <- MCLettersBefore
    Calls <- MCCalls
    Rows <- MCRows
INVARIANTS
    SelectsWhatIsMeant
    NothingSensitive
    SimilarIsSimilar
    CanonicalIfComplete
    PhraseMet
CHECK_DEADLOCK FALSE
