-------------------------- MODULE NaturalLanguage ---------------------------
(***************************************************************************)
(* From a phrase and a context to a dictionary of filters                   *)
(* (QueryIntelligence in filter/intelligence.py).  A phrase is the sequence *)
(* of its words, a cue a sequence of words that stand together.             *)
(***************************************************************************)
EXTENDS QueryBuilder

CONSTANTS
    DAYS_AGO,     \* daysAgoStart of each number of days a phrase may name
    LettersBefore \* of a word and a stop word whose letters are in it: what stands before them

Starts(phrase, cue) ==
    {i \in 1..Len(phrase) + 1 : i + Len(cue) - 1 <= Len(phrase) /\ SubSeq(phrase, i, i + Len(cue) - 1) = cue}
Occurs(phrase, cues) == \E cue \in cues : Starts(phrase, cue) # {}

\* Python's dict: a key that is there keeps its place and takes the new value.
FieldsIn(filters) == {filters[k].field : k \in DOMAIN filters}
EntryOf(filters, field) == filters[CHOOSE k \in DOMAIN filters : filters[k].field = field]
Update(filters, others) ==
    [k \in DOMAIN filters |-> IF filters[k].field \in FieldsIn(others) THEN EntryOf(others, filters[k].field)
                                                                      ELSE filters[k]]
    \o Picked(others, {k \in DOMAIN others : others[k].field \notin FieldsIn(filters)})
At(field, value) == [field |-> <<field>>, value |-> value]

-----------------------------------------------------------------------------

PRIORITY_P1_P2_OR == <<"priority", "=", "1", "^OR", "priority", "=", "2">>
STATE_EXCLUDE_RESOLVED == <<"state", "!=", "6", "^", "state", "!=", "7", "^", "state", "!=", "8">>

\* The template patterns in their order; both cues of one, the second after the first.
FILTER_TEMPLATES ==
    << [cues |-> {<<"high", "priority">>, <<"critical">>, <<"p1", "p2">>},
        later |-> {<<"last", "week">>, <<"past", "week">>},
        filters |-> <<At("_complete_query", <<"sys_created_on", "ON", "Last week", "@", "beginningOfLastWeek",
                                              "@", "endOfLastWeek", "^">> \o PRIORITY_P1_P2_OR)>>],
       [cues |-> {<<"critical">>, <<"p1">>},
        later |-> {<<"recent">>, <<"today">>, <<"yesterday">>, <<"day">>, <<"days">>},
        filters |-> <<At("priority", <<"1">>), At("sys_created_on", <<">=", DAYS_AGO["7"]>>)>>],
       [cues |-> {<<"unassigned">>, <<"no", "assignee">>},
        later |-> {<<"recent">>, <<"today">>, <<"day">>, <<"days">>},
        filters |-> <<At("assigned_to", <<"NULL">>), At("sys_created_on", <<">=", DAYS_AGO["3"]>>)>>],
       [cues |-> {<<"resolved">>, <<"closed">>},
        later |-> {<<"month">>},
        filters |-> <<At("state", <<"6">>), At("sys_created_on", <<">=", "beginningOfThisMonth">>)>>],
       [cues |-> {<<"active">>, <<"open">>},
        later |-> {<<"critical">>, <<"high">>, <<"p1">>, <<"p2">>},
        filters |-> <<At("priority", PRIORITY_P1_P2_OR), At("state", STATE_EXCLUDE_RESOLVED)>>],
       [cues |-> {<<"p1", "and", "p2">>, <<"p1", "p2">>},
        later |-> {<<>>},
        filters |-> <<At("priority", PRIORITY_P1_P2_OR)>>] >>

MatchFilterTemplate(phrase) ==
    {t \in DOMAIN FILTER_TEMPLATES :
       \E cue \in FILTER_TEMPLATES[t].cues, later \in FILTER_TEMPLATES[t].later :
         \E i \in Starts(phrase, cue), j \in Starts(phrase, later) : j >= i + Len(cue)}

\* The language patterns in their order: cues, and the filter they stand for.
LANGUAGE_PATTERNS ==
    << <<{<<"critical">>, <<"p1">>, <<"priority", "1">>, <<"urgent">>}, At("priority", <<"1">>)>>,
       <<{<<"high">>, <<"p2">>, <<"priority", "2">>, <<"important">>}, At("priority", <<"2">>)>>,
       <<{<<"medium">>, <<"p3">>, <<"priority", "3">>, <<"normal">>}, At("priority", <<"3">>)>>,
       <<{<<"low">>, <<"p4">>, <<"priority", "4">>}, At("priority", <<"4">>)>>,
       <<{<<"p1", "and", "p2">>, <<"high", "priority">>, <<"critical", "and", "high">>},
         At("priority", PRIORITY_P1_P2_OR)>>,
       <<{<<"last", "week">>, <<"past", "week">>},
         At("sys_created_on", <<">=", "beginningOfLastWeek", "^", "<=", "endOfLastWeek">>)>>,
       <<{<<"this", "week">>, <<"current", "week">>}, At("sys_created_on", <<">=", "beginningOfThisWeek">>)>>,
       <<{<<"today">>}, At("sys_created_on", <<">=", "beginningOfToday">>)>>,
       <<{<<"yesterday">>}, At("sys_created_on", <<">=", "yesterdayStart", "^", "<=", "yesterdayEnd">>)>> >>
    \o SetToSeq({<<{<<"last", n, "days">>}, At("sys_created_on", <<">=", DAYS_AGO[n]>>)>> : n \in DOMAIN DAYS_AGO})
    \o << <<{<<"past", "month">>, <<"last", "month">>},
            At("sys_created_on", <<">=", "beginningOfLastMonth", "^", "<=", "endOfLastMonth">>)>>,
          <<{<<"this", "month">>, <<"current", "month">>}, At("sys_created_on", <<">=", "beginningOfThisMonth">>)>>,
          <<{<<"new">>, <<"open">>, <<"active">>},
            At("state", <<"state", "=", "1", "^OR", "state", "=", "2", "^OR", "state", "=", "3">>)>>,
          <<{<<"resolved">>, <<"closed">>, <<"completed">>}, At("state", <<"6">>)>>,
          <<{<<"in", "progress">>, <<"working">>}, At("state", <<"2">>)>>,
          <<{<<"pending">>, <<"waiting">>}, At("state", <<"10">>)>>,
          <<{<<"cancelled">>, <<"canceled">>}, At("state", <<"8">>)>>,
          <<{<<"unassigned">>, <<"not", "assigned">>, <<"no", "assignee">>}, At("assigned_to", <<"NULL">>)>>,
          <<{<<"assigned", "to", "me">>, <<"my", "tickets">>, <<"my", "incidents">>}, At("assigned_to", <<"getUserID">>)>> >>

MergePriorityFilters(existing, new) ==
    LET existingNum == IF Has(existing, "=") THEN Last(Split(existing, "=")) ELSE existing
    IN CASE existingNum = new -> existing
         [] existingNum # new /\ ~Has(existing, "^OR") ->
              <<"priority", "=">> \o existingNum \o <<"^OR", "priority", "=">> \o new
         [] existingNum # new /\ Has(existing, "^OR") ->
              IF Starts(existing, <<"priority", "=">> \o new) = {}
                THEN existing \o <<"^OR", "priority", "=">> \o new ELSE existing

AddDetected(filters, entry) ==
    LET merged == IF entry.field = <<"priority">> /\ entry.field \in FieldsIn(filters)
                    THEN [entry EXCEPT !.value = MergePriorityFilters(EntryOf(filters, entry.field).value, @)]
                    ELSE entry
    IN Update(filters, <<merged>>)

ParseLanguagePatterns(phrase) ==
    LET detected == Picked(LANGUAGE_PATTERNS, {k \in DOMAIN LANGUAGE_PATTERNS : Occurs(phrase, LANGUAGE_PATTERNS[k][1])})
    IN FoldLeft(AddDetected, <<>>, [k \in DOMAIN detected |-> detected[k][2]])

-----------------------------------------------------------------------------

STOP_WORDS == <<"from", "in", "on", "incidents", "incident", "tickets", "ticket", "and", "or", "between",
                "created", "with">>
ENTITY_FIELD == [caller |-> "caller_id", reporter |-> "caller_id", assignee |-> "assigned_to", user |-> "caller_id"]

\* Of the stop words that stand in a name the one that comes first in the list ends it,
\* where its letters first are: in another word too.
CutAtStopWord(words) ==
    LET stops == {k \in DOMAIN STOP_WORDS : Has(words, STOP_WORDS[k])}
        stop == STOP_WORDS[Min(stops)]
        at == Min({i \in DOMAIN words : words[i] = stop \/ <<words[i], stop>> \in DOMAIN LettersBefore})
    IN IF stops = {} THEN words
       ELSE SubSeq(words, 1, at - 1) \o (IF words[at] = stop THEN <<>> ELSE LettersBefore[<<words[at], stop>>])

ParseExclusion(phrase) ==
    LET starts == {i \in 1..Len(phrase) - 2 : /\ phrase[i] \in {"exclude", "excluding", "not", "without"}
                                              /\ phrase[i + 1] \in DOMAIN ENTITY_FIELD}
        i == Min(starts)
        field == ENTITY_FIELD[phrase[i + 1]]
        value == CutAtStopWord(SubSeq(phrase, i + 2, Len(phrase)))
    IN CASE starts = {} -> <<>>
         [] starts # {} /\ value # <<>> /\ Head(value) \in DOMAIN KnownCallers
              /\ Tail(value) \in {<<>>, <<"integration">>} ->
              <<At("_complete_caller_exclusion", <<field, "!=", KnownCallers[Head(value)]>>)>>
         [] OTHER -> <<At(field, <<"!=">> \o value)>>

Between(from, to) == At("sys_created_on", <<"sys_created_on", "BETWEEN", from, "@", to>>)

TryDateRange(phrase, filters) ==
    LET texts == {i \in DOMAIN phrase : phrase[i] \in DOMAIN DateTexts}
        range == DateTexts[phrase[Min(texts)]]
    IN IF <<"sys_created_on">> \in FieldsIn(filters) \/ texts = {} THEN <<>> ELSE <<Between(range[1], range[2])>>

\* validate_and_correct_filters has nothing to correct in what these give.
ParseNaturalLanguage(phrase) ==
    LET templates == MatchFilterTemplate(phrase)
        parsed == IF templates # {} THEN FILTER_TEMPLATES[Min(templates)].filters ELSE ParseLanguagePatterns(phrase)
        excluding == Update(parsed, ParseExclusion(phrase))
        filters == Update(excluding, TryDateRange(phrase, excluding))
        keywords == ExtractKeywords(phrase)
    IN IF filters = <<>> /\ keywords # <<>> THEN <<At("short_description", <<"LIKE", keywords[1]>>)>> ELSE filters

ApplyContext(context) ==
    (IF context.date_range = <<>> THEN <<>> ELSE <<Between(context.date_range[1], context.date_range[2])>>)
    \o (IF context.exclude_caller = <<>> THEN <<>>
        ELSE <<At("_complete_caller_exclusion",
                  Join([k \in DOMAIN context.exclude_caller |-> <<"caller_id", "!=", context.exclude_caller[k]>>], "^"))>>)
    \o (IF context.exclude_resolved THEN <<At("state", STATE_EXCLUDE_RESOLVED)>> ELSE <<>>)
    \o (IF context.user_assigned_only THEN <<At("assigned_to", <<"getUserID">>)>> ELSE <<>>)

PhraseOnly(phrase, context) == ParseNaturalLanguage(phrase)   \* slip: the context is dropped
BuildIntelligentFilter(phrase, context) == Update(ParseNaturalLanguage(phrase), ApplyContext(context))
=============================================================================
