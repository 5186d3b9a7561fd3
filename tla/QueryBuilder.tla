---------------------------- MODULE QueryBuilder ----------------------------
(***************************************************************************)
(* From a dictionary of filters to an encoded query (generic_table_tools).  *)
(* Keys and values are texts too, sequences of tokens: the key priority_gte *)
(* is <<"priority", "_gte">>, the value P1 is <<"P", "1">>.  A dictionary is *)
(* the sequence of its entries [field, value], in the order of its keys.    *)
(***************************************************************************)
EXTENDS EncodedQuery, FiniteSetsExt

CONSTANTS
    RecordNumbers,     \* the record numbers of each kind, in the order of _SERVICENOW_RECORD_PATTERNS
    ContentWords,      \* the words _extract_content_keywords takes
    DateTexts,         \* what _parse_date_range_from_text makes of a value: module Dates
    KnownCallers,      \* the sys_ids of the callers known by name
    CategoryFiltering  \* ENABLE_INCIDENT_CATEGORY_FILTERING

None == <<>>
Comparisons == {">=", "<=", ">", "<", "=", "!="}
SN_PREFIX_OPERATORS ==
    {"NOT LIKE", "NOTLIKE", "LIKE", "STARTSWITH", "ENDSWITH", "ISNOTEMPTY", "ISEMPTY", "BETWEEN", "SAMEAS", "NSAMEAS",
     "INSTANCEOF", "NOT IN", "NOTIN", "ONLAST", "ONTODAY", "ON"}
SUFFIX_OPERATORS == [_gte |-> ">=", _lte |-> "<=", _gt |-> ">", _lt |-> "<"]

\* The parts of a list that have something in them.
ListOf(value) == LET parts == Split(value, ",") IN Picked(parts, {k \in DOMAIN parts : parts[k] # <<>>})
BeforeOr(value) == Split(value, "^OR")[1]
HasEquals(text) == \E op \in {"=", "!=", ">=", "<="} : Has(text, op)

-----------------------------------------------------------------------------
(* The handlers: each gives the condition, or None for the next one to try. *)

NormalizeOperator(value) ==
    CASE Head(value) = "CONTAINS" -> <<"LIKE">> \o Tail(value)
      [] Head(value) \in {"NOTCONTAINS", "NOT CONTAINS"} -> <<"NOT LIKE">> \o Tail(value)
      [] OTHER -> value

HasOperatorInValue(value) ==
    \/ \E op \in Comparisons : Has(value, op)
    \/ Head(value) \in SN_PREFIX_OPERATORS \cup {"IN"}

DateRangeCondition(field, value) ==
    IF field # <<"sys_created_on">> THEN None
    ELSE IF Has(value, "BETWEEN") THEN value
    ELSE IF Head(value) \in {">=", "<="} THEN field \o value
    ELSE IF Len(value) = 1 /\ Head(value) \in DOMAIN DateTexts THEN
           LET range == DateTexts[Head(value)]
           IN <<"sys_created_on", "BETWEEN", range[1], "@", range[2]>>
    ELSE None

\* Without its first letter what begins with a P, the field's own name too.
StartsWithP(value) == Head(value) \in {"P", "priority"}
NormalizePriority(value) ==
    CASE Head(value) = "P" -> Tail(value)
      [] Head(value) = "priority" -> <<"riority">> \o Tail(value)
      [] OTHER -> value

PriorityListFirstOnly(value) == <<"priority", "=">> \o NormalizePriority(Split(value, ",")[1])   \* slip
ParsePriorityList(value) ==
    IF Has(value, "^OR") THEN value
    ELSE LET parts == ListOf(value)
         IN Join([k \in DOMAIN parts |-> <<"priority", "=">> \o NormalizePriority(parts[k])], "^OR")

PriorityCondition(field, value) ==
    IF field = <<"priority">> /\ (Has(value, ",") \/ StartsWithP(value))
      THEN ParsePriorityList(value) ELSE None

\* _parse_caller_exclusions: a known name, a list, or one caller.
Excluding(callers) == Join([k \in DOMAIN callers |-> <<"caller_id", "!=">> \o callers[k]], "^")
CallerExclusionCondition(field, value) ==
    IF field \notin {<<"exclude_caller">>, <<"caller_exclusion">>} THEN None
    ELSE IF Len(value) = 1 /\ Head(value) \in DOMAIN KnownCallers
      THEN Excluding(<< <<KnownCallers[Head(value)]>> >>)
    ELSE IF ~Has(value, ",") /\ IsPrefix(<<"caller_id", "!=">>, value) THEN value
    ELSE Excluding(ListOf(value))

BareOrCondition(field, value) ==
    IF Has(value, "^OR") /\ ~HasEquals(BeforeOr(value)) THEN field \o <<"=">> \o value ELSE None

ServiceNowFilterCondition(field, value) ==
    IF Has(value, "^OR") /\ HasEquals(BeforeOr(value)) THEN value ELSE None

OperatorCondition(field, value) == IF HasOperatorInValue(value) THEN field \o value ELSE None

SuffixOperatorCondition(field, value) ==
    IF Last(field) \in DOMAIN SUFFIX_OPERATORS THEN Front(field) \o <<SUFFIX_OPERATORS[Last(field)]>> \o value ELSE None

\* _CONDITION_HANDLERS, and the exact match after them
Handlers(field, value) ==
    <<DateRangeCondition(field, value), PriorityCondition(field, value),
      CallerExclusionCondition(field, value), BareOrCondition(field, value),
      ServiceNowFilterCondition(field, value), OperatorCondition(field, value),
      SuffixOperatorCondition(field, value), field \o <<"=">> \o value>>

BuildQueryCondition(field, value) ==
    IF field \in {<<"_complete_query">>, <<"_complete_caller_exclusion">>} THEN value
    ELSE LET conditions == Handlers(field, NormalizeOperator(value))
         IN conditions[Min({k \in DOMAIN conditions : conditions[k] # None})]

BuildQueryString(filters) ==
    Join([k \in DOMAIN filters |-> BuildQueryCondition(filters[k].field, filters[k].value)], "^")

\* The URL keeps & as it is, and there the next parameter begins: the query ends before it.
EncodeQueryString(query) == Split(query, "&")[1]

-----------------------------------------------------------------------------
(* Queries that are not built from a dictionary.                            *)

\* The exclusions of the policy, of each list one name.
CategoryExclusions == <<"category", "!=", "Payroll">>
CatalogExclusions ==
    <<"cat_item.sc_catalogs.title", "!=", "People_Pay", "^", "assignment_group.name", "!=", "Payroll Managers">>
SC_CATALOG_TABLES == {"sc_request", "sc_req_item", "sc_task"}

AppendToQuery(query, addition) == IF query = <<>> THEN addition ELSE query \o <<"^">> \o addition

ApplyDomainFilters(table, query) ==
    CASE table = "incident" /\ CategoryFiltering -> AppendToQuery(query, CategoryExclusions)
      [] table \in SC_CATALOG_TABLES -> AppendToQuery(query, CatalogExclusions)
      [] OTHER -> query

\* The first record number of the first kind there is, or the first three different content words.
ExtractKeywords(text) ==
    LET NumbersOf(kind) == {i \in DOMAIN text : text[i] \in RecordNumbers[kind]}
        kinds == {kind \in DOMAIN RecordNumbers : NumbersOf(kind) # {}}
        words == {i \in DOMAIN text : text[i] \in ContentWords /\ \A j \in 1..(i - 1) : text[j] # text[i]}
    IN IF kinds # {} THEN <<text[Min(NumbersOf(Min(kinds)))]>>
       ELSE [n \in 1..Min({3, Cardinality(words)}) |-> text[Nth(words, n)]]

\* query_table_by_text: any of the keywords
TextQuery(keywords) ==
    Join([k \in DOMAIN keywords |-> <<"short_description", "LIKE", keywords[k]>>], "^OR")

NumberQuery(number) == <<"number", "=", number>>

\* get_records_by_priority: the priorities as they are given, other filters always by "="
Additional(filter) ==
    IF filter.field = <<"_date_range">> THEN filter.value ELSE filter.field \o <<"=">> \o filter.value
PriorityQuery(priorities, additional) ==
    Join(<<Join([k \in DOMAIN priorities |-> <<"priority", "=">> \o priorities[k]], "^OR")>>
         \o [k \in DOMAIN additional |-> Additional(additional[k])], "^")

=============================================================================
