--------------------------- MODULE FilterReading ----------------------------
(***************************************************************************)
(* What a filter asks of a row, in the forms the tools say a filter may     *)
(* have: the reference for the queries that QueryBuilder makes of filters.  *)
(* Nothing here is put together to an encoded query or taken apart again.   *)
(***************************************************************************)
EXTENDS QueryBuilder

\* Nothing in a word or a name is what the instance or the builder of queries look for.
Texts == Seq(STRING)
Words == STRING \ {"^", "^OR", "^NQ", "&"}
Names == Words \ (QueryOperators \cup SN_PREFIX_OPERATORS
                  \cup {"NULL", "CONTAINS", "NOTCONTAINS", "NOT CONTAINS", ",", "P", "priority"})
Fields == Words \ (QueryOperators \cup DOMAIN SUFFIX_OPERATORS
                   \cup {"exclude_caller", "caller_exclusion",
                         "_complete_query", "_complete_caller_exclusion"})

\* An entry of a dictionary of filters whose key and value say something.
Filters == [field : Texts \ {<<>>}, value : Texts \ {<<>>}]

Compare(stored, op, value) ==
    \/ op = "=" /\ stored = value
    \/ op = "!=" /\ stored # value
    \/ op = ">=" /\ Rank[stored] >= Rank[value]
    \/ op = "<=" /\ Rank[stored] <= Rank[value]
    \/ op = ">" /\ ~(Rank[stored] <= Rank[value])
    \/ op = "<" /\ ~(Rank[stored] >= Rank[value])
Within(stored, range) == Rank[stored] >= Rank[range[1]] /\ Rank[stored] <= Rank[range[2]]
Listed(value) == PartsOf(value, ",") \ {<<>>}

\* A query the instance reads as the one query it was built as.
Intact(query) == ~Has(query, "&") /\ ~Has(query, "^NQ")

-----------------------------------------------------------------------------
(* The forms of a filter, with the fields they need.                        *)

OnField(filter, fields) == Len(filter.field) = 1 /\ Head(filter.field) \in fields \cap Fields
HasName(value, n) == Len(value) = n /\ value[n] \in Names
Listing(value) == value \in Seq(Names \cup {",", "P"}) /\ Listed(value) # {}

IsEquality(filter, fields) ==
    /\ OnField(filter, fields) /\ HasName(filter.value, 1)
    /\ filter.field = <<"sys_created_on">> => Head(filter.value) \notin DOMAIN DateTexts
IsComparison(filter, fields) ==
    OnField(filter, fields) /\ HasName(filter.value, 2) /\ filter.value[1] \in Comparisons
IsSuffixed(filter, fields) ==
    /\ Len(filter.field) = 2 /\ filter.field[1] \in fields \cap Fields
    /\ filter.field[2] \in DOMAIN SUFFIX_OPERATORS /\ HasName(filter.value, 1)
IsContaining(filter, fields) ==
    /\ OnField(filter, fields) /\ HasName(filter.value, 2)
    /\ filter.value[1] \in {"LIKE", "CONTAINS", "NOT LIKE", "NOTCONTAINS", "NOT CONTAINS"}
IsDateText(filter, fields) ==
    /\ filter.field = <<"sys_created_on">> /\ "sys_created_on" \in fields
    /\ HasName(filter.value, 1) /\ Head(filter.value) \in DOMAIN DateTexts
IsPriorityList(filter, fields) ==
    /\ filter.field = <<"priority">> /\ "priority" \in fields
    /\ Listing(filter.value) /\ (Has(filter.value, ",") \/ Head(filter.value) = "P")
    /\ \A part \in Listed(filter.value) :
          HasName(part, 1) \/ (HasName(part, 2) /\ Head(part) = "P")
IsKnownCaller(filter, fields) ==
    /\ filter.field = <<"exclude_caller">> /\ "caller_id" \in fields
    /\ HasName(filter.value, 1) /\ Head(filter.value) \in DOMAIN KnownCallers
IsCallerList(filter, fields) ==
    /\ filter.field = <<"exclude_caller">> /\ "caller_id" \in fields
    /\ Listing(filter.value) /\ ~(Len(filter.value) = 1 /\ Head(filter.value) \in DOMAIN KnownCallers)
    /\ \A part \in Listed(filter.value) : HasName(part, 1)

IsPlain(filter, fields) ==
    \/ IsEquality(filter, fields) \/ IsComparison(filter, fields) \/ IsSuffixed(filter, fields)
    \/ IsContaining(filter, fields) \/ IsDateText(filter, fields) \/ IsPriorityList(filter, fields)
    \/ IsKnownCaller(filter, fields) \/ IsCallerList(filter, fields)

\* Two filters that come out other than they read: a list of priorities is taken apart
\* whatever it begins with, and a BETWEEN on the day of creation gets no field.
Misread(filter) ==
    \/ filter.field = <<"priority">> /\ Head(filter.value) \in {"IN", "NOT IN"} /\ Has(filter.value, ",")
    \/ filter.field = <<"sys_created_on">> /\ Head(filter.value) = "BETWEEN"

\* What each form asks of a row.
Asked(filter, fields, row) ==
    LET field == Head(filter.field)
        value == filter.value
    IN /\ IsEquality(filter, fields) => row[field] = Head(value)
       /\ IsComparison(filter, fields) => Compare(row[field], value[1], value[2])
       /\ IsSuffixed(filter, fields) => Compare(row[field], SUFFIX_OPERATORS[filter.field[2]], Head(value))
       /\ IsContaining(filter, fields) =>
             (value[1] \in {"LIKE", "CONTAINS"} <=> <<value[2], row[field]>> \in Matches["LIKE"])
       /\ IsDateText(filter, fields) => Within(row["sys_created_on"], DateTexts[Head(value)])
       /\ IsPriorityList(filter, fields) => \E part \in Listed(value) : row["priority"] = Last(part)
       /\ IsKnownCaller(filter, fields) => row["caller_id"] # KnownCallers[Head(value)]
       /\ IsCallerList(filter, fields) => \A part \in Listed(value) : row["caller_id"] # Head(part)
=============================================================================
