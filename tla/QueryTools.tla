----------------------------- MODULE QueryTools -----------------------------
(***************************************************************************)
(* The tools that read records: generic_tool_wrappers.py,                   *)
(* consolidated_tools.py and intelligent_search, over the query functions   *)
(* of generic_table_tools.py.  One call at a time: what it asks the         *)
(* instance for, request by request, and what it answers.  Of a paged       *)
(* request (module Pagination) only the cap is kept.                        *)
(***************************************************************************)
EXTENDS NaturalLanguage, FilterReading

CONSTANTS
    Calls,  \* the calls of tools: see Refused and FirstQuery for what each holds
    Rows    \* the rows of each table; a call of a KB tool brings its own

VARIABLES
    call,    \* the call
    stage,   \* "called", "reading", "reading more", "answered"
    sent,    \* the queries sent, in their order
    failed,  \* a GET came to nothing
    answer   \* what the caller has

vars == <<call, stage, sent, failed, answer>>

TABLE_CONFIGS == {"incident", "change_request", "sc_req_item", "sc_task", "universal_request",
                  "kb_knowledge", "vtb_task", "task_sla"}
PRIORITY_TABLES == TABLE_CONFIGS \ {"kb_knowledge", "task_sla"}

Nothing == [rows |-> {}, articles |-> {}, truncated |-> FALSE, fallback |-> FALSE, error |-> FALSE]
RowsOf(c) == IF c.table = "kb_knowledge" THEN c.versions ELSE Rows[c.table]

Init == /\ call \in Calls
        /\ stage = "called"
        /\ sent = <<>>
        /\ failed = FALSE
        /\ answer = Nothing

-----------------------------------------------------------------------------
(* What each tool asks for.                                                 *)

KnowledgeFilters(c) ==
    (IF c.category = "" THEN <<>> ELSE <<At("kb_category", <<c.category>>)>>)
    \o (IF c.kb_base = "" THEN <<>> ELSE <<At("kb_knowledge_base", <<c.kb_base>>)>>)

\* build_last_n_days_filter gives a whole condition, which becomes a value.
SinceFilter(since) == At("sys_created_on", <<"sys_created_on", ">=", since>>)

SLA_STATUS(c) ==
    CASE c.status = "active" -> <<At("active", <<"true">>)>>
      [] c.status = "breached" -> <<At("has_breached", <<"true">>), SinceFilter(c.arg)>>
      [] c.status = "breaching" -> <<At("active", <<"true">>), At("business_time_left", <<"<", c.arg>>),
                                     At("has_breached", <<"false">>)>>
      [] c.status = "critical" -> <<At("active", <<"true">>), At("task.priority", <<"IN", "1", ",", "2">>),
                                    At("business_percentage", <<">", "80">>)>>
      [] c.status = "by_stage" -> <<At("stage", <<c.arg>>)>>
      [] c.status = "performance" -> <<SinceFilter(c.arg)>>
      [] c.status = "details" -> <<At("sys_id", <<c.arg>>)>>
      [] c.status = "by_task" -> <<At("task.number", <<c.arg>>)>>
      [] c.status = "custom" -> c.filters \o (IF c.arg = "" THEN <<>> ELSE <<SinceFilter(c.arg)>>)

\* by_stage needs a stage, and a preset must be one.
SLA_STATUSES == {"active", "breached", "breaching", "critical", "by_stage", "performance"}
Presets == SLA_STATUSES \cup {"details", "by_task", "custom"}
SlaFilters(c) == Update(SLA_STATUS(c), IF c.status \in SLA_STATUSES THEN c.filters ELSE <<>>)

FiltersOf(c) ==
    CASE c.tool = "filter" -> c.filters
      [] c.tool = "by state" -> KnowledgeFilters(c)
      [] c.tool = "knowledge" -> IF c.state = "" THEN KnowledgeFilters(c) ELSE <<At("workflow_state", <<c.state>>)>>
      [] c.tool = "sla" -> SlaFilters(c)
      [] c.tool = "intelligent" -> BuildIntelligentFilter(c.phrase, c.context)
      [] OTHER -> <<>>

\* A table that is not configured; the intelligent search of one raises where it comes to
\* search for text.
Refused(c) ==
    \/ c.table \notin TABLE_CONFIGS /\ (c.tool = "intelligent" => FiltersOf(c) = <<>>)
    \/ c.tool = "priority" /\ (c.table \notin PRIORITY_TABLES \/ c.priorities = <<>> \/ ~c.valid_dates)
    \/ c.tool = "sla" /\ (c.status \notin Presets \/ (c.status = "by_stage" /\ c.arg = ""))

TextOnly(c) == c.tool = "search" \/ (c.tool \in {"intelligent", "knowledge"} /\ FiltersOf(c) = <<>>)
WordsOf(c) == IF c.tool = "intelligent" THEN c.phrase ELSE c.text

FirstQuery(c) ==
    CASE TextOnly(c) -> TextQuery(ExtractKeywords(WordsOf(c)))
      [] c.tool \in {"record", "similar"} -> NumberQuery(c.number)
      [] c.tool = "priority" -> PriorityQuery(c.priorities, c.filters)
      [] OTHER -> BuildQueryString(FiltersOf(c))

TextWithoutExclusions(table, keywords) == TextQuery(keywords)   \* slip
TextSearch(table, keywords) == ApplyDomainFilters(table, TextQuery(keywords))

Asks(c) == ~Refused(c) /\ ~(TextOnly(c) /\ ExtractKeywords(WordsOf(c)) = <<>>)

\* The words that are looked for are words.
ASSUME WordsAssumption == ContentWords \subseteq Words /\ RecordNumbers \in Seq(SUBSET Words)

\* What callers give: texts, numbers, priorities and dictionaries whose keys and values say
\* something.
ASSUME CallsAssumption ==
    \A c \in Calls : Asks(c) =>
        /\ FiltersOf(c) \in Seq(Filters)
        /\ TextOnly(c) \/ c.tool = "intelligent" => WordsOf(c) \in Texts
        /\ c.tool = "record" => c.number \in STRING
        /\ c.tool = "priority" =>
              /\ "priority" \in FieldsOf[c.table]
              /\ c.filters \in Seq(Filters) /\ c.priorities \in Seq(Texts \ {<<>>})

\* What a phrase reads as are filters, and a context names dates and callers.
ASSUME ContextAssumption ==
    \A c \in Calls : c.tool = "intelligent" /\ Asks(c) =>
        /\ ParseNaturalLanguage(c.phrase) \in Seq(Filters)
        /\ c.context.date_range = <<>> \/ {c.context.date_range[1], c.context.date_range[2]} \subseteq Words
        /\ c.context.exclude_caller \in Seq(Names)

\* The fields the exclusions name are fields of the tables they are for.
ASSUME PolicyAssumption ==
    \A c \in Calls : Asks(c) /\ c.table \in SC_CATALOG_TABLES =>
        {"cat_item.sc_catalogs.title", "assignment_group.name"} \subseteq FieldsOf[c.table]

\* Where the builder looks a name up it finds a name.
ASSUME LookupAssumption ==
    /\ \A text \in DOMAIN DateTexts : DateTexts[text][1] \in Words /\ DateTexts[text][2] \in Words
    /\ \A name \in DOMAIN KnownCallers : KnownCallers[name] \in Names

\* Similar records are those of a number, on a table that has numbers and descriptions.
ASSUME SimilarAssumption ==
    \A c \in Calls : c.tool = "similar" /\ ~Refused(c) =>
        /\ {"number", "short_description"} \subseteq FieldsOf[c.table]
        /\ c.number \in Names
        /\ \A row \in RowsOf(c) : TextOf[row["short_description"]] \in Texts

\* The list by state is asked for by the names of a category and a base, if at all; its
\* articles are in the states of the workflow.
ASSUME KnowledgeAssumption ==
    \A c \in Calls : c.tool = "by state" =>
        /\ c.table = "kb_knowledge" /\ {"kb_category", "kb_knowledge_base"} \subseteq FieldsOf[c.table]
        /\ c.category = "" \/ c.category \in Names
        /\ c.kb_base = "" \/ c.kb_base \in Names
        /\ "max" \in DOMAIN c /\ c.max \in Nat /\ IsFiniteSet(c.versions)
        /\ \A v \in c.versions : v["workflow_state"] \in {"published", "draft", "review", "outdated", "retired"}

-----------------------------------------------------------------------------
(* The steps of a call.                                                     *)

Answer(a) == /\ stage' = "answered"
             /\ answer' = a
             /\ UNCHANGED call

Refuse == /\ stage = "called" /\ Refused(call)
          /\ Answer([Nothing EXCEPT !.error = TRUE])
          /\ UNCHANGED <<sent, failed>>

NoKeywords == /\ stage = "called" /\ ~Refused(call)
              /\ TextOnly(call) /\ ExtractKeywords(WordsOf(call)) = <<>>
              /\ Answer([Nothing EXCEPT !.fallback = call.tool = "intelligent"])
              /\ UNCHANGED <<sent, failed>>

Send == /\ stage = "called" /\ Asks(call)
        /\ sent' = <<ApplyDomainFilters(call.table, FirstQuery(call))>>
        /\ stage' = "reading"
        /\ UNCHANGED <<call, failed, answer>>

SendMore(keywords) == /\ sent' = Append(sent, TextSearch(call.table, keywords))
                      /\ stage' = "reading more"
                      /\ UNCHANGED <<call, answer>>

\* The newest rows up to the cap; a failed GET reads as none.
Newest(rows, max) ==
    {few \in kSubset(Min({max, Cardinality(rows)}), rows) :
       \A r \in few, s \in rows \ few : Rank[r["sys_created_on"]] >= Rank[s["sys_created_on"]]}
Capped(rows) == IF "max" \in DOMAIN call THEN Newest(rows, call.max) ELSE {rows}
Found == Returned(call.table, EncodeQueryString(Last(sent)), RowsOf(call))
Replies == {[rows |-> few, ok |-> TRUE] : few \in Capped(Found)} \cup {[rows |-> {}, ok |-> FALSE]}
Reads(tools) == stage = "reading" /\ call.tool \in tools
NoteFailure(reply) == failed' = (failed \/ ~reply.ok)

AnswerRows == Reads({"search", "record", "filter", "priority", "sla", "knowledge"}) /\ \E reply \in Replies :
    /\ NoteFailure(reply)
    /\ Answer([Nothing EXCEPT !.rows = reply.rows])
    /\ UNCHANGED sent

\* get_kb_articles_by_state: one entry for each number, the state then asked for.
KB_STATE_PRIORITY == <<"published", "draft", "review", "outdated", "retired">>
StateRank(row) ==
    Min({k \in 1..5 : KB_STATE_PRIORITY[k] = row["workflow_state"]} \cup {Len(KB_STATE_PRIORITY) + 1})
Canonical(versions) ==
    LET best == CHOOSE v \in versions : \A w \in versions : StateRank(v) <= StateRank(w)
    IN [number |-> best["number"], current_state |-> best["workflow_state"],
        version_count |-> Cardinality(versions)]
ByNumber(rows) == {{v \in rows : v["number"] = row["number"]} : row \in rows}
FilteredFirst(rows, state) ==   \* slip: the state asked for before the versions are merged
    {Canonical(versions) : versions \in ByNumber({r \in rows : state \in {"", r["workflow_state"]}})}
Deduped(rows, state) ==
    {a \in {Canonical(versions) : versions \in ByNumber(rows)} : state \in {"", a.current_state}}

AnswerByState == Reads({"by state"}) /\ \E reply \in Replies :
    /\ NoteFailure(reply)
    /\ Answer([Nothing EXCEPT !.articles = Deduped(reply.rows, call.state),
                              !.truncated = Cardinality(reply.rows) >= call.max])
    /\ UNCHANGED sent

\* find_similar_records reads the description, searches for it, drops the original.
ReadDescription == Reads({"similar"}) /\ \E reply \in Replies :
    /\ NoteFailure(reply)
    /\ \/ /\ reply.rows = {}
          /\ Answer(Nothing) /\ UNCHANGED sent
       \/ \E row \in reply.rows :
            LET keywords == ExtractKeywords(TextOf[row["short_description"]])
            IN IF keywords = <<>> THEN Answer(Nothing) /\ UNCHANGED sent ELSE SendMore(keywords)

OriginalKept(rows) == rows   \* slip
WithoutOriginal(rows) == {row \in rows : row["number"] # call.number}
AnswerSimilar == stage = "reading more" /\ call.tool = "similar" /\ \E reply \in Replies :
    /\ NoteFailure(reply)
    /\ Answer([Nothing EXCEPT !.rows = WithoutOriginal(reply.rows)])
    /\ UNCHANGED sent

\* query_table_intelligently falls back to a text search when the filters find nothing.
AnswerIntelligently == Reads({"intelligent"}) /\ \E reply \in Replies :
    /\ NoteFailure(reply)
    /\ LET keywords == ExtractKeywords(call.phrase)
       IN \/ reply.rows # {} /\ Answer([Nothing EXCEPT !.rows = reply.rows]) /\ UNCHANGED sent
          \/ reply.rows = {} /\ call.table \notin TABLE_CONFIGS
               /\ Answer([Nothing EXCEPT !.error = TRUE]) /\ UNCHANGED sent
          \/ reply.rows = {} /\ call.table \in TABLE_CONFIGS /\ keywords # <<>> /\ SendMore(keywords)
          \/ reply.rows = {} /\ call.table \in TABLE_CONFIGS /\ keywords = <<>>
               /\ Answer([Nothing EXCEPT !.fallback = TRUE]) /\ UNCHANGED sent

AnswerFallback == stage = "reading more" /\ call.tool = "intelligent" /\ \E reply \in Replies :
    /\ NoteFailure(reply)
    /\ Answer([Nothing EXCEPT !.rows = reply.rows, !.fallback = TRUE])
    /\ UNCHANGED sent

Next == Refuse \/ NoKeywords \/ Send \/ AnswerRows \/ AnswerByState \/ ReadDescription \/ AnswerSimilar
        \/ AnswerIntelligently \/ AnswerFallback
Spec == Init /\ [][Next]_vars

-----------------------------------------------------------------------------
(* Properties.  A call carries what its caller means by it: a set of pairs  *)
(* of a field and the values it may have.                                   *)

Meets(row, meant) == \A m \in meant : row[m.on] \in m.in
Sensitive(table, row) ==
    table \in SC_CATALOG_TABLES
      /\ (row["cat_item.sc_catalogs.title"] = "People_Pay" \/ row["assignment_group.name"] = "Payroll Managers")

\* What a call asks of the rows, each of its filters by itself: a filter of a form that
\* FilterReading tells as that says, another one as the query it becomes; of a priority
\* call each additional condition as the query that it is.
FilterSelects(c, filter) ==
    LET selected == Selects(c.table, BuildQueryCondition(filter.field, filter.value), RowsOf(c))
        fields == FieldsOf[c.table]
    IN IF IsPlain(filter, fields) THEN {row \in RowsOf(c) : Asked(filter, fields, row)} ELSE selected
AsAsked(c) ==
    LET each == IF c.tool = "priority"
                  THEN {Selects(c.table, Additional(filter), RowsOf(c)) : filter \in ToSet(c.filters)}
                       \cup {{row \in RowsOf(c) : <<row["priority"]>> \in ToSet(c.priorities)}}
                ELSE IF TextOnly(c)
                  THEN {{row \in RowsOf(c) : \E word \in ToSet(ExtractKeywords(WordsOf(c))) :
                                               <<word, row["short_description"]>> \in Matches["LIKE"]}}
                ELSE {FilterSelects(c, filter) : filter \in ToSet(FiltersOf(c))}
    IN {row \in RowsOf(c) : \A selected \in each : row \in selected}

\* Priorities in their numbers, and texts for tables that have descriptions to search.
Plainly(c) ==
    /\ c.tool = "priority" => \A k \in DOMAIN c.priorities : HasName(c.priorities[k], 1)
    /\ TextOnly(c) => "short_description" \in FieldsOf[c.table]
AllIntact == \A k \in DOMAIN sent : Intact(sent[k])

\* A dictionary of filters, a preset, a list of priorities or a text selects exactly the
\* rows its caller means: nothing is lost or let through on the way from the dictionary
\* to the encoded query, whatever the order of its keys.  Not so the calls that the
\* conditions name: a query with & or ^NQ in it, the filters Misread names, priorities
\* with their letter and a text search of a table without descriptions.
SelectsWhatIsMeant ==
    (stage = "answered" /\ ~failed /\ ~answer.error /\ AllIntact /\ Plainly(call)
       /\ (\A filter \in ToSet(FiltersOf(call)) : ~Misread(filter))
       /\ call.tool \in {"search", "filter", "priority", "sla", "knowledge"})
      => answer.rows = {row \in RowsOf(call) : Meets(row, call.meant) /\ ~Sensitive(call.table, row)}

\* No path shows a row the catalog policy blocks: not a search of any of its words, not a
\* fallback, not the description of a known number; if no value the caller gave has a
\* & or ^NQ, which end the query that the exclusions are added to.
NothingSensitive == AllIntact => \A row \in answer.rows : ~Sensitive(call.table, row)

\* What is similar to a record has a word of it in its description, if only as a part of
\* another word, and is another record; a record the caller may not see has no similar ones.
SimilarIsSimilar ==
    (call.tool = "similar" /\ answer.rows # {})
      => \E original \in RowsOf(call) :
           /\ original["number"] = call.number /\ ~Sensitive(call.table, original)
           /\ \A row \in answer.rows :
                /\ row # original
                /\ \E word \in ToSet(TextOf[original["short_description"]]) :
                      <<word, row["short_description"]>> \in Matches["LIKE"]

\* What get_kb_articles_by_state should make of some versions of articles: of each
\* article the best of their states, and their number.
BestState(versions, number) ==
    CHOOSE k \in 1..5 :
        /\ \E v \in versions : v["number"] = number /\ v["workflow_state"] = KB_STATE_PRIORITY[k]
        /\ \A v \in versions : v["number"] = number => StateRank(v) >= k
Merged(versions, state) ==
    {a \in {[number |-> n, current_state |-> KB_STATE_PRIORITY[BestState(versions, n)],
             version_count |-> Cardinality({v \in versions : v["number"] = n})] :
              n \in {v["number"] : v \in versions}} :
       state \in {"", a.current_state}}

\* The state given for an article is the best of all its versions in the category asked
\* for, unless the answer says it is cut short or a GET failed.
CanonicalIfComplete ==
    (stage = "answered" /\ call.tool = "by state" /\ ~answer.truncated /\ ~failed)
      => answer.articles = Merged({r \in RowsOf(call) : /\ call.category \in {"", r["kb_category"]}
                                                        /\ call.kb_base \in {"", r["kb_knowledge_base"]}},
                                  call.state)

\* An answer that is not marked as a fallback has only rows that the phrase and the
\* context mean, where both speak of one field the context.
PhraseMet ==
    (call.tool = "intelligent" /\ ~answer.fallback)
      => \A row \in answer.rows :
           /\ Meets(row, call.context.meant)
           /\ Meets(row, {m \in call.meant : \A c \in call.context.meant : c.on # m.on})
=============================================================================
