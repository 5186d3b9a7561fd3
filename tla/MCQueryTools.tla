---------------------------- MODULE MCQueryTools ----------------------------
(* Calls of every query tool over tables whose rows differ in every pair of  *)
(* fields a call combines.                                                   *)
EXTENDS QueryTools

Common == {"number", "priority", "state", "sys_created_on", "assigned_to", "caller_id", "short_description"}
Catalog == {"cat_item.sc_catalogs.title", "assignment_group.name"}
MCFieldsOf == [incident |-> Common, change_request |-> Common, problem |-> Common, sc_req_item |-> Common \cup Catalog,
               kb_knowledge |-> {"number", "workflow_state", "kb_category", "kb_knowledge_base", "sys_created_on",
                                 "short_description"},
               task_sla |-> {"sys_id", "active", "has_breached", "business_time_left", "task.priority",
                             "business_percentage", "stage", "task.number", "sys_created_on"}]

\* d11 is today, d9 yesterday, d7 last week, d5 earlier this month, d3 last month.
Created == {"d1", "d3", "d5", "d7", "d9", "d11"}
MCRank == [d1 |-> 1, d3 |-> 3, d5 |-> 5, d7 |-> 7, d9 |-> 9, d11 |-> 11,
           beginningOfLastMonth |-> 2, endOfLastMonth |-> 4, beginningOfThisMonth |-> 4,
           beginningOfLastWeek |-> 6, endOfLastWeek |-> 8, beginningOfThisWeek |-> 8,
           yesterdayStart |-> 9, yesterdayEnd |-> 10, beginningOfToday |-> 10, daysAgo3 |-> 8, daysAgo7 |-> 6]
          @@ ("1" :> 1) @@ ("2" :> 2) @@ ("3" :> 3) @@ ("30" :> 30) @@ ("60" :> 60) @@ ("80" :> 80) @@ ("90" :> 90)
MCDaysAgo == ("3" :> "daysAgo3") @@ ("7" :> "daysAgo7")
MCDateTexts == ("week 35" :> <<"d5", "d7">>)
MCTextOf == ("" :> <<>>) @@ ("printer down" :> <<"the", "printer", "down">>) @@ ("vpn download" :> <<"vpn", "download">>)
            @@ ("it is" :> <<"it", "is">>)
\* The letters of "down" are in "download".
MCMatches == [LIKE |-> {<<"printer", "printer down">>, <<"R", "printer down">>, <<"down", "printer down">>,
                        <<"down", "vpn download">>, <<"vpn", "vpn download">>, <<"it", "it is">>},
              STARTSWITH |-> {<<"printer", "printer down">>, <<"vpn", "vpn download">>, <<"it", "it is">>},
              ENDSWITH |-> {<<"down", "printer down">>}]
MCLettersBefore == (<<"logicmonitor", "or">> :> <<"logicmonit">>) @@ (<<"logicmonitor", "on">> :> <<"logicm">>)
                   @@ (<<"integration", "in">> :> <<>>) @@ (<<"integration", "on">> :> <<"integrati">>)
                   @@ (<<"incidents", "in">> :> <<>>) @@ (<<"incidents", "incident">> :> <<>>)
                   @@ (<<"tickets", "ticket">> :> <<>>)
MCRecordNumbers == <<{"chg1"}, {"inc1", "inc2"}>>
MCContentWords == {"printer", "down", "tickets", "critical", "unassigned", "today", "days", "last", "high", "open"}
MCKnownCallers == [logicmonitor |-> "c0"]

MCRow(p, s, d, a, c, t, x) ==
    ("number" :> p \o s \o d \o a \o c \o t \o x) @@ ("priority" :> p) @@ ("state" :> s) @@ ("sys_created_on" :> d)
    @@ ("assigned_to" :> a) @@ ("caller_id" :> c) @@ ("short_description" :> t)
    @@ ("cat_item.sc_catalogs.title" :> IF x = "T" THEN "People_Pay" ELSE "Hardware")
    @@ ("assignment_group.name" :> IF x = "G" THEN "Payroll Managers" ELSE "Fleet")
Users == {"", "getUserID", "bob"}
OpenRows ==
    {MCRow(p, s, d, "bob", "c1", "printer down", "") : p \in {"1", "2", "3"}, s \in {"1", "2", "6", "7"}, d \in Created}
    \cup {MCRow(p, "1", "d11", a, c, t, "") : p \in {"1", "2"}, a \in Users, c \in {"c0", "c1", "c2"},
                                             t \in {"printer down", "vpn download", ""}}
    \cup {MCRow("1", s, d, a, c, "it is", "") : s \in {"1", "6"}, d \in {"d3", "d7", "d9"}, a \in Users,
                                              c \in {"c0", "c1"}}
PayrollRows == {MCRow(p, "1", "d11", "bob", "c1", t, x) : p \in {"1", "2"}, t \in {"printer down", ""},
                                                         x \in {"T", "G"}}
Sla(n, active, breached, left, p, used, at, d) ==
    [sys_id |-> "sla" \o n, active |-> active, has_breached |-> breached, business_time_left |-> left,
     business_percentage |-> used, stage |-> at, sys_created_on |-> d] @@ ("task.priority" :> p) @@ ("task.number" :> n)
SlaRows == {Sla(n, active, breached, left, p, used, "paused", d) :
              n \in {"INC1", "INC2"}, active \in {"true", "false"}, breached \in {"true", "false"}, left \in {"30", "90"},
              p \in {"2", "3"}, used \in {"60", "90"}, d \in {"d3", "d11"}}
           \cup {Sla("INC3", "true", "false", "90", "3", "60", "running", "d11")}
MCRows == [incident |-> OpenRows, change_request |-> OpenRows, problem |-> OpenRows, sc_req_item |-> OpenRows \cup PayrollRows, task_sla |-> SlaRows]

-----------------------------------------------------------------------------
\* A way to write a filter, and what it means: the field `on' has a value of `in'.
Form(key, value, on, in) == [entry |-> [field |-> key, value |-> value], meant |-> [on |-> on, in |-> in]]
Forms ==
    {Form(<<"priority">>, v, "priority", {"1", "2"}) :
       v \in {<<"1", ",", "2">>, <<"P", "1", ",", "P", "2">>, <<"1", "^OR", "priority", "=", "2">>, <<"!=", "3">>,
              <<"priority", "=", "1", "^OR", "priority", "=", "2">>, <<"<=", "2">>}}
    \cup {Form(<<"priority">>, v, "priority", {"2"}) : v \in {<<"2">>, <<"P", "2">>}}
    \cup {Form(<<"priority", "_lte">>, <<"2">>, "priority", {"1", "2"}),
          Form(<<"priority", "_gt">>, <<"1">>, "priority", {"2", "3"})}
    \cup {Form(<<"state">>, v, "state", {"1", "2"}) :
            v \in {<<"!=", "6", "^", "state", "!=", "7">>, <<"IN", "1", ",", "2">>,
                   <<"state", "=", "1", "^OR", "state", "=", "2">>, <<"NOT IN", "6", ",", "7">>}}
    \cup {Form(<<"sys_created_on", "_gte">>, <<"d7">>, "sys_created_on", {"d7", "d9", "d11"}),
          Form(<<"sys_created_on">>, <<">=", "d7">>, "sys_created_on", {"d7", "d9", "d11"}),
          Form(<<"sys_created_on">>, <<"week 35">>, "sys_created_on", {"d5", "d7"}),
          Form(<<"sys_created_on">>, <<"sys_created_on", "BETWEEN", "d3", "@", "d7">>, "sys_created_on",
               {"d3", "d5", "d7"})}
    \cup {Form(<<"assigned_to">>, v, "assigned_to", {""}) : v \in {<<"NULL">>, <<"ISEMPTY">>}}
    \cup {Form(<<"short_description">>, v, "short_description", {"vpn download"}) :
            v \in {<<"LIKE", "vpn">>, <<"CONTAINS", "vpn">>, <<"STARTSWITH", "vpn">>}}
    \cup {Form(<<"short_description">>, <<"NOTCONTAINS", "down">>, "short_description", {"", "it is"}),
          Form(<<"short_description">>, <<"ENDSWITH", "down">>, "short_description", {"printer down"}),
          Form(<<"exclude_caller">>, <<"logicmonitor">>, "caller_id", {"c1", "c2"}),
          Form(<<"exclude_caller">>, <<"c1", ",", "c2">>, "caller_id", {"c0"}),
          Form(<<"exclude_caller">>, <<"c2">>, "caller_id", {"c0", "c1"}),
          Form(<<"_complete_query">>, <<"priority", "=", "1", "^OR", "priority", "=", "2">>, "priority", {"1", "2"})}
\* Filters of which something else comes than they say.
OddForms ==
    {Form(<<"short_description">>, <<"LIKE", "R", "&", "D">>, "short_description", {}),
     Form(<<"short_description">>, <<"LIKE", "printer", "^NQ", "short_description", "LIKE", "vpn">>, "short_description",
          {"vpn download", "printer down"}),
     Form(<<"priority">>, <<"IN", "1", ",", "2">>, "priority", {"1", "2"}),
     Form(<<"sys_created_on">>, <<"BETWEEN", "d3", "@", "d7">>, "sys_created_on", {"d3", "d5", "d7"})}
Dictionaries == {<<>>} \cup {<<f>> : f \in Forms \cup OddForms}
                \cup {<<f, g>> \in (Forms \cup OddForms) \X (Forms \cup OddForms) : f.entry.field # g.entry.field}
EntriesOf(forms) == [k \in DOMAIN forms |-> forms[k].entry]
MeantBy(forms) == {forms[k].meant : k \in DOMAIN forms}

FilterCalls == {[tool |-> "filter", table |-> t, filters |-> EntriesOf(d), meant |-> MeantBy(d)] :
                  t \in {"incident", "sc_req_item"}, d \in Dictionaries}

PriorityCall(t, ps, forms) == [tool |-> "priority", table |-> t, priorities |-> [k \in DOMAIN ps |-> <<ps[k]>>],
                               filters |-> EntriesOf(forms), valid_dates |-> TRUE,
                               meant |-> MeantBy(forms) \cup {[on |-> "priority", in |-> ToSet(ps)]}]
Window == Form(<<"_date_range">>, <<"sys_created_on", ">=", "d3", "^", "sys_created_on", "<=", "d7">>,
               "sys_created_on", {"d3", "d5", "d7"})
PriorityCalls == {PriorityCall(t, ps, forms) : t \in {"incident", "sc_req_item", "task_sla"},
                    ps \in {<<>>, <<"1">>, <<"1", "2">>, <<"3", "1">>},
                    forms \in {<<>>, <<Window>>, <<Form(<<"state">>, <<"6">>, "state", {"6"}), Window>>}}
                 \cup {[PriorityCall("incident", <<"1", "2">>, <<>>) EXCEPT !.priorities = << <<"P", "1">>, <<"P", "2">> >>],
                       [PriorityCall("incident", <<"1">>, <<Window>>) EXCEPT !.valid_dates = FALSE]}

SlaCall(status, arg, meant, forms) == [tool |-> "sla", table |-> "task_sla", status |-> status, arg |-> arg,
                                       filters |-> EntriesOf(forms), meant |-> meant \cup MeantBy(forms)]
Is(field, values) == [on |-> field, in |-> values]
SlaCalls ==
    {SlaCall(s[1], s[2], s[3], forms) :
       s \in {<<"active", "", {Is("active", {"true"})}>>,
              <<"breaching", "60", {Is("active", {"true"}), Is("has_breached", {"false"}),
                                    Is("business_time_left", {"30"})}>>,
              <<"critical", "", {Is("active", {"true"}), Is("task.priority", {"2"}), Is("business_percentage", {"90"})}>>,
              <<"by_stage", "running", {Is("stage", {"running"})}>>, <<"by_stage", "", {}>>, <<"unknown", "", {}>>},
       forms \in {<<>>, <<Form(<<"task.number">>, <<"INC1">>, "task.number", {"INC1"})>>}}
    \cup {SlaCall("details", "slaINC3", {Is("sys_id", {"slaINC3"})}, <<>>),
          SlaCall("by_task", "INC2", {Is("task.number", {"INC2"})}, <<>>),
          SlaCall("custom", "", {}, <<Form(<<"stage">>, <<"paused">>, "stage", {"paused"})>>)}
\* The window of an SLA preset.
WindowCalls == {SlaCall("breached", "d7", {Is("has_breached", {"true"}), Is("sys_created_on", {"d7", "d9", "d11"})}, <<>>)}

TextCalls ==
    {[tool |-> "search", table |-> t, text |-> s[1], meant |-> {Is("short_description", s[2])}] :
       t \in {"incident", "sc_req_item", "unknown"},
       s \in {<<<<"printer">>, {"printer down"}>>, <<<<"down", "the", "vpn", "down">>, {"printer down", "vpn download"}>>,
              <<<<"it", "is">>, {}>>}}
    \cup {[tool |-> "search", table |-> "task_sla", text |-> <<"paused", "down">>, meant |-> {Is("stage", {"paused"})}]}
Numbers == {row["number"] : row \in PayrollRows \cup {r \in OpenRows : r["priority"] = "1" /\ r["state"] = "1"
                                                                        /\ r["sys_created_on"] = "d11"}}
NumberCalls == {[tool |-> tool, table |-> t, number |-> n] :
                  tool \in {"record", "similar"}, t \in {"incident", "sc_req_item"}, n \in Numbers}

Article(n, id, state, category, d) == [number |-> n, sys_id |-> id, workflow_state |-> state, kb_category |-> category,
                                       kb_knowledge_base |-> "it", sys_created_on |-> d, short_description |-> "vpn download"]
Articles == {Article("KB1", "1", "outdated", "a", "d1"), Article("KB1", "2", "outdated", "b", "d3"),
             Article("KB1", "3", "published", "a", "d5"), Article("KB1", "4", "draft", "a", "d7"),
             Article("KB1", "5", "retired", "a", "d9"), Article("KB2", "6", "draft", "b", "d11"),
             Article("KB2", "7", "published", "b", "d9")}
StateCalls == {[tool |-> "by state", table |-> "kb_knowledge", versions |-> vs, category |-> c, kb_base |-> b, state |-> s,
                max |-> m] :
                 vs \in SUBSET Articles, c \in {"", "a"}, b \in {"", "it"}, s \in {"", "published", "draft", "outdated"}, m \in {3, 9}}
KnowledgeCalls == {[tool |-> "knowledge", table |-> "kb_knowledge", versions |-> Articles, text |-> <<"down">>,
                    category |-> k[1], kb_base |-> k[2], state |-> k[3], meant |-> k[4]] :
                     k \in {<<"a", "", "", {Is("kb_category", {"a"})}>>, <<"b", "it", "", {Is("kb_category", {"b"})}>>,
                            <<"", "", "", {}>>, <<"", "", "published", {Is("workflow_state", {"published"})}>>}}

-----------------------------------------------------------------------------
\* Words and what they mean.  Two words that speak of one field leave it open.
Cue(words, on, in) == [words |-> words, meant |-> [on |-> on, in |-> in]]
Since(d) == {e \in Created : MCRank[e] >= MCRank[d]}
PriorityCues == {Cue(<<"p1">>, "priority", {"1"}), Cue(<<"critical">>, "priority", {"1"}),
                 Cue(<<"important">>, "priority", {"2"}), Cue(<<"p1", "and", "p2">>, "priority", {"1", "2"}),
                 Cue(<<"p2", "or", "p3">>, "priority", {"2", "3"}),
                 Cue(<<"critical", "and", "high">>, "priority", {"1", "2"})}
StateCues == {Cue(<<"in", "progress">>, "state", {"2"}), Cue(<<"resolved">>, "state", {"6"}),
              Cue(<<"new">>, "state", {"1", "2"})}
OtherCues == {Cue(<<"unassigned">>, "assigned_to", {""}), Cue(<<"my", "tickets">>, "assigned_to", {"getUserID"}),
              Cue(<<"without", "caller", "logicmonitor", "from">>, "caller_id", {"c1", "c2"}),
              Cue(<<"excluding", "caller", "c1", "from">>, "caller_id", {"c0", "c2"}),
              \* the letters of "on" end the name within it, so this one leaves nobody out
              Cue(<<"without", "caller", "logicmonitor", "on">>, "caller_id", {"c0", "c1", "c2"})}
DateCues == {Cue(<<"this", "week">>, "sys_created_on", Since("d9")), Cue(<<"week 35">>, "sys_created_on", {"d5", "d7"}),
             Cue(<<"this", "month">>, "sys_created_on", Since("d5")), Cue(<<"today">>, "sys_created_on", {"d11"})}
NoCue == {[words |-> <<>>, meant |-> Is("priority", {"1", "2", "3"})]}
MCContexts == {[date_range |-> r, exclude_caller |-> x, exclude_resolved |-> FALSE, user_assigned_only |-> u,
                meant |-> (IF r = <<>> THEN {} ELSE {Is("sys_created_on", {"d5", "d7"})})
                          \cup (IF x = <<>> THEN {} ELSE {Is("caller_id", {"c0", "c1", "c2"} \ ToSet(x))})
                          \cup (IF u THEN {Is("assigned_to", {"getUserID"})} ELSE {})] :
                 r \in {<<>>, <<"d5", "d7">>}, x \in {<<>>, <<"c2">>, <<"c0", "c1">>}, u \in BOOLEAN}
NoContext == {c \in MCContexts : c.meant = {}}
Phrase(cues, context) == [tool |-> "intelligent", table |-> "sc_req_item",
                          phrase |-> cues[1].words \o cues[2].words \o cues[3].words \o cues[4].words,
                          meant |-> {cues[k].meant : k \in 1..4}, context |-> context]
Phrases == {Phrase(cues, context) : cues \in (PriorityCues \cup NoCue) \X (OtherCues \cup NoCue) \X (StateCues \cup NoCue)
                                               \X (DateCues \cup NoCue),
                                    context \in {c \in MCContexts : Cardinality(c.meant) # 2}}
           \cup {[Phrase(<<n, n, n, n>>, context) EXCEPT !.phrase = <<"printer">>,
                                                        !.meant = {Is("short_description", {"printer down"})}] :
                    n \in NoCue, context \in MCContexts}
\* Of a table the server has no configuration of: an answer, or an error for want of one.
UnknownTable == {[p EXCEPT !.table = "problem"] :
                   p \in {q \in Phrases : q.phrase \in {<<"p1">>, <<"my", "tickets">>, <<"printer">>, <<"p1", "new">>, <<>>}}}
\* A template takes the place of every other filter: here only where it says all there is.
Whole == {<<"p1", "and", "p2">>, <<"resolved", "this", "month">>}
MCPhraseCalls == UnknownTable \cup {p \in Phrases : MatchFilterTemplate(p.phrase) = {} \/ p.phrase \in Whole}
\* The second example in the docstring of intelligent_search.
ExampleCalls == {[tool |-> "intelligent", table |-> "change_request", context |-> c,
                  phrase |-> <<"unassigned", "p1", "changes", "today">>,
                  meant |-> {Is("assigned_to", {""}), Is("priority", {"1"}), Is("sys_created_on", {"d11"})}] :
                   c \in NoContext}

MCCalls == FilterCalls \cup PriorityCalls \cup SlaCalls \cup TextCalls \cup NumberCalls \cup KnowledgeCalls
           \cup StateCalls \cup MCPhraseCalls

\* Breached SLAs are those created in the window that `days' widens (query_slas_by_status).
BreachedInWindow == (stage = "answered" /\ ~failed) => \A row \in answer.rows : Meets(row, call.meant)

\* "unassigned P1 changes today" are unassigned, P1, and of today, if it is no fallback.
ExampleUnderstood == (stage = "answered" /\ ~answer.fallback) => \A row \in answer.rows : Meets(row, call.meant)
=============================================================================
