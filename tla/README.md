# Verification of the ServiceNow MCP server

TLA+ models of the server in this repository, TLC runs that check them on small
instances, and TLAPS proofs. `PROJECT.json` lists the components, runs, hazards
and theorems, maps every definition to the lines it models, and gives for every
checked property a small change of the code's model that breaks it.

    tlc -workers 2 -config TokenStore.cfg MCTokenStore.tla
    tlapm TokenStoreProofs.tla

## The system

An MCP server (one Python process, one asyncio event loop) that answers tool
calls by requests to a ServiceNow instance. FastMCP runs tool calls as
coroutines, so several are under way at once; they interleave at every `await`.

| Component | State | Operations | Talks to |
|---|---|---|---|
| `oauth/token_store.py` | token, expiry, `asyncio.Lock` | `get_valid_token`, `clear`, the token request | token endpoint |
| `oauth/request_executor.py`, `client.py`, `singleton.py` | none; one client per process | `make_authenticated_request`, one retry after a 401, `test_connection` | token store, pool |
| `oauth/http_pool.py` | the pooled httpx client | create, close | instance |
| `http_layer/request_dispatcher.py` | none | `make_nws_request`: GET with a deadline that turns failures into None; writes that raise | client |
| `http_layer/url_builder.py`, `response_parser.py` | none | encode the query, add parameters, flatten display values | dispatcher |
| `Table_Tools/kb_article_tools.py` | per call: sys_id, attempt; per batch: a semaphore | publish with verify and retry, batch, update, retire, duplicate report | dispatcher |
| `Table_Tools/vtb_task_tools.py`, `write_helpers.py` | none | create and update private tasks, answers of writes | dispatcher |
| `Table_Tools/generic_table_tools.py` | per call: offset, rows | paged queries, the query builder, text and similar-record search | dispatcher, `filter/` |
| `Table_Tools/consolidated_tools.py`, `generic_tool_wrappers.py`, `intelligent_query_tools.py` | none | incidents, SLA presets, KB lists, `intelligent_search` | generic queries |
| `Table_Tools/cmdb_tools.py` | per call: a semaphore | the probe of several tables at once, similar CIs, searches by attribute | dispatcher |
| `Table_Tools/date_utils.py` | none | ranges of days, date filters | |
| `filter/` | none | filters from phrases, validation, explanation | generic queries |
| `tools.py`, `audit_middleware.py`, main, `config_loader.py` | none | registration, logging, set-up | FastMCP |

Nothing is persisted, so there is no recovery after a crash to model. What is
hard is elsewhere:

- *shared state across awaits*: the token cache; a sys_id read by one request
  and used by the next; offsets into a table that changes; a CI that changes its
  class between the GETs that look for it;
- *deadlines*: `anyio.fail_after` cancels a call anywhere inside, in the queue
  of the lock as well as in the token request, while the instance carries on;
- *lost answers*: a write or a publish may have happened without an answer;
- *failures that look like results*: a GET that fails is None, and callers take
  that for "no rows", "no duplicates", "not published", "the last page", "not in
  this table";
- *queries that are text*: a filter passes several handlers that each look at
  its text, and the instance ignores a condition it does not understand, so a
  filter that comes out wrong answers with too many rows and no error; an `&` in
  a value ends the query, and what is appended after it is lost.

What makes each component correct:

- token store: one request for a token at a time, waiters served and never
  forgotten, no token served near or beyond its expiry, never back to an older
  token;
- executor: a write is carried out once at most, a retry has a newer token,
  the answer is true, every call ends;
- KB publish: "published" is true, no two live articles of one title, no second
  version, the batch ends;
- the other writes: the row that is changed is the one that was meant, unless a
  publish came between; the answer is true; a new title makes a duplicate only
  where an update and a publish clash; a duplicate report predicts what a publish
  will do, while titles stay;
- paging: no row lost, none twice, the flag for an incomplete answer right, the
  loop ends;
- query builder and tools: the rows answered are the rows the caller means, and
  none that the catalog policy hides, as far as the query reaches the instance
  whole;
- dates: a range has exactly its days, in leap years and over the end of a year;
- CI tools: of the tables that show the CI the one listed first wins, a CI that
  exists is found, the search for similar ones leaves none out.

## Modules

| Module | Extends | Models |
|---|---|---|
| `TokenCache` | | what the token store promises its callers |
| `TokenStore` | | `oauth/token_store.py`; implements `TokenCache` |
| `RequestExecutor` | `TokenStore` | executor, dispatcher, the wrappers of writes |
| `KBPublish` | | publish of KB articles and its batch |
| `WriteTools` | `KBPublish` | the other write tools, over the same rows |
| `Pagination` | | the loop over the pages of one query |
| `CIProbe` | | the CI tools |
| `Dates` | | `date_utils.py`, the parsers of date ranges |
| `EncodedQuery` | | what the instance selects for an encoded query (external) |
| `QueryBuilder` | `EncodedQuery` | from a dictionary of filters to an encoded query |
| `NaturalLanguage` | `QueryBuilder` | from a phrase and a context to filters |
| `FilterReading` | `QueryBuilder` | what a filter asks of a row: the reference for the builder |
| `QueryTools` | `NaturalLanguage`, `FilterReading` | the reading tools, request by request |
| `TokenStoreProofs`, `RequestExecutorProofs` | `TokenStore`; that and `RequestExecutor` | theorems |
| `KBPublishProofs`, `WriteToolsProofs` | `KBPublish`, `WriteTools` | theorems |
| `PaginationProofs`, `CIProbeProofs`, `DatesProofs` | `Pagination`, `CIProbe`, `Dates` | theorems |
| `QueryToolsProofs` | `QueryTools` | theorems |
| `MC*` | | instances for TLC |

- `TokenStore`: a step is what a task runs between two suspensions. `GetToken`
  and `RenewToken` are the two ways in (`clear` is only called to be followed by
  `get_valid_token`); each either runs under the free lock or queues. `Acquire`
  wakes the first of the queue. `GetUnderLock` is the body of `get_valid_token`
  up to its return or its await, `ClearUnderLock` that of `clear` and what
  follows. `FetchReturns`, `FetchMalformed` and `FetchFails` are the ends of the
  token request, `Cancel` the caller's deadline, `Mint` the endpoint granting a
  token. Time is counted in units, the buffer being `Buffer` of them; the wall
  clock may be set back once by `SetBack`. A reply may lack `expires_in` (the
  code assumes `DefaultLife`) or carry one that is no number.
- `TokenCache`: the store to its callers, without queue, clocks and requests: a
  cell that is served from, dropped, and refilled by one task at a time with the
  newest token. `ImplementsCache` maps the cell to the cached token and its
  holder to the lock's owner.
- `RequestExecutor`: each task makes one call, and every step inside the store is
  a step of a call. `Start`, `StoreStep`, `Unauthorized` (the 401 path),
  `Succeeds`, `ErrorStatus`, `Broken`, `UnauthorizedAgain` and `Deadline` are
  the branches of `make_authenticated_request`, `make_nws_request` and the write
  wrappers. `Serve` is the instance: it may carry out a write and yet answer
  with an error, and serves what was sent even if the caller has given up. A
  call is a read, the connection test, a KB write (deadline 30 s) or a private
  task write (no deadline).
- `KBPublish`: a batch of publish jobs over the rows of `kb_knowledge`. `Enter` to
  `Refresh` are the awaits of `publish_knowledge_article` and
  `_publish_with_verify`, `Answer` and `FireRaises` the two ends of the gather.
  `Serve` is the workflow inside the instance: it publishes a row that is a draft,
  outdates the version before, may leave a new draft; it may do so after the job has
  given up. A title belongs to a row, and the check compares the one a job has read
  (`Meta`, `subject`) with those the rows have then. Requests are single steps; what
  can go wrong inside one (None, a timeout, a lost answer, no token) is
  nondeterministic, from what `RequestExecutor` shows a call can do. The variable
  `scene`, chosen at the start, is the call of the tool, the titles, what the
  instance holds, and which of reads, calls and tokens may fail; a property that
  holds only while reads succeed says so.
- `WriteTools`: `update_knowledge_article`, `retire_knowledge_article` and the
  entries of `check_kb_duplicates` beside the jobs of `KBPublish`, and the two
  tools for private tasks. A call goes through `Begin` (refusals of an empty
  payload), `FindRow`, `Check`, `Send`, and ends by an answer (`ServeWrite`), by
  its deadline (`GiveUpWrite`) or by an error (`LoseWrite`). An update may give its
  row a new title (`short_description` is the first field it takes); a report reads
  the title of any version of its article. What a lookup has seen is remembered as
  the number of publishes till then.
- `Pagination`: the loop of `_make_paginated_request` and the flag of
  `query_table_with_filters`, over a table whose rows come to match the query
  and cease to. `Listing` and `Page` are what the instance does with
  ORDERBYDESC, offset and limit. `trouble`, chosen at the start, says which of
  these changes, and failing pages, a query may meet.
- `CIProbe`: `get_ci_details` starts its probes as the semaphore lets them
  (`StartProbe`, `EndProbe`) and takes the first row by order of preference once
  all are back (`Collect`); `Search` is the one GET of the other tools, and the
  second half of `similar_cis_for_ci`. Which tables show a CI is a parameter
  (`Lineages`): the class tree of the instance is not in this repository. `Display`
  is what `sysparm_display_value` makes of a stored value, `Fitting` which stored
  value passes a condition with a text: the attributes of the row a call has found
  are displayed ones, and the search compares them with what is stored.
  `Reclassify` gives the CI other tables, or deletes it.
- `Dates`: a behaviour goes through the days of a calendar (`Midnight`), and on
  each the ranges of `date_utils.py` and the six parsers of a range in a text are
  compared with the calendar. A text is its format and its numbers (`TextsFor`).
- `EncodedQuery`: a query is a sequence of tokens. `Conditions` reads it as the
  instance does, a conjunction of groups of conditions joined by `^OR`: `PartsOf`
  cuts it at `^`, and each part at `^OR`. `Returned` adds up what the parts between
  `^NQ` select. `Holds` is one condition on one row; which texts LIKE, STARTSWITH and
  ENDSWITH find in a value is a parameter (`Matches`), since a text may be a part of a
  word. A condition whose field the table lacks is ignored. `Split` and `Join` are those
  of the code that builds queries.
- `QueryBuilder`: `Handlers` is the chain in `_build_query_condition`, in its order;
  each is an operator that gives a condition or `None`. Then come priorities,
  exclusions of callers, the domain exclusions (`ApplyDomainFilters`), keywords.
  `EncodeQueryString` is the URL: it leaves `&` as it is, where the next parameter
  begins, so that the query ends there. Values are sequences of tokens cut where the
  code looks (operators, commas, `^OR`, prefixes); everything between is opaque.
- `FilterReading`: the forms a filter has in the tools and their documentation, each
  recognised by its key and value (`IsEquality` to `IsCallerList`), and what each
  asks of a row (`Asked`), with no encoded query between; and two forms that come out
  other than they read (`Misread`).
- `NaturalLanguage`: `ParseNaturalLanguage` and `BuildIntelligentFilter`, with
  templates, language patterns, the merge of priorities, exclusions, date texts
  and the context, each writing to one dictionary in the code's order. A phrase
  is a sequence of words.
- `QueryTools`: what each tool asks the instance for, request by request, and
  what it answers: `Refuse`, `NoKeywords`, `Send`, `SendMore`, `AnswerRows`,
  `AnswerByState` (the merge of article versions), `ReadDescription` and
  `AnswerSimilar`, `AnswerIntelligently` and `AnswerFallback`. Any GET may fail.

`KBPublish` and `WriteTools` share their rows, `RequestExecutor` its token with
`TokenStore`. The reading tools are single calls: they share nothing with each
other, and the instance they read is a parameter.

A definition marked *slip* is a plausible mistake in the code next to it; no
specification uses it. The `mutants` of `PROJECT.json` put it in the place of the
right one and each makes TLC report the property it is listed with.

## Runs

| Run | Instance | Shows |
|---|---|---|
| `TokenStore` | 3 tasks, 2 tokens, lives 3 and (by default) 1, buffer 1, time to 2, clock back by 1 | `LockHeldAcrossFetch`, `CacheHitIsFresh`, `CacheMovesForward`, `ImplementsCache`, `EveryCallerLeaves` |
| `RequestExecutor` | 2 calls of any of the four kinds, 3 tokens, 2 withdrawn, the clock stands still | type, `WriteAppliedOnce`, `RetryTokenIsNew`, `HonestAnswers`, `DeadlinedCallsEnd` |
| `KBPublish_batch` | 2 jobs, 2 articles, 3 rows, 1 retry; the scenes of `MCScenes` | type, `PublishedIsTrue`, `NoDuplicatesPublished`, `PublishedOnce`, `BatchEnds` |
| `WriteTools` | one publish job or two beside 2 tool calls, 3 rows, reads that fail and not | `UpdateHitsDraft`, `RetiredMeansGone`, `AnswersTrue`, `DuplicatesNeedClash`, `ReportPredictsPublish`, `KBToolsEnd` |
| `Pagination` | 6 rows, pages of 2, caps 3, 4 and 5, every combination of changes and failures | type, `NoneLost`, `NoneTwice`, `AsOneQuery`, `QueryEnds` |
| `CIProbe` | 4 CIs, semaphore of 3, limits 3 and 2, one change of class | type, `FirstListed`, `FoundIfThere`, `SimilarComplete`, `CallEnds` |
| `Dates` | every day from December 2019 to January 2022, ranges to two months long | `MonthRangeExact`, `WeekIsIso`, `TextRangeExact`, `WholeDays` |
| `QueryTools` | some 10 000 calls of every query tool, any GET failing | `SelectsWhatIsMeant`, `NothingSensitive`, `SimilarIsSimilar`, `CanonicalIfComplete`, `PhraseMet` |
| `RequestExecutor_false_success`, `KBPublish_old_version`, `QueryTools_example`, `QueryTools_sla_window` | one or two calls | violated: see below |

*Bounds.* In `TokenStore` two tasks reach every pairwise race on the lock; the third
makes a task queue behind another while a fetch is under way, and makes a renewal
that finds a queue join it again. `MaxTokens`, `MaxTime` and `MaxRevoked` bound the
environment (how many tokens the endpoint mints, how long a behaviour lasts, how
many tokens are withdrawn), never the code. A life of 1 with buffer 1 is one that
never makes a usable token. In `RequestExecutor` two calls race for a new token, and
two withdrawals refuse a retry as well; a third call and a clock that goes on are
left to the theorems, which hold for any number of both.

Two articles and a row to spare are what a new version needs; two jobs race, and
with a concurrency of 1 one of them queues. `MaxRetries` is 1, the code's own value.
The scenes take every state of the three rows with at most one draft and one
published row of a number. In `WriteTools` the versions of an article have one title
or two, and an update gives the other article's title, a new one or none. Beside the
tools of `WriteTools` the job does not retry: what a retry does to the rows is a
publish like the first.

Six rows and pages of 2 give up to three pages and an exactly full last one; the
caps end a query inside a page and at its end. The CI is shown by several candidate
tables, in each of two orders of network gear and hardware, or by the root alone of
the candidates, with attributes shared by all, some or none of the other CIs,
displayed as they are stored or otherwise; with four rows for limits of 3 and 2 the
limits cut. Two years have a leap day, three turns of a year and a week 53.

The calls of `QueryTools` are: a dictionary with every form of a filter the handlers
know, and with four that come out wrong, alone and in pairs, in both orders, on a
table with and one without the catalog policy; lists of priorities, by their numbers
and as P1 and P2; dates that are refused; the SLA presets with and without a further
filter; texts with keywords, with none, on an unknown table and on `task_sla`, which
has no descriptions; every number, for the record and for the ones similar to it;
the versions of two articles, each subset of them, under caps that cut and that do
not; phrases with one cue each, or none, of four kinds, with a context, and some of
them for a table that is not configured. The rows of a table differ in every pair of
fields that a call combines, so that a lost condition shows.

What these runs assume:

- a capped query has fewer matching rows than its cap, but for the KB lists by
  state, whose cap is the point of `CanonicalIfComplete`;
- the catalog policy is about fields of `sc_req_item` and `sc_task`; the rows
  with those fields are of `sc_req_item`;
- the instance ignores a condition whose field it does not know, the default of
  the platform (with `glide.invalid_query.returns_no_rows` set, such a query
  answers nothing: the rows of `QueryTools_sla_window` would be too few instead
  of too many);
- the instance lets a text condition find a text within a word, as
  `constants.py:74` has it ("contains"): "down" is found in "vpn download";
- a KB or task write that is answered with a 2xx was carried out (`ServeWrite`): the
  code has nothing but the status to go by (`kb_article_tools.py:131-132`);
- where a phrase matches a template, only the phrases that say nothing else are
  called: a template takes the place of every other cue (`QueryTools_example`);
- `SelectsWhatIsMeant` leaves out the calls whose queries have an `&` or `^NQ`, the two
  forms of `Misread`, priorities as P1 and P2, and a text search of a table without
  descriptions. All of these are among the calls, and the other properties are checked
  of them; `NothingSensitive` too leaves out an `&` and `^NQ`;
- `PhraseMet` is checked of phrases with one cue of a kind. Templates with further
  cues, `exclude_resolved`, "last week", "yesterday" and "high priority" are not among
  them: what these come to is listed below.

*Deadlock* is not checked: tasks, jobs and tools finish, the environment's bounds
are used up, and the calendar ends.

*Fairness.* The event loop runs every coroutine that can run (`Acquire`,
`CallStep`, `JobStep`, `ToolStep`, `GetPage`). A token request ends, because its
POST has a timeout of its own of 30 s. A deadline passes. A GET ends, because of
`fail_after(30)`; a publish POST because of `fail_after(180)`. No fairness is
assumed of the instance: that it serves a request, grants a token, finishes a
workflow, or that a dead connection is noticed.

## Where the code and its own text differ

Each of these is a run that TLC finds violated; the quotes are in `PROJECT.json`.

- `RequestExecutor_false_success`: a write whose connection breaks is answered
  "successful but no data returned".
- `KBPublish_old_version`: the published row of the version before confirms a
  publish that did not run.
- `QueryTools_example`: an example of the docstring of `intelligent_search`,
  "unassigned P1 changes today", matches a template that drops two of its three
  cues.
- `QueryTools_sla_window`: the window of days of the breached preset is a
  condition whose field is named twice, so that it restricts nothing.

The models show more that has no run of its own, and limits what the properties
may say:

- *Values that end or branch the query.* `&` is in the safe set of the URL
  (`generic_table_tools.py:635`, `url_builder.py:35`), so that a value such as `R&D`
  ends `sysparm_query`, and the conditions after it, the exclusions of the policy
  included, do not reach the instance. `constants.py:90` tells callers of `^NQ`,
  which begins another query whose rows are added: conditions appended after it bind
  the last one only. The comment at `cmdb_tools.py:214-215` knows this of the
  searches for CIs; there `&` and `^` in a value are not modelled.
- *Titles.* The duplicate report reads the title of whichever version of an article
  comes first, the publish that of the draft: of an article whose versions differ in
  title the report may be wrong. An update of `short_description` between check and
  publish makes a duplicate no check sees (`DuplicatesNeedClash` says that it takes one).
- *Displayed values.* `similar_cis_for_ci` asks for location and status as they are
  displayed (`cmdb_tools.py:250`, `:311-314`), in conditions on what is stored;
  where the two differ the search finds none, not even the CI itself.
- *Order of candidates.* The comment at `cmdb_tools.py:282` calls the list of tables
  most-specific first. Whether it is, depends on the classes of the instance, of which
  the repository says nothing; `FirstListed` is about the list as it stands.
- *Failures.* A failed read passes the duplicate check, lets the job fire again
  though the article may be published, ends a query as if it were complete
  (`generic_table_tools.py:702`), or is answered as no records or by a fallback
  search. A publish without a token aborts the answer of the whole batch
  (`kb_article_tools.py:343`, while the other jobs run on).
- *Deadlines.* A private task write has none, and the pooled client no timeout
  (`http_pool.py:16-18`): under a silent instance it may never end, and
  `DeadlinedCallsEnd` is not about it.
- *Clock and tokens.* The expiry is in naive local time, so that a clock set back
  keeps a token in use too long; after a 401 `clear` discards whatever is
  cached, so that each of several calls refused together fetches a token.
- *Pages.* Offsets repeat a row when the table grows between two pages
  (`NoneTwice` excludes it).
- *Filters whose condition has a wrong field.* `exclude_resolved` and the template
  `active_p1_p2` give the field `state` a value that names it again: of
  `statestate!=6^state!=7^state!=8` the first condition is ignored, and resolved
  records stay in. `BETWEENa@b` on `sys_created_on` is sent without its field.
  The second half of "last week", "yesterday" and "last month",
  `^<=...`, names no field, so that these have no upper end. `priority=1` given
  as the value of `priority` becomes `priority=riority=1`, and `IN1,2` becomes
  `priority=IN1^ORpriority=2`.
- *Values taken for operators.* A value that begins with ON is read as the
  operator of dates, "ONLINE" as much as "ONToday"; the comment at
  `generic_table_tools.py:240` says otherwise.
- *Phrases.* "high priority" is P2 alone, and not P1 or P2, as its pattern has it. A
  caller excluded by the phrase gives way to one of the context, though both could
  hold. The intelligent search of a table that is not configured is not refused, and
  answers with an error only when its filters find nothing
  (`generic_table_tools.py:884-893`). A known caller is known only where a stop word
  or nothing follows its name: "without caller logicmonitor today" excludes
  "logicmonitor today". And "logicmonitor on Monday" is cut at the letters "on"
  within the name, to "logicm", "logicmonitor or" at "or", to "logicmonit"
  (`intelligence.py:193`).
- *Tools.* `get_priority_incidents` documents `["P1","P2"]` and does not convert
  them. `_month_name_to_num` documents abbreviations and knows full names only.
  The record and its similar ones cannot be asked for of `task_sla`, which has no
  number. `similar_knowledge_for_text` leaves its text aside when a category or a
  base is given. A CI type that is not in `CI_TABLES` is ignored. The encoded
  query in the debug block is built a second time, and is not the one sent.

## Proofs

For every set of tasks, jobs, tools, articles, rows and CIs, every bound and every
scene, from the named assumptions of the modules:

| Module | Theorem | Property |
|---|---|---|
| `TokenStoreProofs` | `TypeCorrect` | `StoreTypeOK` |
| | `OneFetchAtATime` | `LockHeldAcrossFetch` |
| | `CacheHitFresh` | `CacheHitIsFresh` |
| | `CacheForward` | `CacheMovesForward` |
| | `StoreImplementsCache` | `ImplementsCache`, of the store alone |
| `RequestExecutorProofs` | `CallsRunTheStore` | `StoreSpec`, the store's specification |
| | `CallsSeeTheCell` | `ImplementsCache`, under the executor |
| | `CallTypeCorrect` | `TypeOK` |
| | `WritesAppliedOnce` | `WriteAppliedOnce` |
| | `AnswersAreHonest` | `HonestAnswers` |
| | `RetryUsesNewToken` | `RetryTokenIsNew` |
| `KBPublishProofs` | `BatchTypeCorrect` | `TypeOK` |
| | `PublishedRowsAreTrue` | `PublishedIsTrue` |
| | `BatchLeavesNoDuplicates` | `NoDuplicatesPublished` |
| | `ArticlePublishedOnce` | `PublishedOnce` |
| `WriteToolsProofs` | `ToolAnswersAreTrue` | `AnswersTrue` |
| | `UpdatesHitDrafts` | `UpdateHitsDraft` |
| | `RetiredIsGone` | `RetiredMeansGone` |
| | `ToolsLeaveNoDuplicates` | `DuplicatesNeedClash` |
| | `ReportsPredict` | `ReportPredictsPublish` |
| `PaginationProofs` | `QueryTypeCorrect` | `TypeOK` |
| | `NoRowIsLost` | `NoneLost` |
| | `NoRowTwice` | `NoneTwice` |
| | `PagesAreOneQuery` | `AsOneQuery` |
| `CIProbeProofs` | `CITypeCorrect` | `CITypeOK` |
| | `FirstListedAnswers` | `FirstListed` |
| | `ExistingIsFound` | `FoundIfThere` |
| | `SimilarAreAll` | `SimilarComplete` |
| `DatesProofs` | `MonthsAreExact` | `MonthRangeExact` |
| | `WeeksAreIso` | `WeekIsIso` |
| | `TextsAreExact` | `TextRangeExact` |
| | `DaysAreWhole` | `WholeDays` |
| `QueryToolsProofs` | `PolicyIsExact` | of every whole query the exclusions are added to |
| | `TextSelectsWords` | of every text search |
| | `EachFilterAlone` | of every dictionary of filters without `&` and `^NQ` |
| | `FilterFormsAreExact` | of every filter in one of the forms |
| | `PriorityIsExact` | of every query for priorities by their numbers |
| | `AnswersAreAsAsked` | `AnswersAsAsked`, of every answer of a filtering tool |
| | `PhraseAndContext` | `AnswersBoth`, of every answer to a phrase |
| | `ContextKept` | `ContextIsKept`, of every answer to a phrase |
| | `NothingSensitiveShown` | `NothingSensitive` |
| | `SimilarAreSimilar` | `SimilarIsSimilar` |
| | `MergeIsCanonical` | the merge of article versions |
| | `CanonicalWhenComplete` | `CanonicalIfComplete` |

*Assumptions.* Most say that a constant is a natural, a finite set or a function of
the right type, or that a marker is not a member of the set it marks. Twelve say more:

- `DraftsAssumption` (`KBPublish`): at the start an article has one draft at most, as on
  the platform, where a checkout makes one. A publish reads the title of the draft it
  finds; with two drafts it could publish the other.
- `VersionsAssumption` (`WriteTools`): at the start an article has one published
  row at most. The instance outdates the version before when it publishes, and
  `retire_knowledge_article` asks for one published row; with two, a retirement
  would leave the other. Only `RetiredIsGone` rests on it.
- `ProbeAssumption` (`CIProbe`): the limit of the similar-CI search exceeds the limit
  of what is returned (100 and 20 in the code), so that dropping the CI itself
  cannot leave one out.
- `RowsAssumption` (`Pagination`): finitely many rows, each the number of its
  `sys_created_on`, and hence no two created at once (see *Not modelled*).
- `CallsAssumption` (`QueryTools`): keys and values of a call's filters are
  sequences of tokens that are not empty, and its priorities and texts are sequences
  of tokens: which tokens is left open, `^`, `^OR`, `^NQ` and `&` may be anywhere in
  them. A table asked for by priority has that field, as all those `Refused` lets
  through have.
- `ContextAssumption` (`QueryTools`): what the parser makes of a phrase has the same
  shape; a context names two days, and callers with no operator in their names.
- `LookupAssumption` (`QueryTools`): what the tables of date texts and of known
  callers give are words, and names.
- `PolicyAssumption` (`QueryTools`): the two fields the catalog exclusions name are
  fields of the tables they are added for. A condition on a field that a table lacks is
  ignored by the instance, and an exclusion on one would exclude nothing.
- `WordsAssumption` (`QueryTools`): no content word and no record number has a `^`
  or `&` in it. The regular expressions of `utils.py` take letters and digits alone.
- `SimilarAssumption` (`QueryTools`): similar records are asked for by a number with no
  operator in it, of a table that has numbers and descriptions, which are texts.
- `KnowledgeAssumption` (`QueryTools`): the list by state is asked for by a category and a
  base with no operator in them, and its finitely many versions are in states of the
  workflow, the five the code ranks. (A version in another state would
  rank after these.)
- `DatesAssumption` (`Dates`): the calendar begins after its first year, so that
  "yesterday" and "the year of the Thursday" exist.

*The store.* `StoreTypeOK` is inductive, and so is `LockHeldAcrossFetch` with it:
no step takes the lock but from a free one. `CacheHitIsFresh` is not inductive. `Inv` adds
what a fetch under way knows (`FetchInv`: the cache is of no use while one runs,
its `now` is past, and the token of its reply is the newest and was granted after
that `now`) and what the cache knows (`CacheInv`: its expiry is no later than the
server's, or, after a malformed reply, has passed). That the cache is of no use
during a fetch is the heart of it: it holds since only the lock's owner writes
the cache, and it is why the old expiry beside a new token after a malformed
reply does no harm. `CacheForward` follows from `FetchInv`.

*The refinement.* One lemma for each kind of step of the store shows which step of
`TokenCache` it is; queueing, waking, clocks and grants that only the endpoint
sees are stutters or the abstract grant. The one step that needs more than its
own definition is a reply: that its token is newer than every token given to
anybody is `FetchInv`.

*The executor.* `StepIsStoreStep` shows that each step of a call is a step of the
store or leaves it alone. Hence `CallsRunTheStore`, and through it everything
proved of the store, the refinement included. `CallInv`
follows a write on its way: a request that is on the wire or refused has left no
trace, one carried out is never sent again; `WritesAppliedOnce` and
`AnswersAreHonest` are its conjuncts. `RetryUsesNewToken` needs `RenewInv`: while
a call renews after a 401, the reply it waits for, and, while it queues, the
cache and every reply under way, hold tokens newer than the 401. It is an
invariant because `clear` empties the cache before the call can queue, and
because whoever fills it then does so with the newest token.

*The batch.* `JobInv` says that a job's row, and the row of each of its requests,
are its article's. A published row stays or is replaced by a later published one
(`PublishedStays`), hence `PublishedRowsAreTrue`. `SubjectInv` says that the title a
job has read is that of its article's draft, as long as reads succeed (`OneDraft`:
there is one). `ClearInv` says that a row which was published in this batch, or may
be without another check, has its title for itself among these and the published
rows: drafts count as duplicates too, so that of two articles with one title neither
passes, and a publish makes no title's rows more. `OnceInv` says that every request
belongs to the job that waits for it, and that the job of a published article is
about to read the row that ends it.

*The other writes.* `ToolInv` is the order a call goes through: nothing is written
before it is sent, what is sent is written once at most (`OrderInv`), and a write
goes to a row of the article that was named, looked up no later than now
(`TargetInv`). `ToolAnswersAreTrue` is in it. `WriteInv` relates the row of a write
still to come to the number of publishes its lookup had seen: an update's row is a
draft or there was one since (`DraftInv`); a retirement's row is or was published,
and, if there was none since, is the only published one of its article (`RetireInv`,
which needs `OneVersion`). Neither is inductive without the steps of the batch in
the picture: a draft ceases to be one by a publish alone, and that counts. For
`ToolsLeaveNoDuplicates` the invariants of the batch are carried through the steps
of the tools (`ClashInv`). A retirement only takes rows away. An update that gives a
new title leaves `SubjectInv` and `ClearInv` alone if its row is not published and
no job is about to publish its article: then the row is not one that `ClearInv` is
about, and no job has read the title that is lost. Otherwise it is a clash, which
stays one in the record of the write (`HitsStay`), and the property claims nothing.
For `ReportsPredict`, while no title has been changed and nothing retired, all
versions of an article have its one title (`OneTitleNow`), and whether it has a twin
is the same at every moment (`TwinsStay`): a publish makes a draft live, and both
count; a new draft is of an article that had a row before. `ReadsInv` then says that
each job and report has read that title, and has answered as there is a twin or not.

*Pages.* The proofs speak of the *place* of a row: how many matching rows are not
older. `PlaceMonotonic` and `EveryPlaceTaken` (by the finite-set theorem on
injections) make places and indexes of a listing the same thing. `KeptInv` then says,
while rows only come, that every row which stayed and whose place is within the
offset is collected already: rows that come can only move it on. `OnceInv` says,
while rows only go, that every collected row which is left stands before the
next page: rows that go can only move it back. `SameInv` says, while nothing
changes, that the collected rows are a prefix of the listing. They are one
invariant with `CollectInv`, that a query goes on only after full pages, so that
offset and number of rows agree.

*CI tools.* `CallInv` says what a call has at each stage, `AnswersInv` what each
probe's answer says of the CI: that a table which found nothing did not show it at
some time, and, if it was the root table, that it is gone. `past`, the sets of
tables that have shown the CI since the call, makes the answers comparable: a table
that is in all of them has given a row or failed, one that has given a row is in one
of them. `FirstListedAnswers` follows, as `Collect` waits for all; `SimilarAreAll`
adds a lemma on subsets of a given size.

*Dates.* No step is the difficulty here, but arithmetic. `NewYearsInOrder` and
`YearLength` give the first days of years their order; `YearOfDay` finds the year of
a day as the least one whose successor begins later; `MonthOfDay` finds the month in
it, by the table of lengths. `DateOfDay` and `DayOfDate`
(`FromOrdinal` and `Ordinal` are inverse) follow, and the four properties from
them, for every day of every year, the centuries that have no leap day included.

*Queries.* `PartsOfBoth` is the heart: the parts of a text, a separator and a text
are those of the one and those of the other. It needs that the cuts of the whole are
those of the two and the one between. `JoinSteps` unfolds a join text by text, and
`PartsOfJoin` goes along it. The library's induction theorems cannot be used here,
so that such arguments take the least step where the claim would fail
(`LeastNatural`, `AllUpTo`). With them a query is read in terms of what it was built
from: `SelectsBoth` (two queries with `^` between them select what both select),
`SelectsAll`, and `SelectsAny` for alternatives with `^OR`, which must be single
conditions. A query that is `Intact`, without `&` and `^NQ`, is what the instance
reads (`IntactReturns`), and stays so under the exclusions (`ExclusionsAdded`); one
built of words and names is (`WholeText`). Where a caller's value comes in, that is
a hypothesis, and a real one: see *Values that end or branch the query*. The four
theorems on queries follow: `PolicyIsExact`, as each exclusion that
`_apply_domain_filters` appends is a query of its own; `TextSelectsWords`,
`EachFilterAlone` and `PriorityIsExact`, which say that no part of a query reaches
into another, the alternatives included. What a text alone comes to is left to the
leaf: `ConditionOfThree` for the conditions of field, operator and value.

What the handlers make of one filter is the next step. For each form of
`FilterReading` there is a lemma on the condition that comes out of the chain: that the
handlers before its own pass it by, since a name is nothing they look for
(`NamesAreNames`, `FieldsAreFields`), and what its own writes (`EqualityCondition`, and
so on); and one on the rows this condition selects (`OneComparisonSelects`,
`OneTextSelects`, `BetweenSelects`; the lists by `SelectsAny` and `SelectsAll`).
`FilterFormsAreExact` puts them together: for every field, value, list and row, the
condition selects what the form says. A form that is not exact, as `IN1,2` for a
priority, is none of `FilterReading`.

`AsAsked` is what a call asks for by this reading: the rows that each of its filters
asks for by itself, or those with one of its keywords. `FirstQuerySelects` says that
the first query of a call selects just these of the rows that may be shown, and
`FirstInv`, over `AskedInv`, that it is the query in hand while the call reads, and
that it was answered (`AnswersAsAsked`): rows that are asked for and visible, all of
them where no cap cuts and no GET failed, and none in a refusal. The conditions are
those that the calls must meet for it to be true: the queries sent are whole,
priorities are numbers, and a table searched for text has descriptions (`Plainly`).
What a caller *means* is a part of the call and no part of the program, so that
`SelectsWhatIsMeant` is for TLC: a theorem would have to assume what each filter
means. By `AnswersAreAsAsked` the answers of the run are `AsAsked`, and TLC finds
them to be what is meant. So is `PhraseMet`: whether a phrase is *read* as it is
meant cannot be said without a list of phrases.

Of a context it can be proved outright. `Update` puts an entry of the context in the
place of the phrase's on the same key and keeps the others (`UpdateHas`,
`ContextInFilters`), so that an answer satisfies each entry of the context and each
entry of the phrase on a key the context leaves (`PhraseAndContext`). `ContextKeeps`
reads the entries of a context, and `ContextKept` follows: whatever the phrase, an
answer that is no fallback keeps to the dates, leaves out the callers, and shows the
caller's own records where these were asked for. With `exclude_resolved` it shows no
row in state 7 or 8; state 6 is not in the theorem since it is not in the code
(`intelligence.py:21`).

`AskedInv` says that each request of a call carries the exclusions, the second
search of `find_similar_records` and the fallback of `query_table_intelligently`
included; `NothingSensitiveShown` follows. `SimilarInv` follows a call through its
two GETs: the first selects records of the number (`ReadsOriginals`), the second
asks for words of the description of one of them. That keywords are words of their
text (`KeywordsAreWords`) rests on `NthPosition`, the order of the positions that
are kept. `SharesAWord` then gives `SimilarAreSimilar`. No function of the code
writes `^NQ` or `&`, so that both theorems hold of every search by number or for
text; a filter may bring one.

`MergeIsCanonical` takes a version's rank for the place of its state (`RankOfState`)
and finds the best of any versions, infinitely many included, since there are five
ranks (`BestVersion`); the entry of an article then depends on its versions alone
(`EntryOfVersions`). For `CanonicalWhenComplete` the merge must have been given all
of them: `KnowledgeSelects` says that the query for a category and a base selects
their versions and no others, `BelowTheCap` that an answer which is not cut short
has every one.

*Only model-checked.* Every safety property of the passing runs is stated by a
theorem, but for `SelectsWhatIsMeant` and `PhraseMet`, which compare answers with
what callers mean. They are left to TLC, and so is every liveness property
(`EveryCallerLeaves`, `DeadlinedCallsEnd`, `BatchEnds`, `KBToolsEnd`, `QueryEnds`,
`CallEnds`): liveness under fairness is beyond the proof system. The four violated
runs are counterexamples, and need no proof.

## Not modelled

- The connection pool (`oauth/http_pool.py`): its queue is httpx's. Writes that
  hang may use it up; see the hazards.
- Rows with equal `sys_created_on`: the order ServiceNow gives them, and whether
  it is the same for each page, cannot be read from this repository.
- URL builder and response parser: percent-encoding, but for the end of a query at
  `&`, and the flattening of display values, character by character. The queries here
  are tokens.
- Query validation (`filter/validator.py`): warnings and suggestions in words.
  Its one decision has nothing to correct in the filters the parser gives.
- The explanations, SQL wording and debug blocks of `filter/` and of
  `intelligent_search` and the metadata of `get_priority_incidents`: they describe an
  answer and change nothing in it. `validate_date_format` is a condition of `Refused`, and
  which texts it accepts is not modelled.
- `get_all_ci_types`, one GET without a decision; `refine_query`, which nothing
  calls.
- The httpx timeout arms of the executor: the pooled client has no timeout, so
  a request never raises one.
- Server, tool registry, audit log, configuration, scripts and packaging keep no
  state that a property could be about.

## What could follow

- A reading of phrases beside the parser's, as `FilterReading` is one of filters: a
  cue and what it means, so that `PhraseMet` can be proved of every phrase of it.
- A run of `RequestExecutor` with three calls and a moving clock.
- The text filters that come out wrong, each as a property of its own.
