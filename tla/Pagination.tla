----------------------------- MODULE Pagination -----------------------------
(***************************************************************************)
(* A table query that needs several GETs: _make_paginated_request of        *)
(* Table_Tools/generic_table_tools.py, and the `truncated' flag that        *)
(* query_table_with_filters adds to its answer.                             *)
(*                                                                          *)
(* The pages are slices of the rows that match the query, newest first, by  *)
(* offset.  The table does not stand still in between: a row comes to match *)
(* (it is created, or changed) or ceases to.  Rows are named by the order   *)
(* of their sys_created_on, which is taken to be distinct.                  *)
(***************************************************************************)
EXTENDS Integers, Sequences, SequencesExt, FiniteSets

CONSTANTS
    Rows,        \* the rows that may match the query, a later one is a greater number
    PageSize,    \* page_size (250)
    Caps,        \* the values of max_results, within 1..1000
    Troubles     \* what may happen while a query runs, the sets to look at

\* A row comes to match the query, a row ceases to, make_nws_request returns
\* None for a page.
Trouble == {"enter", "leave", "fail"}

ASSUME RowsAssumption == Rows \subseteq Nat /\ IsFiniteSet(Rows)
ASSUME SizesAssumption == PageSize \in Nat \ {0} /\ Caps \subseteq Nat \ {0}
ASSUME TroublesAssumption == Troubles \subseteq SUBSET Trouble

VARIABLES
    trouble,   \* what may happen while this query runs
    maxResults, \* max_results
    matching,  \* the rows of the table that match the query
    stayed,    \* those that have matched ever since the query began
    offset,    \* offset
    collected, \* all_results
    answer     \* NoAnswer, or what query_table_with_filters returns

callVars == <<trouble, maxResults>>
tableVars == <<matching, stayed>>
queryVars == <<offset, collected, answer>>
vars == <<callVars, tableVars, queryVars>>

NoAnswer == <<>>

TypeOK ==
    /\ trouble \in Troubles
    /\ maxResults \in Caps
    /\ matching \in SUBSET Rows
    /\ stayed \in SUBSET matching
    /\ offset \in Nat /\ offset % PageSize = 0
    /\ collected \in Seq(Rows)
    /\ answer # NoAnswer => /\ answer.result \in Seq(Rows)
                            /\ Len(answer.result) <= maxResults
                            /\ answer.truncated \in BOOLEAN

Init ==
    /\ trouble \in Troubles
    /\ maxResults \in Caps
    /\ matching \in SUBSET Rows
    /\ stayed = matching
    /\ offset = 0
    /\ collected = <<>>
    /\ answer = NoAnswer

-----------------------------------------------------------------------------
\* The matching rows in the order of ORDERBYDESCsys_created_on.
Listing ==
    [i \in 1..Cardinality(matching) |->
        CHOOSE r \in matching : Cardinality({s \in matching : s >= r}) = i]

FirstOf(rows, n) == SubSeq(rows, 1, IF Len(rows) < n THEN Len(rows) ELSE n)

\* The page that ServiceNow cuts out of it.
Page == FirstOf(SubSeq(Listing, offset + 1, Len(Listing)), PageSize)

\* all_results[:max_results], and truncated.
AnswerOf(rows) == [result    |-> FirstOf(rows, maxResults),
                   truncated |-> Len(rows) >= maxResults]

\* A page shorter than page_size, or empty, is the last.
LastPageAtFull(page) == Len(page) <= PageSize   \* slip: off by one
LastPage(page) == Len(page) < PageSize

NextOffsetOneMore == offset + PageSize + 1   \* slip: off by one
NextOffsetOneLess == offset + PageSize - 1   \* slip: off by one
NextOffset == offset + PageSize

GetPageAgain ==   \* slip: continue, where an empty page breaks
    /\ answer = NoAnswer /\ Page # <<>>
    /\ LET rows == collected \o Page IN
       /\ collected' = rows
       /\ IF LastPage(Page) \/ Len(rows) >= maxResults
            THEN answer' = AnswerOf(rows) /\ UNCHANGED offset
            ELSE offset' = NextOffset /\ UNCHANGED answer
    /\ UNCHANGED <<callVars, tableVars>>

\* One turn of the loop: the GET of a page.
GetPage ==
    /\ answer = NoAnswer
    /\ LET rows == collected \o Page IN
       /\ collected' = rows
       /\ IF LastPage(Page) \/ Len(rows) >= maxResults
            THEN answer' = AnswerOf(rows) /\ UNCHANGED offset
            ELSE offset' = NextOffset /\ UNCHANGED answer
    /\ UNCHANGED <<callVars, tableVars>>

\* make_nws_request returns None, for an error or its deadline, and that ends
\* the loop like an empty page.
PageFails ==
    /\ "fail" \in trouble
    /\ answer = NoAnswer
    /\ answer' = AnswerOf(collected)
    /\ UNCHANGED <<callVars, tableVars, offset, collected>>

-----------------------------------------------------------------------------
\* The table changes while the query runs.
Enter(r) ==
    /\ "enter" \in trouble
    /\ answer = NoAnswer /\ r \notin matching
    /\ matching' = matching \cup {r}
    /\ UNCHANGED <<callVars, stayed, queryVars>>

Leave(r) ==
    /\ "leave" \in trouble
    /\ answer = NoAnswer /\ r \in matching
    /\ matching' = matching \ {r}
    /\ stayed' = stayed \ {r}
    /\ UNCHANGED <<callVars, queryVars>>

Next ==
    \/ GetPage \/ PageFails
    \/ \E r \in Rows : Enter(r) \/ Leave(r)

Spec == Init /\ [][Next]_vars

\* A GET ends, by its own deadline of 30 s if need be; the table may change
\* for ever.
FairSpec == Spec /\ WF_vars(GetPage \/ PageFails)

-----------------------------------------------------------------------------
(* Properties                                                               *)

Answered == answer # NoAnswer

\* While rows only come to match, a query loses none: an answer that is not
\* truncated has every row that matched all along, and a truncated one has no
\* hole, that is, it lacks no such row newer than one it has.
NoneLost ==
    Answered /\ trouble \subseteq {"enter"} =>
        \A r \in stayed :
            \/ r \in Range(answer.result)
            \/ answer.truncated /\ \A s \in Range(answer.result) : s > r

\* While rows only cease to match, a query answers no row twice,
\* also one that a failed page cuts short.
NoneTwice == Answered /\ "enter" \notin trouble => IsInjective(answer.result)

\* In a table that stands still, the pages add up to one query with the cap for
\* its limit: the newest max_results rows, newest first, and a flag that is
\* never off when there was more.
AsOneQuery ==
    Answered /\ trouble = {} =>
        /\ answer.result = FirstOf(Listing, maxResults)
        /\ Len(Listing) > maxResults => answer.truncated

\* The loop ends, though rows come and go for ever.
QueryEnds == <>Answered

=============================================================================
