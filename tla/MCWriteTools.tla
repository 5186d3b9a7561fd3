---------------------------- MODULE MCWriteTools ----------------------------
\* Model checking of WriteTools: a publish job or two beside two tool calls.
EXTENDS WriteTools, TLC

CONSTANTS kb1, kb2, noNumber, r1, r2, r3, same, other, call1, call2, vtb1

MCArticles == {kb1, kb2, noNumber}
MCRows == {r1, r2, r3}
MCArticleOfRow == r1 :> kb1 @@ r2 :> kb1 @@ r3 :> kb2

\* kb1 has a draft, a published version, or both, of one title or of two; kb2 may have
\* the title of either.
Start(s1, s2, s3, t1, t2) ==
    [first |-> r1 :> s1 @@ r2 :> s2 @@ r3 :> s3, titleOf |-> r1 :> t1 @@ r2 :> t2 @@ r3 :> same]
Starts ==
    {Start(s1, "absent", s3, t, t) :
       s1 \in {"draft", "published"}, s3 \in {"review", "published"}, t \in {same, other}}
    \cup {Start("published", "draft", "published", t1, t2) : t1 \in {same, other}, t2 \in {same, other}}

\* One job, of kb1, with no failure or with any; and two at once, of which the second
\* is of kb2.
Scene(s, articles, f) ==
    [articleOf |-> articles, concurrency |-> 2, first |-> s.first, titleOf |-> s.titleOf, failing |-> f]
OnlyKB1 == 1 :> kb1 @@ 2 :> noNumber
Both == 1 :> kb1 @@ 2 :> kb2
MCScenes ==
    {[Scene(s, OnlyKB1, {}) EXCEPT !.concurrency = 1] : s \in Starts}
    \cup {[Scene(Start(s1, "draft", "published", t, t), OnlyKB1, Failures) EXCEPT !.concurrency = 1] :
             s1 \in {"published", "absent"}, t \in {same, other}}
    \cup {Scene(Start("draft", "absent", "draft", t, t), Both, {}) : t \in {same, other}}

Call(kind, number, t) == [kind |-> kind, number |-> number, data |-> TRUE, title |-> t]
Calls(kind, number) == Call(kind, number, NoTitle)
Empty(kind) == [kind |-> kind, number |-> kb1, data |-> FALSE, title |-> NoTitle]

\* The KB tools two by two, and beside one for a private task; updates with and
\* without a title, and empty payloads.
MCToolCalls ==
    {call1 :> p[1] @@ call2 :> p[2] : p \in {
        <<Call("update", kb1, same), Calls("retire", kb1)>>,
        <<Call("update", kb1, same), Calls("report", kb1)>>,
        <<Call("update", kb1, same), Call("update", kb1, other)>>,
        <<Call("update", kb1, same), Call("update", kb2, other)>>,
        <<Calls("retire", kb2), Calls("report", kb1)>>,
        <<Calls("report", kb1), Calls("report", kb2)>>,
        <<Calls("update", kb2), Calls("taskUpdate", vtb1)>>,
        <<Calls("retire", kb1), Calls("taskCreate", vtb1)>>,
        <<Empty("update"), Empty("taskUpdate")>>,
        <<Empty("taskCreate"), Calls("taskCreate", vtb1)>>}}
=============================================================================
