---------------------------- MODULE MCKBPublish ----------------------------
\* Model checking of KBPublish on small instances.
EXTENDS KBPublish, TLC

CONSTANTS kb1, kb2, r1, r2, r3, same, other

MCArticles == {kb1, kb2}
MCRows == {r1, r2, r3}
MCTitles == {same, other}

\* kb1 has versions r1 and r2, kb2 has r3.
MCArticleOfRow == r1 :> kb1 @@ r2 :> kb1 @@ r3 :> kb2

Both  == 1 :> kb1 @@ 2 :> kb2
Twice == 1 :> kb1 @@ 2 :> kb1
One   == 1 :> kb1
SameTitle == [r \in MCRows |-> same]
TwoTitles == r1 :> same @@ r2 :> same @@ r3 :> other

\* A new version with another title than the one before it.
NewTitle == r1 :> same @@ r2 :> other @@ r3 :> other

DraftsOfBoth == r1 :> "draft" @@ r2 :> "absent" @@ r3 :> "draft"
NewVersion == r1 :> "published" @@ r2 :> "draft" @@ r3 :> "draft"

\* Whatever the instance may hold: one draft and one published row of a number.
AnyFirst ==
    {f \in [MCRows -> States] :
        \A s \in {"draft", "published"} : f[r1] # s \/ f[r2] # s}

\* Two articles from any state, where reads succeed; and everything may fail,
\* for two jobs of one article, or of two, with any number of slots.
MCScenes ==
    [articleOf : {Both}, titleOf : {SameTitle, TwoTitles, NewTitle}, concurrency : {2},
     first : AnyFirst, failing : {{}, {"call", "token"}}]
    \cup
    [articleOf : {Both, Twice}, titleOf : {TwoTitles}, concurrency : {0, 1, 2},
     first : {DraftsOfBoth, NewVersion}, failing : {Failures}]

\* One article with a published version and a new draft.
NewVersionAlone ==
    [articleOf : {One}, titleOf : {TwoTitles}, concurrency : {1},
     first : {NewVersion}, failing : {{}}]
=============================================================================
