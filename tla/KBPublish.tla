----------------------------- MODULE KBPublish -----------------------------
(***************************************************************************)
(* Publishing knowledge articles: Table_Tools/kb_article_tools.py,          *)
(* publish_knowledge_article and the batch of publish_knowledge_articles.   *)
(*                                                                          *)
(* A job is one entry of the batch.  It looks up the draft row of its       *)
(* article, looks for duplicates, fires the publish workflow, and then      *)
(* reads back whether a published row exists; while it does not, the job    *)
(* refreshes the row's sys_id and fires again, MaxRetries times at most.    *)
(*                                                                          *)
(* The workflow runs in the ServiceNow instance: a fired request may commit *)
(* before, after, or without an answer reaching the job, and also after the *)
(* job has stopped waiting for it.  What the instance holds is known from   *)
(* how the code queries it: an article number has one row per version, each *)
(* with a workflow state and a title of its own.                            *)
(***************************************************************************)
EXTENDS Integers, FiniteSets, FiniteSetsExt, Functions

CONSTANTS
    NumJobs,      \* entries of article_numbers
    Articles,     \* KB numbers
    Titles,       \* short descriptions
    Rows,         \* sys_ids of kb_knowledge rows
    ArticleOfRow, \* the number of a row
    MaxRetries,   \* KB_PUBLISH_MAX_RETRIES
    Scenes        \* the calls of the tool, and the circumstances, to look at

Jobs == 1..NumJobs
NoRow == "no row"
NoTitle == "no title"

States == {"absent", "draft", "review", "published", "outdated", "retired"}

\* What may fail: a GET comes back as None, a POST times out or loses its
\* connection, get_auth_headers raises on a POST.
Failures == {"read", "call", "token"}

ASSUME JobsAssumption == NumJobs \in Nat /\ MaxRetries \in Nat
ASSUME RowsAssumption == ArticleOfRow \in [Rows -> Articles] /\ NoRow \notin Rows
ASSUME ScenesAssumption ==
    Scenes \subseteq [articleOf   : [Jobs -> Articles],   \* article_numbers
                      titleOf     : [Rows -> Titles],     \* short descriptions at the start
                      concurrency : Int,
                      first       : [Rows -> States],
                      failing     : SUBSET Failures]

\* A published article has one draft of a new version at most.
ASSUME DraftsAssumption ==
    \A s \in Scenes, x, y \in Rows :
        ArticleOfRow[x] = ArticleOfRow[y] /\ s.first[x] = "draft" /\ s.first[y] = "draft" => x = y

VARIABLES
    scene,   \* the call of publish_knowledge_articles, and what may fail
    state,   \* workflow_state of each row
    title,   \* short_description of each row
    pending, \* fired requests the instance has not answered: <<job, attempt, row>>
    commits, \* how often a request of this batch has published each article
    pc,      \* where each job is
    row,     \* current_sys_id
    subject, \* the short_description of meta
    attempt, \* the loop variable of _publish_with_verify
    fireError, \* last_fire_error
    result,  \* the row of the job in the answer
    batch    \* the gather: running, answered, or raised

siteVars == <<scene, state, title, pending, commits>>
jobVars  == <<pc, row, subject, attempt, fireError, result>>
vars == <<siteVars, jobVars, batch>>

MayFail(what) == what \in scene.failing
ArticleOf(j) == scene.articleOf[j]

PCs == {"queued", "meta", "dedup", "fire", "wait", "verify", "refresh", "done"}
Results == {"none", "published", "blocked", "error"}

\* The loop of _publish_with_verify runs MaxRetries + 1 times at most.
TypeOK ==
    /\ scene \in Scenes
    /\ state \in [Rows -> States]
    /\ title \in [Rows -> Titles]
    /\ pending \in SUBSET (Jobs \X (0..MaxRetries) \X Rows)
    /\ commits \in [Articles -> Nat]
    /\ pc \in [Jobs -> PCs]
    /\ row \in [Jobs -> Rows \cup {NoRow}]
    /\ subject \in [Jobs -> Titles \cup {NoTitle}]
    /\ attempt \in [Jobs -> 0..MaxRetries]
    /\ fireError \in [Jobs -> {"none", "timeout", "status"}]
    /\ result \in [Jobs -> Results]
    /\ batch \in {"running", "answered", "raised"}

Init ==
    /\ scene \in Scenes
    /\ state = scene.first
    /\ title = scene.titleOf
    /\ pending = {}
    /\ commits = [a \in Articles |-> 0]
    /\ pc = [j \in Jobs |-> "queued"]
    /\ row = [j \in Jobs |-> NoRow]
    /\ subject = [j \in Jobs |-> NoTitle]
    /\ attempt = [j \in Jobs |-> 0]
    /\ fireError = [j \in Jobs |-> "none"]
    /\ result = [j \in Jobs |-> "none"]
    /\ batch = "running"

-----------------------------------------------------------------------------
\* The rows of article a in workflow state s, as a GET finds them.
Found(a, s) == {r \in Rows : ArticleOfRow[r] = a /\ state[r] = s}

\* KB_DUPLICATE_IGNORED_STATES
IgnoredAndDraft == {"retired", "outdated", "draft"}   \* slip: drafts are ignored as well
Ignored == {"retired", "outdated"}

\* The live rows of other articles than a with title s.
Duplicates(s, a) ==
    {r \in Rows : /\ title[r] = s
                  /\ ArticleOfRow[r] # a
                  /\ state[r] \notin Ignored \cup {"absent"}}

Goto(j, label) == pc' = [pc EXCEPT ![j] = label]

Finish(j, res) ==
    /\ Goto(j, "done")
    /\ result' = [result EXCEPT ![j] = res]
    /\ UNCHANGED <<row, subject, attempt, fireError>>

Active == {j \in Jobs : pc[j] \notin {"queued", "done"}}

SlotsAsGiven == scene.concurrency   \* slip: a concurrency of 0 lets no job in
Slots == Max({1, scene.concurrency})

\* The semaphore lets a job in, first come first.
Enter(j) ==
    /\ pc[j] = "queued" /\ \A i \in 1..(j - 1) : pc[i] # "queued"
    /\ Cardinality(Active) < Slots
    /\ Goto(j, "meta")
    /\ UNCHANGED <<siteVars, row, subject, attempt, fireError, result, batch>>

\* _get_kb_article_meta: a draft row and its title.
MetaOfAny(j) ==   \* slip: the title is that of any version
    {<<r, title[x]>> : r \in Found(ArticleOf(j), "draft"),
                       x \in UNION {Found(ArticleOf(j), s) : s \in States \ {"absent"}}}
Meta(j) == {<<r, title[r]>> : r \in Found(ArticleOf(j), "draft")}

LookUp(j) ==
    /\ pc[j] = "meta"
    /\ \/ \E m \in Meta(j) :
             /\ row' = [row EXCEPT ![j] = m[1]]
             /\ subject' = [subject EXCEPT ![j] = m[2]]
             /\ Goto(j, "dedup")
             /\ UNCHANGED <<attempt, fireError, result>>
       \/ /\ MayFail("read") \/ Meta(j) = {}
          /\ Finish(j, "error")
    /\ UNCHANGED <<siteVars, batch>>

\* _check_kb_duplicates: a GET that fails counts as "no duplicates".
CheckDuplicates(j) ==
    /\ pc[j] = "dedup"
    /\ \/ Duplicates(subject[j], ArticleOf(j)) # {} /\ Finish(j, "blocked")
       \/ /\ MayFail("read") \/ Duplicates(subject[j], ArticleOf(j)) = {}
          /\ Goto(j, "fire")
          /\ UNCHANGED <<row, subject, attempt, fireError, result>>
    /\ UNCHANGED <<siteVars, batch>>

\* _fire_publish sends the POST.
Fire(j) ==
    /\ pc[j] = "fire"
    /\ pending' = pending \cup {<<j, attempt[j], row[j]>>}
    /\ Goto(j, "wait")
    /\ UNCHANGED <<scene, state, title, commits, row, subject, attempt, fireError, result, batch>>

\* No token for it: the exception is none of those that _fire_publish catches,
\* and gather raises it at once; the other jobs run on.
FireRaises(j) ==
    /\ MayFail("token")
    /\ pc[j] = "fire"
    /\ Goto(j, "done")
    /\ batch' = "raised"
    /\ UNCHANGED <<siteVars, row, subject, attempt, fireError, result>>

\* _fire_publish returns with error e, or none; the job sleeps, then verifies.
FireReturns(j, e) ==
    /\ fireError' = [fireError EXCEPT ![j] = e]
    /\ Goto(j, "verify")
    /\ UNCHANGED <<row, subject, attempt, result, batch>>

\* The deadline of 180 s passes, which is one of the ways a call may fail.
GiveUpFire(j) ==
    /\ MayFail("call")
    /\ pc[j] = "wait"
    /\ FireReturns(j, "timeout")
    /\ UNCHANGED siteVars

\* The connection breaks: the executor returns None, and _fire_publish takes
\* that for success.
LoseFire(j) ==
    /\ MayFail("call")
    /\ pc[j] = "wait"
    /\ FireReturns(j, "none")
    /\ UNCHANGED siteVars

\* _verify_kb_published, and the end of the loop.
ConfirmedByNoDraft(j) == Found(ArticleOf(j), "draft") = {}   \* slip: look for no draft
ConfirmedOnFire(j) == fireError[j] = "none"   \* slip: trust the answer to the POST
Confirmed(j) == Found(ArticleOf(j), "published") # {}

RetriesLeftOneMore(j) == attempt[j] <= MaxRetries   \* slip: off by one
RetriesLeft(j) == attempt[j] < MaxRetries

Verify(j) ==
    /\ pc[j] = "verify"
    /\ \/ Confirmed(j) /\ Finish(j, "published")
       \/ /\ MayFail("read") \/ ~Confirmed(j)
          /\ \/ /\ RetriesLeft(j)
                /\ Goto(j, "refresh")
                /\ UNCHANGED <<row, subject, attempt, fireError, result>>
             \/ ~RetriesLeft(j) /\ Finish(j, "error")
    /\ UNCHANGED <<siteVars, batch>>

\* The draft may have got another sys_id; if none is found, the old one stays.
Refresh(j) ==
    /\ pc[j] = "refresh"
    /\ \/ \E r \in Found(ArticleOf(j), "draft") : row' = [row EXCEPT ![j] = r]
       \/ (MayFail("read") \/ Found(ArticleOf(j), "draft") = {}) /\ UNCHANGED row
    /\ attempt' = [attempt EXCEPT ![j] = @ + 1]
    /\ Goto(j, "fire")
    /\ UNCHANGED <<siteVars, subject, fireError, result, batch>>

\* gather has every row.
Answer ==
    /\ batch = "running"
    /\ \A j \in Jobs : pc[j] = "done"
    /\ batch' = "answered"
    /\ UNCHANGED <<siteVars, jobVars>>

-----------------------------------------------------------------------------
\* The instance answers a request: with the workflow done on a draft row, which
\* becomes the published version, outdates the one before it and may leave a new
\* draft with its text behind ("(draft, published) row pairs"), or without.
Publish(r) ==
    LET a == ArticleOfRow[r] IN
    /\ state[r] = "draft"
    /\ commits' = [commits EXCEPT ![a] = @ + 1]
    /\ \E new \in {{}} \cup {{n} : n \in Found(a, "absent")} :
          /\ state' = [x \in Rows |->
                         IF x = r THEN "published"
                         ELSE IF x \in Found(a, "published") THEN "outdated"
                         ELSE IF x \in new THEN "draft" ELSE state[x]]
          /\ title' = [x \in Rows |-> IF x \in new THEN title[r] ELSE title[x]]

Serve(f) ==
    LET j == f[1] IN
    /\ pending' = pending \ {f}
    /\ Publish(f[3]) \/ UNCHANGED <<state, title, commits>>
    /\ UNCHANGED scene
    /\ IF pc[j] = "wait" /\ attempt[j] = f[2]
         THEN \E e \in {"none", "status"} : FireReturns(j, e)
         ELSE UNCHANGED <<jobVars, batch>>

JobStep(j) ==
    \/ Enter(j) \/ LookUp(j) \/ CheckDuplicates(j)
    \/ Fire(j) \/ FireRaises(j) \/ GiveUpFire(j)
    \/ Verify(j) \/ Refresh(j)

Next ==
    \/ \E j \in Jobs : JobStep(j) \/ LoseFire(j)
    \/ Answer
    \/ \E f \in pending : Serve(f)

Spec == Init /\ [][Next]_vars

\* Each job runs on: reads end within their 30 s, and a fire within its 180 s
\* (GiveUpFire) even if the instance never answers it.
Fairness == (\A j \in Jobs : WF_vars(JobStep(j))) /\ WF_vars(Answer)
FairSpec == Spec /\ Fairness

-----------------------------------------------------------------------------
(* Properties                                                               *)

\* A row that says "published" is true of the instance, and stays true.
PublishedIsTrue ==
    \A j \in Jobs : result[j] = "published" => Found(ArticleOf(j), "published") # {}

\* The batch ends, though the instance may answer no fire at all.  (Where calls
\* may not fail, the deadline of a fire is left out and only an answer ends it.)
BatchEnds == MayFail("call") => <>(batch # "running")

\* While reads succeed, a batch never publishes an article under the title of another
\* published one, though its jobs check and publish at the same time, and a job that
\* fires again may publish another row than the one whose title was checked.
NoDuplicatesPublished ==
    ~MayFail("read") =>
        \A r, s \in Rows :
            /\ ArticleOfRow[r] # ArticleOfRow[s]
            /\ state[r] = "published" /\ commits[ArticleOfRow[r]] > 0
            /\ state[s] = "published"
            => title[r] # title[s]

\* While reads succeed, every fire is answered and no article is named twice,
\* each is published once at most: the job that fires again does so for a
\* workflow that ran to its end without publishing.
PublishedOnce ==
    ~MayFail("read") /\ ~MayFail("call") /\ IsInjective(scene.articleOf) =>
        \A a \in Articles : commits[a] <= 1

\* "Any row in the Published state confirms the workflow committed"
\* (kb_article_tools.py:153-154).
PublishedRowMeansCommitted ==
    \A j \in Jobs : result[j] = "published" => commits[ArticleOf(j)] > 0
=============================================================================
