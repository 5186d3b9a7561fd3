-------------------------- MODULE KBPublishProofs --------------------------
\* Proofs about KBPublish, for any number of jobs, articles, rows and retries.
EXTENDS KBPublish, TLAPS

USE JobsAssumption, RowsAssumption, ScenesAssumption

-----------------------------------------------------------------------------
(* Type correctness                                                         *)

\* The workflow publishes its row, outdates the version before it and may add one draft
\* with the title of its row; it touches no row of another article.
LEMMA PublishTouchesOwn ==
    ASSUME TypeOK, NEW r \in Rows, Publish(r)
    PROVE  /\ state[r] = "draft" /\ state'[r] = "published"
           /\ state' \in [Rows -> States] /\ title' \in [Rows -> Titles]
           /\ \A x \in Rows : ArticleOfRow[x] # ArticleOfRow[r] => state'[x] = state[x] /\ title'[x] = title[x]
           /\ commits' = [commits EXCEPT ![ArticleOfRow[r]] = @ + 1]
<1> DEFINE a == ArticleOfRow[r]
<1>1. PICK new \in {{}} \cup {{n} : n \in Found(a, "absent")} :
          /\ state' = [x \in Rows |->
                         IF x = r THEN "published"
                         ELSE IF x \in Found(a, "published") THEN "outdated"
                         ELSE IF x \in new THEN "draft" ELSE state[x]]
          /\ title' = [x \in Rows |-> IF x \in new THEN title[r] ELSE title[x]]
    BY DEF Publish
<1>2. \A x \in new : ArticleOfRow[x] = a
    BY DEF Found
<1>3. \A x \in Found(a, "published") : ArticleOfRow[x] = a
    BY DEF Found
<1>4. state' \in [Rows -> States] /\ title' \in [Rows -> Titles]
    BY <1>1 DEF TypeOK, States
<1>5. \A x \in Rows : ArticleOfRow[x] # a => state'[x] = state[x] /\ title'[x] = title[x]
    BY <1>1, <1>2, <1>3
<1>6. state'[r] = "published"
    BY <1>1
<1> QED
    BY <1>4, <1>5, <1>6 DEF Publish

\* What becomes of the rows of its article.
LEMMA PublishOwnRows ==
    ASSUME TypeOK, NEW r \in Rows, Publish(r)
    PROVE  /\ \A x \in Rows : x # r =>
                 /\ state[x] = "published" /\ ArticleOfRow[x] = ArticleOfRow[r] => state'[x] = "outdated"
                 /\ state[x] \notin {"published", "absent"} => state'[x] = state[x]
                 /\ state[x] = "absent" => state'[x] \in {"absent", "draft"}
           /\ \A x \in Rows : state[x] # "absent" => title'[x] = title[x]
           /\ \A x \in Rows : state[x] = "absent" /\ state'[x] # "absent" =>
                 ArticleOfRow[x] = ArticleOfRow[r] /\ title'[x] = title[r]
           /\ \A x, y \in Rows : /\ state[x] = "absent" /\ state'[x] # "absent"
                                  /\ state[y] = "absent" /\ state'[y] # "absent" => x = y
<1> DEFINE a == ArticleOfRow[r]
<1>1. PICK new \in {{}} \cup {{n} : n \in Found(a, "absent")} :
          /\ state' = [x \in Rows |->
                         IF x = r THEN "published"
                         ELSE IF x \in Found(a, "published") THEN "outdated"
                         ELSE IF x \in new THEN "draft" ELSE state[x]]
          /\ title' = [x \in Rows |-> IF x \in new THEN title[r] ELSE title[x]]
    BY DEF Publish
<1>2. state[r] = "draft"
    BY DEF Publish
<1>3. ASSUME NEW x \in Rows
      PROVE  /\ x \in new => state[x] = "absent" /\ ArticleOfRow[x] = a
             /\ x \in Found(a, "published") <=> ArticleOfRow[x] = a /\ state[x] = "published"
    BY DEF Found
<1>4. \A x, y \in new : x = y
    OBVIOUS
<1>5. ASSUME NEW x \in Rows
      PROVE  /\ state'[x] = IF x = r THEN "published" ELSE IF x \in Found(a, "published") THEN "outdated"
                            ELSE IF x \in new THEN "draft" ELSE state[x]
             /\ title'[x] = IF x \in new THEN title[r] ELSE title[x]
    BY <1>1
<1>6. ASSUME NEW x \in Rows, state[x] = "absent", state'[x] # "absent"
      PROVE  x \in new
    BY <1>2, <1>3, <1>5, <1>6
<1> QED
    BY <1>2, <1>3, <1>4, <1>5, <1>6

\* An answer of the instance to a request: the workflow ran, or nothing changed.
LEMMA ServeOutcome ==
    ASSUME TypeOK, NEW f \in pending, Serve(f)
    PROVE  /\ f[1] \in Jobs /\ f[3] \in Rows
           /\ pending' = pending \ {f} /\ scene' = scene
           /\ Publish(f[3]) \/ UNCHANGED <<state, title, commits>>
           /\ \/ /\ pc[f[1]] = "wait" /\ attempt[f[1]] = f[2]
                 /\ \E e \in {"none", "status"} : FireReturns(f[1], e)
              \/ UNCHANGED <<jobVars, batch>>
BY DEF Serve, TypeOK

LEMMA TypeInit == Init => TypeOK
<1>1. 0 \in 0..MaxRetries
    OBVIOUS
<1>2. ASSUME Init
      PROVE  state \in [Rows -> States] /\ title \in [Rows -> Titles]
    BY <1>2 DEF Init
<1> QED
    BY <1>1, <1>2 DEF Init, TypeOK, PCs, Results

LEMMA FinishType ==
    ASSUME TypeOK, NEW j \in Jobs, NEW res \in Results, Finish(j, res),
           UNCHANGED <<siteVars, batch>>
    PROVE  TypeOK'
BY DEF TypeOK, Finish, Goto, PCs, siteVars

\* A job at work has a row of its own article, and refreshes it only when it
\* may fire again.
AtWork == {"dedup", "fire", "wait", "verify", "refresh"}

JobInv ==
    /\ \A j \in Jobs :
          /\ pc[j] \in AtWork => row[j] \in Rows /\ ArticleOfRow[row[j]] = ArticleOf(j)
          /\ pc[j] = "refresh" => attempt[j] < MaxRetries
    /\ \A f \in pending : ArticleOfRow[f[3]] = ArticleOf(f[1])

LEMMA TypeStep ==
    ASSUME TypeOK, JobInv, [Next]_vars
    PROVE  TypeOK'
<1>1. ASSUME NEW j \in Jobs, Enter(j) \/ FireRaises(j)
      PROVE  TypeOK'
    BY <1>1 DEF Enter, FireRaises, TypeOK, Goto, PCs, siteVars
<1>2. ASSUME NEW j \in Jobs, LookUp(j)
      PROVE  TypeOK'
    <2>1. CASE Finish(j, "error")
        BY <1>2, <2>1, FinishType DEF LookUp, Results
    <2>2. CASE ~Finish(j, "error")
        BY <1>2, <2>2 DEF LookUp, Meta, Found, TypeOK, Goto, PCs, siteVars
    <2> QED
        BY <2>1, <2>2
<1>3. ASSUME NEW j \in Jobs, CheckDuplicates(j)
      PROVE  TypeOK'
    <2>1. CASE Finish(j, "blocked")
        BY <1>3, <2>1, FinishType DEF CheckDuplicates, Results
    <2>2. CASE ~Finish(j, "blocked")
        BY <1>3, <2>2 DEF CheckDuplicates, TypeOK, Goto, PCs, siteVars
    <2> QED
        BY <2>1, <2>2
<1>4. ASSUME NEW j \in Jobs, Fire(j)
      PROVE  TypeOK'
    BY <1>4 DEF Fire, JobInv, AtWork, TypeOK, Goto, PCs
<1>5. ASSUME NEW j \in Jobs, GiveUpFire(j) \/ LoseFire(j)
      PROVE  TypeOK'
    BY <1>5 DEF GiveUpFire, LoseFire, FireReturns, TypeOK, Goto, PCs, siteVars
<1>6. ASSUME NEW j \in Jobs, Verify(j)
      PROVE  TypeOK'
    <2>1. CASE \E res \in {"published", "error"} : Finish(j, res)
        BY <1>6, <2>1, FinishType DEF Verify, Results
    <2>2. CASE ~\E res \in {"published", "error"} : Finish(j, res)
        BY <1>6, <2>2 DEF Verify, TypeOK, Goto, PCs, siteVars
    <2> QED
        BY <2>1, <2>2
<1>7. ASSUME NEW j \in Jobs, Refresh(j)
      PROVE  TypeOK'
    <2>1. attempt[j] + 1 \in 0..MaxRetries
        BY <1>7 DEF Refresh, JobInv, TypeOK
    <2>2. row' \in [Jobs -> Rows \cup {NoRow}]
        BY <1>7 DEF Refresh, Found, TypeOK
    <2> QED
        BY <1>7, <2>1, <2>2 DEF Refresh, TypeOK, Goto, PCs, siteVars
<1>8. CASE Answer
    BY <1>8 DEF Answer, TypeOK, siteVars, jobVars
<1>9. ASSUME NEW f \in pending, Serve(f)
      PROVE  TypeOK'
    <2>1. /\ f[1] \in Jobs /\ f[3] \in Rows
          /\ pending' = pending \ {f} /\ scene' = scene
        BY <1>9, ServeOutcome
    <2>2. state' \in [Rows -> States] /\ title' \in [Rows -> Titles] /\ commits' \in [Articles -> Nat]
        <3>1. CASE Publish(f[3])
            <4>1. ArticleOfRow[f[3]] \in Articles
                BY <2>1
            <4> QED
                BY <2>1, <3>1, <4>1, PublishTouchesOwn DEF TypeOK
        <3>2. CASE UNCHANGED <<state, title, commits>>
            BY <3>2 DEF TypeOK
        <3> QED
            BY <1>9, <3>1, <3>2, ServeOutcome
    <2>3. \/ /\ pc' = [pc EXCEPT ![f[1]] = "verify"]
             /\ \E e \in {"none", "status"} : fireError' = [fireError EXCEPT ![f[1]] = e]
             /\ UNCHANGED <<row, subject, attempt, result, batch>>
          \/ UNCHANGED <<jobVars, batch>>
        BY <1>9, ServeOutcome DEF FireReturns, Goto
    <2> QED
        BY <2>1, <2>2, <2>3 DEF TypeOK, PCs, jobVars
<1>10. CASE UNCHANGED vars
    BY <1>10 DEF vars, siteVars, jobVars, TypeOK
<1> QED
    BY <1>1, <1>2, <1>3, <1>4, <1>5, <1>6, <1>7, <1>8, <1>9, <1>10 DEF Next, JobStep

LEMMA JobStepInv ==
    ASSUME TypeOK, JobInv, [Next]_vars
    PROVE  JobInv'
<1>1. scene' = scene
    BY ServeOutcome DEF Next, JobStep, Enter, LookUp, CheckDuplicates, Fire, FireRaises,
                        GiveUpFire, LoseFire, Verify, Refresh, Answer, siteVars, vars
<1>2. ASSUME NEW j \in Jobs, Enter(j) \/ CheckDuplicates(j) \/ FireRaises(j)
             \/ GiveUpFire(j) \/ LoseFire(j)
      PROVE  JobInv'
    BY <1>1, <1>2 DEF Enter, CheckDuplicates, FireRaises, GiveUpFire, LoseFire,
                      FireReturns, Finish, Goto, siteVars, TypeOK, JobInv, AtWork, ArticleOf
<1>3. ASSUME NEW j \in Jobs, LookUp(j)
      PROVE  JobInv'
    BY <1>1, <1>3 DEF LookUp, Meta, Found, Finish, Goto, siteVars, TypeOK, JobInv, AtWork, ArticleOf
<1>4. ASSUME NEW j \in Jobs, Fire(j)
      PROVE  JobInv'
    <2>1. /\ pc[j] = "fire" /\ pc' = [pc EXCEPT ![j] = "wait"]
          /\ pending' = pending \cup {<<j, attempt[j], row[j]>>}
          /\ UNCHANGED <<row, attempt>>
        BY <1>4 DEF Fire, Goto
    <2>2. ArticleOfRow[row[j]] = ArticleOf(j)
        BY <2>1 DEF JobInv, AtWork
    <2> QED
        BY <1>1, <2>1, <2>2 DEF TypeOK, JobInv, AtWork, ArticleOf
<1>5. ASSUME NEW j \in Jobs, Verify(j)
      PROVE  JobInv'
    BY <1>1, <1>5 DEF Verify, RetriesLeft, Finish, Goto, siteVars, TypeOK, JobInv, AtWork,
                      ArticleOf
<1>6. ASSUME NEW j \in Jobs, Refresh(j)
      PROVE  JobInv'
    BY <1>1, <1>6 DEF Refresh, Found, Goto, siteVars, TypeOK, JobInv, AtWork, ArticleOf
<1>7. ASSUME NEW f \in pending, Serve(f)
      PROVE  JobInv'
    <2>1. pending' \subseteq pending
        BY <1>7, ServeOutcome
    <2>2. UNCHANGED <<row, attempt>>
        BY <1>7, ServeOutcome DEF FireReturns, jobVars
    <2>3. \A j \in Jobs : pc'[j] # pc[j] => pc[j] = "wait" /\ pc'[j] = "verify"
        BY <1>7, ServeOutcome DEF FireReturns, Goto, jobVars, TypeOK
    <2> QED
        BY <1>1, <2>1, <2>2, <2>3 DEF JobInv, AtWork, ArticleOf
<1>8. CASE Answer \/ UNCHANGED vars
    BY <1>8 DEF Answer, vars, siteVars, jobVars, JobInv, ArticleOf
<1> QED
    BY <1>2, <1>3, <1>4, <1>5, <1>6, <1>7, <1>8 DEF Next, JobStep

LEMMA TypeInv == Spec => [](TypeOK /\ JobInv)
<1>1. Init => TypeOK /\ JobInv
    BY TypeInit DEF Init, JobInv, AtWork
<1>2. TypeOK /\ JobInv /\ [Next]_vars => TypeOK' /\ JobInv'
    BY TypeStep, JobStepInv
<1> QED
    BY <1>1, <1>2, PTL DEF Spec

\* The types of a batch: in particular no job fires more than MaxRetries + 1
\* times, and none fires without a row.
THEOREM BatchTypeCorrect == Spec => []TypeOK
BY TypeInv, PTL

-----------------------------------------------------------------------------
(* "published" is true                                                      *)

\* The call and its circumstances never change, nor do rows but by the workflow.
LEMMA OnlyServeChangesRows ==
    ASSUME [Next]_vars, TypeOK
    PROVE  /\ scene' = scene
           /\ \/ UNCHANGED <<state, title, commits>>
              \/ \E f \in pending : Serve(f) /\ Publish(f[3])
<1>1. ASSUME NEW f \in pending, Serve(f)
      PROVE  scene' = scene /\ (UNCHANGED <<state, title, commits>> \/ Publish(f[3]))
    BY <1>1, ServeOutcome
<1>2. ASSUME ~\E f \in pending : Serve(f)
      PROVE  UNCHANGED <<scene, state, title, commits>>
    BY <1>2 DEF Next, JobStep, Enter, LookUp, CheckDuplicates, Fire, FireRaises,
                GiveUpFire, LoseFire, Verify, Refresh, Answer, siteVars, vars
<1> QED
    BY <1>1, <1>2

\* A published version is only ever replaced by another one.
LEMMA PublishedStays ==
    ASSUME TypeOK, [Next]_vars, NEW a \in Articles, Found(a, "published") # {}
    PROVE  Found(a, "published")' # {}
<1>1. CASE UNCHANGED <<state, title, commits>>
    BY <1>1 DEF Found
<1>2. ASSUME NEW f \in pending, Serve(f), Publish(f[3])
      PROVE  Found(a, "published")' # {}
    <2>1. f[3] \in Rows
        BY <1>2, ServeOutcome
    <2>2. CASE ArticleOfRow[f[3]] = a
        <3>1. f[3] \in Found(a, "published")'
            BY <1>2, <2>1, <2>2, PublishTouchesOwn DEF Found
        <3> QED
            BY <3>1
    <2>3. CASE ArticleOfRow[f[3]] # a
        BY <1>2, <2>1, <2>3, PublishTouchesOwn DEF Found
    <2> QED
        BY <2>2, <2>3
<1> QED
    BY <1>1, <1>2, OnlyServeChangesRows

\* Only a job that has seen a published row answers "published".
LEMMA ResultIsSeen ==
    ASSUME TypeOK, [Next]_vars, NEW j \in Jobs, result'[j] = "published"
    PROVE  result[j] = "published" \/ Found(ArticleOf(j), "published") # {}
<1>1. ASSUME NEW i \in Jobs, NEW res, Finish(i, res), result'[j] # result[j]
      PROVE  i = j /\ result'[j] = res
    BY <1>1 DEF Finish, TypeOK
<1>2. ASSUME NEW i \in Jobs, Verify(i)
      PROVE  result[j] = "published" \/ Found(ArticleOf(j), "published") # {}
    BY <1>1, <1>2 DEF Verify, Confirmed
<1>3. ASSUME NEW i \in Jobs, LookUp(i) \/ CheckDuplicates(i)
      PROVE  result[j] = "published"
    BY <1>1, <1>3 DEF LookUp, CheckDuplicates
<1>4. ASSUME NEW f \in pending, Serve(f)
      PROVE  result[j] = "published"
    BY <1>4, ServeOutcome DEF FireReturns, jobVars
<1>5. ASSUME UNCHANGED result
      PROVE  result[j] = "published"
    BY <1>5
<1> QED
    BY <1>2, <1>3, <1>4, <1>5
       DEF Next, JobStep, Enter, Fire, FireRaises, GiveUpFire, LoseFire, FireReturns,
           Refresh, Answer, vars, jobVars

\* A row that says "published" is true of the instance at that moment and ever
\* after, for every number of jobs, retries and late commits.
THEOREM PublishedRowsAreTrue == Spec => []PublishedIsTrue
<1>1. Init => PublishedIsTrue
    BY DEF Init, PublishedIsTrue
<1>2. TypeOK /\ PublishedIsTrue /\ [Next]_vars => PublishedIsTrue'
    <2> SUFFICES ASSUME TypeOK, PublishedIsTrue, [Next]_vars,
                        NEW j \in Jobs, result'[j] = "published"
                 PROVE  Found(ArticleOf(j), "published")' # {}
        BY DEF PublishedIsTrue
    <2>1. ArticleOf(j) \in Articles /\ ArticleOf(j)' = ArticleOf(j)
        BY OnlyServeChangesRows DEF ArticleOf, TypeOK
    <2>2. Found(ArticleOf(j), "published") # {}
        BY ResultIsSeen DEF PublishedIsTrue
    <2> DEFINE a == ArticleOf(j)
    <2>3. Found(a, "published")' # {}
        BY <2>1, <2>2, PublishedStays
    <2> QED
        BY <2>1, <2>3
<1> QED
    BY <1>1, <1>2, BatchTypeCorrect, PTL DEF Spec

-----------------------------------------------------------------------------
(* No two published articles of one title                                   *)

\* A job has read a title, and may still publish; it has passed the duplicate check.
Busy(j) == pc[j] \in AtWork \/ \E f \in pending : f[1] = j
Firing(j) == pc[j] \in AtWork \ {"dedup"} \/ \E f \in pending : f[1] = j

OneDraft ==
    \A x, y \in Rows :
        ArticleOfRow[x] = ArticleOfRow[y] /\ state[x] = "draft" /\ state[y] = "draft" => x = y

\* The draft that a busy job may publish has the title that the job has read, be it the
\* row the job looked up or one that a publish has left behind since.
SubjectInv ==
    \A j \in Jobs, x \in Rows :
        Busy(j) /\ ArticleOfRow[x] = ArticleOf(j) /\ state[x] = "draft" => title[x] = subject[j]

\* A row that has been published, or may be without another check.
Armed(x) ==
    \/ state[x] = "draft" /\ \E j \in Jobs : ArticleOf(j) = ArticleOfRow[x] /\ Firing(j)
    \/ state[x] = "published" /\ commits[ArticleOfRow[x]] > 0

\* Such a row has its title for itself, among them and the published rows.
ClearInv ==
    ~MayFail("read") =>
        \A x, y \in Rows :
            ArticleOfRow[x] # ArticleOfRow[y] /\ Armed(x) /\ (Armed(y) \/ state[y] = "published")
            => title[x] # title[y]

DuplicateInv == OneDraft /\ SubjectInv /\ ClearInv

\* A job becomes busy by its lookup, and passes the check if it finds no duplicate.
LEMMA JobsGoOn ==
    ASSUME TypeOK, [Next]_vars, NEW j \in Jobs
    PROVE  /\ Busy(j)' => Busy(j) \/ LookUp(j)
           /\ subject'[j] = subject[j] \/ LookUp(j)
           /\ Firing(j)' => \/ Firing(j)
                            \/ /\ CheckDuplicates(j) /\ pc[j] = "dedup"
                               /\ MayFail("read") \/ Duplicates(subject[j], ArticleOf(j)) = {}
<1>1. ASSUME NEW i \in Jobs, i # j, JobStep(i) \/ LoseFire(i)
      PROVE  /\ pc'[j] = pc[j] /\ subject'[j] = subject[j]
             /\ \A f \in pending' : f[1] = j => f \in pending
    <2>1. CASE Enter(i) \/ FireRaises(i) \/ GiveUpFire(i) \/ LoseFire(i)
        BY <1>1, <2>1 DEF Enter, FireRaises, GiveUpFire, LoseFire, FireReturns, Goto, siteVars, TypeOK
    <2>2. CASE LookUp(i) \/ CheckDuplicates(i)
        BY <1>1, <2>2 DEF LookUp, CheckDuplicates, Finish, Goto, siteVars, TypeOK
    <2>3. CASE Fire(i)
        BY <1>1, <2>3 DEF Fire, Goto, TypeOK
    <2>4. CASE Verify(i) \/ Refresh(i)
        BY <1>1, <2>4 DEF Verify, Refresh, Finish, Goto, siteVars, TypeOK
    <2> QED
        BY <1>1, <2>1, <2>2, <2>3, <2>4 DEF JobStep
<1>2. CASE Enter(j) \/ FireRaises(j) \/ GiveUpFire(j) \/ LoseFire(j)
    BY <1>2 DEF Enter, FireRaises, GiveUpFire, LoseFire, FireReturns, Goto, siteVars, TypeOK, Busy, Firing, AtWork
<1>3. CASE LookUp(j)
    BY <1>3 DEF LookUp, Finish, Goto, siteVars, TypeOK, Firing, AtWork
<1>4. CASE CheckDuplicates(j)
    BY <1>4 DEF CheckDuplicates, Finish, Goto, siteVars, TypeOK, Busy, Firing, AtWork
<1>5. CASE Fire(j)
    BY <1>5 DEF Fire, Goto, TypeOK, Busy, Firing, AtWork
<1>6. CASE Verify(j) \/ Refresh(j)
    BY <1>6 DEF Verify, Refresh, Finish, Goto, siteVars, TypeOK, Busy, Firing, AtWork
<1>7. CASE Answer \/ UNCHANGED vars
    BY <1>7 DEF Answer, vars, siteVars, jobVars, Busy, Firing
<1>8. ASSUME NEW f \in pending, Serve(f)
      PROVE  /\ pc'[j] = pc[j] \/ (pc[j] = "wait" /\ pc'[j] = "verify")
             /\ subject' = subject /\ pending' \subseteq pending
    BY <1>8, ServeOutcome DEF FireReturns, Goto, jobVars, TypeOK
<1>9. ASSUME NEW f \in pending, Serve(f)
      PROVE  (Busy(j)' => Busy(j)) /\ subject' = subject /\ (Firing(j)' => Firing(j))
    BY <1>8, <1>9 DEF Busy, Firing, AtWork
<1>10. ASSUME NEW i \in Jobs, i # j, JobStep(i) \/ LoseFire(i)
       PROVE  (Busy(j)' => Busy(j)) /\ subject'[j] = subject[j] /\ (Firing(j)' => Firing(j))
    BY <1>1, <1>10 DEF Busy, Firing
<1> QED
    BY <1>2, <1>3, <1>4, <1>5, <1>6, <1>7, <1>9, <1>10 DEF Next, JobStep

LEMMA OneDraftStep ==
    ASSUME TypeOK, OneDraft, [Next]_vars
    PROVE  OneDraft'
<1>1. CASE UNCHANGED <<state, title, commits>>
    BY <1>1 DEF OneDraft
<1>2. ASSUME NEW f \in pending, Serve(f), Publish(f[3]),
             NEW x \in Rows, NEW y \in Rows, ArticleOfRow[x] = ArticleOfRow[y],
             state'[x] = "draft", state'[y] = "draft"
      PROVE  x = y
    <2>1. f[3] \in Rows /\ state[f[3]] = "draft" /\ state'[f[3]] = "published"
        BY <1>2, ServeOutcome, PublishTouchesOwn
    <2>2. ASSUME NEW z \in Rows, state'[z] = "draft"
          PROVE  /\ z # f[3]
                 /\ state[z] = "draft" \/ (state[z] = "absent" /\ ArticleOfRow[z] = ArticleOfRow[f[3]])
        <3>1. CASE ArticleOfRow[z] = ArticleOfRow[f[3]]
            BY <1>2, <2>1, <2>2, <3>1, PublishOwnRows
        <3>2. CASE ArticleOfRow[z] # ArticleOfRow[f[3]]
            BY <1>2, <2>1, <2>2, <3>2, PublishTouchesOwn
        <3> QED
            BY <3>1, <3>2
    <2>3. ASSUME NEW z \in Rows, state[z] = "draft", state'[z] = "draft"
          PROVE  ArticleOfRow[z] # ArticleOfRow[f[3]]
        BY <2>1, <2>2, <2>3 DEF OneDraft
    <2>4. CASE state[x] = "draft" /\ state[y] = "draft"
        BY <1>2, <2>4 DEF OneDraft
    <2>5. CASE state[x] = "absent" /\ state[y] = "absent"
        BY <1>2, <2>1, <2>5, PublishOwnRows
    <2> QED
        BY <1>2, <2>2, <2>3, <2>4, <2>5
<1> QED
    BY <1>1, <1>2, OnlyServeChangesRows DEF OneDraft

\* A fired request is that of a busy job, for a row of its article.
LEMMA FiredByJob ==
    ASSUME TypeOK, JobInv, NEW f \in pending
    PROVE  f[1] \in Jobs /\ f[3] \in Rows /\ ArticleOfRow[f[3]] = ArticleOf(f[1])
           /\ Busy(f[1]) /\ Firing(f[1])
BY DEF TypeOK, JobInv, Busy, Firing

\* A job that is busy after its lookup has the title of a draft it has found.
LEMMA LookUpTitle ==
    ASSUME TypeOK, NEW j \in Jobs, LookUp(j), Busy(j)'
    PROVE  \/ \E r \in Found(ArticleOf(j), "draft") : subject'[j] = title[r]
           \/ Busy(j) /\ subject'[j] = subject[j]
<1>1. CASE \E m \in Meta(j) : subject' = [subject EXCEPT ![j] = m[2]]
    <2>1. PICK m \in Meta(j) : subject' = [subject EXCEPT ![j] = m[2]]
        BY <1>1
    <2>2. PICK r \in Found(ArticleOf(j), "draft") : m = <<r, title[r]>>
        BY DEF Meta
    <2> QED
        BY <2>1, <2>2 DEF TypeOK
<1>2. CASE Finish(j, "error")
    BY <1>2 DEF LookUp, Finish, Goto, siteVars, Busy, AtWork, TypeOK
<1> QED
    BY <1>1, <1>2 DEF LookUp

LEMMA SubjectStep ==
    ASSUME TypeOK, JobInv, OneDraft, SubjectInv, [Next]_vars
    PROVE  SubjectInv'
<1> SUFFICES ASSUME NEW j \in Jobs, NEW x \in Rows, Busy(j)',
                    ArticleOfRow[x] = ArticleOf(j), state'[x] = "draft"
             PROVE  title'[x] = subject'[j]
    BY OnlyServeChangesRows DEF SubjectInv, ArticleOf
<1>1. CASE LookUp(j)
    <2>1. UNCHANGED <<state, title, pending>>
        BY <1>1 DEF LookUp, siteVars
    <2>2. CASE \E r \in Found(ArticleOf(j), "draft") : subject'[j] = title[r]
        BY <2>1, <2>2 DEF Found, OneDraft
    <2>3. CASE Busy(j) /\ subject'[j] = subject[j]
        BY <2>1, <2>3 DEF SubjectInv
    <2> QED
        BY <1>1, <2>2, <2>3, LookUpTitle
<1>2. CASE ~LookUp(j)
    <2>1. Busy(j) /\ subject'[j] = subject[j]
        BY <1>2, JobsGoOn
    <2>2. CASE UNCHANGED <<state, title, commits>>
        BY <2>1, <2>2 DEF SubjectInv
    <2>3. ASSUME NEW f \in pending, Serve(f), Publish(f[3])
          PROVE  title'[x] = subject'[j]
        <3>1. f[3] \in Rows /\ state[f[3]] = "draft" /\ state'[f[3]] = "published"
            BY <2>3, ServeOutcome, PublishTouchesOwn
        <3>2. CASE state[x] = "absent"
            <4>1. ArticleOfRow[x] = ArticleOfRow[f[3]] /\ title'[x] = title[f[3]]
                BY <2>3, <3>1, <3>2, PublishOwnRows
            <4> QED
                BY <2>1, <3>1, <4>1 DEF SubjectInv
        <3>3. CASE state[x] # "absent"
            <4>1. title'[x] = title[x]
                BY <2>3, <3>1, <3>3, PublishOwnRows
            <4>2. state[x] = "draft"
                <5>1. CASE ArticleOfRow[x] = ArticleOfRow[f[3]]
                    BY <2>3, <3>1, <3>3, <5>1, PublishOwnRows
                <5>2. CASE ArticleOfRow[x] # ArticleOfRow[f[3]]
                    BY <2>3, <3>1, <5>2, PublishTouchesOwn
                <5> QED
                    BY <5>1, <5>2
            <4> QED
                BY <2>1, <4>1, <4>2 DEF SubjectInv
        <3> QED
            BY <3>2, <3>3
    <2> QED
        BY <2>2, <2>3, OnlyServeChangesRows
<1> QED
    BY <1>1, <1>2

\* While rows stay as they are, one becomes armed by a check that finds no live row of
\* its title.
LEMMA ArmedByCheck ==
    ASSUME TypeOK, JobInv, SubjectInv, [Next]_vars, UNCHANGED <<state, title, commits>>,
           ~MayFail("read"), NEW x \in Rows, Armed(x)', ~Armed(x), NEW y \in Rows,
           ArticleOfRow[x] # ArticleOfRow[y], state[y] \in {"draft", "published"}
    PROVE  title[x] # title[y]
<1>1. PICK j \in Jobs : ArticleOf(j) = ArticleOfRow[x] /\ Firing(j)' /\ state[x] = "draft"
    BY OnlyServeChangesRows DEF Armed, ArticleOf
<1>2. pc[j] = "dedup" /\ Duplicates(subject[j], ArticleOf(j)) = {}
    BY <1>1, JobsGoOn DEF Armed
<1>3. title[x] = subject[j]
    BY <1>1, <1>2 DEF SubjectInv, Busy, AtWork
<1>4. y \notin Duplicates(subject[j], ArticleOf(j))
    BY <1>2
<1> QED
    BY <1>1, <1>3, <1>4 DEF Duplicates, Ignored

LEMMA ClearStep ==
    ASSUME TypeOK, JobInv, DuplicateInv, [Next]_vars
    PROVE  ClearInv'
<1> SUFFICES ASSUME ~MayFail("read"), NEW x \in Rows, NEW y \in Rows,
                    ArticleOfRow[x] # ArticleOfRow[y], Armed(x)', Armed(y)' \/ state'[y] = "published"
             PROVE  title'[x] # title'[y]
    BY OnlyServeChangesRows DEF ClearInv, MayFail
<1> USE DEF DuplicateInv
<1>1. CASE UNCHANGED <<state, title, commits>>
    <2>1. \A z \in Rows : Armed(z)' => state[z] \in {"draft", "published"}
        BY <1>1 DEF Armed
    <2>2. CASE Armed(x) /\ (Armed(y) \/ state[y] = "published")
        BY <1>1, <2>2 DEF ClearInv
    <2>3. CASE ~Armed(x)
        BY <1>1, <2>1, <2>3, ArmedByCheck
    <2>4. CASE ~Armed(y) /\ Armed(y)'
        BY <1>1, <2>1, <2>4, ArmedByCheck
    <2> QED
        BY <1>1, <2>2, <2>3, <2>4
<1>2. ASSUME NEW f \in pending, Serve(f), Publish(f[3])
      PROVE  title'[x] # title'[y]
    <2> DEFINE r == f[3]
    <2>1. /\ r \in Rows /\ state[r] = "draft" /\ state'[r] = "published"
          /\ commits' = [commits EXCEPT ![ArticleOfRow[r]] = @ + 1] /\ commits \in [Articles -> Nat]
        BY <1>2, ServeOutcome, PublishTouchesOwn DEF TypeOK
    <2>2. Armed(r)
        BY <2>1, FiredByJob DEF Armed
    <2>3. ASSUME NEW z \in Rows, ArticleOfRow[z] # ArticleOfRow[r]
          PROVE  /\ state'[z] = state[z] /\ title'[z] = title[z]
                 /\ Armed(z)' => Armed(z)
        <3>1. /\ state'[z] = state[z] /\ title'[z] = title[z] /\ commits'[ArticleOfRow[z]] = commits[ArticleOfRow[z]]
            BY <1>2, <2>1, <2>3, PublishTouchesOwn
        <3>2. ASSUME NEW j \in Jobs, Firing(j)'
              PROVE  Firing(j)
            BY <1>2, <3>2, ServeOutcome DEF Firing, FireReturns, Goto, jobVars, AtWork, TypeOK
        <3> QED
            BY <1>2, <3>1, <3>2, ServeOutcome DEF Armed, ArticleOf
    <2>4. ASSUME NEW z \in Rows, ArticleOfRow[z] = ArticleOfRow[r], state'[z] \in {"draft", "published"}
          PROVE  title'[z] = title[r]
        <3>1. CASE z = r
            BY <1>2, <2>1, <3>1, PublishOwnRows
        <3>2. CASE z # r
            <4>1. state[z] # "draft"
                BY <2>1, <2>4, <3>2 DEF OneDraft
            <4>2. state[z] = "absent"
                BY <1>2, <2>1, <2>4, <3>2, <4>1, PublishOwnRows
            <4> QED
                BY <1>2, <2>1, <2>4, <4>2, PublishOwnRows
        <3> QED
            BY <3>1, <3>2
    <2>5. /\ state'[x] \in {"draft", "published"} /\ state'[y] \in {"draft", "published"}
        BY DEF Armed
    <2>6. CASE ArticleOfRow[x] = ArticleOfRow[r]
        <3>1. title'[x] = title[r] /\ title'[y] = title[y] /\ (Armed(y) \/ state[y] = "published")
            BY <2>3, <2>4, <2>5, <2>6
        <3> QED
            BY <2>1, <2>2, <2>6, <3>1 DEF ClearInv
    <2>7. CASE ArticleOfRow[y] = ArticleOfRow[r]
        <3>1. title'[y] = title[r] /\ title'[x] = title[x] /\ Armed(x)
            BY <2>3, <2>4, <2>5, <2>7
        <3> QED
            BY <2>1, <2>2, <2>7, <3>1 DEF ClearInv
    <2>8. CASE ArticleOfRow[x] # ArticleOfRow[r] /\ ArticleOfRow[y] # ArticleOfRow[r]
        BY <2>3, <2>8 DEF ClearInv
    <2> QED
        BY <2>6, <2>7, <2>8
<1> QED
    BY <1>1, <1>2, OnlyServeChangesRows

LEMMA DuplicateInit == Init => DuplicateInv
<1> SUFFICES ASSUME Init
             PROVE  DuplicateInv
    OBVIOUS
<1>1. OneDraft
    BY DraftsAssumption DEF Init, OneDraft
<1>2. \A j \in Jobs : ~Busy(j) /\ ~Firing(j)
    BY DEF Init, Busy, Firing, AtWork
<1>3. \A x \in Rows : ~Armed(x)
    BY <1>2 DEF Armed, Init
<1> QED
    BY <1>1, <1>2, <1>3 DEF DuplicateInv, SubjectInv, ClearInv

LEMMA DuplicateStep ==
    ASSUME TypeOK, JobInv, DuplicateInv, [Next]_vars
    PROVE  DuplicateInv'
BY OneDraftStep, SubjectStep, ClearStep DEF DuplicateInv

LEMMA ClearMeansNone == ClearInv => NoDuplicatesPublished
BY DEF ClearInv, Armed, NoDuplicatesPublished

\* While reads succeed a batch never publishes an article under the title of another
\* published one, however many jobs check and publish at the same time, whichever
\* drafts the workflow leaves behind and whichever row a job fires again: the draft
\* that is to be published counts as a duplicate for all others.
THEOREM BatchLeavesNoDuplicates == Spec => []NoDuplicatesPublished
BY DuplicateInit, DuplicateStep, ClearMeansNone, TypeInv, PTL DEF Spec, DuplicateInv

-----------------------------------------------------------------------------
(* Nothing is published twice                                               *)

Steady == ~MayFail("read") /\ ~MayFail("call") /\ IsInjective(scene.articleOf)

\* The one job of a published article has its answer, or is about to read it.
Settled(a) ==
    /\ Found(a, "published") # {}
    /\ \E j \in Jobs : ArticleOf(j) = a /\ pc[j] \in {"verify", "done"}

\* Each request on the wire is that of a job which waits for it.
OnceInv ==
    Steady =>
        /\ \A f \in pending : pc[f[1]] = "wait" /\ attempt[f[1]] = f[2] /\ row[f[1]] = f[3]
        /\ \A a \in Articles : commits[a] <= 1 /\ (commits[a] > 0 => Settled(a))

LEMMA OneJobPerArticle ==
    ASSUME TypeOK, Steady, NEW i \in Jobs, NEW j \in Jobs, ArticleOf(i) = ArticleOf(j)
    PROVE  i = j
BY DEF TypeOK, Steady, IsInjective, ArticleOf

\* A settled article stays settled: its job finds the published row.
LEMMA SettledStays ==
    ASSUME TypeOK, Steady, [Next]_vars, NEW a \in Articles, Settled(a)
    PROVE  Settled(a)'
<1>1. PICK j \in Jobs : ArticleOf(j) = a /\ pc[j] \in {"verify", "done"}
    BY DEF Settled
<1>2. Found(a, "published")' # {} /\ ArticleOf(j)' = a
    BY <1>1, PublishedStays, OnlyServeChangesRows DEF Settled, ArticleOf
<1>3. Confirmed(j)
    BY <1>1 DEF Confirmed, Settled
<1>4. pc'[j] \in {"verify", "done"}
    <2>1. ASSUME NEW i \in Jobs, Verify(i)
          PROVE  pc'[j] \in {"verify", "done"}
        BY <1>1, <1>3, <2>1 DEF Verify, Finish, Goto, TypeOK, Steady
    <2>2. ASSUME NEW i \in Jobs,
                 Enter(i) \/ LookUp(i) \/ CheckDuplicates(i) \/ Fire(i) \/ FireRaises(i)
                 \/ GiveUpFire(i) \/ LoseFire(i) \/ Refresh(i)
          PROVE  pc'[j] \in {"verify", "done"}
        <3>1. i # j /\ \E p \in PCs : pc' = [pc EXCEPT ![i] = p]
            BY <1>1, <2>2
               DEF Enter, LookUp, CheckDuplicates, Fire, FireRaises, GiveUpFire, LoseFire,
                   FireReturns, Refresh, Finish, Goto, PCs
        <3> QED
            BY <1>1, <3>1 DEF TypeOK
    <2>3. ASSUME NEW f \in pending, Serve(f)
          PROVE  pc'[j] \in {"verify", "done"}
        BY <1>1, <2>3, ServeOutcome DEF FireReturns, Goto, jobVars, TypeOK
    <2>4. CASE UNCHANGED pc
        BY <1>1, <2>4
    <2> QED
        BY <2>1, <2>2, <2>3, <2>4 DEF Next, JobStep, Answer, vars, jobVars
<1> QED
    BY <1>2, <1>4 DEF Settled

\* The requests on the wire after a step of their jobs.
LEMMA PendingStep ==
    ASSUME TypeOK, OnceInv, Steady, [Next]_vars, NEW f \in pending'
    PROVE  pc'[f[1]] = "wait" /\ attempt'[f[1]] = f[2] /\ row'[f[1]] = f[3]
<1>1. ASSUME NEW i \in Jobs, Fire(i)
      PROVE  pc'[f[1]] = "wait" /\ attempt'[f[1]] = f[2] /\ row'[f[1]] = f[3]
    <2>1. /\ pc[i] = "fire" /\ pc' = [pc EXCEPT ![i] = "wait"]
          /\ pending' = pending \cup {<<i, attempt[i], row[i]>>}
          /\ UNCHANGED <<row, attempt>>
        BY <1>1 DEF Fire, Goto
    <2>2. CASE f \in pending
        BY <2>1, <2>2 DEF OnceInv, TypeOK
    <2>3. CASE f = <<i, attempt[i], row[i]>>
        BY <2>1, <2>3 DEF TypeOK
    <2> QED
        BY <2>1, <2>2, <2>3
<1>2. ASSUME NEW i \in Jobs,
             Enter(i) \/ LookUp(i) \/ CheckDuplicates(i) \/ FireRaises(i)
             \/ Verify(i) \/ Refresh(i)
      PROVE  pc'[f[1]] = "wait" /\ attempt'[f[1]] = f[2] /\ row'[f[1]] = f[3]
    <2>1. f \in pending
        BY <1>2 DEF Enter, LookUp, CheckDuplicates, FireRaises, Verify, Refresh, siteVars
    <2>2. /\ pc[i] # "wait" /\ \E p \in PCs : pc' = [pc EXCEPT ![i] = p]
          /\ \A u \in Jobs : u # i => row'[u] = row[u] /\ attempt'[u] = attempt[u]
        BY <1>2 DEF Enter, LookUp, CheckDuplicates, FireRaises, Verify, Refresh, Finish, Goto,
                    TypeOK, PCs
    <2> QED
        BY <2>1, <2>2 DEF OnceInv, TypeOK
<1>3. ASSUME NEW g \in pending, Serve(g)
      PROVE  pc'[f[1]] = "wait" /\ attempt'[f[1]] = f[2] /\ row'[f[1]] = f[3]
    <2>1. f \in pending /\ f # g
        BY <1>3, ServeOutcome
    <2>2. f[1] # g[1]
        <3>1. f = <<f[1], f[2], f[3]>> /\ g = <<g[1], g[2], g[3]>>
            BY <2>1 DEF TypeOK
        <3>2. f[1] = g[1] => f[2] = g[2] /\ f[3] = g[3]
            BY <2>1 DEF OnceInv
        <3> QED
            BY <2>1, <3>1, <3>2
    <2>3. /\ UNCHANGED <<row, attempt>>
          /\ pc' = pc \/ pc' = [pc EXCEPT ![g[1]] = "verify"]
        BY <1>3, ServeOutcome DEF FireReturns, Goto, jobVars
    <2> QED
        BY <2>1, <2>2, <2>3 DEF OnceInv, TypeOK
<1>4. CASE UNCHANGED <<pending, pc, row, attempt>>
    BY <1>4 DEF OnceInv
<1>5. ~\E i \in Jobs : GiveUpFire(i) \/ LoseFire(i)
    BY DEF GiveUpFire, LoseFire, Steady
<1> QED
    BY <1>1, <1>2, <1>3, <1>4, <1>5 DEF Next, JobStep, Answer, vars, siteVars, jobVars

LEMMA OnceStep ==
    ASSUME TypeOK, JobInv, OnceInv, [Next]_vars
    PROVE  OnceInv'
<1> SUFFICES ASSUME Steady
             PROVE  \A a \in Articles : commits'[a] <= 1 /\ (commits'[a] > 0 => Settled(a)')
    BY PendingStep, OnlyServeChangesRows DEF OnceInv, Steady, MayFail
<1> TAKE a \in Articles
<1>1. CASE commits'[a] = commits[a]
    BY <1>1, SettledStays DEF OnceInv
<1>2. CASE commits'[a] # commits[a]
    <2>1. PICK f \in pending : Serve(f) /\ Publish(f[3])
        BY <1>2, OnlyServeChangesRows
    <2>2. /\ f[3] \in Rows /\ f[1] \in Jobs /\ state'[f[3]] = "published"
          /\ commits' = [commits EXCEPT ![ArticleOfRow[f[3]]] = @ + 1]
        BY <2>1, ServeOutcome, PublishTouchesOwn
    <2>3. ArticleOfRow[f[3]] = a /\ commits'[a] = commits[a] + 1
        BY <1>2, <2>2 DEF TypeOK
    <2>4. ArticleOf(f[1]) = a /\ pc[f[1]] = "wait" /\ attempt[f[1]] = f[2]
        BY <2>1, <2>3 DEF JobInv, OnceInv
    <2>5. commits[a] = 0
        <3>1. ~Settled(a)
            BY <2>2, <2>4, OneJobPerArticle DEF Settled
        <3>2. commits[a] \in Nat
            BY DEF TypeOK
        <3> QED
            BY <3>1, <3>2 DEF OnceInv
    <2>6. pc'[f[1]] = "verify"
        BY <2>1, <2>2, <2>4 DEF Serve, FireReturns, Goto, TypeOK
    <2>7. f[3] \in Found(a, "published")'
        BY <2>2, <2>3 DEF Found
    <2>8. ArticleOf(f[1])' = a
        BY <2>4, OnlyServeChangesRows DEF ArticleOf
    <2> QED
        BY <2>2, <2>3, <2>5, <2>6, <2>7, <2>8 DEF Settled
<1> QED
    BY <1>1, <1>2

\* While reads succeed and every fire is answered, no article that is named once
\* is published twice: a job fires again only for a workflow that did nothing.
THEOREM ArticlePublishedOnce == Spec => []PublishedOnce
<1>1. Init => OnceInv
    BY DEF Init, OnceInv
<1>2. TypeOK /\ JobInv /\ OnceInv /\ [Next]_vars => OnceInv'
    BY OnceStep
<1>3. OnceInv => PublishedOnce
    BY DEF OnceInv, Steady, PublishedOnce
<1> QED
    BY <1>1, <1>2, <1>3, TypeInv, PTL DEF Spec
=============================================================================
