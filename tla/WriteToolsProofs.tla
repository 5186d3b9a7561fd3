-------------------------- MODULE WriteToolsProofs --------------------------
\* Proofs about WriteTools: any number of tool calls of any kind beside any batch.
EXTENDS WriteTools, KBPublishProofs

USE RowsAssumption, ToolsAssumption

-----------------------------------------------------------------------------
(* Types, and the order a call goes through                                 *)

SysIds == Rows \cup Articles \cup TaskNumbers \cup {NoRow}
ToolPCs == {"start", "lookup", "check", "send", "wait", "done"}
Replies == {"none", "refused", "notFound", "duplicate", "unique", "error", "noData", "record"}

Hits == [row : SysIds, state : States \cup {"task"}, version : Nat, busy : BOOLEAN]

ToolTypeOK ==
    /\ call \in ToolCalls
    /\ tpc \in [Tools -> ToolPCs]
    /\ target \in [Tools -> SysIds]
    /\ about \in [Tools -> Titles \cup {NoTitle}]
    /\ seen \in [Tools -> Nat]
    /\ requests \in SUBSET Tools
    /\ hit \in [Tools -> Hits]
    /\ tasks \in SUBSET SysIds
    /\ answer \in [Tools -> Replies]

Unsent == {"start", "lookup", "check", "send"}

\* A call sends one write, which is carried out once; what it was before then it
\* has not written.
OrderInv ==
    \A t \in Tools :
        /\ tpc[t] \in Unsent => hit[t] = NoHit /\ t \notin requests /\ answer[t] = "none"
        /\ t \in requests => hit[t] = NoHit
        /\ answer[t] = "record" => hit[t] # NoHit
        /\ answer[t] \in {"notFound", "refused"} => hit[t] = NoHit /\ t \notin requests

\* The write of t is still to come.
Writing(t) == tpc[t] = "send" \/ t \in requests

\* A write of an article goes to a row of that article.
TargetInv ==
    \A t \in Tools : Kind(t) \in {"update", "retire"} /\ (Writing(t) \/ hit[t] # NoHit) =>
        /\ target[t] \in Rows /\ ArticleOfRow[target[t]] = Number(t)
        /\ seen[t] <= commits[Number(t)]

\* A row that was published may be replaced or retired, and is never a draft again.
Live == {"published", "outdated", "retired"}

DraftInv ==
    \A t \in Tools : Kind(t) = "update" /\ Writing(t) =>
        state[target[t]] = "draft" \/ commits[Number(t)] > seen[t]

OneVersion ==
    \A x, y \in Rows :
        ArticleOfRow[x] = ArticleOfRow[y] /\ state[x] = "published" /\ state[y] = "published"
        => x = y

RetireInv ==
    \A t \in Tools : Kind(t) = "retire" =>
        /\ Writing(t) =>
              /\ state[target[t]] \in Live
              /\ commits[Number(t)] = seen[t] => Found(Number(t), "published") \subseteq {target[t]}
        /\ hit[t] # NoHit /\ commits[Number(t)] = seen[t] => Found(Number(t), "published") = {}

ToolInv == TypeOK /\ JobInv /\ ToolTypeOK /\ OrderInv /\ TargetInv
WriteInv == DraftInv /\ OneVersion /\ RetireInv

-----------------------------------------------------------------------------
(* Steps                                                                    *)

LEMMA ToolsInitInv == ToolsInit => ToolInv
<1>1. ToolsInit => TypeOK /\ JobInv
    BY TypeInit DEF ToolsInit, Init, JobInv, AtWork
<1>2. NoHit \in Hits
    BY DEF NoHit, Hits, SysIds, States
<1> QED
    BY <1>1, <1>2 DEF ToolsInit, ToolInv, ToolTypeOK, ToolPCs, Replies, SysIds, OrderInv, TargetInv, Writing, NoHit

\* A step of a tool before its write, or that gives up waiting for it.
Prepares(t) == Begin(t) \/ FindRow(t) \/ Check(t) \/ Send(t) \/ GiveUpWrite(t) \/ LoseWrite(t)

\* A step is one of the batch, one of a tool alone, or the instance answers a tool.
LEMMA StepCases ==
    ASSUME ToolInv, [ToolsNext]_allVars
    PROVE  /\ scene' = scene /\ call' = call
           /\ \/ [Next]_vars /\ UNCHANGED toolVars
              \/ \E t \in Tools : Prepares(t) /\ UNCHANGED <<vars, hit, tasks>>
              \/ \E t \in Tools : ServeWrite(t)
<1>1. ASSUME [Next]_vars /\ UNCHANGED toolVars
      PROVE  scene' = scene /\ call' = call
    BY <1>1, OnlyServeChangesRows DEF ToolInv, toolVars
<1>2. ASSUME NEW t \in Tools, Prepares(t)
      PROVE  scene' = scene /\ call' = call /\ UNCHANGED <<vars, hit, tasks>>
    BY <1>2 DEF Prepares, Begin, FindRow, Check, Send, GiveUpWrite, LoseWrite, vars, siteVars
<1>3. ASSUME NEW t \in Tools, ServeWrite(t)
      PROVE  scene' = scene /\ call' = call
    BY <1>3 DEF ServeWrite
<1> QED
    BY <1>1, <1>2, <1>3 DEF ToolsNext, Prepares, allVars

LEMMA NumberKnown ==
    ASSUME ToolTypeOK, NEW t \in Tools
    PROVE  Kind(t) \in Kinds /\ Number(t) \in SysIds /\ call[t].data \in BOOLEAN
BY DEF ToolTypeOK, Kind, Number, SysIds

LEMMA VersionIsNat ==
    ASSUME TypeOK, NEW n
    PROVE  Version(n) \in Nat
BY DEF TypeOK, Version

\* What the lookups of update and retire find: a draft, a published row.
LEMMA FoundByTool ==
    ASSUME NEW t, Kind(t) \in {"update", "retire"}, NEW r \in Candidates(t)
    PROVE  /\ r \in Rows /\ ArticleOfRow[r] = Number(t) /\ Number(t) \in Articles
           /\ state[r] = IF Kind(t) = "update" THEN "draft" ELSE "published"
<1>1. ASSUME NEW s, Wanted(Kind(t)) = {s}
      PROVE  r \in Found(Number(t), s)
    BY <1>1 DEF Candidates
<1>2. CASE Kind(t) = "update"
    <2>1. Wanted(Kind(t)) = {"draft"}
        BY <1>2, Zenon DEF Wanted
    <2>2. r \in Found(Number(t), "draft")
        BY <1>1, <2>1
    <2> QED
        BY <1>2, <2>2 DEF Found
<1>3. CASE Kind(t) = "retire"
    <2>1. "retire" # "update"
        OBVIOUS
    <2>2. Wanted(Kind(t)) = {"published"}
        BY <1>3, <2>1, Zenon DEF Wanted
    <2>3. r \in Found(Number(t), "published")
        BY <1>1, <2>2
    <2> QED
        BY <1>3, <2>3 DEF Found
<1> QED
    BY <1>2, <1>3

\* An update that gives its row a title.
Retitles(t) == Kind(t) = "update" /\ call[t].title # NoTitle

\* What the instance does for a tool: at most the row or task it was sent is changed.
LEMMA ServeWriteOutcome ==
    ASSUME ToolInv, NEW t \in Tools, ServeWrite(t)
    PROVE  /\ t \in requests /\ requests' = requests \ {t} /\ hit[t] = NoHit /\ tpc[t] \notin Unsent
           /\ UNCHANGED <<scene, pending, commits, jobVars, batch, call, target, about, seen>>
           /\ \/ UNCHANGED <<state, title, hit, tasks>>
              \/ /\ Kind(t) \in {"update", "retire"} /\ Hit(t, state[target[t]]) /\ tasks' = tasks
                 /\ hit'[t] # NoHit
                 /\ state' = IF Kind(t) = "retire" THEN [state EXCEPT ![target[t]] = "retired"] ELSE state
                 /\ title' = IF Retitles(t) THEN [title EXCEPT ![target[t]] = call[t].title] ELSE title
              \/ Hit(t, "task") /\ UNCHANGED <<state, title>> /\ tasks' \in SUBSET SysIds
           /\ \/ UNCHANGED <<tpc, answer>>
              \/ tpc[t] = "wait" /\ Return(t, "error")
              \/ tpc[t] = "wait" /\ Return(t, "record") /\ hit'[t] # NoHit
<1>1. t \in requests /\ requests' = requests \ {t}
      /\ UNCHANGED <<scene, pending, commits, jobVars, batch, call, target, about, seen>>
    BY DEF ServeWrite
<1>2. hit[t] = NoHit /\ tpc[t] \notin Unsent
    BY <1>1 DEF ToolInv, OrderInv
<1>3. PICK applied \in BOOLEAN :
          /\ IF applied THEN Apply(t) ELSE UNCHANGED <<state, title, hit, tasks>>
          /\ IF tpc[t] = "wait"
               THEN \E a \in AnswerOf(applied) : Return(t, a)
               ELSE UNCHANGED <<tpc, answer>>
    BY DEF ServeWrite
<1>6. \/ UNCHANGED <<tpc, answer>>
      \/ tpc[t] = "wait" /\ Return(t, "error")
      \/ applied /\ tpc[t] = "wait" /\ Return(t, "record")
    BY <1>3 DEF AnswerOf
<1>4. CASE ~applied
    BY <1>1, <1>2, <1>3, <1>4 DEF AnswerOf
<1>5. CASE applied
    <2>1. Apply(t)
        BY <1>3, <1>5
    <2>2. hit \in [Tools -> Hits]
        BY DEF ToolInv, ToolTypeOK
    <2>3. CASE Kind(t) \in {"update", "retire"}
        <3>1. target[t] \in Rows
            BY <1>1, <2>3 DEF ToolInv, TargetInv, Writing
        <3>2. /\ Hit(t, state[target[t]]) /\ tasks' = tasks
              /\ state' = IF Kind(t) = "retire" THEN [state EXCEPT ![target[t]] = "retired"] ELSE state
              /\ title' = IF Retitles(t) THEN [title EXCEPT ![target[t]] = call[t].title] ELSE title
            <4>1. CASE Kind(t) = "update"
                BY <2>1, <4>1 DEF Apply, Retitles
            <4>2. CASE Kind(t) = "retire"
                <5>1. /\ Hit(t, state[target[t]]) /\ tasks' = tasks /\ title' = title
                      /\ state' = [state EXCEPT ![target[t]] = "retired"]
                    <6>1. Kind(t) # "update" /\ Kind(t) \notin {"taskUpdate", "taskCreate"}
                        BY <4>2
                    <6> QED
                        BY <2>1, <6>1, Zenon DEF Apply
                <5>2. ~Retitles(t)
                    BY <4>2 DEF Retitles
                <5> QED
                    BY <4>2, <5>1, <5>2
            <4> QED
                BY <2>3, <4>1, <4>2
        <3>3. hit'[t].row = target[t]
            BY <2>2, <3>2 DEF Hit
        <3>4. hit'[t] # NoHit
            BY <3>1, <3>3, RowsAssumption DEF NoHit
        <3> QED
            BY <1>1, <1>2, <1>6, <2>3, <3>2, <3>4
    <2>4. CASE Kind(t) \notin {"update", "retire"}
        <3>1. Hit(t, "task") /\ UNCHANGED <<state, title>> /\ tasks' \in SUBSET SysIds
            BY <2>1, <2>4, NumberKnown DEF Apply, ToolInv, ToolTypeOK
        <3>2. hit'[t].state = "task"
            BY <2>2, <3>1 DEF Hit
        <3>3. hit'[t] # NoHit
            BY <3>2 DEF NoHit
        <3> QED
            BY <1>1, <1>2, <1>6, <3>1, <3>3, Zenon
    <2> QED
        BY <2>3, <2>4
<1> QED
    BY <1>4, <1>5

\* Commits are only ever added.
LEMMA CommitsGrow ==
    ASSUME TypeOK, [Next]_vars, NEW a \in Articles
    PROVE  commits'[a] \in Nat /\ commits[a] <= commits'[a]
<1>1. CASE UNCHANGED commits
    BY <1>1 DEF TypeOK
<1>2. ASSUME NEW f \in pending, Serve(f), Publish(f[3])
      PROVE  commits'[a] \in Nat /\ commits[a] <= commits'[a]
    BY <1>2, ServeOutcome, PublishTouchesOwn DEF TypeOK
<1> QED
    BY <1>1, <1>2, OnlyServeChangesRows

-----------------------------------------------------------------------------
(* ToolInv is inductive                                                     *)

LEMMA BatchKeepsToolInv ==
    ASSUME ToolInv, [Next]_vars, UNCHANGED toolVars
    PROVE  ToolInv'
<1>1. TypeOK' /\ JobInv'
    BY TypeStep, JobStepInv DEF ToolInv
<1>2. ToolTypeOK' /\ OrderInv'
    BY DEF ToolInv, toolVars, ToolTypeOK, OrderInv, NoHit
<1>3. TargetInv'
    <2> SUFFICES ASSUME NEW t \in Tools, Kind(t) \in {"update", "retire"}, Writing(t) \/ hit[t] # NoHit
                 PROVE  /\ target[t] \in Rows /\ ArticleOfRow[target[t]] = Number(t)
                        /\ seen[t] <= commits'[Number(t)]
        BY DEF toolVars, TargetInv, Kind, Writing, Number
    <2>1. target[t] \in Rows /\ ArticleOfRow[target[t]] = Number(t) /\ seen[t] <= commits[Number(t)]
        BY DEF ToolInv, TargetInv
    <2>2. Number(t) \in Articles
        BY <2>1
    <2>3. seen[t] \in Nat /\ commits[Number(t)] \in Nat /\ commits'[Number(t)] \in Nat
          /\ commits[Number(t)] <= commits'[Number(t)]
        BY <2>2, CommitsGrow DEF ToolInv, ToolTypeOK, TypeOK
    <2> QED
        BY <2>1, <2>3
<1> QED
    BY <1>1, <1>2, <1>3 DEF ToolInv

LEMMA PreparingKeepsToolInv ==
    ASSUME ToolInv, NEW t \in Tools, Prepares(t), UNCHANGED <<vars, hit, tasks>>
    PROVE  ToolInv'
<1>1. TypeOK' /\ JobInv'
    BY DEF ToolInv, vars, siteVars, jobVars, TypeOK, JobInv, ArticleOf
<1>2. CASE Begin(t) \/ Check(t) \/ Send(t) \/ GiveUpWrite(t) \/ LoseWrite(t)
    <2>1. ToolTypeOK'
        BY <1>2 DEF ToolInv, ToolTypeOK, Begin, Check, Send, GiveUpWrite, LoseWrite, ToolGoto, Return,
                    ToolPCs, Replies
    <2>2. OrderInv'
        BY <1>2 DEF ToolInv, ToolTypeOK, OrderInv, Unsent, Begin, Check, Send, GiveUpWrite, LoseWrite,
                    ToolGoto, Return
    <2>3. TargetInv'
        <3>1. UNCHANGED <<call, target, seen, commits, hit>>
            BY <1>2 DEF Begin, Check, Send, GiveUpWrite, LoseWrite, vars, siteVars
        <3>2. \A u \in Tools : Kind(u) \in {"update", "retire"} /\ Writing(u)' => Writing(u)
            BY <1>2 DEF ToolInv, ToolTypeOK, Writing, Begin, Check, Send, GiveUpWrite, LoseWrite,
                        ToolGoto, Return
        <3> QED
            BY <3>1, <3>2 DEF ToolInv, TargetInv, Kind, Number
    <2> QED
        BY <1>1, <2>1, <2>2, <2>3 DEF ToolInv
<1>3. CASE FindRow(t)
    <2>1. ASSUME NEW r \in Candidates(t)
          PROVE  r \in SysIds
        BY <2>1, NumberKnown DEF ToolInv, Candidates, Found, SysIds
    <2>2. Version(Number(t)) \in Nat
        BY VersionIsNat DEF ToolInv
    <2>3. ToolTypeOK'
        <3>3. about' \in [Tools -> Titles \cup {NoTitle}]
            <4>1. ASSUME NEW r \in Candidates(t), Kind(t) = "report"
                  PROVE  r \in Rows
                BY <4>1 DEF Candidates, Found
            <4>2. \/ about' = about
                  \/ \E r \in Rows : about' = [about EXCEPT ![t] = title[r]]
                BY <1>3, <4>1 DEF FindRow
            <4> QED
                BY <4>2 DEF ToolInv, ToolTypeOK, TypeOK
        <3>1. target' \in [Tools -> SysIds] /\ seen' \in [Tools -> Nat]
            <4>1. \/ UNCHANGED <<target, seen>>
                  \/ \E r \in Candidates(t) : target' = [target EXCEPT ![t] = r]
                                            /\ seen' = [seen EXCEPT ![t] = Version(Number(t))]
                BY <1>3 DEF FindRow
            <4> QED
                BY <2>1, <2>2, <4>1 DEF ToolInv, ToolTypeOK
        <3>2. tpc' \in [Tools -> ToolPCs] /\ answer' \in [Tools -> Replies]
            BY <1>3 DEF ToolInv, ToolTypeOK, FindRow, ToolGoto, Return, ToolPCs, Replies
        <3> QED
            BY <1>3, <3>1, <3>2, <3>3 DEF ToolInv, ToolTypeOK, FindRow
    <2>4. OrderInv'
        BY <1>3 DEF ToolInv, ToolTypeOK, OrderInv, Unsent, FindRow, ToolGoto, Return
    <2>5. ASSUME NEW r \in Candidates(t), Kind(t) \in {"update", "retire"}
          PROVE  r \in Rows /\ ArticleOfRow[r] = Number(t) /\ Version(Number(t)) = commits[Number(t)]
        BY <2>5, FoundByTool DEF Version
    <2>6. TargetInv'
        <3> SUFFICES ASSUME NEW u \in Tools, Kind(u) \in {"update", "retire"},
                            (Writing(u) \/ hit[u] # NoHit)'
                     PROVE  /\ target'[u] \in Rows /\ ArticleOfRow[target'[u]] = Number(u)
                            /\ seen'[u] <= commits[Number(u)]
            BY <1>3 DEF TargetInv, Kind, Number, FindRow, vars, siteVars
        <3>1. CASE u # t
            BY <1>3, <3>1 DEF ToolInv, ToolTypeOK, TargetInv, Writing, FindRow, ToolGoto, Return
        <3>2. CASE u = t
            <4>1. t \notin requests' /\ hit'[t] = NoHit
                BY <1>3 DEF ToolInv, OrderInv, Unsent, FindRow
            <4>2. tpc'[t] = "send"
                BY <3>2, <4>1 DEF Writing
            <4>3. PICK r \in Candidates(t) : target' = [target EXCEPT ![t] = r]
                                            /\ seen' = [seen EXCEPT ![t] = Version(Number(t))]
                BY <1>3, <4>2 DEF FindRow, Return, ToolGoto, ToolInv, ToolTypeOK
            <4>4. target'[t] = r /\ seen'[t] = Version(Number(t))
                BY <4>3 DEF ToolInv, ToolTypeOK
            <4>5. r \in Rows /\ ArticleOfRow[r] = Number(t) /\ Version(Number(t)) = commits[Number(t)]
                BY <3>2, <2>5
            <4>6. Version(Number(t)) <= commits[Number(t)]
                BY <2>2, <4>5
            <4> QED
                BY <3>2, <4>4, <4>5, <4>6
        <3> QED
            BY <3>1, <3>2
    <2> QED
        BY <1>1, <2>3, <2>4, <2>6 DEF ToolInv
<1> QED
    BY <1>2, <1>3 DEF Prepares

LEMMA ServingKeepsToolInv ==
    ASSUME ToolInv, NEW t \in Tools, ServeWrite(t)
    PROVE  ToolInv'
<1>1. /\ t \in requests /\ requests' = requests \ {t} /\ hit[t] = NoHit /\ tpc[t] \notin Unsent
      /\ UNCHANGED <<scene, pending, commits, jobVars, batch, call, target, about, seen>>
    BY ServeWriteOutcome
<1>2. \/ UNCHANGED <<tpc, answer>>
      \/ tpc[t] = "wait" /\ Return(t, "error")
      \/ tpc[t] = "wait" /\ Return(t, "record") /\ hit'[t] # NoHit
    BY ServeWriteOutcome
<1>3. state' \in [Rows -> States] /\ title' \in [Rows -> Titles]
    <2>1. state \in [Rows -> States] /\ title \in [Rows -> Titles]
        BY DEF ToolInv, TypeOK
    <2>2. Retitles(t) => call[t].title \in Titles
        BY DEF Retitles, ToolInv, ToolTypeOK
    <2> QED
        BY <2>1, <2>2, ServeWriteOutcome DEF States
<1>4. TypeOK' /\ JobInv'
    BY <1>1, <1>3 DEF ToolInv, TypeOK, JobInv, ArticleOf, jobVars
<1>5. hit' \in [Tools -> Hits]
    <2>1. hit \in [Tools -> Hits]
        BY DEF ToolInv, ToolTypeOK
    <2>2. ASSUME NEW s \in States \cup {"task"}, Hit(t, s)
          PROVE  hit' \in [Tools -> Hits]
        <3>1. Version(Number(t)) \in Nat /\ target[t] \in SysIds
            BY VersionIsNat DEF ToolInv, ToolTypeOK
        <3>2. Publishing(Number(t)) \in BOOLEAN
            BY DEF Publishing
        <3>3. [row |-> target[t], state |-> s, version |-> Version(Number(t)),
               busy |-> Publishing(Number(t))] \in Hits
            BY <3>1, <3>2 DEF Hits
        <3> QED
            BY <2>1, <2>2, <3>3 DEF Hit
    <2>3. Kind(t) \in {"update", "retire"} => state[target[t]] \in States
        BY <1>1 DEF ToolInv, TypeOK, TargetInv, Writing
    <2>4. hit' = hit \/ \E s \in States \cup {"task"} : Hit(t, s)
        BY <2>3, ServeWriteOutcome
    <2> QED
        BY <2>1, <2>2, <2>4
<1>6. ToolTypeOK'
    <2>1. tpc' \in [Tools -> ToolPCs] /\ answer' \in [Tools -> Replies]
        BY <1>2 DEF ToolInv, ToolTypeOK, Return, ToolGoto, ToolPCs, Replies
    <2>2. tasks' \in SUBSET SysIds /\ requests' \in SUBSET Tools
        BY <1>1, ServeWriteOutcome DEF ToolInv, ToolTypeOK
    <2>3. UNCHANGED <<call, target, about, seen>>
        BY <1>1
    <2> QED
        BY <1>5, <2>1, <2>2, <2>3 DEF ToolInv, ToolTypeOK
<1>7. \A u \in Tools : u # t => hit'[u] = hit[u] /\ tpc'[u] = tpc[u] /\ answer'[u] = answer[u]
    <2>1. \A u \in Tools : u # t => hit'[u] = hit[u]
        BY ServeWriteOutcome DEF Hit, ToolInv, ToolTypeOK
    <2> QED
        BY <1>2, <2>1 DEF Return, ToolGoto, ToolInv, ToolTypeOK
<1>8. OrderInv'
    <2> SUFFICES ASSUME NEW u \in Tools
                 PROVE  /\ tpc'[u] \in Unsent => hit'[u] = NoHit /\ u \notin requests' /\ answer'[u] = "none"
                        /\ u \in requests' => hit'[u] = NoHit
                        /\ answer'[u] = "record" => hit'[u] # NoHit
                        /\ answer'[u] \in {"notFound", "refused"} => hit'[u] = NoHit /\ u \notin requests'
        BY DEF OrderInv, Unsent, NoHit
    <2>1. CASE u # t
        BY <1>1, <1>7, <2>1 DEF ToolInv, OrderInv
    <2>2. CASE u = t
        <3>1. tpc'[t] \notin Unsent /\ answer'[t] \notin {"notFound", "refused"}
            BY <1>1, <1>2 DEF Return, ToolGoto, ToolInv, ToolTypeOK, OrderInv, Unsent
        <3>2. answer'[t] = "record" => hit'[t] # NoHit
            BY <1>1, <1>2 DEF Return, ToolGoto, ToolInv, ToolTypeOK, OrderInv
        <3> QED
            BY <1>1, <2>2, <3>1, <3>2
    <2> QED
        BY <2>1, <2>2
<1>9. TargetInv'
    <2>1. \A u \in Tools : (Writing(u) \/ hit[u] # NoHit)' => Writing(u) \/ hit[u] # NoHit
        BY <1>1, <1>2, <1>7 DEF Writing, Unsent, Return, ToolGoto, ToolInv, ToolTypeOK, NoHit
    <2> QED
        BY <1>1, <2>1 DEF ToolInv, TargetInv, Kind, Number
<1> QED
    BY <1>4, <1>6, <1>8, <1>9 DEF ToolInv

LEMMA ToolInvStep ==
    ASSUME ToolInv, [ToolsNext]_allVars
    PROVE  ToolInv'
<1>1. CASE [Next]_vars /\ UNCHANGED toolVars
    BY <1>1, BatchKeepsToolInv
<1>2. ASSUME NEW t \in Tools, Prepares(t), UNCHANGED <<vars, hit, tasks>>
      PROVE  ToolInv'
    BY <1>2, PreparingKeepsToolInv
<1>3. ASSUME NEW t \in Tools, ServeWrite(t)
      PROVE  ToolInv'
    BY <1>3, ServingKeepsToolInv
<1> QED
    BY <1>1, <1>2, <1>3, StepCases

LEMMA ToolInvHolds == ToolsSpec => []ToolInv
BY ToolsInitInv, ToolInvStep, PTL DEF ToolsSpec

\* A record in the answer of a tool means that its write was carried out; a tool
\* that says it found nothing, or refused, has written nothing and will not: for
\* any number of calls, late answers and broken connections.
THEOREM ToolAnswersAreTrue == ToolsSpec => []AnswersTrue
<1>1. ToolInv => AnswersTrue
    BY DEF ToolInv, OrderInv, AnswersTrue
<1> QED
    BY <1>1, ToolInvHolds, PTL

-----------------------------------------------------------------------------
(* What the rows may do while a tool's write is on its way                  *)

\* Between two commits of its article a draft stays a draft, and no row becomes
\* published; what has been published is never a draft again.
RowKept(x) ==
    LET a == ArticleOfRow[x] IN
    /\ commits[a] \in Nat /\ commits'[a] \in Nat /\ commits[a] <= commits'[a]
    /\ state[x] \in Live => state'[x] \in Live
    /\ state[x] = "draft" => state'[x] = "draft" \/ commits[a] < commits'[a]
    /\ state'[x] = "published" => state[x] = "published" \/ commits[a] < commits'[a]

LEMMA BatchKeepsRows ==
    ASSUME TypeOK, [Next]_vars, NEW x \in Rows
    PROVE  RowKept(x)
<1> DEFINE a == ArticleOfRow[x]
<1>1. commits[a] \in Nat /\ commits'[a] \in Nat /\ commits[a] <= commits'[a]
    BY CommitsGrow DEF TypeOK
<1>2. CASE UNCHANGED <<state, title, commits>>
    BY <1>1, <1>2 DEF RowKept
<1>3. ASSUME NEW f \in pending, Serve(f), Publish(f[3])
      PROVE  RowKept(x)
    <2>1. f[3] \in Rows
        BY <1>3, ServeOutcome
    <2>2. state[f[3]] = "draft" /\ state'[f[3]] = "published"
          /\ commits' = [commits EXCEPT ![ArticleOfRow[f[3]]] = @ + 1]
        BY <1>3, <2>1, PublishTouchesOwn
    <2>3. CASE x = f[3]
        <3>1. commits[a] < commits'[a]
            BY <1>1, <2>1, <2>2, <2>3 DEF TypeOK
        <3> QED
            BY <1>1, <2>2, <2>3, <3>1 DEF RowKept, Live
    <2>4. CASE x # f[3]
        <3>1. /\ state[x] = "published" =>
                    state'[x] = "outdated" \/ state'[x] = state[x]
              /\ state[x] \notin {"published", "absent"} => state'[x] = state[x]
              /\ state[x] = "absent" => state'[x] \in {"absent", "draft"}
            BY <1>3, <2>1, <2>4, PublishOwnRows, PublishTouchesOwn
        <3> QED
            BY <1>1, <3>1 DEF RowKept, Live
    <2> QED
        BY <2>3, <2>4
<1> QED
    BY <1>2, <1>3, OnlyServeChangesRows

LEMMA RowsKept ==
    ASSUME ToolInv, RetireInv, [ToolsNext]_allVars, NEW x \in Rows
    PROVE  RowKept(x)
<1> DEFINE a == ArticleOfRow[x]
<1>1. commits[a] \in Nat
    BY DEF ToolInv, TypeOK
<1>2. CASE [Next]_vars
    BY <1>2, BatchKeepsRows DEF ToolInv
<1>3. CASE UNCHANGED vars
    BY <1>1, <1>3 DEF RowKept, vars, siteVars
<1>4. ASSUME NEW t \in Tools, ServeWrite(t)
      PROVE  RowKept(x)
    <2>1. commits' = commits /\ t \in requests
        BY <1>4, ServeWriteOutcome
    <2>2. CASE state' = state
        BY <1>1, <2>1, <2>2 DEF RowKept
    <2>3. CASE state' # state
        <3>1. Kind(t) = "retire" /\ state' = [state EXCEPT ![target[t]] = "retired"]
            BY <1>4, <2>3, ServeWriteOutcome
        <3>2. target[t] \in Rows /\ state[target[t]] \in Live
            BY <2>1, <3>1 DEF ToolInv, TargetInv, RetireInv, Writing
        <3>3. state'[x] = IF x = target[t] THEN "retired" ELSE state[x]
            BY <3>1 DEF ToolInv, TypeOK
        <3> QED
            BY <1>1, <2>1, <3>2, <3>3 DEF RowKept, Live
    <2> QED
        BY <2>2, <2>3
<1> QED
    BY <1>2, <1>3, <1>4, StepCases

\* Where a write of a row, sent or done, comes from: it was on its way before the
\* step, or the step has just looked its row up.
LookedUp(u) ==
    /\ UNCHANGED vars /\ hit'[u] = NoHit
    /\ target'[u] \in Candidates(u) /\ seen'[u] = commits[Number(u)]

Served(u) ==
    /\ Writing(u) /\ Hit(u, state[target[u]]) /\ commits' = commits
    /\ Kind(u) = "retire" => state' = [state EXCEPT ![target[u]] = "retired"]

LEMMA WriteStep ==
    ASSUME ToolInv, [ToolsNext]_allVars, NEW u \in Tools, Kind(u) \in {"update", "retire"},
           (Writing(u) \/ hit[u] # NoHit)'
    PROVE  \/ LookedUp(u)
           \/ /\ target'[u] = target[u] /\ seen'[u] = seen[u]
              /\ Writing(u)' => Writing(u)
              /\ hit'[u] = hit[u] \/ Served(u)
              /\ Writing(u) \/ hit[u] # NoHit
<1>1. CASE [Next]_vars /\ UNCHANGED toolVars
    BY <1>1 DEF toolVars, Writing, NoHit
<1>2. ASSUME NEW t \in Tools, Prepares(t), UNCHANGED <<vars, hit, tasks>>, ~FindRow(t)
      PROVE  UNCHANGED <<target, seen, hit>> /\ (Writing(u)' => Writing(u))
    BY <1>2 DEF Prepares, Begin, Check, Send, GiveUpWrite, LoseWrite, Return, ToolGoto, ToolInv,
                ToolTypeOK, Writing
<1>3. ASSUME NEW t \in Tools, FindRow(t), t # u
      PROVE  /\ target'[u] = target[u] /\ seen'[u] = seen[u] /\ hit'[u] = hit[u]
             /\ Writing(u)' => Writing(u)
    <2>1. \E r, n : target' \in {target, [target EXCEPT ![t] = r]} /\ seen' \in {seen, [seen EXCEPT ![t] = n]}
        BY <1>3 DEF FindRow
    <2>2. UNCHANGED <<hit, requests>> /\ tpc'[u] = tpc[u]
        BY <1>3 DEF FindRow, Return, ToolGoto, ToolInv, ToolTypeOK
    <2> QED
        BY <1>3, <2>1, <2>2 DEF Writing, ToolInv, ToolTypeOK
<1>4. ASSUME FindRow(u)
      PROVE  LookedUp(u)
    <2>1. tpc[u] = "lookup" /\ hit' = hit /\ requests' = requests /\ UNCHANGED vars
        BY <1>4 DEF FindRow
    <2>2. hit'[u] = NoHit /\ u \notin requests'
        BY <2>1 DEF ToolInv, OrderInv, Unsent
    <2>3. tpc'[u] = "send"
        BY <2>2 DEF Writing, NoHit
    <2>4. PICK r \in Candidates(u) : target' = [target EXCEPT ![u] = r]
                                    /\ seen' = [seen EXCEPT ![u] = Version(Number(u))]
        BY <1>4, <2>3 DEF FindRow, Return, ToolGoto, ToolInv, ToolTypeOK
    <2>5. target'[u] = r /\ seen'[u] = Version(Number(u))
        BY <2>4 DEF ToolInv, ToolTypeOK
    <2>6. Version(Number(u)) = commits[Number(u)]
        BY FoundByTool DEF Version
    <2> QED
        BY <2>1, <2>2, <2>5, <2>6 DEF LookedUp
<1>5. ASSUME NEW t \in Tools, ServeWrite(t)
      PROVE  /\ target'[u] = target[u] /\ seen'[u] = seen[u]
             /\ Writing(u)' => Writing(u)
             /\ hit'[u] = hit[u] \/ Served(u)
    <2>1. /\ t \in requests /\ requests' = requests \ {t} /\ tpc[t] \notin Unsent
          /\ UNCHANGED <<commits, target, seen>>
        BY <1>5, ServeWriteOutcome
    <2>2. tpc' = tpc \/ tpc' = [tpc EXCEPT ![t] = "done"]
        BY <1>5, ServeWriteOutcome DEF Return, ToolGoto
    <2>3. Writing(u)' => Writing(u)
        BY <2>1, <2>2 DEF Writing, Unsent, ToolInv, ToolTypeOK
    <2>4. CASE u # t
        <3>1. hit'[u] = hit[u]
            BY <1>5, <2>4, ServeWriteOutcome DEF Hit, ToolInv, ToolTypeOK
        <3> QED
            BY <2>1, <2>3, <3>1
    <2>5. CASE u = t
        <3>1. CASE hit' = hit
            BY <2>1, <2>3, <3>1
        <3>2. CASE hit' # hit
            <4>1. Apply(t)
                BY <1>5, <3>2 DEF ServeWrite
            <4>2. Served(u)
                BY <2>1, <2>5, <4>1 DEF Apply, Served, Writing
            <4> QED
                BY <2>1, <2>3, <4>2
        <3> QED
            BY <3>1, <3>2
    <2> QED
        BY <2>4, <2>5
<1>6. (Writing(u)' => Writing(u)) /\ (hit'[u] = hit[u] \/ Served(u)) => Writing(u) \/ hit[u] # NoHit
    BY DEF Served, NoHit
<1> QED
    BY <1>1, <1>2, <1>3, <1>4, <1>5, <1>6, StepCases

-----------------------------------------------------------------------------
(* What a write finds                                                       *)

LEMMA WriteInit == ToolsInit => WriteInv /\ UpdateHitsDraft
<1> SUFFICES ASSUME ToolsInit
             PROVE  WriteInv /\ UpdateHitsDraft
    OBVIOUS
<1>1. OneVersion
    BY VersionsAssumption DEF ToolsInit, Init, OneVersion
<1>2. \A t \in Tools : ~Writing(t) /\ hit[t] = NoHit
    BY DEF ToolsInit, Writing
<1> QED
    BY <1>1, <1>2 DEF WriteInv, DraftInv, RetireInv, UpdateHitsDraft

LEMMA OneVersionStep ==
    ASSUME ToolInv, WriteInv, [ToolsNext]_allVars
    PROVE  OneVersion'
<1>1. ASSUME \A x \in Rows : state'[x] = "published" => state[x] = "published"
      PROVE  OneVersion'
    BY <1>1 DEF WriteInv, OneVersion
<1>2. ASSUME NEW f \in pending, Serve(f), Publish(f[3])
      PROVE  OneVersion'
    <2>1. f[3] \in Rows
        BY <1>2, ServeOutcome DEF ToolInv
    <2>2. ASSUME NEW x \in Rows, x # f[3], state'[x] = "published"
          PROVE  state[x] = "published" /\ ArticleOfRow[x] # ArticleOfRow[f[3]]
        <3>1. state[x] = "published"
            BY <1>2, <2>1, <2>2, PublishOwnRows DEF ToolInv
        <3> QED
            BY <1>2, <2>1, <2>2, <3>1, PublishOwnRows DEF ToolInv
    <2> QED
        BY <2>2 DEF WriteInv, OneVersion
<1>3. CASE UNCHANGED vars
    BY <1>1, <1>3 DEF vars, siteVars
<1>4. CASE [Next]_vars
    <2>1. CASE UNCHANGED <<state, title, commits>>
        BY <1>1, <2>1
    <2> QED
        BY <1>2, <1>4, <2>1, OnlyServeChangesRows DEF ToolInv
<1>5. ASSUME NEW t \in Tools, ServeWrite(t)
      PROVE  OneVersion'
    <2>1. state' \in {state, [state EXCEPT ![target[t]] = "retired"]}
        BY <1>5, ServeWriteOutcome
    <2>2. \A x \in Rows : state'[x] = "published" => state[x] = "published"
        BY <2>1 DEF ToolInv, TypeOK
    <2> QED
        BY <1>1, <2>2
<1> QED
    BY <1>3, <1>4, <1>5, StepCases

LEMMA CallsStay ==
    ASSUME ToolInv, [ToolsNext]_allVars, NEW t \in Tools
    PROVE  Kind(t)' = Kind(t) /\ Number(t)' = Number(t)
BY StepCases DEF Kind, Number

\* What a tool that has a write to come, or has written, knows of its row and article.
LEMMA TargetKept ==
    ASSUME ToolInv, WriteInv, [ToolsNext]_allVars, NEW u \in Tools,
           Kind(u) \in {"update", "retire"}, Writing(u) \/ hit[u] # NoHit
    PROVE  /\ target[u] \in Rows /\ ArticleOfRow[target[u]] = Number(u)
           /\ seen[u] \in Nat /\ commits[Number(u)] \in Nat /\ commits'[Number(u)] \in Nat
           /\ seen[u] <= commits[Number(u)] /\ commits[Number(u)] <= commits'[Number(u)]
           /\ RowKept(target[u])
           /\ commits'[Number(u)] = commits[Number(u)] =>
                Found(Number(u), "published")' \subseteq Found(Number(u), "published")
<1>1. target[u] \in Rows /\ ArticleOfRow[target[u]] = Number(u) /\ seen[u] <= commits[Number(u)]
    BY DEF ToolInv, TargetInv
<1>2. \A x \in Rows : RowKept(x)
    BY RowsKept DEF WriteInv
<1>3. seen[u] \in Nat
    BY DEF ToolInv, ToolTypeOK
<1>4. /\ commits[Number(u)] \in Nat /\ commits'[Number(u)] \in Nat
      /\ commits[Number(u)] <= commits'[Number(u)]
    BY <1>1, <1>2 DEF RowKept
<1>5. ASSUME commits'[Number(u)] = commits[Number(u)], NEW x \in Rows,
             ArticleOfRow[x] = Number(u), state'[x] = "published"
      PROVE  state[x] = "published"
    BY <1>2, <1>4, <1>5 DEF RowKept
<1>6. commits'[Number(u)] = commits[Number(u)] =>
          Found(Number(u), "published")' \subseteq Found(Number(u), "published")
    BY <1>5, CallsStay DEF Found
<1> QED
    BY <1>1, <1>2, <1>3, <1>4, <1>6

LEMMA DraftStep ==
    ASSUME ToolInv, WriteInv, [ToolsNext]_allVars, NEW u \in Tools, Kind(u) = "update", Writing(u)'
    PROVE  state'[target'[u]] = "draft" \/ commits'[Number(u)] > seen'[u]
<1>1. CASE LookedUp(u)
    BY <1>1, FoundByTool DEF LookedUp, vars, siteVars
<1>2. CASE ~LookedUp(u)
    <2>1. target'[u] = target[u] /\ seen'[u] = seen[u] /\ Writing(u)
        BY <1>2, WriteStep
    <2>2. state[target[u]] = "draft" \/ commits[Number(u)] > seen[u]
        BY <2>1 DEF WriteInv, DraftInv
    <2>3. /\ seen[u] \in Nat /\ commits[Number(u)] \in Nat /\ commits'[Number(u)] \in Nat
          /\ seen[u] <= commits[Number(u)] /\ commits[Number(u)] <= commits'[Number(u)]
          /\ ArticleOfRow[target[u]] = Number(u) /\ RowKept(target[u])
        BY <2>1, TargetKept
    <2> QED
        BY <2>1, <2>2, <2>3 DEF RowKept
<1> QED
    BY <1>1, <1>2

LEMMA RetireStep ==
    ASSUME ToolInv, WriteInv, [ToolsNext]_allVars, NEW u \in Tools, Kind(u) = "retire"
    PROVE  /\ Writing(u)' =>
                /\ state'[target'[u]] \in Live
                /\ commits'[Number(u)] = seen'[u] => Found(Number(u), "published")' \subseteq {target'[u]}
           /\ hit'[u] # NoHit /\ commits'[Number(u)] = seen'[u] => Found(Number(u), "published")' = {}
<1> SUFFICES ASSUME (Writing(u) \/ hit[u] # NoHit)'
             PROVE  /\ Writing(u)' =>
                         /\ state'[target'[u]] \in Live
                         /\ commits'[Number(u)] = seen'[u] =>
                                Found(Number(u), "published")' \subseteq {target'[u]}
                    /\ hit'[u] # NoHit /\ commits'[Number(u)] = seen'[u] =>
                                Found(Number(u), "published")' = {}
    BY DEF NoHit
<1>1. CASE LookedUp(u)
    <2>1. target'[u] \in Rows /\ ArticleOfRow[target'[u]] = Number(u) /\ state[target'[u]] = "published"
        BY <1>1, FoundByTool DEF LookedUp
    <2>2. \A x \in Found(Number(u), "published") : x = target'[u]
        BY <2>1 DEF WriteInv, OneVersion, Found
    <2>3. Found(Number(u), "published")' = Found(Number(u), "published") /\ state' = state
        BY <1>1, CallsStay DEF LookedUp, vars, siteVars, Found
    <2> QED
        BY <1>1, <2>1, <2>2, <2>3 DEF LookedUp, Live
<1>2. CASE ~LookedUp(u)
    <2>1. /\ target'[u] = target[u] /\ seen'[u] = seen[u]
          /\ Writing(u)' => Writing(u)
          /\ hit'[u] = hit[u] \/ Served(u)
          /\ Writing(u) \/ hit[u] # NoHit
        BY <1>2, WriteStep
    <2>2. /\ target[u] \in Rows /\ ArticleOfRow[target[u]] = Number(u)
          /\ seen[u] \in Nat /\ commits[Number(u)] \in Nat /\ commits'[Number(u)] \in Nat
          /\ seen[u] <= commits[Number(u)] /\ commits[Number(u)] <= commits'[Number(u)]
          /\ RowKept(target[u])
          /\ commits'[Number(u)] = commits[Number(u)] =>
                Found(Number(u), "published")' \subseteq Found(Number(u), "published")
        BY <2>1, TargetKept
    <2>3. /\ Writing(u) => state[target[u]] \in Live
                            /\ (commits[Number(u)] = seen[u] =>
                                    Found(Number(u), "published") \subseteq {target[u]})
          /\ hit[u] # NoHit /\ commits[Number(u)] = seen[u] => Found(Number(u), "published") = {}
        BY DEF WriteInv, RetireInv
    <2>4. commits'[Number(u)] = seen[u] =>
            commits[Number(u)] = seen[u] /\ commits'[Number(u)] = commits[Number(u)]
        BY <2>2
    <2>5. Writing(u) => /\ state'[target[u]] \in Live
                        /\ commits'[Number(u)] = seen[u] =>
                              Found(Number(u), "published")' \subseteq {target[u]}
        BY <2>2, <2>3, <2>4 DEF RowKept
    <2>6. ASSUME hit'[u] # NoHit, commits'[Number(u)] = seen[u]
          PROVE  Found(Number(u), "published")' = {}
        <3>1. CASE hit'[u] = hit[u]
            BY <2>2, <2>3, <2>4, <2>6, <3>1
        <3>2. CASE Served(u)
            <4>1. state'[target[u]] = "retired"
                BY <2>2, <3>2 DEF Served, ToolInv, TypeOK
            <4>2. Found(Number(u), "published")' \subseteq {target[u]}
                BY <2>5, <2>6, <3>2 DEF Served
            <4> QED
                BY <4>1, <4>2 DEF Found
        <3> QED
            BY <2>1, <3>1, <3>2
    <2> QED
        BY <2>1, <2>5, <2>6
<1> QED
    BY <1>1, <1>2

LEMMA HitStep ==
    ASSUME ToolInv, WriteInv, UpdateHitsDraft, [ToolsNext]_allVars,
           NEW u \in Tools, Kind(u) = "update", hit'[u] # NoHit
    PROVE  hit'[u].state = "draft" \/ hit'[u].version > seen'[u]
<1>1. ~LookedUp(u)
    BY DEF LookedUp
<1>2. seen'[u] = seen[u] /\ (hit'[u] = hit[u] \/ Served(u))
    BY <1>1, WriteStep DEF NoHit
<1>3. CASE hit'[u] = hit[u]
    BY <1>2, <1>3 DEF UpdateHitsDraft
<1>4. CASE Served(u)
    <2>1. state[target[u]] = "draft" \/ commits[Number(u)] > seen[u]
        BY <1>4 DEF Served, WriteInv, DraftInv
    <2>2. Number(u) \in Articles
        BY <1>4 DEF Served, ToolInv, TargetInv
    <2>3. hit'[u].state = state[target[u]] /\ hit'[u].version = commits[Number(u)]
        BY <1>4, <2>2 DEF Served, Hit, Version, ToolInv, ToolTypeOK
    <2> QED
        BY <1>2, <2>1, <2>3
<1> QED
    BY <1>2, <1>3, <1>4

LEMMA WriteInvStep ==
    ASSUME ToolInv, WriteInv, UpdateHitsDraft, [ToolsNext]_allVars
    PROVE  WriteInv' /\ UpdateHitsDraft'
<1>1. OneVersion'
    BY OneVersionStep
<1>2. DraftInv'
    BY DraftStep, CallsStay DEF DraftInv
<1>3. RetireInv'
    <2> SUFFICES ASSUME NEW u \in Tools, Kind(u) = "retire"
                 PROVE  (/\ Writing(u) =>
                             /\ state[target[u]] \in Live
                             /\ commits[Number(u)] = seen[u] => Found(Number(u), "published") \subseteq {target[u]}
                         /\ hit[u] # NoHit /\ commits[Number(u)] = seen[u] => Found(Number(u), "published") = {})'
        BY CallsStay DEF RetireInv
    <2>1. Number(u)' = Number(u)
        BY CallsStay
    <2>2. Found(Number(u), "published")' = {r \in Rows : ArticleOfRow[r] = Number(u) /\ state'[r] = "published"}
        BY <2>1 DEF Found
    <2> QED
        BY <2>1, <2>2, RetireStep DEF NoHit
<1>4. UpdateHitsDraft'
    BY HitStep, CallsStay DEF UpdateHitsDraft, NoHit
<1> QED
    BY <1>1, <1>2, <1>3, <1>4 DEF WriteInv

LEMMA WriteInvHolds == ToolsSpec => [](ToolInv /\ WriteInv /\ UpdateHitsDraft)
<1>1. ToolsInit => ToolInv /\ WriteInv /\ UpdateHitsDraft
    BY ToolsInitInv, WriteInit
<1>2. ToolInv /\ WriteInv /\ UpdateHitsDraft /\ [ToolsNext]_allVars
        => (ToolInv /\ WriteInv /\ UpdateHitsDraft)'
    BY ToolInvStep, WriteInvStep
<1> QED
    BY <1>1, <1>2, PTL DEF ToolsSpec

\* An update that changes a row which is no longer a draft does so because a
\* publish of the article committed after its lookup, and for no other reason.
THEOREM UpdatesHitDrafts == ToolsSpec => []UpdateHitsDraft
BY WriteInvHolds, PTL

\* A retire that reports its record leaves no published version of the article,
\* unless one was published since it looked the row up, however late its write
\* was carried out and whatever the other tools and the batch do.
THEOREM RetiredIsGone == ToolsSpec => []RetiredMeansGone
<1>1. ToolInv /\ WriteInv => RetiredMeansGone
    BY DEF ToolInv, OrderInv, WriteInv, RetireInv, RetiredMeansGone
<1> QED
    BY <1>1, WriteInvHolds, PTL

-----------------------------------------------------------------------------
(* Duplicates are made by clashes only                                      *)

NoClash == \A t \in Tools : ~Clash(t)

ClashInv == OneDraft /\ (NoClash => SubjectInv /\ ClearInv)

LEMMA PublishingIsBusy ==
    ASSUME TypeOK, NEW n
    PROVE  Publishing(n) <=> \E j \in Jobs : ArticleOf(j) = n /\ Busy(j)
BY DEF TypeOK, PCs, Publishing, Busy, AtWork

\* A write that has been carried out stays carried out.
LEMMA HitsStay ==
    ASSUME ToolInv, [ToolsNext]_allVars, NEW t \in Tools, hit[t] # NoHit
    PROVE  hit'[t] = hit[t]
<1>1. ASSUME NEW u \in Tools, ServeWrite(u)
      PROVE  hit'[t] = hit[t]
    BY <1>1, ServeWriteOutcome DEF Hit, ToolInv, ToolTypeOK
<1> QED
    BY <1>1, StepCases DEF toolVars

LEMMA NoClashBefore ==
    ASSUME ToolInv, [ToolsNext]_allVars, NoClash'
    PROVE  NoClash
<1> SUFFICES ASSUME NEW t \in Tools, Clash(t)
             PROVE  Clash(t)'
    BY DEF NoClash
<1> QED
    BY HitsStay, StepCases DEF Clash, Retitled, Kind, NoHit

\* What a write does to a row: it retires it, or gives it a title in a clash, or while it
\* is not published and no job is about to publish its article.
LEMMA WriteToRow ==
    ASSUME ToolInv, NEW t \in Tools, ServeWrite(t), NoClash', NEW x \in Rows
    PROVE  /\ state'[x] = state[x] \/ state'[x] = "retired"
           /\ \/ title'[x] = title[x]
              \/ state[x] # "published" /\ ~\E j \in Jobs : ArticleOf(j) = ArticleOfRow[x] /\ Busy(j)
<1>1. state' \in {state, [state EXCEPT ![target[t]] = "retired"]}
    BY ServeWriteOutcome
<1>2. state'[x] = state[x] \/ state'[x] = "retired"
    BY <1>1 DEF ToolInv, TypeOK
<1>3. ASSUME title'[x] # title[x]
      PROVE  state[x] # "published" /\ ~\E j \in Jobs : ArticleOf(j) = ArticleOfRow[x] /\ Busy(j)
    <2>1. /\ Kind(t) = "update" /\ call[t].title # NoTitle
          /\ Hit(t, state[target[t]]) /\ hit'[t] # NoHit /\ call' = call /\ t \in requests
          /\ title' = [title EXCEPT ![target[t]] = call[t].title]
        BY <1>3, ServeWriteOutcome DEF Retitles
    <2>2. x = target[t] /\ ArticleOfRow[x] = Number(t)
        BY <1>3, <2>1 DEF ToolInv, TypeOK, TargetInv, Writing
    <2>3. hit'[t].state = state[x] /\ hit'[t].busy = Publishing(Number(t))
        BY <2>1, <2>2 DEF Hit, ToolInv, ToolTypeOK
    <2>4. hit'[t].state # "published" /\ ~hit'[t].busy
        BY <2>1 DEF NoClash, Clash, Retitled, Kind, NoHit
    <2> QED
        BY <2>2, <2>3, <2>4, PublishingIsBusy DEF ToolInv
<1> QED
    BY <1>2, <1>3

LEMMA ClashStep ==
    ASSUME ToolInv, ClashInv, [ToolsNext]_allVars
    PROVE  ClashInv'
<1> USE DEF ClashInv
<1>1. CASE [Next]_vars
    <2>1. OneDraft'
        BY <1>1, OneDraftStep DEF ToolInv
    <2>2. NoClash' => SubjectInv' /\ ClearInv'
        BY <1>1, NoClashBefore, SubjectStep, ClearStep DEF ToolInv, DuplicateInv
    <2> QED
        BY <2>1, <2>2
<1>2. ASSUME NEW t \in Tools, ServeWrite(t)
      PROVE  ClashInv'
    <2>1. UNCHANGED <<scene, pending, commits, pc, subject>>
        BY <1>2, ServeWriteOutcome DEF jobVars
    <2>2. \A x \in Rows : state'[x] = state[x] \/ state'[x] = "retired"
        <3>1. state' \in {state, [state EXCEPT ![target[t]] = "retired"]}
            BY <1>2, ServeWriteOutcome
        <3> QED
            BY <3>1 DEF ToolInv, TypeOK
    <2>3. OneDraft'
        BY <2>2 DEF OneDraft
    <2>4. ASSUME NoClash'
          PROVE  SubjectInv' /\ ClearInv'
        <3>1. SubjectInv /\ ClearInv
            BY <2>4, NoClashBefore
        <3>2. \A j \in Jobs : Busy(j)' = Busy(j) /\ (Firing(j) => Busy(j)) /\ ArticleOf(j)' = ArticleOf(j)
            BY <2>1 DEF Busy, Firing, AtWork, ArticleOf
        <3>3. ASSUME NEW x \in Rows
              PROVE  /\ state'[x] = state[x] \/ state'[x] = "retired"
                     /\ \/ title'[x] = title[x]
                        \/ state[x] # "published" /\ ~\E j \in Jobs : ArticleOf(j) = ArticleOfRow[x] /\ Busy(j)
            BY <1>2, <2>4, WriteToRow
        <3>4. SubjectInv'
            BY <2>1, <3>1, <3>2, <3>3 DEF SubjectInv
        <3>5. ASSUME NEW x \in Rows, Armed(x)' \/ state'[x] = "published"
              PROVE  title'[x] = title[x] /\ (Armed(x)' => Armed(x)) /\ state'[x] = state[x]
            <4>1. state'[x] = state[x]
                BY <3>3, <3>5 DEF Armed
            <4>2. Armed(x)' => Armed(x)
                BY <2>1, <4>1 DEF Armed, Firing, AtWork, ArticleOf
            <4> QED
                BY <3>2, <3>3, <3>5, <4>1, <4>2 DEF Armed
        <3>6. ClearInv'
            BY <2>1, <3>1, <3>5 DEF ClearInv, MayFail, Armed
        <3> QED
            BY <3>4, <3>6
    <2> QED
        BY <2>3, <2>4
<1> QED
    BY <1>1, <1>2, StepCases

LEMMA ClashHolds == ToolsSpec => [](ToolInv /\ ClashInv)
<1>1. ToolsInit => ToolInv /\ ClashInv
    BY ToolsInitInv, DuplicateInit DEF ToolsInit, ClashInv, DuplicateInv
<1> QED
    BY <1>1, ToolInvStep, ClashStep, PTL DEF ToolsSpec

\* The updates and retirements beside a batch leave two published articles of one title
\* behind only where an update gives a title to a version that is published, or to one
\* of an article that a job has looked up and may still publish: not by one that
\* comes before the job's lookup, and not by a late write to another article's draft.
THEOREM ToolsLeaveNoDuplicates == ToolsSpec => []DuplicatesNeedClash
<1>1. ClashInv => DuplicatesNeedClash
    BY ClearMeansNone DEF ClashInv, DuplicatesNeedClash, NoClash
<1> QED
    BY <1>1, ClashHolds, PTL

-----------------------------------------------------------------------------
(* The report predicts the publish                                          *)

\* s is a title of article a, which shares it with a live row of another article.
TitleOf(s, a) == \E x \in Rows : ArticleOfRow[x] = a /\ state[x] # "absent" /\ title[x] = s
Twin(a) == \E s \in Titles : TitleOf(s, a) /\ Duplicates(s, a) # {}

OneTitleNow ==
    \A x, y \in Rows :
        ArticleOfRow[x] = ArticleOfRow[y] /\ state[x] # "absent" /\ state[y] # "absent"
        => title[x] = title[y]

\* What a report or a job has read is a title of its article; what it has answered,
\* and may still do, is as the article's title is a duplicate or not.
ReadsInv ==
    /\ \A t \in Tools, a \in Articles : Number(t) = a =>
          /\ tpc[t] = "check" => TitleOf(about[t], a)
          /\ answer[t] = "unique" => ~Twin(a)
          /\ answer[t] = "duplicate" => Twin(a)
    /\ \A j \in Jobs, a \in Articles : ArticleOf(j) = a =>
          /\ Busy(j) => TitleOf(subject[j], a)
          /\ Firing(j) \/ result[j] = "published" => ~Twin(a)
          /\ result[j] = "blocked" => Twin(a)

ReportInv == Undisturbed => OneTitleNow /\ ReadsInv

LEMMA UndisturbedBefore ==
    ASSUME ToolInv, [ToolsNext]_allVars, Undisturbed'
    PROVE  Undisturbed
<1>1. scene' = scene /\ call' = call
    BY StepCases
<1>2. \A t \in Tools : hit[t] # NoHit => hit'[t] # NoHit
    BY HitsStay
<1> QED
    BY <1>1, <1>2 DEF Undisturbed, MayFail, OneTitle, Retitled, Kind, NoHit

\* While no write disturbs them, only the workflow changes the rows.
LEMMA UndisturbedRows ==
    ASSUME ToolInv, [ToolsNext]_allVars, Undisturbed'
    PROVE  UNCHANGED <<state, title>> \/ \E r \in Rows : Publish(r)
<1>1. CASE [Next]_vars
    BY <1>1, OnlyServeChangesRows, ServeOutcome DEF ToolInv
<1>2. ASSUME NEW t \in Tools, ServeWrite(t)
      PROVE  UNCHANGED <<state, title>>
    <2>1. CASE Kind(t) \in {"update", "retire"} /\ hit'[t] # NoHit
        <3>1. call' = call
            BY <1>2, ServeWriteOutcome
        <3>2. Kind(t) # "retire" /\ ~Retitles(t)
            BY <2>1, <3>1 DEF Undisturbed, Retitled, Retitles, Kind, NoHit
        <3> QED
            BY <1>2, <3>2, ServeWriteOutcome
    <2> QED
        BY <1>2, <2>1, ServeWriteOutcome
<1> QED
    BY <1>1, <1>2, StepCases DEF vars, siteVars

\* A publish gives no article a title it did not have, and takes none from it: the new
\* draft has the title of the one published.
LEMMA TitlesStay ==
    ASSUME TypeOK, OneTitleNow, NEW r \in Rows, Publish(r)
    PROVE  /\ OneTitleNow'
           /\ \A s, a : TitleOf(s, a)' <=> TitleOf(s, a)
<1>1. state[r] = "draft" /\ state'[r] = "published"
    BY PublishTouchesOwn
<1>2. ASSUME NEW x \in Rows, state[x] # "absent"
      PROVE  state'[x] # "absent" /\ title'[x] = title[x]
    <2>1. CASE x = r
        BY <1>1, <1>2, <2>1, PublishOwnRows
    <2>2. CASE x # r /\ ArticleOfRow[x] = ArticleOfRow[r]
        BY <1>2, <2>2, PublishOwnRows
    <2>3. CASE ArticleOfRow[x] # ArticleOfRow[r]
        BY <1>2, <2>3, PublishTouchesOwn
    <2> QED
        BY <2>1, <2>2, <2>3
<1>3. ASSUME NEW x \in Rows, state'[x] # "absent"
      PROVE  \E y \in Rows : ArticleOfRow[y] = ArticleOfRow[x] /\ state[y] # "absent" /\ title'[x] = title[y]
    <2>1. CASE state[x] # "absent"
        BY <1>2, <2>1
    <2>2. CASE state[x] = "absent"
        BY <1>1, <1>3, <2>2, PublishOwnRows
    <2> QED
        BY <2>1, <2>2
<1>4. OneTitleNow'
    BY <1>3 DEF OneTitleNow
<1> QED
    BY <1>2, <1>3, <1>4 DEF TitleOf

\* Nor does it take an article off the duplicates of another, or add one to them: a row
\* that is outdated makes room for another row of its article and title.
LEMMA DuplicatesStay ==
    ASSUME TypeOK, OneTitleNow, NEW r \in Rows, Publish(r), NEW s, NEW a
    PROVE  Duplicates(s, a)' = {} <=> Duplicates(s, a) = {}
<1>1. state[r] = "draft" /\ state'[r] = "published" /\ title'[r] = title[r]
    BY PublishTouchesOwn, PublishOwnRows
<1>2. ASSUME NEW x \in Duplicates(s, a)
      PROVE  Duplicates(s, a)' # {}
    <2>1. CASE ArticleOfRow[x] = ArticleOfRow[r]
        <3>1. title[x] = title[r]
            BY <1>1, <2>1 DEF OneTitleNow, Duplicates
        <3>2. r \in Duplicates(s, a)'
            BY <1>1, <2>1, <3>1 DEF Duplicates, Ignored
        <3> QED
            BY <3>2
    <2>2. CASE ArticleOfRow[x] # ArticleOfRow[r]
        <3>1. x \in Duplicates(s, a)'
            BY <2>2, PublishTouchesOwn DEF Duplicates
        <3> QED
            BY <3>1
    <2> QED
        BY <2>1, <2>2
<1>3. ASSUME NEW x \in Duplicates(s, a)'
      PROVE  Duplicates(s, a) # {}
    <2>1. x \in Rows /\ title'[x] = s /\ ArticleOfRow[x] # a /\ state'[x] \notin Ignored \cup {"absent"}
        BY <1>3 DEF Duplicates
    <2>2. CASE ArticleOfRow[x] = ArticleOfRow[r]
        <3>1. title'[x] = title[r]
            <4>1. TitleOf(s, ArticleOfRow[x])'
                BY <2>1 DEF TitleOf
            <4>2. TitleOf(s, ArticleOfRow[x])
                BY <4>1, TitlesStay
            <4> QED
                BY <1>1, <2>1, <2>2, <4>2 DEF TitleOf, OneTitleNow
        <3>2. r \in Duplicates(s, a)
            BY <1>1, <2>1, <2>2, <3>1 DEF Duplicates, Ignored
        <3> QED
            BY <3>2
    <2>3. CASE ArticleOfRow[x] # ArticleOfRow[r]
        <3>1. x \in Duplicates(s, a)
            BY <2>1, <2>3, PublishTouchesOwn DEF Duplicates
        <3> QED
            BY <3>1
    <2> QED
        BY <2>2, <2>3
<1> QED
    BY <1>2, <1>3

LEMMA TwinsStay ==
    ASSUME ToolInv, OneTitleNow, [ToolsNext]_allVars, Undisturbed'
    PROVE  /\ OneTitleNow'
           /\ \A s, a : TitleOf(s, a)' <=> TitleOf(s, a)
           /\ \A a : Twin(a)' <=> Twin(a)
<1>1. CASE UNCHANGED <<state, title>>
    BY <1>1 DEF OneTitleNow, TitleOf, Twin, Duplicates
<1>2. ASSUME NEW r \in Rows, Publish(r)
      PROVE  /\ OneTitleNow'
             /\ \A s, a : TitleOf(s, a)' <=> TitleOf(s, a)
             /\ \A a : Twin(a)' <=> Twin(a)
    <2>1. OneTitleNow' /\ \A s, a : TitleOf(s, a)' <=> TitleOf(s, a)
        BY <1>2, TitlesStay DEF ToolInv
    <2>2. \A s, a : Duplicates(s, a)' = {} <=> Duplicates(s, a) = {}
        BY <1>2, DuplicatesStay DEF ToolInv
    <2> QED
        BY <2>1, <2>2 DEF Twin
<1> QED
    BY <1>1, <1>2, UndisturbedRows

\* Of a title of the article, the check tells whether the article has a twin.
LEMMA CheckTells ==
    ASSUME ToolInv, OneTitleNow, NEW s, NEW a, TitleOf(s, a)
    PROVE  Duplicates(s, a) # {} <=> Twin(a)
<1>1. s \in Titles
    BY DEF TitleOf, ToolInv, TypeOK
<1>2. \A u : TitleOf(u, a) => u = s
    BY DEF TitleOf, OneTitleNow
<1> QED
    BY <1>1, <1>2 DEF Twin

\* What a report says is what its check has told, of the title it has read.
LEMMA ReportIsSeen ==
    ASSUME ToolInv, ~MayFail("read"), [ToolsNext]_allVars, NEW t \in Tools
    PROVE  /\ answer'[t] = "unique" =>
                \/ answer[t] = "unique"
                \/ tpc[t] = "check" /\ Duplicates(about[t], Number(t)) = {}
           /\ answer'[t] = "duplicate" =>
                \/ answer[t] = "duplicate"
                \/ tpc[t] = "check" /\ Duplicates(about[t], Number(t)) # {}
<1>1. ASSUME NEW u \in Tools, NEW ans, Return(u, ans), answer'[t] # answer[t]
      PROVE  u = t /\ answer'[t] = ans
    BY <1>1 DEF Return, ToolInv, ToolTypeOK
<1>2. ASSUME NEW u \in Tools, Begin(u) \/ FindRow(u) \/ Send(u) \/ GiveUpWrite(u) \/ LoseWrite(u)
      PROVE  answer' = answer \/ \E ans \in {"refused", "notFound", "error", "noData"} : Return(u, ans)
    BY <1>2 DEF Begin, FindRow, Send, GiveUpWrite, LoseWrite
<1>3. ASSUME NEW u \in Tools, ServeWrite(u)
      PROVE  answer' = answer \/ \E ans \in {"error", "record"} : Return(u, ans)
    BY <1>3, ServeWriteOutcome
<1>4. ASSUME NEW u \in Tools, Check(u)
      PROVE  /\ tpc[u] = "check"
             /\ \/ Return(u, "duplicate") /\ Duplicates(about[u], Number(u)) # {}
                \/ Return(u, "unique") /\ Duplicates(about[u], Number(u)) = {}
    BY <1>4 DEF Check, FindsDuplicates
<1>5. CASE answer' = answer
    BY <1>5
<1>6. ASSUME NEW u \in Tools, NEW ans \in {"refused", "notFound", "error", "noData", "record"}, Return(u, ans)
      PROVE  answer'[t] \in {"unique", "duplicate"} => answer'[t] = answer[t]
    BY <1>1, <1>6
<1> QED
    BY <1>1, <1>2, <1>3, <1>4, <1>5, <1>6, StepCases DEF Prepares, toolVars

\* A report that is about to check has the title it had, or that of a version it finds.
LEMMA ReportHasTitle ==
    ASSUME ToolInv, [ToolsNext]_allVars, NEW t \in Tools, tpc'[t] = "check"
    PROVE  (tpc[t] = "check" /\ about'[t] = about[t]) \/ TitleOf(about'[t], Number(t))
<1>1. ASSUME NEW u \in Tools, Prepares(u), ~FindRow(u)
      PROVE  tpc[t] = "check" /\ about'[t] = about[t]
    BY <1>1 DEF Prepares, Begin, Check, Send, GiveUpWrite, LoseWrite, ToolGoto, Return, ToolInv,
                ToolTypeOK
<1>2. ASSUME NEW u \in Tools, ServeWrite(u)
      PROVE  tpc[t] = "check" /\ about'[t] = about[t]
    BY <1>2, ServeWriteOutcome DEF Return, ToolGoto, ToolInv, ToolTypeOK
<1>3. ASSUME NEW u \in Tools, FindRow(u), u # t
      PROVE  tpc[t] = "check" /\ about'[t] = about[t]
    <2>1. about' = about \/ \E r : about' = [about EXCEPT ![u] = title[r]]
        BY <1>3 DEF FindRow
    <2>2. tpc'[t] = tpc[t]
        BY <1>3 DEF FindRow, Return, ToolGoto, ToolInv, ToolTypeOK
    <2> QED
        BY <1>3, <2>1, <2>2 DEF ToolInv, ToolTypeOK
<1>4. CASE FindRow(t)
    <2>1. PICK r \in Candidates(t) :
              /\ about' = IF Kind(t) = "report" THEN [about EXCEPT ![t] = title[r]] ELSE about
              /\ tpc' = [tpc EXCEPT ![t] = IF Kind(t) = "report" THEN "check" ELSE "send"]
        BY <1>4 DEF FindRow, Return, ToolGoto, ToolInv, ToolTypeOK
    <2>2. Kind(t) = "report" /\ about'[t] = title[r]
        BY <2>1 DEF ToolInv, ToolTypeOK
    <2>3. r \in UNION {Found(Number(t), s) : s \in Wanted(Kind(t))}
        BY <2>2 DEF Candidates
    <2>4. Wanted(Kind(t)) = States \ {"absent"}
        BY <2>2 DEF Wanted
    <2>5. r \in Rows /\ ArticleOfRow[r] = Number(t) /\ state[r] # "absent"
        BY <2>3, <2>4 DEF Found
    <2> QED
        BY <2>2, <2>5 DEF TitleOf
<1>5. CASE UNCHANGED toolVars
    BY <1>5 DEF toolVars
<1> QED
    BY <1>1, <1>2, <1>3, <1>4, <1>5, StepCases

\* A job's row in the answer of the batch is as its check has told.
LEMMA RowIsSeen ==
    ASSUME ToolInv, [ToolsNext]_allVars, NEW j \in Jobs
    PROVE  /\ result'[j] = "blocked" =>
                \/ result[j] = "blocked"
                \/ Busy(j) /\ Duplicates(subject[j], ArticleOf(j)) # {}
           /\ result'[j] = "published" => result[j] = "published" \/ Firing(j)
<1>1. CASE result' = result
    BY <1>1
<1>2. ASSUME NEW i \in Jobs, NEW res, Finish(i, res), result'[j] # result[j]
      PROVE  i = j /\ result'[j] = res
    BY <1>2 DEF Finish, ToolInv, TypeOK
<1>3. ASSUME NEW i \in Jobs, CheckDuplicates(i) \/ LookUp(i) \/ Verify(i)
      PROVE  \/ result' = result
             \/ Finish(i, "error")
             \/ Finish(i, "blocked") /\ Busy(i) /\ Duplicates(subject[i], ArticleOf(i)) # {}
             \/ Finish(i, "published") /\ Firing(i)
    BY <1>3 DEF CheckDuplicates, LookUp, Verify, Busy, Firing, AtWork
<1>4. ASSUME NEW f \in pending, Serve(f)
      PROVE  result' = result
    BY <1>4, ServeOutcome DEF ToolInv, FireReturns, jobVars
<1>5. CASE [Next]_vars
    BY <1>1, <1>2, <1>3, <1>4, <1>5
       DEF Next, JobStep, Enter, Fire, FireRaises, GiveUpFire, LoseFire, FireReturns,
           Refresh, Answer, vars, jobVars
<1>6. ASSUME NEW t \in Tools, ServeWrite(t)
      PROVE  result' = result
    BY <1>6, ServeWriteOutcome DEF jobVars
<1> QED
    BY <1>1, <1>5, <1>6, StepCases DEF vars, jobVars

\* What a job is at after a step, tools or not.
LEMMA JobsGoOnBeside ==
    ASSUME ToolInv, ~MayFail("read"), [ToolsNext]_allVars, NEW j \in Jobs
    PROVE  /\ Busy(j)' => \/ \E r \in Found(ArticleOf(j), "draft") : subject'[j] = title[r]
                          \/ Busy(j) /\ subject'[j] = subject[j]
           /\ Firing(j)' => Firing(j) \/ (Busy(j) /\ Duplicates(subject[j], ArticleOf(j)) = {})
<1>1. CASE [Next]_vars
    BY <1>1, JobsGoOn, LookUpTitle DEF ToolInv, Busy, AtWork
<1>2. CASE UNCHANGED <<pc, pending, subject>>
    BY <1>2 DEF Busy, Firing
<1>3. ASSUME NEW t \in Tools, ServeWrite(t)
      PROVE  UNCHANGED <<pc, pending, subject>>
    BY <1>3, ServeWriteOutcome DEF jobVars
<1> QED
    BY <1>1, <1>2, <1>3, StepCases DEF vars, siteVars, jobVars

LEMMA ReportStep ==
    ASSUME ToolInv, ReportInv, [ToolsNext]_allVars
    PROVE  ReportInv'
<1> SUFFICES ASSUME Undisturbed'
             PROVE  OneTitleNow' /\ ReadsInv'
    BY DEF ReportInv
<1>1. Undisturbed /\ ~MayFail("read") /\ OneTitleNow /\ ReadsInv
    BY UndisturbedBefore DEF ReportInv, Undisturbed
<1>2. /\ OneTitleNow'
      /\ \A s, a : TitleOf(s, a)' <=> TitleOf(s, a)
      /\ \A a : Twin(a)' <=> Twin(a)
    BY <1>1, TwinsStay
<1>3. ASSUME NEW t \in Tools, NEW a \in Articles, Number(t) = a
      PROVE  /\ tpc'[t] = "check" => TitleOf(about'[t], a)
             /\ answer'[t] = "unique" => ~Twin(a)
             /\ answer'[t] = "duplicate" => Twin(a)
    <2>1. tpc'[t] = "check" => TitleOf(about'[t], a)
        BY <1>1, <1>3, ReportHasTitle DEF ReadsInv
    <2>2. tpc[t] = "check" => (Duplicates(about[t], a) # {} <=> Twin(a))
        BY <1>1, <1>3, CheckTells DEF ReadsInv
    <2> QED
        BY <1>1, <1>3, <2>1, <2>2, ReportIsSeen DEF ReadsInv
<1>4. ASSUME NEW j \in Jobs, NEW a \in Articles, ArticleOf(j) = a
      PROVE  /\ Busy(j)' => TitleOf(subject'[j], a)
             /\ Firing(j)' \/ result'[j] = "published" => ~Twin(a)
             /\ result'[j] = "blocked" => Twin(a)
    <2>1. \A r \in Found(a, "draft") : TitleOf(title[r], a)
        BY DEF Found, TitleOf
    <2>2. Busy(j)' => TitleOf(subject'[j], a)
        BY <1>1, <1>4, <2>1, JobsGoOnBeside DEF ReadsInv
    <2>3. Busy(j) => (Duplicates(subject[j], a) # {} <=> Twin(a))
        BY <1>1, <1>4, CheckTells DEF ReadsInv
    <2> QED
        BY <1>1, <1>4, <2>2, <2>3, JobsGoOnBeside, RowIsSeen DEF ReadsInv
<1>5. \A t \in Tools : Number(t)' = Number(t)
    BY CallsStay
<1>6. \A j \in Jobs : ArticleOf(j)' = ArticleOf(j)
    BY StepCases DEF ArticleOf
<1>7. ASSUME NEW t \in Tools, NEW a \in Articles, Number(t)' = a
      PROVE  (/\ tpc[t] = "check" => TitleOf(about[t], a)
              /\ answer[t] = "unique" => ~Twin(a)
              /\ answer[t] = "duplicate" => Twin(a))'
    <2>1. PICK s : s = about'[t]
        OBVIOUS
    <2>2. tpc'[t] = "check" => TitleOf(s, a)'
        BY <1>2, <1>3, <1>5, <1>7, <2>1
    <2>3. (tpc[t] = "check" => TitleOf(about[t], a))'
        BY <2>1, <2>2 DEF TitleOf
    <2> QED
        BY <1>2, <1>3, <1>5, <1>7, <2>3
<1>8. ASSUME NEW j \in Jobs, NEW a \in Articles, ArticleOf(j)' = a
      PROVE  (/\ Busy(j) => TitleOf(subject[j], a)
              /\ Firing(j) \/ result[j] = "published" => ~Twin(a)
              /\ result[j] = "blocked" => Twin(a))'
    <2>1. PICK s : s = subject'[j]
        OBVIOUS
    <2>2. Busy(j)' => TitleOf(s, a)'
        BY <1>2, <1>4, <1>6, <1>8, <2>1
    <2>3. (Busy(j) => TitleOf(subject[j], a))'
        BY <2>1, <2>2 DEF TitleOf
    <2> QED
        BY <1>2, <1>4, <1>6, <1>8, <2>3
<1> QED
    BY <1>2, <1>7, <1>8 DEF ReadsInv

\* While reads succeed, the versions of an article have one title, and no write has
\* changed one or retired an article: an article that check_kb_duplicates reports as
\* unique is never blocked, and one it reports as a duplicate is never published, for any
\* batch, any number of reports at any moment of it, and updates of other fields beside.
THEOREM ReportsPredict == ToolsSpec => []ReportPredictsPublish
<1>1. ToolsInit => ReportInv
    <2> SUFFICES ASSUME ToolsInit, OneTitle
                 PROVE  OneTitleNow /\ ReadsInv
        BY DEF ReportInv, Undisturbed
    <2>1. OneTitleNow
        BY DEF OneTitle, OneTitleNow, ToolsInit, Init
    <2>2. \A j \in Jobs : ~Busy(j) /\ ~Firing(j) /\ result[j] = "none"
        BY DEF ToolsInit, Init, Busy, Firing, AtWork
    <2> QED
        BY <2>1, <2>2 DEF ReadsInv, ToolsInit
<1>2. ToolInv /\ ReportInv /\ [ToolsNext]_allVars => ReportInv'
    BY ReportStep
<1>3. ToolInv /\ ReportInv => ReportPredictsPublish
    <2> SUFFICES ASSUME ToolInv, ReportInv, Undisturbed,
                        NEW t \in Tools, NEW j \in Jobs, Number(t) = ArticleOf(j)
                 PROVE  /\ answer[t] = "unique" => result[j] # "blocked"
                        /\ answer[t] = "duplicate" => result[j] # "published"
        BY DEF ReportPredictsPublish
    <2>1. ArticleOf(j) \in Articles
        BY ScenesAssumption DEF ToolInv, TypeOK, ArticleOf
    <2> QED
        BY <2>1 DEF ReportInv, ReadsInv
<1> QED
    BY <1>1, <1>2, <1>3, ToolInvHolds, PTL DEF ToolsSpec

=============================================================================
