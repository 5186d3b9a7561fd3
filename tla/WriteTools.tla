----------------------------- MODULE WriteTools -----------------------------
(***************************************************************************)
(* The other writing tools, beside the publish jobs of KBPublish and over    *)
(* the same rows: update_knowledge_article, retire_knowledge_article and the *)
(* entries of check_kb_duplicates (kb_article_tools.py), update_private_task *)
(* and create_private_task (vtb_task_tools.py).                              *)
(*                                                                          *)
(* Each but the last reads a sys_id and uses it after an await: the row may  *)
(* have changed its state in between, and an update may change its title.  A *)
(* write may be carried out with an answer, without one, or after the tool   *)
(* has stopped waiting; a read that fails looks like one that finds nothing. *)
(*                                                                          *)
(* The tools know a write by the status of its answer only.  That a 2xx is   *)
(* the answer to a write that was carried out is assumed of the instance.    *)
(***************************************************************************)
EXTENDS KBPublish

CONSTANTS
    Tools,       \* the tool calls, beside the jobs
    ToolCalls,   \* what they may be asked for: functions on Tools
    TaskNumbers  \* numbers of private tasks

Kinds == {"update", "retire", "report", "taskUpdate", "taskCreate"}
KBKinds == {"update", "retire", "report"}
NoHit == [row |-> NoRow, state |-> "absent", version |-> 0, busy |-> FALSE]

ASSUME ToolsAssumption ==
    /\ ToolCalls \subseteq [Tools -> [kind : Kinds, number : Articles \cup TaskNumbers,
                                      data : BOOLEAN, title : Titles \cup {NoTitle}]]
    /\ NoTitle \notin Titles

\* A publish leaves the version before it outdated (_check_kb_duplicates), so that
\* retire_knowledge_article finds one published row at most.
ASSUME VersionsAssumption ==
    \A s \in Scenes, x, y \in Rows :
        /\ ArticleOfRow[x] = ArticleOfRow[y]
        /\ s.first[x] = "published" /\ s.first[y] = "published"
        => x = y

VARIABLES
    call,     \* what each tool is asked for; data: the payload is not empty; title: the
              \* short_description an update gives, or NoTitle
    tpc,      \* where each tool is
    target,   \* the sys_id it has read
    about,    \* the title a report has read
    seen,     \* how often the article had been published then
    requests, \* the writes the instance has not answered
    hit,      \* the row a write has changed, its state and version at that time, and
              \* whether a job was about to publish the article
    tasks,    \* the private tasks there are
    answer    \* what the tool returns

toolVars == <<call, tpc, target, about, seen, requests, hit, tasks, answer>>
allVars == <<vars, toolVars>>

ToolsInit ==
    /\ Init
    /\ call \in ToolCalls
    /\ tpc = [t \in Tools |-> "start"]
    /\ target = [t \in Tools |-> NoRow]
    /\ about = [t \in Tools |-> NoTitle]
    /\ seen = [t \in Tools |-> 0]
    /\ requests = {}
    /\ hit = [t \in Tools |-> NoHit]
    /\ tasks \in SUBSET TaskNumbers
    /\ answer = [t \in Tools |-> "none"]

-----------------------------------------------------------------------------
Kind(t) == call[t].kind
Number(t) == call[t].number
Version(n) == IF n \in Articles THEN commits[n] ELSE 0

ToolGoto(t, label) == tpc' = [tpc EXCEPT ![t] = label]
Return(t, a) == ToolGoto(t, "done") /\ answer' = [answer EXCEPT ![t] = a]

\* The calls of check_kb_duplicates' semaphore that are under way.
Checking == {t \in Tools : Kind(t) = "report" /\ tpc[t] \in {"lookup", "check"}}

\* The tool is called: it refuses an empty payload, a creation goes straight to
\* its POST, an entry of the report waits for the semaphore.
Begin(t) ==
    /\ tpc[t] = "start"
    /\ \/ /\ Kind(t) \in {"update", "taskUpdate", "taskCreate"} /\ ~call[t].data
          /\ Return(t, "refused")
       \/ /\ Kind(t) = "taskCreate" /\ call[t].data
          /\ ToolGoto(t, "send") /\ UNCHANGED answer
       \/ /\ Kind(t) \in {"update", "taskUpdate"} => call[t].data
          /\ Kind(t) = "report" => Cardinality(Checking) < Slots
          /\ Kind(t) # "taskCreate"
          /\ ToolGoto(t, "lookup") /\ UNCHANGED answer
    /\ UNCHANGED <<vars, call, target, about, seen, requests, hit, tasks>>

\* The workflow state each lookup asks for; the report and the tasks ask for none.
WantedAny(kind) == States \ {"absent"}   \* slip: the lookup leaves out the state
Wanted(kind) == CASE kind = "update" -> {"draft"}
                  [] kind = "retire" -> {"published"}
                  [] OTHER -> States \ {"absent"}

\* The rows _get_kb_article_sys_id, _get_kb_article_meta or _get_task_sys_id finds.
Candidates(t) ==
    IF Kind(t) = "taskUpdate" THEN tasks \cap {Number(t)}
    ELSE UNION {Found(Number(t), s) : s \in Wanted(Kind(t))}

FindRow(t) ==
    /\ tpc[t] = "lookup"
    /\ \/ \E r \in Candidates(t) :
             /\ target' = [target EXCEPT ![t] = r]
             /\ about' = IF Kind(t) = "report" THEN [about EXCEPT ![t] = title[r]] ELSE about
             /\ seen' = [seen EXCEPT ![t] = Version(Number(t))]
             /\ ToolGoto(t, IF Kind(t) = "report" THEN "check" ELSE "send")
             /\ UNCHANGED answer
       \/ /\ MayFail("read") \/ Candidates(t) = {}
          /\ Return(t, "notFound")
          /\ UNCHANGED <<target, about, seen>>
    /\ UNCHANGED <<vars, call, requests, hit, tasks>>

\* What the report of an article says: the check that publish makes, with the title
\* that was read, of whichever version.
FindsDraftsOnly(t) ==   \* slip: the report has a check of its own
    \E r \in Duplicates(about[t], Number(t)) : state[r] # "review"
FindsDuplicates(t) == Duplicates(about[t], Number(t)) # {}

Check(t) ==
    /\ tpc[t] = "check"
    /\ \/ FindsDuplicates(t) /\ Return(t, "duplicate")
       \/ (MayFail("read") \/ ~FindsDuplicates(t)) /\ Return(t, "unique")
    /\ UNCHANGED <<vars, call, target, about, seen, requests, hit, tasks>>

\* The POST or PATCH is sent, or raises for want of a token; here, unlike in
\* _fire_publish, every exception becomes an answer.
Send(t) ==
    /\ tpc[t] = "send"
    /\ \/ requests' = requests \cup {t} /\ ToolGoto(t, "wait") /\ UNCHANGED answer
       \/ MayFail("token") /\ Return(t, "error") /\ UNCHANGED requests
    /\ UNCHANGED <<vars, call, target, about, seen, hit, tasks>>

\* The writes under KB_WRITE_TIMEOUT_SECONDS.
DeadlinedPatch == {"update"}   \* slip: the workflow POST has no deadline
DeadlinedKinds == {"update", "retire"}

GiveUpWrite(t) ==
    /\ tpc[t] = "wait" /\ Kind(t) \in DeadlinedKinds
    /\ Return(t, "error")
    /\ UNCHANGED <<vars, call, target, about, seen, requests, hit, tasks>>

\* The connection breaks: None from the executor, "successful but no data returned".
LoseWrite(t) ==
    /\ MayFail("call")
    /\ tpc[t] = "wait"
    /\ Return(t, "noData")
    /\ UNCHANGED <<vars, call, target, about, seen, requests, hit, tasks>>

-----------------------------------------------------------------------------
\* A job has looked article n up, and may still publish it.
Publishing(n) ==
    \/ \E j \in Jobs : ArticleOf(j) = n /\ pc[j] \notin {"queued", "meta", "done"}
    \/ \E f \in pending : ArticleOf(f[1]) = n

Hit(t, s) ==
    hit' = [hit EXCEPT ![t] = [row |-> target[t], state |-> s, version |-> Version(Number(t)),
                               busy |-> Publishing(Number(t))]]

\* The instance carries the write out.  A PATCH changes the row whatever state it
\* is in; the retire workflow takes any row there is; the tasks have no workflow.
Apply(t) ==
    \/ /\ Kind(t) = "update"
       /\ Hit(t, state[target[t]])
       /\ title' = IF call[t].title = NoTitle THEN title ELSE [title EXCEPT ![target[t]] = call[t].title]
       /\ UNCHANGED <<state, tasks>>
    \/ /\ Kind(t) = "retire"
       /\ Hit(t, state[target[t]])
       /\ state' = [state EXCEPT ![target[t]] = "retired"]
       /\ UNCHANGED <<title, tasks>>
    \/ /\ Kind(t) \in {"taskUpdate", "taskCreate"}
       /\ Hit(t, "task")
       /\ tasks' = tasks \cup (IF Kind(t) = "taskCreate" THEN {Number(t)} ELSE {})
       /\ UNCHANGED <<state, title>>

\* map_http_error and unwrap_write_response
AnswerAnyStatus(applied) == {"record"}   \* slip: the status is not raised
AnswerOf(applied) == IF applied THEN {"record", "error"} ELSE {"error"}

ServeWrite(t) ==
    /\ t \in requests
    /\ requests' = requests \ {t}
    /\ \E applied \in BOOLEAN :
          /\ IF applied THEN Apply(t) ELSE UNCHANGED <<state, title, hit, tasks>>
          /\ IF tpc[t] = "wait"
               THEN \E a \in AnswerOf(applied) : Return(t, a)
               ELSE UNCHANGED <<tpc, answer>>
    /\ UNCHANGED <<scene, pending, commits, jobVars, batch, call, target, about, seen>>

ToolStep(t) == Begin(t) \/ FindRow(t) \/ Check(t) \/ Send(t) \/ GiveUpWrite(t)

ToolsNext ==
    \/ Next /\ UNCHANGED toolVars
    \/ \E t \in Tools : \/ Begin(t) \/ FindRow(t) \/ Check(t) \/ Send(t) \/ GiveUpWrite(t)
                        \/ LoseWrite(t) \/ ServeWrite(t)

ToolsSpec == ToolsInit /\ [][ToolsNext]_allVars

\* The event loop runs the tools; a GET ends within 30 s, and the deadline of a
\* KB write passes.  Nothing makes the instance answer a write.
FairToolsSpec == ToolsSpec /\ \A t \in Tools : WF_allVars(ToolStep(t))

-----------------------------------------------------------------------------
(* Properties                                                               *)

\* An update changes a row that is no longer a draft only if a publish of the
\* article has committed between its lookup and its PATCH
\* (update_knowledge_article asks for the draft, and patches by sys_id).
UpdateHitsDraft ==
    \A t \in Tools : Kind(t) = "update" /\ hit[t] # NoHit =>
        hit[t].state = "draft" \/ hit[t].version > seen[t]

\* A retire that reports its record leaves no published version of the article,
\* unless one was published since its lookup (retire_knowledge_article).
RetiredMeansGone ==
    \A t \in Tools :
        Kind(t) = "retire" /\ answer[t] = "record" /\ commits[Number(t)] = seen[t] =>
            Found(Number(t), "published") = {}

\* A record in the answer means the write was carried out; a tool that says it
\* found nothing, or refused, has written nothing and will not.
AnswersTrue ==
    \A t \in Tools :
        /\ answer[t] = "record" => hit[t] # NoHit
        /\ answer[t] \in {"notFound", "refused"} => hit[t] = NoHit /\ t \notin requests

\* The write has given its row a new title; and it did so to a version that was
\* published, or to one of an article that a job was about to publish.
Retitled(t) == hit[t] # NoHit /\ Kind(t) = "update" /\ call[t].title # NoTitle
Clash(t) == Retitled(t) /\ (hit[t].state = "published" \/ hit[t].busy)

\* While reads succeed, an article is published under the title of another published
\* one only if an update clashed with a publish: one that changes the title of a
\* draft before the publish looks it up, or of another article's draft, makes none.
DuplicatesNeedClash == (\A t \in Tools : ~Clash(t)) => NoDuplicatesPublished

\* All versions of an article had one title at the start.
OneTitle ==
    \A x, y \in Rows :
        ArticleOfRow[x] = ArticleOfRow[y] /\ scene.first[x] # "absent" /\ scene.first[y] # "absent"
        => scene.titleOf[x] = scene.titleOf[y]

\* Reads succeed, and no title has been changed and no article retired.
Undisturbed ==
    /\ ~MayFail("read") /\ OneTitle
    /\ \A t \in Tools : ~Retitled(t) /\ (Kind(t) = "retire" => hit[t] = NoHit)

\* "Lets the caller resolve all conflicts upfront before running a publish loop"
\* (kb_article_tools.py:298-300): until an update changes a title or a retire is
\* carried out, an article reported unique is not blocked, and one reported as a
\* duplicate is not published, though publishes go on meanwhile.  The versions must
\* have had one title: the report reads that of any, a publish that of the draft.
ReportPredictsPublish ==
    Undisturbed =>
        \A t \in Tools, j \in Jobs : Number(t) = ArticleOf(j) =>
            /\ answer[t] = "unique" => result[j] # "blocked"
            /\ answer[t] = "duplicate" => result[j] # "published"

\* Every call of a KB tool ends, though the instance may never answer its write.
KBToolsEnd == \A t \in Tools : Kind(t) \in KBKinds => <>(tpc[t] = "done")
=============================================================================
