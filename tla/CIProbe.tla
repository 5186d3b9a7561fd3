------------------------------ MODULE CIProbe ------------------------------
(***************************************************************************)
(* The CI tools of cmdb_tools.py.  get_ci_details asks several tables for   *)
(* one number at once, three at a time, and takes the first row in order    *)
(* of preference once all have answered; similar_cis_for_ci goes on to      *)
(* search by the attributes of that row.  A GET that fails is None, and the *)
(* probe takes None for a table without the CI.  Meanwhile the CI may be    *)
(* moved to another class, or deleted.                                      *)
(*                                                                          *)
(* Which tables show a CI is the instance's matter: any set with the root   *)
(* table, the one every class of a CI extends.                              *)
(***************************************************************************)
EXTENDS Naturals, Sequences, FiniteSets, FiniteSetsExt

CONSTANTS
    CIs,          \* the configuration items there are
    Lineages,     \* the sets of tables that may show a CI
    Scenes,       \* what a behaviour may start from, see the variable scene
    Display,      \* what sysparm_display_value makes of each stored value
    Fitting,      \* <<attribute, text, value>>: the instance lets the stored value pass
                  \* the condition of the code on that attribute with that text
    Slots,        \* the semaphore of get_ci_details
    SearchLimit,  \* sysparm_limit of a search
    SimilarLimit, \* what similar_cis_for_ci returns at most
    MaxMoves      \* bound: how often the class of a CI changes

ASSUME ProbeAssumption ==
    /\ Slots \in Nat \ {0} /\ MaxMoves \in Nat
    /\ SimilarLimit \in Nat /\ SearchLimit \in Nat /\ SimilarLimit < SearchLimit

WithoutRoot ==   \* slip: the root table is forgotten
    <<"cmdb_ci_server", "cmdb_ci_computer", "cmdb_ci_database",
      "cmdb_ci_hardware", "cmdb_ci_network_gear", "cmdb_ci_service">>
Candidates ==
    <<"cmdb_ci_server", "cmdb_ci_computer", "cmdb_ci_database",
      "cmdb_ci_hardware", "cmdb_ci_network_gear", "cmdb_ci_service", "cmdb_ci">>

\* The candidates, and two tables that are none, of which the static list has one.
Root == "cmdb_ci"
Tables == {"cmdb_ci_server", "cmdb_ci_computer", "cmdb_ci_database", "cmdb_ci_hardware",
           "cmdb_ci_network_gear", "cmdb_ci_service", Root, "cmdb_ci_linux_server", "cmdb_ci_rack"}
CI_TABLES == {"cmdb_ci_database", "cmdb_ci_hardware", "cmdb_ci_service", Root, "cmdb_ci_rack"}

NoTable == "none"
Attributes == {"name", "ip_address", "location", "operational_status"}

\* Each call is of one of the tools, over CIs that all exist at its start.
ASSUME CIsAssumption ==
    /\ IsFiniteSet(CIs)
    /\ \A l \in Lineages : Root \in l /\ l \subseteq Tables
    /\ \A s \in Scenes :
          /\ s.tool \in {"details", "similar", "byType", "search", "quick"}
          /\ s.first \in [CIs -> Lineages]
          /\ s.failing \in BOOLEAN

VARIABLES
    scene,     \* tool: the tool called; ci, type: the number and type it is given; given:
               \* the text a search is given for each attribute, "" if none (a quick search
               \* has its term as name and as IP address); value: what is stored for each CI and
               \* attribute; first: the tables that show each CI at the start;
               \* failing: whether a GET may fail
    showing,   \* the tables that show each CI, none once it is deleted
    past,      \* the sets of tables that have shown the CI asked for since the call
    moves,     \* how many changes of class there were
    stage,     \* where the call is
    probe,     \* what each probe has come to; the code tells no "empty" from "failed"
    hit,       \* the table whose row was taken
    answer     \* what the tool returns, and the CIs in it

vars == <<scene, showing, past, moves, stage, probe, hit, answer>>

-----------------------------------------------------------------------------
In(ci, table) == table \in showing[ci]

\* tables_to_search
ToSearch == IF scene.tool = "details" /\ scene.type \in CI_TABLES THEN <<scene.type>> ELSE Candidates

Unanswered == [kind |-> "none", cis |-> {}]
Running == {i \in DOMAIN probe : probe[i] = "running"}

CITypeOK ==
    /\ scene \in Scenes
    /\ showing \in [CIs -> Lineages \cup {{}}] /\ past \subseteq Lineages \cup {{}}
    /\ moves \in 0..MaxMoves
    /\ stage \in {"called", "probing", "searching", "done"}
    /\ probe \in [DOMAIN ToSearch -> {"queued", "running", "row", "empty", "failed"}]
    /\ Cardinality(Running) <= Slots
    /\ hit \in Tables \cup {NoTable}
    /\ answer.kind \in {"none", "refused", "noRows", "details", "rows", "similar"}
    /\ answer.cis \subseteq CIs

Init ==
    /\ scene \in Scenes
    /\ showing = scene.first
    /\ past = {scene.first[ci] : ci \in CIs \cap {scene.ci}}
    /\ moves = 0
    /\ stage = "called"
    /\ probe = [i \in DOMAIN ToSearch |-> "queued"]
    /\ hit = NoTable
    /\ answer = Unanswered

-----------------------------------------------------------------------------
Goto(label) == stage' = label
Return(kind, cis) == Goto("done") /\ answer' = [kind |-> kind, cis |-> cis]

\* The texts a search by attributes asks for.  similar_cis_for_ci passes location and
\* status of the row it has, as they are displayed.
Text ==
    IF scene.tool = "similar"
      THEN [a \in Attributes |-> IF a \in {"location", "operational_status"}
                                   THEN Display[scene.value[scene.ci][a]] ELSE ""]
      ELSE scene.given
Criteria == {a \in Attributes : Text[a] # ""}

\* An empty number, type or set of attributes is refused before any request.
Lacking ==
    \/ scene.tool \in {"details", "similar"} /\ scene.ci \notin CIs
    \/ scene.tool = "byType" /\ scene.type = ""
    \/ scene.tool = "search" /\ Criteria = {}

Begin ==
    /\ stage = "called"
    /\ IF Lacking
         THEN Return("refused", {})
         ELSE /\ Goto(IF scene.tool \in {"details", "similar"} THEN "probing" ELSE "searching")
              /\ UNCHANGED answer
    /\ UNCHANGED <<scene, showing, past, moves, probe, hit>>

\* _bounded: the tasks of the gather get the semaphore in their order.
HoldsEach == {}   \* slip: each probe has a semaphore of its own
HoldsAlsoFailed == {i \in DOMAIN probe : probe[i] \in {"running", "failed"}}   \* slip: a failed probe keeps its place
Holding == Running

StartProbe(i) ==
    /\ stage = "probing" /\ probe[i] = "queued"
    /\ \A j \in 1..i-1 : probe[j] # "queued"
    /\ Cardinality(Holding) < Slots
    /\ probe' = [probe EXCEPT ![i] = "running"]
    /\ UNCHANGED <<scene, showing, past, moves, stage, hit, answer>>

\* _probe_ci_table: the row as the table has it now, or None.
EndProbe(i) ==
    /\ stage = "probing" /\ probe[i] = "running"
    /\ \E end \in (IF In(scene.ci, ToSearch[i]) THEN {"row"} ELSE {"empty"})
                   \cup (IF scene.failing THEN {"failed"} ELSE {}) :
          probe' = [probe EXCEPT ![i] = end]
    /\ UNCHANGED <<scene, showing, past, moves, stage, hit, answer>>

Rows == {i \in DOMAIN probe : probe[i] = "row"}

\* asyncio.gather returns once every probe has ended.
GatheredSoon ==   \* slip: the first row that comes ends the gather
    Rows # {} \/ \A i \in DOMAIN probe : probe[i] \notin {"queued", "running"}
Gathered == \A i \in DOMAIN probe : probe[i] \notin {"queued", "running"}

\* The gather is complete: the first row in the order of the tables is the
\* answer, or what the search for similar CIs goes on with.
Collect ==
    /\ stage = "probing" /\ Gathered
    /\ hit' = IF Rows = {} THEN NoTable ELSE ToSearch[Min(Rows)]
    /\ \/ Rows = {} /\ Return("noRows", {})
       \/ Rows # {} /\ scene.tool = "details" /\ Return("details", {scene.ci})
       \/ Rows # {} /\ scene.tool = "similar" /\ Criteria = {} /\ Return("noRows", {})
       \/ /\ Rows # {} /\ scene.tool = "similar" /\ Criteria # {}
          /\ Goto("searching") /\ UNCHANGED answer
    /\ UNCHANGED <<scene, showing, past, moves, probe>>

-----------------------------------------------------------------------------
\* The type a search is given: by its caller, or by similar_cis_for_ci the table of its row.
GivenType == IF scene.tool = "similar" THEN hit ELSE scene.type

\* The table asked: a type that the list lacks is not used by a search by attributes.
SearchedTable ==
    CASE scene.tool = "byType" -> scene.type
      [] scene.tool \in {"search", "similar"} /\ GivenType \in CI_TABLES -> GivenType
      [] OTHER -> Root

\* What the condition on an attribute lets through: LIKE for name and location, = for
\* the others, of the text as it is against the stored value.
Meets(ci, a) == <<a, Text[a], scene.value[ci][a]>> \in Fitting

\* The rows of that table a request selects: by all attributes given, by a term that
\* is in the name or is the IP address or the number, or all.
Selected ==
    {ci \in CIs :
        /\ In(ci, SearchedTable)
        /\ scene.tool \in {"search", "similar"} => \A a \in Criteria : Meets(ci, a)
        /\ scene.tool = "quick" => ci = scene.ci \/ Meets(ci, "name") \/ Meets(ci, "ip_address")}

AtMost(n, S) == kSubset(Min({n, Cardinality(S)}), S)

\* _filter_and_limit_ci_results
LimitThenFilter(rows) == {s \ {scene.ci} : s \in AtMost(SimilarLimit, rows)}   \* slip: the limit counts the CI itself
Similar(rows) == AtMost(SimilarLimit, rows \ {scene.ci})

\* One GET, without an order: any rows up to the limit; a failure looks like no rows.
Search ==
    /\ stage = "searching"
    /\ \/ \E rows \in AtMost(SearchLimit, Selected) :
             IF scene.tool = "similar"
               THEN \E cis \in Similar(rows) : Return(IF cis = {} THEN "noRows" ELSE "similar", cis)
               ELSE Return(IF rows = {} THEN "noRows" ELSE "rows", rows)
       \/ scene.failing /\ Return("noRows", {})
    /\ UNCHANGED <<scene, showing, past, moves, probe, hit>>

\* Someone moves the CI the call is about to another class, or deletes it.
Reclassify ==
    /\ scene.ci \in CIs /\ showing[scene.ci] # {}
    /\ moves < MaxMoves /\ stage # "done"
    /\ \E l \in (Lineages \cup {{}}) \ {showing[scene.ci]} :
          /\ showing' = [showing EXCEPT ![scene.ci] = l]
          /\ past' = past \cup {l}
    /\ moves' = moves + 1
    /\ UNCHANGED <<scene, stage, probe, hit, answer>>

ToolStep == Begin \/ (\E i \in DOMAIN probe : StartProbe(i) \/ EndProbe(i)) \/ Collect \/ Search

Next == ToolStep \/ Reclassify

\* The event loop runs the call, and every GET ends within 30 s.
Spec == Init /\ [][Next]_vars /\ WF_vars(ToolStep)

-----------------------------------------------------------------------------
(* Properties                                                               *)

\* "Returning the first table (in order) that yields a row" (get_ci_details), in
\* whatever order the tables answer: the table answered has shown the CI since the
\* call, and one listed before it that has shown the CI all the time has failed.
FirstListed ==
    hit # NoTable =>
        /\ \E l \in past : hit \in l
        /\ \A i \in DOMAIN ToSearch :
              (\A l \in past : ToSearch[i] \in l) /\ probe[i] # "failed"
              => \E k \in 1..i : ToSearch[k] = hit

\* A CI that exists is found as long as the last table answers, wherever it is
\* moved during the probes: the last table asked holds all of them.
FoundIfThere ==
    /\ scene.tool = "details" /\ scene.type \notin CI_TABLES
    /\ answer.kind = "noRows" /\ showing[scene.ci] # {}
    => probe[Len(ToSearch)] = "failed"

\* The similar CIs are others, and none is left out while there is room for it:
\* both limits count after the CI itself is filtered out.
SimilarComplete ==
    [][ answer'.kind = "similar" =>
          LET others == Selected \ {scene.ci} IN
          /\ scene.ci \notin answer'.cis /\ answer'.cis \subseteq others
          /\ Cardinality(answer'.cis) = Min({SimilarLimit, Cardinality(others)}) ]_answer

\* Every call ends: each of the probes gets its turn, and gives it up.
CallEnds == <>(stage = "done")
=============================================================================
