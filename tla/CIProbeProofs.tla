--------------------------- MODULE CIProbeProofs ---------------------------
\* Proofs about CIProbe: any CIs, calls, limits and changes of class.
EXTENDS CIProbe, FiniteSetTheorems, WellFoundedInduction, TLAPS

USE ProbeAssumption, CIsAssumption

-----------------------------------------------------------------------------
(* Minima, and subsets of a given size                                      *)

\* A set of natural numbers that has an element has a least one.
LEMMA MinOfNaturals ==
    ASSUME NEW S \in SUBSET Nat, S # {}
    PROVE  Min(S) \in S /\ \A y \in S : Min(S) <= y
<1> DEFINE less == {p \in Nat \X Nat : p[1] < p[2]}
<1>1. OpToRel(<, Nat) = less
    BY DEF OpToRel
<1>2. IsWellFoundedOn(less, Nat)
    BY <1>1, NatLessThanWellFounded
<1> HIDE DEF less
<1>3. PICK x \in S : \A y \in S : ~(<<y, x>> \in less)
    BY <1>2, WFMin
<1>4. \A y \in S : x <= y
    <2> TAKE y \in S
    <2>1. x \in Nat /\ y \in Nat /\ <<y, x>> \notin less
        BY <1>3
    <2> QED
        BY <2>1 DEF less
<1> QED
    BY <1>4 DEF Min

LEMMA MinOfTwo ==
    ASSUME NEW m \in Nat, NEW n \in Nat
    PROVE  Min({m, n}) = IF m <= n THEN m ELSE n
BY MinOfNaturals

\* What a limit lets through: as many elements as it allows, and no others.
LEMMA AtMostCounts ==
    ASSUME NEW n \in Nat, NEW S, IsFiniteSet(S), NEW s \in AtMost(n, S)
    PROVE  /\ s \subseteq S /\ IsFiniteSet(s) /\ Cardinality(S) \in Nat
           /\ Cardinality(s) = IF n <= Cardinality(S) THEN n ELSE Cardinality(S)
           /\ Cardinality(S) <= n => s = S
<1>1. Cardinality(S) \in Nat
    BY FS_CardinalityType
<1>2. s \subseteq S /\ Cardinality(s) = Min({n, Cardinality(S)})
    BY DEF AtMost, kSubset
<1>3. Cardinality(s) = IF n <= Cardinality(S) THEN n ELSE Cardinality(S)
    BY <1>1, <1>2, MinOfTwo
<1>4. IsFiniteSet(s) /\ (Cardinality(S) = Cardinality(s) => S = s)
    BY <1>2, FS_Subset
<1> QED
    BY <1>1, <1>2, <1>3, <1>4

-----------------------------------------------------------------------------
(* The tables                                                               *)

LEMMA ToSearchTables ==
    /\ DOMAIN ToSearch \subseteq 1..7 /\ IsFiniteSet(DOMAIN ToSearch)
    /\ \A i \in DOMAIN ToSearch : ToSearch[i] \in Tables
<1>1. DOMAIN Candidates = 1..7 /\ DOMAIN <<scene.type>> = {1} /\ <<scene.type>>[1] = scene.type
    BY DEF Candidates
<1>2. \A i \in 1..7 : Candidates[i] \in Tables
    BY DEF Candidates, Tables, Root
<1>3. DOMAIN ToSearch \subseteq 1..7 /\ \A i \in DOMAIN ToSearch : ToSearch[i] \in Tables
    BY <1>1, <1>2 DEF ToSearch, CI_TABLES, Tables, Root
<1>4. DOMAIN ToSearch \in SUBSET Nat /\ \A i \in DOMAIN ToSearch : i <= 7
    BY <1>3
<1>5. IsFiniteSet(DOMAIN ToSearch)
    BY <1>4, FS_BoundedSetOfNaturals
<1> QED
    BY <1>3, <1>5

-----------------------------------------------------------------------------
(* Types, and what a call knows                                             *)

Ended == \A i \in DOMAIN probe : probe[i] \notin {"queued", "running"}

\* Where a call is, and what it has by then.
CallInv ==
    /\ stage \in {"called", "probing"} => hit = NoTable
    /\ stage # "done" => answer = Unanswered
    /\ stage = "probing" => scene.ci \in CIs /\ scene.tool \in {"details", "similar"}
    /\ stage = "searching" => scene.tool # "details"
    /\ hit # NoTable => Ended /\ Rows # {} /\ hit = ToSearch[Min(Rows)]
    /\ scene.tool = "details" /\ answer.kind = "noRows" => Ended /\ Rows = {}

\* What the answers of the tables say of the CI, which has been shown in one way or
\* several since the call: that it was in the table at some time, that it was not, and
\* that it is gone, wherever it has been, if the root table says so.
AnswersInv ==
    /\ scene.ci \in CIs => showing[scene.ci] \in past
    /\ \A i \in DOMAIN ToSearch :
          /\ probe[i] = "row" => \E l \in past : ToSearch[i] \in l
          /\ probe[i] = "empty" => \E l \in past : ToSearch[i] \notin l
          /\ ToSearch[i] = Root /\ probe[i] = "empty" => showing[scene.ci] = {}

ProbeInv == CITypeOK /\ CallInv /\ AnswersInv

LEMMA InitInv == Init => ProbeInv
<1> SUFFICES ASSUME Init
             PROVE  ProbeInv
    OBVIOUS
<1>1. Running = {} /\ Cardinality(Running) = 0
    BY FS_EmptySet DEF Init, Running
<1>2. CITypeOK
    <2>1. showing \in [CIs -> Lineages \cup {{}}] /\ past \subseteq Lineages \cup {{}}
        BY DEF Init
    <2> QED
        BY <1>1, <2>1 DEF Init, CITypeOK, Unanswered
<1>3. CallInv /\ AnswersInv
    BY DEF Init, CallInv, AnswersInv, Unanswered
<1> QED
    BY <1>2, <1>3 DEF ProbeInv

LEMMA RunningFinite ==
    ASSUME CITypeOK
    PROVE  DOMAIN probe = DOMAIN ToSearch /\ IsFiniteSet(Running) /\ Cardinality(Running) \in Nat
<1>1. DOMAIN probe = DOMAIN ToSearch
    BY DEF CITypeOK
<1>2. IsFiniteSet(Running)
    BY <1>1, ToSearchTables, FS_Subset DEF Running
<1> QED
    BY <1>1, <1>2, FS_CardinalityType

\* A probe gets its turn, or its table has answered.
LEMMA ProbeStep ==
    ASSUME ProbeInv, NEW i \in DOMAIN probe, StartProbe(i) \/ EndProbe(i)
    PROVE  ProbeInv'
<1>1. /\ stage = "probing" /\ UNCHANGED <<scene, showing, past, moves, stage, hit, answer>>
      /\ ToSearch' = ToSearch
    BY DEF StartProbe, EndProbe, ToSearch
<1>2. PICK new \in {"running", "row", "empty", "failed"} : probe' = [probe EXCEPT ![i] = new]
    BY DEF StartProbe, EndProbe
<1>3. /\ DOMAIN probe = DOMAIN ToSearch /\ DOMAIN probe' = DOMAIN ToSearch
      /\ probe' \in [DOMAIN ToSearch -> {"queued", "running", "row", "empty", "failed"}]
      /\ \A j \in DOMAIN probe : probe'[j] = IF j = i THEN new ELSE probe[j]
    BY <1>2 DEF ProbeInv, CITypeOK
<1>4. Cardinality(Running') <= Slots
    <2>1. IsFiniteSet(Running) /\ Cardinality(Running) \in Nat
        BY RunningFinite DEF ProbeInv
    <2>2. CASE StartProbe(i)
        <3>1. new = "running"
            BY <1>3, <2>2 DEF StartProbe, ProbeInv, CITypeOK
        <3>2. Running' = Running \cup {i}
            BY <1>3, <3>1 DEF Running
        <3>3. Cardinality(Running) < Slots
            BY <2>2 DEF StartProbe, Holding
        <3>4. Cardinality(Running \cup {i}) \in {Cardinality(Running), Cardinality(Running) + 1}
            BY <2>1, FS_AddElement
        <3> QED
            BY <2>1, <3>2, <3>3, <3>4
    <2>3. CASE EndProbe(i)
        <3>1. Running' \subseteq Running
            BY <1>3, <2>3 DEF Running, EndProbe
        <3>2. Cardinality(Running') <= Cardinality(Running) /\ Cardinality(Running') \in Nat
            BY <2>1, <3>1, FS_Subset, FS_CardinalityType
        <3> QED
            BY <2>1, <3>2 DEF ProbeInv, CITypeOK
    <2> QED
        BY <2>2, <2>3
<1>5. CITypeOK'
    BY <1>1, <1>3, <1>4 DEF ProbeInv, CITypeOK
<1>6. CallInv'
    BY <1>1 DEF ProbeInv, CallInv, Unanswered, NoTable
<1>7. AnswersInv'
    <2>1. probe'[i] = "row" => ToSearch[i] \in showing[scene.ci]
        BY <1>2, <1>3 DEF StartProbe, EndProbe, In
    <2>2. probe'[i] = "empty" => ToSearch[i] \notin showing[scene.ci]
        BY <1>2, <1>3 DEF StartProbe, EndProbe, In
    <2>3. scene.ci \in CIs /\ showing[scene.ci] \in Lineages \cup {{}} /\ showing[scene.ci] \in past
        BY <1>1 DEF ProbeInv, CallInv, CITypeOK, AnswersInv
    <2>4. ToSearch[i] = Root /\ ToSearch[i] \notin showing[scene.ci] => showing[scene.ci] = {}
        BY <2>3
    <2> QED
        BY <1>1, <1>3, <2>1, <2>2, <2>3, <2>4 DEF ProbeInv, AnswersInv
<1> QED
    BY <1>5, <1>6, <1>7 DEF ProbeInv

\* The steps of the call that ask no table.
LEMMA CallStep ==
    ASSUME ProbeInv, Begin \/ Collect \/ Search
    PROVE  ProbeInv'
<1>1. UNCHANGED <<scene, showing, past, moves, probe>> /\ ToSearch' = ToSearch /\ Running' = Running
      /\ Rows' = Rows /\ Ended' = Ended
    BY DEF Begin, Collect, Search, ToSearch, Running, Rows, Ended
<1>2. AnswersInv'
    BY <1>1 DEF ProbeInv, AnswersInv
<1>3. CASE Begin
    <2>1. CITypeOK'
        BY <1>1, <1>3 DEF ProbeInv, CITypeOK, Begin, Goto, Return
    <2>2. CallInv'
        <3>1. stage = "called" /\ hit' = NoTable /\ UNCHANGED scene
            BY <1>3 DEF Begin, ProbeInv, CallInv
        <3>2. CASE Return("refused", {})
            BY <3>1, <3>2 DEF CallInv, Return, Goto
        <3>3. CASE ~Lacking /\ answer' = answer
                   /\ Goto(IF scene.tool \in {"details", "similar"} THEN "probing" ELSE "searching")
            <4>1. scene.tool \in {"details", "similar"} => scene.ci \in CIs
                BY <3>3 DEF Lacking
            <4>2. answer' = Unanswered
                BY <3>1, <3>3 DEF ProbeInv, CallInv
            <4> QED
                BY <3>1, <3>3, <4>1, <4>2 DEF CallInv, Goto, Unanswered
        <3> QED
            BY <1>3, <3>2, <3>3 DEF Begin
    <2> QED
        BY <1>2, <2>1, <2>2 DEF ProbeInv
<1>4. CASE Collect
    <2>1. stage = "probing" /\ Ended /\ scene.ci \in CIs
          /\ hit' = IF Rows = {} THEN NoTable ELSE ToSearch[Min(Rows)]
        BY <1>4 DEF Collect, Gathered, Ended, ProbeInv, CallInv
    <2>2. Rows # {} => ToSearch[Min(Rows)] \in Tables
        <3>1. Rows \subseteq DOMAIN ToSearch
            BY DEF ProbeInv, CITypeOK, Rows
        <3>2. Rows # {} => Min(Rows) \in Rows
            BY <3>1, ToSearchTables, MinOfNaturals
        <3> QED
            BY <3>1, <3>2, ToSearchTables
    <2>3. CITypeOK'
        BY <1>1, <1>4, <2>1, <2>2 DEF ProbeInv, CITypeOK, Collect, Goto, Return
    <2>4. CallInv'
        BY <1>1, <1>4, <2>1 DEF ProbeInv, CallInv, Collect, Goto, Return, Unanswered
    <2> QED
        BY <1>2, <2>3, <2>4 DEF ProbeInv
<1>5. CASE Search
    <2>1. /\ stage = "searching" /\ stage' = "done" /\ hit' = hit
          /\ \E k \in {"noRows", "rows", "similar"}, S \in SUBSET CIs : answer' = [kind |-> k, cis |-> S]
        BY <1>5 DEF Search, Similar, AtMost, kSubset, Selected, Return, Goto
    <2>2. CITypeOK'
        BY <1>1, <2>1 DEF ProbeInv, CITypeOK
    <2>3. CallInv'
        BY <1>1, <2>1 DEF ProbeInv, CallInv
    <2> QED
        BY <1>2, <2>2, <2>3 DEF ProbeInv
<1> QED
    BY <1>3, <1>4, <1>5

LEMMA ReclassifyStep ==
    ASSUME ProbeInv, Reclassify
    PROVE  ProbeInv'
<1>1. /\ UNCHANGED <<scene, stage, probe, hit, answer>> /\ ToSearch' = ToSearch /\ Running' = Running
      /\ Rows' = Rows /\ Ended' = Ended
    BY DEF Reclassify, ToSearch, Running, Rows, Ended
<1>2. CITypeOK'
    BY <1>1 DEF Reclassify, ProbeInv, CITypeOK
<1>3. CallInv'
    BY <1>1 DEF ProbeInv, CallInv, Unanswered
<1>4. PICK l \in Lineages \cup {{}} : showing' = [showing EXCEPT ![scene.ci] = l] /\ past' = past \cup {l}
    BY DEF Reclassify
<1>5. showing'[scene.ci] = l /\ showing[scene.ci] # {}
    BY <1>4 DEF Reclassify, ProbeInv, CITypeOK
<1>6. AnswersInv'
    BY <1>1, <1>4, <1>5 DEF ProbeInv, AnswersInv
<1> QED
    BY <1>2, <1>3, <1>6 DEF ProbeInv

LEMMA ProbeInvStep ==
    ASSUME ProbeInv, [Next]_vars
    PROVE  ProbeInv'
<1>1. CASE UNCHANGED vars
    BY <1>1 DEF vars, ProbeInv, CITypeOK, CallInv, AnswersInv, ToSearch, Running, Rows, Ended, In
<1> QED
    BY <1>1, ProbeStep, CallStep, ReclassifyStep DEF Next, ToolStep

LEMMA ProbeInvHolds == Spec => []ProbeInv
BY InitInv, ProbeInvStep, PTL DEF Spec

\* The types of a CI call; with them, never more probes under way than the semaphore has slots.
THEOREM CITypeCorrect == Spec => []CITypeOK
BY ProbeInvHolds, PTL DEF ProbeInv

-----------------------------------------------------------------------------
(* What the tools answer                                                    *)

\* For any sets of tables a CI may be shown in, any changes of them during the call, any
\* semaphore and any order in which the tables answer: the table answered has shown the
\* CI since the call, and one listed before it that has shown the CI all the time failed.
THEOREM FirstListedAnswers == Spec => []FirstListed
<1>1. ASSUME ProbeInv, hit # NoTable
      PROVE  FirstListed
    <2>1. Ended /\ Rows # {} /\ hit = ToSearch[Min(Rows)] /\ Rows \subseteq DOMAIN ToSearch
        BY <1>1 DEF ProbeInv, CITypeOK, CallInv, Rows
    <2>2. Min(Rows) \in Rows /\ \A i \in Rows : Min(Rows) <= i
        BY <2>1, ToSearchTables, MinOfNaturals
    <2>3. \E l \in past : hit \in l
        BY <1>1, <2>1, <2>2 DEF ProbeInv, AnswersInv, Rows
    <2>4. ASSUME NEW i \in DOMAIN ToSearch, \A l \in past : ToSearch[i] \in l, probe[i] # "failed"
          PROVE  \E k \in 1..i : ToSearch[k] = hit
        <3>1. probe[i] = "row"
            BY <1>1, <2>1, <2>4 DEF ProbeInv, CITypeOK, AnswersInv, Ended
        <3>2. i \in Rows /\ Min(Rows) \in 1..7 /\ i \in 1..7
            BY <1>1, <2>1, <2>2, <3>1, ToSearchTables DEF ProbeInv, CITypeOK, Rows
        <3> QED
            BY <2>1, <2>2, <3>2
    <2> QED
        BY <2>3, <2>4 DEF FirstListed
<1>2. ProbeInv => FirstListed
    BY <1>1 DEF FirstListed
<1> QED
    BY <1>2, ProbeInvHolds, PTL

\* A CI that exists is found if the root table answers, however often it is moved
\* while the tables are asked.
THEOREM ExistingIsFound == Spec => []FoundIfThere
<1>1. ProbeInv => FoundIfThere
    <2> SUFFICES ASSUME ProbeInv, scene.tool = "details", scene.type \notin CI_TABLES,
                        answer.kind = "noRows", showing[scene.ci] # {}
                 PROVE  probe[Len(ToSearch)] = "failed"
        BY DEF FoundIfThere
    <2>1. Len(ToSearch) = 7 /\ 7 \in DOMAIN ToSearch /\ ToSearch[7] = Root
        BY DEF ToSearch, Candidates, Root
    <2>2. probe[7] \notin {"queued", "running", "row"} /\ probe[7] # "empty"
        BY <2>1 DEF ProbeInv, CITypeOK, CallInv, AnswersInv, Ended, Rows
    <2> QED
        BY <2>1, <2>2 DEF ProbeInv, CITypeOK
<1> QED
    BY <1>1, ProbeInvHolds, PTL

\* The similar CIs never include the CI itself, and are as many as there are or as the
\* tool returns at most, for any limits of which the search's is the greater.
THEOREM SimilarAreAll == Spec => SimilarComplete
<1> DEFINE others == Selected \ {scene.ci}
           Good == /\ scene.ci \notin answer'.cis /\ answer'.cis \subseteq others
                   /\ Cardinality(answer'.cis) = Min({SimilarLimit, Cardinality(others)})
<1>1. ASSUME ProbeInv, [Next]_vars, answer' # answer, answer'.kind = "similar"
      PROVE  Good
    <2>1. Search
        BY <1>1 DEF Next, ToolStep, Begin, StartProbe, EndProbe, Collect, Reclassify, Return, vars
    <2>2. ~Return("noRows", {})
        BY <1>1 DEF Return
    <2>3. PICK rows \in AtMost(SearchLimit, Selected) :
             IF scene.tool = "similar"
               THEN \E cis \in Similar(rows) : Return(IF cis = {} THEN "noRows" ELSE "similar", cis)
               ELSE Return(IF rows = {} THEN "noRows" ELSE "rows", rows)
        BY <2>1, <2>2 DEF Search
    <2>4. PICK cis \in Similar(rows) : answer'.cis = cis
        BY <1>1, <2>3 DEF Return
    <2>5. IsFiniteSet(Selected)
        BY FS_Subset DEF Selected
    <2>6. /\ rows \subseteq Selected /\ IsFiniteSet(rows) /\ Cardinality(Selected) \in Nat
          /\ Cardinality(rows) = IF SearchLimit <= Cardinality(Selected) THEN SearchLimit ELSE Cardinality(Selected)
          /\ Cardinality(Selected) <= SearchLimit => rows = Selected
        BY <2>5, AtMostCounts
    <2> DEFINE left == rows \ {scene.ci}
    <2>7. IsFiniteSet(left) /\ Cardinality(left) \in {Cardinality(rows), Cardinality(rows) - 1}
        BY <2>6, FS_RemoveElement
    <2>8. /\ cis \subseteq left /\ Cardinality(left) \in Nat
          /\ Cardinality(cis) = IF SimilarLimit <= Cardinality(left) THEN SimilarLimit ELSE Cardinality(left)
        BY <2>7, AtMostCounts DEF Similar
    <2>9. IsFiniteSet(others) /\ left \subseteq others
        BY <2>5, <2>6, FS_Subset
    <2>10. Cardinality(others) \in Nat /\ Cardinality(left) <= Cardinality(others)
        BY <2>9, FS_Subset, FS_CardinalityType
    <2>11. Cardinality(cis) = IF SimilarLimit <= Cardinality(others) THEN SimilarLimit ELSE Cardinality(others)
        <3>1. CASE rows = Selected
            BY <2>8, <3>1
        <3>2. CASE rows # Selected
            <4>1. Cardinality(rows) = SearchLimit
                BY <2>6, <3>2
            <4>2. SimilarLimit <= Cardinality(left)
                BY <2>7, <2>8, <4>1
            <4> QED
                BY <2>8, <2>10, <4>2
        <3> QED
            BY <3>1, <3>2
    <2>12. Cardinality(cis) = Min({SimilarLimit, Cardinality(others)})
        BY <2>10, <2>11, MinOfTwo
    <2> QED
        BY <2>4, <2>8, <2>9, <2>12
<1>2. ProbeInv /\ [Next]_vars => [answer'.kind = "similar" => Good]_answer
    BY <1>1
<1> QED
    BY <1>2, ProbeInvHolds, PTL DEF Spec, SimilarComplete

=============================================================================
