-------------------------- MODULE PaginationProofs --------------------------
\* Proofs about Pagination: any table, page size, cap, and comings and goings of rows.
EXTENDS Pagination, FiniteSetTheorems, SequenceTheorems, TLAPS

USE RowsAssumption, SizesAssumption, TroublesAssumption

-----------------------------------------------------------------------------
(* The place of a row in a listing, newest first                            *)

NotOlder(M, r) == {s \in M : s >= r}
Place(M, r) == Cardinality(NotOlder(M, r))

LEMMA PlaceInRange ==
    ASSUME NEW M \in SUBSET Nat, IsFiniteSet(M), NEW r \in M
    PROVE  Cardinality(M) \in Nat /\ Place(M, r) \in 1..Cardinality(M)
<1>1. Cardinality(M) \in Nat
    BY FS_CardinalityType
<1>2. NotOlder(M, r) \subseteq M /\ r \in NotOlder(M, r)
    BY DEF NotOlder
<1>3. IsFiniteSet(NotOlder(M, r)) /\ Cardinality(NotOlder(M, r)) <= Cardinality(M)
    BY <1>2, FS_Subset
<1>4. Cardinality(NotOlder(M, r)) \in Nat /\ Cardinality(NotOlder(M, r)) # 0
    BY <1>2, <1>3, FS_CardinalityType, FS_EmptySet
<1> QED
    BY <1>1, <1>3, <1>4 DEF Place

LEMMA PlaceIsNatural ==
    ASSUME NEW M \in SUBSET Nat, IsFiniteSet(M), NEW L \in SUBSET M, NEW r \in L
    PROVE  Place(L, r) \in Nat
<1>1. L \in SUBSET Nat /\ IsFiniteSet(L)
    BY FS_Subset
<1> QED
    BY <1>1, PlaceInRange

LEMMA NewerComesFirst ==
    ASSUME NEW M \in SUBSET Nat, IsFiniteSet(M), NEW q \in M, NEW r \in M, q < r
    PROVE  Place(M, r) < Place(M, q)
<1>1. NotOlder(M, r) \subseteq NotOlder(M, q) /\ NotOlder(M, r) # NotOlder(M, q)
    <2>1. q >= q /\ ~(q >= r)
        OBVIOUS
    <2>2. NotOlder(M, r) \subseteq NotOlder(M, q)
        <3>1. \A s \in Nat : s >= r => s >= q
            OBVIOUS
        <3> QED
            BY <3>1 DEF NotOlder
    <2>3. q \in NotOlder(M, q) /\ q \notin NotOlder(M, r)
        BY <2>1 DEF NotOlder
    <2> QED
        BY <2>2, <2>3
<1>2. IsFiniteSet(NotOlder(M, q))
    BY FS_Subset DEF NotOlder
<1>3. /\ Cardinality(NotOlder(M, r)) <= Cardinality(NotOlder(M, q))
      /\ Cardinality(NotOlder(M, r)) # Cardinality(NotOlder(M, q))
    BY <1>1, <1>2, FS_Subset
<1>4. Place(M, r) \in Nat /\ Place(M, q) \in Nat
    BY PlaceInRange
<1> QED
    BY <1>3, <1>4 DEF Place

\* Each place has a row: the places are one to one.
LEMMA EveryPlaceTaken ==
    ASSUME NEW M \in SUBSET Nat, IsFiniteSet(M), NEW i \in 1..Cardinality(M)
    PROVE  \E r \in M : Place(M, r) = i
<1> DEFINE n == Cardinality(M)
           f == [r \in M |-> Place(M, r)]
<1>1. n \in Nat
    BY FS_CardinalityType
<1>2. f \in [M -> 1..n]
    BY PlaceInRange
<1>3. ASSUME NEW q \in M, NEW r \in M, f[q] = f[r]
      PROVE  q = r
    <2>1. Place(M, q) = Place(M, r) /\ Place(M, q) \in Nat
        BY <1>3, PlaceInRange
    <2>2. ~(q < r) /\ ~(r < q)
        BY <2>1, NewerComesFirst
    <2> QED
        BY <2>2
<1>4. f \in Injection(M, 1..n)
    BY <1>2, <1>3 DEF Injection, IsInjective
<1>5. IsFiniteSet(1..n) /\ Cardinality(1..n) = n
    BY <1>1, FS_Interval
<1>6. f \in Surjection(M, 1..n)
    BY <1>4, <1>5, FS_Injection
<1> QED
    BY <1>6 DEF Surjection

\* A row's place only grows as others come, and only shrinks as they go.
LEMMA PlaceMonotonic ==
    ASSUME NEW M \in SUBSET Nat, IsFiniteSet(M), NEW L \in SUBSET M, NEW r \in L
    PROVE  Place(L, r) <= Place(M, r)
<1>1. NotOlder(L, r) \subseteq NotOlder(M, r) /\ IsFiniteSet(NotOlder(M, r))
    BY FS_Subset DEF NotOlder
<1> QED
    BY <1>1, FS_Subset DEF Place

-----------------------------------------------------------------------------
(* Listings and pages                                                       *)

LEMMA RowsFinite ==
    ASSUME matching \in SUBSET Rows
    PROVE  matching \in SUBSET Nat /\ IsFiniteSet(matching) /\ Cardinality(matching) \in Nat
BY FS_Subset, FS_CardinalityType

\* The listing has every matching row, each at its place.
LEMMA ListingRows ==
    ASSUME matching \in SUBSET Rows
    PROVE  /\ Listing \in Seq(Rows) /\ Len(Listing) = Cardinality(matching)
           /\ \A i \in 1..Len(Listing) : Listing[i] \in matching /\ Place(matching, Listing[i]) = i
           /\ \A r \in matching : Place(matching, r) \in 1..Len(Listing)
                                  /\ Listing[Place(matching, r)] = r
<1> DEFINE n == Cardinality(matching)
<1>1. matching \in SUBSET Nat /\ IsFiniteSet(matching) /\ n \in Nat
    BY RowsFinite
<1>2. ASSUME NEW i \in 1..n
      PROVE  Listing[i] \in matching /\ Place(matching, Listing[i]) = i
    <2>1. \E r \in matching : Place(matching, r) = i
        BY <1>1, EveryPlaceTaken
    <2>2. Listing[i] = CHOOSE r \in matching : Place(matching, r) = i
        BY DEF Listing, Place, NotOlder
    <2> QED
        BY <2>1, <2>2
<1>3. Listing \in [1..n -> Rows]
    BY <1>2 DEF Listing
<1>4. Listing \in Seq(Rows) /\ Len(Listing) = n
    BY <1>1, <1>3
<1>5. ASSUME NEW r \in matching
      PROVE  Place(matching, r) \in 1..n /\ Listing[Place(matching, r)] = r
    <2>1. Place(matching, r) \in 1..n
        BY <1>1, PlaceInRange
    <2>2. PICK q \in matching : q = Listing[Place(matching, r)] /\ Place(matching, q) = Place(matching, r)
        BY <1>2, <2>1
    <2>3. ~(q < r) /\ ~(r < q)
        BY <1>1, <2>1, <2>2, NewerComesFirst
    <2>4. q \in Nat /\ r \in Nat
        BY <1>1
    <2> QED
        BY <2>1, <2>2, <2>3, <2>4
<1> QED
    BY <1>2, <1>4, <1>5

LEMMA FirstOfRows ==
    ASSUME NEW S, NEW rows \in Seq(S), NEW n \in Nat
    PROVE  /\ FirstOf(rows, n) \in Seq(S)
           /\ Len(FirstOf(rows, n)) = IF Len(rows) < n THEN Len(rows) ELSE n
           /\ \A i \in 1..Len(FirstOf(rows, n)) : FirstOf(rows, n)[i] = rows[i]
<1> DEFINE m == IF Len(rows) < n THEN Len(rows) ELSE n
<1>1. m \in Nat /\ Len(rows) \in Nat /\ m <= Len(rows)
    BY LenProperties
<1>2. \A i \in 1..m : rows[i] \in S
    BY <1>1, ElementOfSeq
<1>3. /\ SubSeq(rows, 1, m) \in Seq(S) /\ Len(SubSeq(rows, 1, m)) = m
      /\ \A i \in 1..m : SubSeq(rows, 1, m)[i] = rows[i]
    BY <1>1, <1>2, SubSeqProperties
<1> QED
    BY <1>3 DEF FirstOf

\* A page is the next rows of the listing, full unless the listing ends.
LEMMA PageRows ==
    ASSUME TypeOK
    PROVE  /\ Page \in Seq(Rows) /\ Len(Page) \in 0..PageSize
           /\ \A i \in 1..Len(Page) : offset + i \in 1..Len(Listing) /\ Page[i] = Listing[offset + i]
           /\ Len(Page) < PageSize => offset + Len(Page) >= Len(Listing)
<1> DEFINE n == Len(Listing)
           rest == SubSeq(Listing, offset + 1, n)
<1>1. Listing \in Seq(Rows) /\ n \in Nat /\ offset \in Nat
    BY ListingRows, LenProperties DEF TypeOK
<1>2. \A i \in offset + 1 .. n : Listing[i] \in Rows
    BY <1>1, ElementOfSeq
<1>3. /\ rest \in Seq(Rows) /\ Len(rest) = IF offset + 1 <= n THEN n - offset ELSE 0
      /\ \A i \in 1 .. n - offset : rest[i] = Listing[offset + i]
    <2>1. /\ rest \in Seq(Rows) /\ Len(rest) = IF offset + 1 <= n THEN n - (offset + 1) + 1 ELSE 0
          /\ \A i \in 1 .. n - (offset + 1) + 1 : rest[i] = Listing[offset + 1 + i - 1]
        BY <1>1, <1>2, SubSeqProperties
    <2> QED
        BY <1>1, <2>1
<1>4. Page = FirstOf(rest, PageSize)
    BY DEF Page
<1>5. /\ Page \in Seq(Rows) /\ Len(Page) = IF Len(rest) < PageSize THEN Len(rest) ELSE PageSize
      /\ \A i \in 1..Len(Page) : Page[i] = rest[i]
    BY <1>3, <1>4, FirstOfRows
<1> HIDE DEF rest
<1> QED
    BY <1>1, <1>3, <1>5

-----------------------------------------------------------------------------
(* What a query has, of a table that changes                                *)

\* Until the answer, the pages so far were full: a collected row had the place of its
\* index when its page was cut.
CollectInv ==
    /\ answer = NoAnswer => Len(collected) = offset
    /\ Answered => answer = AnswerOf(collected)

\* While rows only come: what has stayed is collected as far as the query got, and
\* never after an older row.
KeptInv ==
    trouble \subseteq {"enter"} =>
        /\ answer = NoAnswer =>
              \A r \in stayed : Place(matching, r) <= offset => r \in Range(collected)
        /\ \A r \in stayed, i \in DOMAIN collected :
              collected[i] <= r => \E k \in 1..i : collected[k] = r
        /\ Answered /\ Len(collected) < maxResults => stayed \subseteq Range(collected)

\* While rows only go: the collected ones that are left stand before the next page.
OnceInv ==
    "enter" \notin trouble =>
        /\ IsInjective(collected)
        /\ answer = NoAnswer =>
              \A r \in Range(collected) \cap matching : Place(matching, r) <= offset

\* In a table that stands still, the collected rows are the first of its listing.
SameInv ==
    trouble = {} =>
        /\ Len(collected) <= Len(Listing)
        /\ \A i \in DOMAIN collected : collected[i] = Listing[i]
        /\ Answered => Len(collected) >= maxResults \/ Len(collected) = Len(Listing)

PagesInv == TypeOK /\ CollectInv /\ KeptInv /\ OnceInv /\ SameInv

LEMMA PagesInit == Init => PagesInv
<1> SUFFICES ASSUME Init
             PROVE  PagesInv
    OBVIOUS
<1>1. 0 % PageSize = 0
    OBVIOUS
<1>2. collected = <<>> /\ collected \in Seq(Rows) /\ Len(collected) = 0 /\ DOMAIN collected = {}
    BY EmptySeq DEF Init
<1>3. TypeOK
    BY <1>1, <1>2 DEF Init, TypeOK
<1>4. \A r \in matching : Place(matching, r) \in Nat /\ Place(matching, r) # 0
    BY <1>3, ListingRows DEF TypeOK
<1>5. Len(Listing) \in Nat
    BY <1>3, ListingRows, LenProperties DEF TypeOK
<1>6. CollectInv /\ OnceInv
    BY <1>2 DEF Init, CollectInv, OnceInv, Answered, IsInjective, Range
<1>7. KeptInv
    BY <1>2, <1>4 DEF Init, KeptInv, Answered
<1>8. SameInv
    BY <1>2, <1>5 DEF Init, SameInv, Answered
<1> QED
    BY <1>3, <1>6, <1>7, <1>8 DEF PagesInv

\* What a page adds, and how the query goes on.
LEMMA GetPageOutcome ==
    ASSUME TypeOK, CollectInv, GetPage
    PROVE  /\ answer = NoAnswer /\ UNCHANGED <<callVars, tableVars>>
           /\ collected \in Seq(Rows) /\ collected' \in Seq(Rows)
           /\ Len(collected) = offset /\ Len(collected') \in Nat /\ offset <= Len(collected')
           /\ \A i \in 1..offset : collected'[i] = collected[i]
           /\ \A i \in offset + 1 .. Len(collected') :
                 i \in 1..Len(Listing) /\ collected'[i] = Listing[i]
           /\ \/ /\ answer' = AnswerOf(collected') /\ offset' = offset
                 /\ Len(collected') >= maxResults \/ Len(collected') >= Len(Listing)
              \/ /\ answer' = NoAnswer /\ offset' = NextOffset /\ Len(collected') = offset'
                 /\ Len(collected') < maxResults
<1>1. /\ answer = NoAnswer /\ UNCHANGED <<callVars, tableVars>> /\ collected' = collected \o Page
      /\ IF Len(Page) < PageSize \/ Len(collected') >= maxResults
           THEN answer' = AnswerOf(collected') /\ offset' = offset
           ELSE offset' = NextOffset /\ answer' = answer
    BY DEF GetPage, LastPage
<1>2. collected \in Seq(Rows) /\ Len(collected) = offset /\ offset \in Nat /\ maxResults \in Nat
    BY <1>1 DEF TypeOK, CollectInv
<1>3. /\ Page \in Seq(Rows) /\ Len(Page) \in 0..PageSize
      /\ \A i \in 1..Len(Page) : offset + i \in 1..Len(Listing) /\ Page[i] = Listing[offset + i]
      /\ Len(Page) < PageSize => offset + Len(Page) >= Len(Listing)
    BY PageRows
<1>4. /\ collected' \in Seq(Rows) /\ Len(collected') = offset + Len(Page)
      /\ \A i \in 1 .. offset + Len(Page) :
            collected'[i] = IF i <= offset THEN collected[i] ELSE Page[i - offset]
    <2>1. /\ collected \o Page \in Seq(Rows) /\ Len(collected \o Page) = Len(collected) + Len(Page)
          /\ \A i \in 1 .. Len(collected) + Len(Page) :
                (collected \o Page)[i] = IF i <= Len(collected) THEN collected[i]
                                                             ELSE Page[i - Len(collected)]
        BY <1>2, <1>3, ConcatProperties
    <2> QED
        BY <1>1, <1>2, <2>1
<1>5. ASSUME NEW i \in offset + 1 .. Len(collected')
      PROVE  i \in 1..Len(Listing) /\ collected'[i] = Listing[i]
    <2>1. i - offset \in 1..Len(Page) /\ offset + (i - offset) = i /\ ~(i <= offset)
        BY <1>2, <1>3, <1>4
    <2>2. i \in 1 .. offset + Len(Page)
        BY <1>2, <1>3, <1>4
    <2> QED
        BY <1>3, <1>4, <2>1, <2>2
<1>6. \A i \in 1..offset : collected'[i] = collected[i]
    BY <1>2, <1>3, <1>4
<1>7. \/ /\ answer' = AnswerOf(collected') /\ offset' = offset
         /\ Len(collected') >= maxResults \/ Len(collected') >= Len(Listing)
      \/ /\ answer' = NoAnswer /\ offset' = NextOffset /\ Len(collected') = offset'
         /\ Len(collected') < maxResults
    <2>1. maxResults \in Nat /\ Len(collected') \in Nat /\ Len(Page) \in Nat
        BY <1>2, <1>3, <1>4
    <2>2. CASE Len(Page) < PageSize \/ Len(collected') >= maxResults
        BY <1>1, <1>3, <1>4, <2>2
    <2>3. CASE ~(Len(Page) < PageSize \/ Len(collected') >= maxResults)
        <3>1. answer' = NoAnswer /\ offset' = NextOffset
            BY <1>1, <2>3
        <3>2. Len(Page) = PageSize /\ Len(collected') < maxResults
            BY <1>3, <2>1, <2>3
        <3> QED
            BY <1>2, <1>4, <3>1, <3>2 DEF NextOffset
    <2> QED
        BY <2>2, <2>3
<1> QED
    BY <1>1, <1>2, <1>3, <1>4, <1>5, <1>6, <1>7

\* An answer is never mistaken for none.
LEMMA AnswerIsAnswer ==
    ASSUME NEW rows
    PROVE  AnswerOf(rows) # NoAnswer
<1>1. "result" \in DOMAIN AnswerOf(rows)
    BY DEF AnswerOf
<1>2. DOMAIN NoAnswer = {}
    BY DEF NoAnswer
<1> QED
    BY <1>1, <1>2

LEMMA AnswerType ==
    ASSUME NEW rows \in Seq(Rows), maxResults \in Caps
    PROVE  LET a == AnswerOf(rows) IN
           /\ a.result = FirstOf(rows, maxResults) /\ a.result \in Seq(Rows)
           /\ Len(a.result) <= maxResults
           /\ a.truncated = (Len(rows) >= maxResults) /\ a.truncated \in BOOLEAN
<1>1. Len(rows) \in Nat /\ maxResults \in Nat
    BY LenProperties
<1>2. /\ FirstOf(rows, maxResults) \in Seq(Rows)
      /\ Len(FirstOf(rows, maxResults)) = IF Len(rows) < maxResults THEN Len(rows) ELSE maxResults
    BY <1>1, FirstOfRows
<1>3. Len(FirstOf(rows, maxResults)) <= maxResults
    BY <1>1, <1>2
<1> QED
    BY <1>2, <1>3 DEF AnswerOf

\* Offsets are whole pages.
LEMMA AnotherPage ==
    ASSUME NEW n \in Nat, n % PageSize = 0
    PROVE  (n + PageSize) % PageSize = 0
<1>1. n = PageSize * (n \div PageSize) + (n % PageSize)
    OBVIOUS
<1>2. n \div PageSize \in Int
    OBVIOUS
<1>3. n + PageSize = PageSize * ((n \div PageSize) + 1)
    BY <1>1, <1>2
<1>4. \A k \in Int : (PageSize * k) % PageSize = 0
    OBVIOUS
<1> QED
    BY <1>2, <1>3, <1>4

-----------------------------------------------------------------------------
(* Every step keeps the invariant                                           *)

LEMMA GetPageKeepsType ==
    ASSUME TypeOK, CollectInv, GetPage
    PROVE  TypeOK' /\ CollectInv'
<1>1. /\ answer = NoAnswer /\ UNCHANGED <<callVars, tableVars>>
      /\ collected' \in Seq(Rows) /\ Len(collected') \in Nat
      /\ \/ answer' = AnswerOf(collected') /\ offset' = offset
         \/ answer' = NoAnswer /\ offset' = NextOffset /\ Len(collected') = offset'
    BY GetPageOutcome
<1>2. offset' \in Nat /\ offset' % PageSize = 0
    BY <1>1, AnotherPage DEF TypeOK, NextOffset
<1>3. maxResults' = maxResults /\ maxResults \in Caps
    BY <1>1 DEF TypeOK, callVars
<1>4. answer' # NoAnswer => answer' = AnswerOf(collected') /\ answer' = AnswerOf(collected)'
    BY <1>1, <1>3 DEF AnswerOf
<1>5. answer' # NoAnswer => /\ answer'.result \in Seq(Rows)
                            /\ Len(answer'.result) <= maxResults
                            /\ answer'.truncated \in BOOLEAN
    BY <1>1, <1>3, <1>4, AnswerType
<1>6. TypeOK'
    BY <1>1, <1>2, <1>3, <1>5 DEF TypeOK, callVars, tableVars, NoAnswer
<1>7. CollectInv'
    BY <1>1, <1>4, AnswerIsAnswer DEF CollectInv, Answered, NoAnswer
<1> QED
    BY <1>6, <1>7

\* Nothing that stayed is skipped: its place is among the pages so far or on this one.
LEMMA GetPageKeepsKept ==
    ASSUME PagesInv, GetPage
    PROVE  KeptInv'
<1> SUFFICES ASSUME trouble \subseteq {"enter"}
             PROVE  KeptInv'
    BY GetPageOutcome DEF PagesInv, KeptInv, callVars
<1>1. /\ answer = NoAnswer /\ matching' = matching /\ stayed' = stayed /\ maxResults' = maxResults
      /\ collected \in Seq(Rows) /\ collected' \in Seq(Rows)
      /\ Len(collected) = offset /\ Len(collected') \in Nat /\ offset <= Len(collected')
      /\ \A i \in 1..offset : collected'[i] = collected[i]
      /\ \A i \in offset + 1 .. Len(collected') :
            i \in 1..Len(Listing) /\ collected'[i] = Listing[i]
    BY GetPageOutcome DEF PagesInv, callVars, tableVars
<1>2. /\ matching \in SUBSET Nat /\ IsFiniteSet(matching) /\ stayed \subseteq matching
      /\ offset \in Nat /\ Len(Listing) \in Nat /\ maxResults \in Nat
    BY RowsFinite, ListingRows, LenProperties DEF PagesInv, TypeOK
<1>3. DOMAIN collected = 1..offset /\ DOMAIN collected' = 1..Len(collected')
    BY <1>1, LenProperties
<1>4. \A r \in stayed : /\ Place(matching, r) \in 1..Len(Listing)
                        /\ Listing[Place(matching, r)] = r
    BY <1>2, ListingRows DEF PagesInv, TypeOK
<1>5. ASSUME NEW r \in stayed, NEW m \in Nat, offset <= m, m <= Len(collected'),
             Place(matching, r) <= m
      PROVE  \E k \in 1..m : collected'[k] = r
    <2>1. CASE Place(matching, r) <= offset
        <3>1. r \in Range(collected)
            BY <1>1, <2>1 DEF PagesInv, KeptInv
        <3>2. PICK k \in 1..offset : collected[k] = r
            BY <1>3, <3>1 DEF Range
        <3>3. k \in 1..m /\ collected'[k] = r
            BY <1>1, <1>2, <1>5, <3>2
        <3> QED
            BY <3>3
    <2>2. CASE ~(Place(matching, r) <= offset)
        <3>1. Place(matching, r) \in offset + 1 .. Len(collected') /\ Place(matching, r) \in 1..m
            BY <1>1, <1>2, <1>4, <1>5, <2>2
        <3>2. collected'[Place(matching, r)] = r
            BY <1>1, <1>4, <3>1
        <3> QED
            BY <3>1, <3>2
    <2> QED
        BY <2>1, <2>2
<1>6. ASSUME answer' = NoAnswer, NEW r \in stayed, Place(matching, r) <= offset'
      PROVE  r \in Range(collected')
    <2>1. offset' = Len(collected')
        BY <1>6, GetPageOutcome, AnswerIsAnswer DEF PagesInv
    <2>2. \E k \in 1..Len(collected') : collected'[k] = r
        BY <1>1, <1>5, <1>6, <2>1
    <2> QED
        BY <1>3, <2>2 DEF Range
<1>7. ASSUME NEW r \in stayed, NEW i \in 1..Len(collected'), collected'[i] <= r
      PROVE  \E k \in 1..i : collected'[k] = r
    <2>1. CASE i <= offset
        <3>1. i \in 1..offset /\ collected[i] <= r
            BY <1>1, <1>2, <1>7, <2>1
        <3>2. PICK k \in 1..i : collected[k] = r
            BY <1>3, <3>1 DEF PagesInv, KeptInv
        <3>3. k \in 1..offset
            BY <1>2, <3>1, <3>2
        <3> QED
            BY <1>1, <3>2, <3>3
    <2>2. CASE ~(i <= offset)
        <3>1. i \in offset + 1 .. Len(collected')
            BY <1>1, <1>2, <2>2
        <3>2. i \in 1..Len(Listing) /\ collected'[i] = Listing[i]
            BY <1>1, <3>1
        <3>3. Listing[i] \in matching /\ Place(matching, Listing[i]) = i
            BY <3>2, ListingRows DEF PagesInv, TypeOK
        <3>4. CASE Listing[i] = r
            BY <1>1, <3>2, <3>4
        <3>5. CASE Listing[i] # r
            <4>1. r \in matching /\ r \in Nat /\ Listing[i] \in Nat /\ Listing[i] < r
                <5>1. r \in matching /\ r \in Nat /\ Listing[i] \in Nat
                    BY <1>2, <3>3
                <5>2. Listing[i] <= r
                    BY <1>7, <3>2
                <5> QED
                    BY <3>5, <5>1, <5>2
            <4>2. Place(matching, r) < i
                BY <1>2, <3>3, <4>1, NewerComesFirst
            <4>3. Place(matching, r) <= i /\ offset <= i /\ i <= Len(collected') /\ i \in Nat
                BY <1>1, <1>2, <1>4, <3>1, <4>2
            <4> QED
                BY <1>5, <4>3
        <3> QED
            BY <3>4, <3>5
    <2> QED
        BY <2>1, <2>2
<1>8. ASSUME answer' # NoAnswer, Len(collected') < maxResults, NEW r \in stayed
      PROVE  r \in Range(collected')
    <2>1. Len(collected') >= Len(Listing)
        <3>1. Len(collected') >= maxResults \/ Len(collected') >= Len(Listing)
            BY <1>8, GetPageOutcome DEF PagesInv
        <3> QED
            BY <1>1, <1>2, <1>8, <3>1
    <2>2. Place(matching, r) <= Len(collected')
        BY <1>1, <1>2, <1>4, <2>1
    <2>3. \E k \in 1..Len(collected') : collected'[k] = r
        BY <1>1, <1>5, <2>2
    <2> QED
        BY <1>3, <2>3 DEF Range
<1> QED
    BY <1>1, <1>3, <1>6, <1>7, <1>8 DEF KeptInv, Answered, NoAnswer

\* No page repeats a row: those it adds stand behind all that the query has.
LEMMA GetPageKeepsOnce ==
    ASSUME PagesInv, GetPage
    PROVE  OnceInv'
<1> SUFFICES ASSUME "enter" \notin trouble
             PROVE  OnceInv'
    BY GetPageOutcome DEF PagesInv, OnceInv, callVars
<1>1. /\ answer = NoAnswer /\ matching' = matching
      /\ collected \in Seq(Rows) /\ collected' \in Seq(Rows)
      /\ Len(collected) = offset /\ Len(collected') \in Nat /\ offset <= Len(collected')
      /\ \A i \in 1..offset : collected'[i] = collected[i]
      /\ \A i \in offset + 1 .. Len(collected') :
            i \in 1..Len(Listing) /\ collected'[i] = Listing[i]
    BY GetPageOutcome DEF PagesInv, tableVars
<1>2. offset \in Nat /\ matching \in SUBSET Rows
    BY DEF PagesInv, TypeOK
<1>3. DOMAIN collected = 1..offset /\ DOMAIN collected' = 1..Len(collected')
    BY <1>1, LenProperties
<1>4. /\ \A i, j \in 1..offset : collected[i] = collected[j] => i = j
      /\ \A i \in 1..offset : collected[i] \in matching => Place(matching, collected[i]) <= offset
    <2>1. IsInjective(collected)
        BY DEF PagesInv, OnceInv
    <2>2. \A r \in Range(collected) \cap matching : Place(matching, r) <= offset
        BY <1>1 DEF PagesInv, OnceInv
    <2>3. \A i \in 1..offset : collected[i] \in Range(collected)
        BY <1>3 DEF Range
    <2> QED
        BY <1>3, <2>1, <2>2, <2>3 DEF IsInjective
<1>5. \A i \in offset + 1 .. Len(collected') :
         collected'[i] \in matching /\ Place(matching, collected'[i]) = i
    BY <1>1, <1>2, ListingRows
<1>6. \A i \in 1..Len(collected') : i \in 1..offset \/ i \in offset + 1 .. Len(collected')
    BY <1>1, <1>2
<1>7. ASSUME NEW i \in 1..offset, NEW j \in offset + 1 .. Len(collected')
      PROVE  collected'[i] # collected'[j]
    <2>1. SUFFICES ASSUME collected[i] = collected'[j]
                   PROVE  FALSE
        BY <1>1
    <2>2. Place(matching, collected'[j]) = j /\ collected[i] \in matching
        BY <1>5, <2>1
    <2>3. j <= offset
        BY <1>4, <2>1, <2>2
    <2> QED
        BY <1>2, <2>3
<1>8. ASSUME NEW i \in 1..Len(collected'), NEW j \in 1..Len(collected'), collected'[i] = collected'[j]
      PROVE  i = j
    <2>1. CASE i \in 1..offset /\ j \in 1..offset
        BY <1>1, <1>4, <1>8, <2>1
    <2>2. CASE i \in offset + 1 .. Len(collected') /\ j \in offset + 1 .. Len(collected')
        BY <1>5, <1>8, <2>2
    <2> QED
        BY <1>6, <1>7, <1>8, <2>1, <2>2
<1>9. ASSUME answer' = NoAnswer, NEW i \in 1..Len(collected'), collected'[i] \in matching
      PROVE  Place(matching, collected'[i]) <= offset'
    <2>1. offset' = Len(collected')
        BY <1>9, GetPageOutcome, AnswerIsAnswer DEF PagesInv
    <2>2. CASE i \in 1..offset
        <3>1. Place(matching, collected[i]) <= offset /\ collected'[i] = collected[i]
            BY <1>1, <1>4, <1>9, <2>2
        <3>2. Place(matching, collected[i]) \in Nat
            BY <1>2, <1>9, <3>1, RowsFinite, PlaceIsNatural
        <3> QED
            BY <1>1, <1>2, <2>1, <3>1, <3>2
    <2>3. CASE i \in offset + 1 .. Len(collected')
        BY <1>1, <1>5, <2>1, <2>3
    <2> QED
        BY <1>6, <2>2, <2>3
<1>10. answer' = NoAnswer =>
          \A r \in Range(collected') \cap matching : Place(matching, r) <= offset'
    BY <1>3, <1>9 DEF Range
<1> QED
    BY <1>1, <1>3, <1>8, <1>10 DEF OnceInv, IsInjective, NoAnswer

\* The next page goes on where the listing was cut.
LEMMA GetPageKeepsSame ==
    ASSUME PagesInv, GetPage
    PROVE  SameInv'
<1> SUFFICES ASSUME trouble = {}
             PROVE  SameInv'
    BY GetPageOutcome DEF PagesInv, SameInv, callVars
<1>1. /\ answer = NoAnswer /\ matching' = matching /\ maxResults' = maxResults
      /\ collected \in Seq(Rows) /\ collected' \in Seq(Rows)
      /\ Len(collected) = offset /\ Len(collected') \in Nat /\ offset <= Len(collected')
      /\ \A i \in 1..offset : collected'[i] = collected[i]
      /\ \A i \in offset + 1 .. Len(collected') :
            i \in 1..Len(Listing) /\ collected'[i] = Listing[i]
    BY GetPageOutcome DEF PagesInv, callVars, tableVars
<1>2. offset \in Nat /\ Len(Listing) \in Nat /\ maxResults \in Nat
    BY ListingRows, LenProperties DEF PagesInv, TypeOK
<1>3. DOMAIN collected = 1..offset /\ DOMAIN collected' = 1..Len(collected')
    BY <1>1, LenProperties
<1>4. offset <= Len(Listing) /\ \A i \in 1..offset : collected[i] = Listing[i]
    BY <1>1, <1>3 DEF PagesInv, SameInv
<1>5. Len(collected') <= Len(Listing)
    <2>1. CASE Len(collected') = offset
        BY <1>4, <2>1
    <2>2. CASE Len(collected') # offset
        <3>1. Len(collected') \in offset + 1 .. Len(collected')
            BY <1>1, <1>2, <2>2
        <3> QED
            BY <1>1, <1>2, <3>1
    <2> QED
        BY <2>1, <2>2
<1>6. \A i \in 1..Len(collected') : collected'[i] = Listing[i]
    <2>1. \A i \in 1..Len(collected') : i \in 1..offset \/ i \in offset + 1 .. Len(collected')
        BY <1>1, <1>2
    <2> QED
        BY <1>1, <1>4, <2>1
<1>7. answer' # NoAnswer => Len(collected') >= maxResults \/ Len(collected') = Len(Listing)
    <2>1. answer' # NoAnswer => Len(collected') >= maxResults \/ Len(collected') >= Len(Listing)
        BY GetPageOutcome DEF PagesInv
    <2> QED
        BY <1>1, <1>2, <1>5, <2>1
<1>8. Listing' = Listing
    BY <1>1 DEF Listing
<1> QED
    BY <1>1, <1>3, <1>5, <1>6, <1>7, <1>8 DEF SameInv, Answered, NoAnswer

\* A failed page, or a row that comes or goes, leaves what was collected.
LEMMA OthersKeepType ==
    ASSUME TypeOK, CollectInv,
           \/ PageFails
           \/ \E r \in Rows : Enter(r) \/ Leave(r)
           \/ UNCHANGED vars
    PROVE  TypeOK' /\ CollectInv'
<1>1. /\ UNCHANGED <<callVars, offset, collected>>
      /\ answer' = answer \/ (answer = NoAnswer /\ answer' = AnswerOf(collected))
    <2>1. CASE PageFails
        BY <2>1 DEF PageFails
    <2>2. CASE \E r \in Rows : Enter(r) \/ Leave(r)
        BY <2>2 DEF Enter, Leave, queryVars
    <2>3. CASE UNCHANGED vars
        BY <2>3 DEF vars, queryVars
    <2> QED
        BY <2>1, <2>2, <2>3
<1>2. matching' \in SUBSET Rows /\ stayed' \in SUBSET matching'
    <2>1. matching \in SUBSET Rows /\ stayed \in SUBSET matching
        BY DEF TypeOK
    <2>2. CASE PageFails \/ UNCHANGED vars
        BY <2>1, <2>2 DEF PageFails, vars, tableVars
    <2>3. ASSUME NEW r \in Rows, Enter(r) \/ Leave(r)
          PROVE  matching' \in SUBSET Rows /\ stayed' \in SUBSET matching'
        BY <2>1, <2>3 DEF Enter, Leave
    <2> QED
        BY <2>2, <2>3
<1>3. collected \in Seq(Rows) /\ maxResults \in Caps /\ maxResults' = maxResults
    BY <1>1 DEF TypeOK, callVars
<1>4. AnswerOf(collected)' = AnswerOf(collected)
    BY <1>1, <1>3 DEF AnswerOf
<1>5. answer' # NoAnswer => /\ answer'.result \in Seq(Rows)
                            /\ Len(answer'.result) <= maxResults
                            /\ answer'.truncated \in BOOLEAN
    BY <1>1, <1>3, AnswerType DEF TypeOK
<1>6. TypeOK'
    BY <1>1, <1>2, <1>3, <1>5 DEF TypeOK, callVars, NoAnswer
<1>7. CollectInv'
    BY <1>1, <1>4, AnswerIsAnswer DEF CollectInv, Answered, NoAnswer
<1> QED
    BY <1>6, <1>7

LEMMA PageFailsKeeps ==
    ASSUME PagesInv, PageFails
    PROVE  KeptInv' /\ OnceInv' /\ SameInv'
<1>1. /\ "fail" \in trouble /\ trouble' = trouble /\ matching' = matching /\ collected' = collected
      /\ answer' # NoAnswer
    BY AnswerIsAnswer DEF PageFails, callVars, tableVars
<1>2. KeptInv' /\ SameInv'
    BY <1>1 DEF KeptInv, SameInv
<1>3. OnceInv'
    BY <1>1 DEF PagesInv, OnceInv, NoAnswer
<1> QED
    BY <1>2, <1>3

\* A row that comes moves others down the listing, never up.
LEMMA EnterKeeps ==
    ASSUME PagesInv, NEW q \in Rows, Enter(q)
    PROVE  KeptInv' /\ OnceInv' /\ SameInv'
<1>1. /\ "enter" \in trouble /\ trouble' = trouble /\ stayed' = stayed /\ offset' = offset
      /\ collected' = collected /\ answer = NoAnswer /\ answer' = NoAnswer
      /\ matching' = matching \cup {q}
    BY DEF Enter, callVars, queryVars
<1>2. /\ matching' \in SUBSET Nat /\ IsFiniteSet(matching') /\ matching \in SUBSET matching'
      /\ stayed \subseteq matching /\ offset \in Nat
    <2>1. matching \in SUBSET Rows
        BY DEF PagesInv, TypeOK
    <2>2. matching' \in SUBSET Rows
        BY <1>1, <2>1
    <2>3. matching' \in SUBSET Nat /\ IsFiniteSet(matching')
        BY <2>2, FS_Subset
    <2> QED
        BY <1>1, <2>3 DEF PagesInv, TypeOK
<1>3. ASSUME trouble \subseteq {"enter"}, NEW r \in stayed, Place(matching', r) <= offset
      PROVE  r \in Range(collected)
    <2>1. Place(matching, r) <= Place(matching', r)
        BY <1>2, PlaceMonotonic
    <2>2. Place(matching, r) \in Nat /\ Place(matching', r) \in Nat
        BY <1>2, PlaceIsNatural
    <2>3. Place(matching, r) <= offset
        BY <1>2, <1>3, <2>1, <2>2
    <2> QED
        BY <1>1, <1>3, <2>3 DEF PagesInv, KeptInv
<1>4. KeptInv'
    BY <1>1, <1>3 DEF PagesInv, KeptInv, Answered, NoAnswer
<1>5. OnceInv' /\ SameInv'
    BY <1>1 DEF OnceInv, SameInv
<1> QED
    BY <1>4, <1>5

\* A row that goes moves others up, never down.
LEMMA LeaveKeeps ==
    ASSUME PagesInv, NEW q \in Rows, Leave(q)
    PROVE  KeptInv' /\ OnceInv' /\ SameInv'
<1>1. /\ "leave" \in trouble /\ trouble' = trouble /\ offset' = offset
      /\ collected' = collected /\ answer = NoAnswer /\ answer' = NoAnswer
      /\ matching' = matching \ {q}
    BY DEF Leave, callVars, queryVars
<1>2. /\ matching \in SUBSET Nat /\ IsFiniteSet(matching) /\ matching' \in SUBSET matching
      /\ offset \in Nat
    BY <1>1, RowsFinite DEF PagesInv, TypeOK
<1>3. ASSUME "enter" \notin trouble, NEW r \in Range(collected) \cap matching'
      PROVE  Place(matching', r) <= offset
    <2>1. Place(matching', r) <= Place(matching, r)
        BY <1>2, PlaceMonotonic
    <2>2. Place(matching, r) \in Nat /\ Place(matching', r) \in Nat
        BY <1>2, PlaceIsNatural
    <2>3. Place(matching, r) <= offset
        BY <1>1, <1>2, <1>3 DEF PagesInv, OnceInv
    <2> QED
        BY <1>2, <2>1, <2>2, <2>3
<1>4. OnceInv'
    BY <1>1, <1>3 DEF PagesInv, OnceInv, NoAnswer
<1>5. KeptInv' /\ SameInv'
    BY <1>1 DEF KeptInv, SameInv
<1> QED
    BY <1>4, <1>5

LEMMA PagesStep == PagesInv /\ [Next]_vars => PagesInv'
<1> SUFFICES ASSUME PagesInv, [Next]_vars
             PROVE  PagesInv'
    OBVIOUS
<1>1. CASE GetPage
    BY <1>1, GetPageKeepsType, GetPageKeepsKept, GetPageKeepsOnce, GetPageKeepsSame DEF PagesInv
<1>2. CASE PageFails
    BY <1>2, OthersKeepType, PageFailsKeeps DEF PagesInv
<1>3. ASSUME NEW r \in Rows, Enter(r)
      PROVE  PagesInv'
    BY <1>3, OthersKeepType, EnterKeeps DEF PagesInv
<1>4. ASSUME NEW r \in Rows, Leave(r)
      PROVE  PagesInv'
    BY <1>4, OthersKeepType, LeaveKeeps DEF PagesInv
<1>5. CASE UNCHANGED vars
    <2>1. UNCHANGED <<trouble, maxResults, matching, stayed, offset, collected, answer>>
        BY <1>5 DEF vars, callVars, tableVars, queryVars
    <2>2. Listing' = Listing
        BY <2>1 DEF Listing
    <2>3. KeptInv' /\ OnceInv' /\ SameInv'
        BY <2>1, <2>2 DEF PagesInv, KeptInv, OnceInv, SameInv, Answered, NoAnswer
    <2> QED
        BY <1>5, <2>3, OthersKeepType DEF PagesInv
<1> QED
    BY <1>1, <1>2, <1>3, <1>4, <1>5 DEF Next

LEMMA PagesHold == Spec => []PagesInv
<1> QED
    BY PagesInit, PagesStep, PTL DEF Spec

-----------------------------------------------------------------------------
(* Theorems                                                                 *)

\* Every variable stays within its type, and no answer has more than max_results rows.
THEOREM QueryTypeCorrect == Spec => []TypeOK
<1>1. PagesInv => TypeOK
    BY DEF PagesInv
<1> QED
    BY <1>1, PagesHold, PTL

\* The newest rows of what was collected are its first.
LEMMA AnswerHas ==
    ASSUME PagesInv, Answered
    PROVE  /\ collected \in Seq(Rows) /\ Len(collected) \in Nat /\ maxResults \in Nat
           /\ answer.result = FirstOf(collected, maxResults)
           /\ answer.truncated = (Len(collected) >= maxResults)
           /\ answer.result \in Seq(Rows)
           /\ Len(answer.result) = IF Len(collected) < maxResults THEN Len(collected) ELSE maxResults
           /\ \A i \in 1..Len(answer.result) : answer.result[i] = collected[i]
<1>1. collected \in Seq(Rows) /\ maxResults \in Caps /\ maxResults \in Nat /\ answer = AnswerOf(collected)
    BY DEF PagesInv, TypeOK, CollectInv
<1>2. /\ answer.result = FirstOf(collected, maxResults)
      /\ answer.truncated = (Len(collected) >= maxResults)
    BY <1>1, AnswerType
<1> QED
    BY <1>1, <1>2, FirstOfRows, LenProperties

\* A query over pages loses no row while rows only come to match: an answer that does not
\* say it is truncated has every row that matched all along, a truncated one has no hole.
THEOREM NoRowIsLost == Spec => []NoneLost
<1>1. ASSUME PagesInv, Answered, trouble \subseteq {"enter"}, NEW r \in stayed
      PROVE  \/ r \in Range(answer.result)
             \/ answer.truncated /\ \A s \in Range(answer.result) : s > r
    <2> DEFINE n == Len(answer.result)
    <2>1. /\ collected \in Seq(Rows) /\ Len(collected) \in Nat /\ maxResults \in Nat
          /\ answer.truncated = (Len(collected) >= maxResults)
          /\ answer.result \in Seq(Rows)
          /\ n = IF Len(collected) < maxResults THEN Len(collected) ELSE maxResults
          /\ \A i \in 1..n : answer.result[i] = collected[i]
        BY <1>1, AnswerHas
    <2>2. DOMAIN collected = 1..Len(collected) /\ DOMAIN answer.result = 1..n
        BY <2>1, LenProperties
    <2>3. CASE Len(collected) < maxResults
        <3>1. r \in Range(collected)
            BY <1>1, <2>3 DEF PagesInv, KeptInv
        <3>2. PICK i \in 1..Len(collected) : collected[i] = r
            BY <2>2, <3>1 DEF Range
        <3>3. i \in 1..n /\ answer.result[i] = r
            BY <2>1, <2>3, <3>2
        <3> QED
            BY <2>2, <3>3 DEF Range
    <2>4. CASE ~(Len(collected) < maxResults) /\ r \notin Range(answer.result)
        <3>1. answer.truncated /\ n <= Len(collected)
            <4>1. Len(collected) >= maxResults /\ n <= Len(collected)
                BY <2>1, <2>4
            <4>2. answer.truncated = (Len(collected) >= maxResults)
                BY <2>1
            <4> QED
                BY <4>1, <4>2, Zenon
        <3>2. ASSUME NEW i \in 1..n
              PROVE  answer.result[i] > r
            <4>1. i \in 1..Len(collected) /\ answer.result[i] = collected[i]
                BY <2>1, <3>1, <3>2
            <4>2. collected[i] \in Nat /\ r \in Nat
                BY <1>1, <2>1, <4>1, ElementOfSeq DEF PagesInv, TypeOK
            <4>3. ~(collected[i] <= r)
                <5>1. SUFFICES ASSUME collected[i] <= r
                               PROVE  FALSE
                    OBVIOUS
                <5>2. PICK k \in 1..i : collected[k] = r
                    BY <1>1, <2>2, <4>1, <5>1 DEF PagesInv, KeptInv
                <5>3. k \in 1..n /\ answer.result[k] = r
                    BY <2>1, <5>2
                <5> QED
                    BY <2>2, <2>4, <5>3 DEF Range
            <4> QED
                BY <4>1, <4>2, <4>3
        <3> QED
            BY <2>2, <3>1, <3>2 DEF Range
    <2> QED
        BY <2>3, <2>4
<1>2. PagesInv => NoneLost
    BY <1>1 DEF NoneLost
<1> QED
    BY <1>2, PagesHold, PTL

\* A query over pages answers no row twice while rows only cease to match, also when a
\* failed page cuts it short.
THEOREM NoRowTwice == Spec => []NoneTwice
<1>1. ASSUME PagesInv, Answered, "enter" \notin trouble
      PROVE  IsInjective(answer.result)
    <2>1. /\ collected \in Seq(Rows) /\ Len(collected) \in Nat /\ maxResults \in Nat
          /\ answer.result \in Seq(Rows)
          /\ Len(answer.result) = IF Len(collected) < maxResults THEN Len(collected) ELSE maxResults
          /\ \A i \in 1..Len(answer.result) : answer.result[i] = collected[i]
        BY <1>1, AnswerHas
    <2>2. DOMAIN collected = 1..Len(collected) /\ DOMAIN answer.result = 1..Len(answer.result)
        BY <2>1, LenProperties
    <2>3. \A i \in 1..Len(answer.result) : i \in 1..Len(collected)
        BY <2>1
    <2>4. IsInjective(collected)
        BY <1>1 DEF PagesInv, OnceInv
    <2> QED
        BY <2>1, <2>2, <2>3, <2>4 DEF IsInjective
<1>2. PagesInv => NoneTwice
    BY <1>1 DEF NoneTwice
<1> QED
    BY <1>2, PagesHold, PTL

\* In a table that stands still, however many pages it takes, the answer is the newest
\* max_results rows, newest first, and says it is truncated whenever there were more.
THEOREM PagesAreOneQuery == Spec => []AsOneQuery
<1>1. ASSUME PagesInv, Answered, trouble = {}
      PROVE  /\ answer.result = FirstOf(Listing, maxResults)
             /\ Len(Listing) > maxResults => answer.truncated
    <2> DEFINE best == FirstOf(Listing, maxResults)
    <2>1. /\ collected \in Seq(Rows) /\ Len(collected) \in Nat /\ maxResults \in Nat
          /\ answer.truncated = (Len(collected) >= maxResults)
          /\ answer.result \in Seq(Rows)
          /\ Len(answer.result) = IF Len(collected) < maxResults THEN Len(collected) ELSE maxResults
          /\ \A i \in 1..Len(answer.result) : answer.result[i] = collected[i]
        BY <1>1, AnswerHas
    <2>2. Listing \in Seq(Rows) /\ Len(Listing) \in Nat
        BY <1>1, ListingRows, LenProperties DEF PagesInv, TypeOK
    <2>3. /\ Len(collected) <= Len(Listing)
          /\ \A i \in 1..Len(collected) : collected[i] = Listing[i]
          /\ Len(collected) >= maxResults \/ Len(collected) = Len(Listing)
        BY <1>1, <2>1, LenProperties DEF PagesInv, SameInv
    <2>4. /\ best \in Seq(Rows)
          /\ Len(best) = IF Len(Listing) < maxResults THEN Len(Listing) ELSE maxResults
          /\ \A i \in 1..Len(best) : best[i] = Listing[i]
        BY <2>1, <2>2, FirstOfRows
    <2> HIDE DEF best
    <2>5. Len(best) = Len(answer.result)
        BY <2>1, <2>2, <2>3, <2>4
    <2>6. \A i \in 1..Len(best) : best[i] = answer.result[i]
        BY <2>1, <2>3, <2>4, <2>5
    <2>7. best = answer.result
        BY <2>1, <2>4, <2>5, <2>6, SeqEqual
    <2>8. Len(Listing) > maxResults => answer.truncated
        <3>1. Len(Listing) > maxResults => Len(collected) >= maxResults
            BY <2>1, <2>2, <2>3
        <3>2. answer.truncated = (Len(collected) >= maxResults)
            BY <2>1
        <3> QED
            BY <3>1, <3>2, Zenon
    <2> QED
        BY <2>7, <2>8 DEF best
<1>2. PagesInv => AsOneQuery
    BY <1>1 DEF AsOneQuery
<1> QED
    BY <1>2, PagesHold, PTL

=============================================================================
