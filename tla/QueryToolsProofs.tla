-------------------------- MODULE QueryToolsProofs --------------------------
\* Proofs about QueryTools: any calls, rows and texts.
EXTENDS QueryTools, SequenceTheorems, FiniteSetTheorems, WellFoundedInduction, TLAPS

-----------------------------------------------------------------------------
(* Numbers                                                                  *)

\* A set of natural numbers that has an element has a least one.
LEMMA LeastNatural ==
    ASSUME NEW S \in SUBSET Nat, S # {}
    PROVE  \E x \in S : \A y \in S : x <= y
<1> DEFINE less == {p \in Nat \X Nat : p[1] < p[2]}
<1>1. OpToRel(<, Nat) = less
    BY DEF OpToRel
<1>2. IsWellFoundedOn(less, Nat)
    BY <1>1, NatLessThanWellFounded
<1> HIDE DEF less
<1>3. PICK x \in S : \A y \in S : ~(<<y, x>> \in less)
    BY <1>2, WFMin
<1>4. \A y \in S : x <= y
    <2> TAKE y \in S
    <2>1. x \in Nat /\ y \in Nat /\ <<y, x>> \notin less
        BY <1>3
    <2> QED
        BY <2>1 DEF less
<1> QED
    BY <1>4

LEMMA LeastOf ==
    ASSUME NEW S \in SUBSET Nat, S # {}
    PROVE  Min(S) \in S
<1>1. PICK x \in S : \A y \in S : x <= y
    BY LeastNatural
<1> QED
    BY <1>1 DEF Min

\* A set that holds 0 and the successor of each of its numbers up to n holds all of them.
LEMMA AllUpTo ==
    ASSUME NEW n \in Nat, NEW S, 0 \in S, \A k \in 0..(n - 1) : k \in S => k + 1 \in S,
           NEW i \in 0..n
    PROVE  i \in S
<1> DEFINE left == {k \in 0..n : k \notin S}
<1>1. CASE left = {}
    BY <1>1
<1>2. CASE left # {}
    <2>1. left \in SUBSET Nat
        OBVIOUS
    <2>2. PICK m \in left : \A k \in left : m <= k
        BY <1>2, <2>1, LeastNatural
    <2>3. m # 0 /\ m - 1 \in 0..(n - 1) /\ (m - 1) + 1 = m /\ ~(m <= m - 1)
        BY <2>2
    <2>4. m - 1 \in S
        BY <2>2, <2>3
    <2> QED
        BY <2>2, <2>3, <2>4
<1> QED
    BY <1>1, <1>2

\* The greatest of some numbers up to n.
LEMMA GreatestUpTo ==
    ASSUME NEW n \in Nat, NEW s \in SUBSET (1..n), s # {}
    PROVE  Max(s) \in s /\ \A y \in s : y <= Max(s)
<1> DEFINE below == {x \in Nat : \A y \in s : y <= x}
<1>1. below \in SUBSET Nat /\ n \in below
    OBVIOUS
<1>2. PICK m \in below : \A x \in below : m <= x
    BY <1>1, LeastNatural
<1>3. m \in s
    <2> SUFFICES ASSUME m \notin s
                 PROVE  FALSE
        OBVIOUS
    <2>1. \A y \in s : y \in 1..n /\ y <= m /\ y # m
        BY <1>2
    <2>2. PICK y \in s : TRUE
        OBVIOUS
    <2>3. m \in Nat /\ y \in 1..n /\ y <= m
        BY <1>2, <2>1
    <2>4. m - 1 \in Nat
        BY <2>3
    <2>5. \A z \in s : z <= m - 1
        BY <2>1, <2>3
    <2>6. m - 1 \in below
        BY <2>4, <2>5
    <2> QED
        BY <1>2, <2>3, <2>6
<1>4. \E x \in s : \A y \in s : y <= x
    BY <1>2, <1>3
<1> QED
    BY <1>4 DEF Max

LEMMA MinOfTwo ==
    ASSUME NEW a \in Nat, NEW b \in Nat
    PROVE  Min({a, b}) \in {a, b} /\ Min({a, b}) <= a /\ Min({a, b}) <= b
<1>1. CASE a <= b
    <2>1. \A y \in {a, b} : (\A z \in {a, b} : y <= z) <=> y = a
        BY <1>1
    <2> QED
        BY <1>1, <2>1 DEF Min
<1>2. CASE ~(a <= b)
    <2>1. \A y \in {a, b} : (\A z \in {a, b} : y <= z) <=> y = b
        BY <1>2
    <2> QED
        BY <1>2, <2>1 DEF Min
<1> QED
    BY <1>1, <1>2

\* Of a finite set of positions there is one with n of them up to it, for every n up to
\* how many they are.
LEMMA NthPosition ==
    ASSUME NEW L \in Nat, NEW positions \in SUBSET (0..L), NEW n \in 1..Cardinality(positions)
    PROVE  Nth(positions, n) \in positions /\ Cardinality({j \in positions : j <= Nth(positions, n)}) = n
<1> DEFINE Below(m) == {j \in positions : j < m}
           enough == {m \in 0..(L + 1) : Cardinality(Below(m)) >= n}
<1>1. IsFiniteSet(positions)
    <2>1. IsFiniteSet(0..L)
        BY FS_Interval
    <2> QED
        BY <2>1, FS_Subset
<1>2. \A m \in 0..(L + 1) : IsFiniteSet(Below(m)) /\ Cardinality(Below(m)) \in Nat
    <2> TAKE m \in 0..(L + 1)
    <2>1. Below(m) \in SUBSET positions
        OBVIOUS
    <2> HIDE DEF Below
    <2>2. IsFiniteSet(Below(m))
        BY <1>1, <2>1, FS_Subset
    <2> QED
        BY <2>2, FS_CardinalityType
<1>3. Below(L + 1) = positions /\ Below(0) = {}
    <2>1. \A j \in positions : j < L + 1 /\ ~(j < 0)
        OBVIOUS
    <2> QED
        BY <2>1
<1>4. \A m \in 0..L : Below(m + 1) = IF m \in positions THEN Below(m) \cup {m} ELSE Below(m)
    <2> TAKE m \in 0..L
    <2>1. \A j \in positions : j < m + 1 <=> j < m \/ j = m
        OBVIOUS
    <2>2. m \in positions => Below(m + 1) = Below(m) \cup {m}
        BY <2>1
    <2>3. m \notin positions => Below(m + 1) = Below(m)
        BY <2>1
    <2> HIDE DEF Below
    <2> QED
        BY <2>2, <2>3
<1>5. \A m \in 0..L : m \notin Below(m) /\ Below(m + 1) = {j \in positions : j <= m}
    <2> TAKE m \in 0..L
    <2>1. \A j \in positions : j < m + 1 <=> j <= m
        OBVIOUS
    <2>2. m \notin Below(m)
        OBVIOUS
    <2>3. Below(m + 1) = {j \in positions : j <= m}
        BY <2>1, Zenon
    <2> QED
        BY <2>2, <2>3
<1>12. n \in Nat \ {0}
    BY <1>1, FS_CardinalityType
<1> HIDE DEF Below
<1>6. enough \in SUBSET Nat /\ L + 1 \in enough
    BY <1>3, <1>1, FS_CardinalityType
<1>7. PICK m \in enough : \A k \in enough : m <= k
    BY <1>6, LeastNatural
<1> DEFINE i == m - 1
<1>8. i \in 0..L /\ i + 1 = m /\ i \notin enough
    <2>1. Cardinality(Below(0)) = 0
        BY <1>3, FS_EmptySet
    <2>2. m \in 0..(L + 1) /\ m # 0
        BY <1>7, <1>12, <2>1
    <2>3. ~(m <= m - 1)
        BY <2>2
    <2> QED
        BY <1>7, <2>2, <2>3
<1> HIDE DEF i
<1>9. Cardinality(Below(i + 1)) >= n /\ ~(Cardinality(Below(i)) >= n)
    BY <1>7, <1>8
<1>10. i \in positions /\ Cardinality(Below(i + 1)) = n
    <2>1. i \in positions
        BY <1>4, <1>8, <1>9
    <2>2. Below(i + 1) = Below(i) \cup {i}
        BY <1>4, <1>8, <2>1
    <2>3. Cardinality(Below(i + 1)) = Cardinality(Below(i)) + 1
        BY <1>2, <1>5, <1>8, <2>2, FS_AddElement
    <2> QED
        BY <1>2, <1>8, <1>9, <1>12, <2>1, <2>3
<1>11. Cardinality({j \in positions : j <= i}) = n
    BY <1>5, <1>8, <1>10
<1> QED
    BY <1>10, <1>11 DEF Nth

\* The n-th of some positions is the one with n of them up to it.
LEMMA NthIs ==
    ASSUME NEW L \in Nat, NEW positions \in SUBSET (0..L), NEW i \in positions
    PROVE  /\ Cardinality({j \in positions : j <= i}) \in 1..Cardinality(positions)
           /\ Nth(positions, Cardinality({j \in positions : j <= i})) = i
<1> DEFINE UpTo(k) == {j \in positions : j <= k}
           n == Cardinality(UpTo(i))
           k == Nth(positions, n)
<1>1. IsFiniteSet(positions)
    <2>1. IsFiniteSet(0..L)
        BY FS_Interval
    <2> QED
        BY <2>1, FS_Subset
<1>2. ASSUME NEW x
      PROVE  UpTo(x) \in SUBSET positions
    OBVIOUS
<1>3. i \in UpTo(i) /\ i \in 0..L
    OBVIOUS
<1>9. \A x, y \in positions : UpTo(x) = UpTo(y) => x = y
    <2> SUFFICES ASSUME NEW x \in positions, NEW y \in positions, UpTo(x) = UpTo(y)
                 PROVE  x = y
        OBVIOUS
    <2>1. x \in UpTo(x) /\ y \in UpTo(y) /\ x \in Nat /\ y \in Nat
        OBVIOUS
    <2>2. x <= y /\ y <= x
        BY <2>1
    <2> QED
        BY <2>1, <2>2
<1>10. \A x, y \in positions : UpTo(x) \subseteq UpTo(y) \/ UpTo(y) \subseteq UpTo(x)
    <2> TAKE x, y \in positions
    <2>1. x \in Nat /\ y \in Nat
        OBVIOUS
    <2>2. x <= y => UpTo(x) \subseteq UpTo(y)
        <3> SUFFICES ASSUME x <= y, NEW j \in positions, j <= x
                     PROVE  j <= y
            OBVIOUS
        <3>1. j \in Nat
            OBVIOUS
        <3> QED
            BY <2>1, <3>1
    <2>3. y <= x => UpTo(y) \subseteq UpTo(x)
        <3> SUFFICES ASSUME y <= x, NEW j \in positions, j <= y
                     PROVE  j <= x
            OBVIOUS
        <3>1. j \in Nat
            OBVIOUS
        <3> QED
            BY <2>1, <3>1
    <2> HIDE DEF UpTo
    <2> QED
        BY <2>1, <2>2, <2>3
<1> HIDE DEF UpTo
<1>4. IsFiniteSet(UpTo(i)) /\ Cardinality(UpTo(i)) \in Nat /\ Cardinality(UpTo(i)) <= Cardinality(positions)
    BY <1>1, <1>2, FS_Subset, FS_CardinalityType
<1>5. Cardinality(UpTo(i)) # 0
    BY <1>3, <1>4, FS_EmptySet
<1>6. n \in 1..Cardinality(positions)
    BY <1>1, <1>4, <1>5, FS_CardinalityType
<1>7. k \in positions /\ Cardinality(UpTo(k)) = n
    <2> HIDE DEF n
    <2>1. Nth(positions, n) \in positions /\ Cardinality({j \in positions : j <= Nth(positions, n)}) = n
        BY <1>6, NthPosition
    <2> QED
        BY <2>1 DEF UpTo
<1>8. UpTo(k) = UpTo(i)
    <2>1. IsFiniteSet(UpTo(k))
        BY <1>1, <1>2, FS_Subset
    <2>2. UpTo(k) \subseteq UpTo(i) => UpTo(k) = UpTo(i)
        <3> HIDE DEF k
        <3> QED
            BY <1>4, <1>7, FS_Subset
    <2>3. UpTo(i) \subseteq UpTo(k) => UpTo(k) = UpTo(i)
        <3> HIDE DEF k
        <3> QED
            BY <2>1, <1>7, FS_Subset
    <2> QED
        BY <1>7, <1>10, <2>2, <2>3
<1> QED
    BY <1>6, <1>7, <1>8, <1>9 DEF UpTo

\* The n-th of the first n numbers is n.
LEMMA NthOfAll ==
    ASSUME NEW L \in Nat, NEW i \in 1..L
    PROVE  Cardinality(1..L) = L /\ Nth(1..L, i) = i
<1>1. Cardinality(1..L) = L /\ Cardinality(1..i) = i
    BY FS_Interval
<1>2. {j \in 1..L : j <= i} = 1..i
    OBVIOUS
<1>3. 1..L \in SUBSET (0..L) /\ i \in 1..L
    OBVIOUS
<1> DEFINE all == 1..L
<1> HIDE DEF all
<1>4. Nth(all, Cardinality({j \in all : j <= i})) = i
    BY <1>3, NthIs DEF all
<1> QED
    BY <1>1, <1>2, <1>4 DEF all

-----------------------------------------------------------------------------
(* Texts of a few tokens                                                    *)

LEMMA OneIsASeq ==
    ASSUME NEW T, NEW a \in T
    PROVE  <<a>> \in Seq(T) /\ Len(<<a>>) = 1 /\ <<a>>[1] = a
OBVIOUS

LEMMA EmptyIsASeq ==
    ASSUME NEW T
    PROVE  <<>> \in Seq(T)
OBVIOUS

LEMMA DomainOfSeq ==
    ASSUME NEW T, NEW s \in Seq(T)
    PROVE  \E n \in Nat : DOMAIN s = 1..n /\ \A k \in 1..n : s[k] \in T
<1>1. Len(s) \in Nat /\ DOMAIN s = 1..Len(s) /\ \A k \in 1..Len(s) : s[k] \in T
    OBVIOUS
<1> QED
    BY <1>1

LEMMA LastOfFew ==
    ASSUME NEW x, NEW y
    PROVE  /\ Last(<<y>>) = y /\ <<y>>[1] = y /\ 1 \in DOMAIN <<y>>
           /\ Last(<<x, y>>) = y /\ <<x, y>>[2] = y /\ 2 \in DOMAIN <<x, y>>
<1>1. /\ Len(<<y>>) = 1 /\ <<y>>[1] = y /\ 1 \in DOMAIN <<y>>
      /\ Len(<<x, y>>) = 2 /\ <<x, y>>[2] = y /\ 2 \in DOMAIN <<x, y>>
    OBVIOUS
<1>2. Last(<<y>>) = y /\ Last(<<x, y>>) = y
    BY <1>1, Zenon DEF Last
<1> QED
    BY <1>1, <1>2

LEMMA ThreeAreASeq ==
    ASSUME NEW T, NEW a \in T, NEW b \in T, NEW c \in T
    PROVE  <<a, b, c>> \in Seq(T)
OBVIOUS

LEMMA SevenAreASeq ==
    ASSUME NEW T, NEW a \in T, NEW b \in T, NEW c \in T, NEW d \in T,
           NEW e \in T, NEW f \in T, NEW g \in T
    PROVE  <<a, b, c, d, e, f, g>> \in Seq(T)
OBVIOUS

LEMMA OneToken ==
    ASSUME NEW T, NEW s \in Seq(T), NEW i \in 1..Len(s)
    PROVE  SubSeq(s, i, i) = <<s[i]>>
<1> DEFINE l == SubSeq(s, i, i)
           r == <<s[i]>>
<1>1. s[i] \in T /\ i \in Int /\ \A k \in i..i : s[k] \in T
    OBVIOUS
<1>2. i <= i /\ i - i + 1 = 1 /\ i + 1 - 1 = i /\ 1 \in 1..(i - i + 1)
    OBVIOUS
<1>3. l \in Seq(T)
    BY <1>1, SubSeqProperties
<1>4. Len(l) = IF i <= i THEN i - i + 1 ELSE 0
    BY <1>1, SubSeqProperties
<1>5. \A k \in 1..(i - i + 1) : l[k] = s[i + k - 1]
    BY <1>1, SubSeqProperties
<1>6. r \in Seq(T) /\ Len(r) = 1 /\ r[1] = s[i]
    BY <1>1
<1> HIDE DEF l, r
<1>7. Len(l) = 1 /\ l[1] = s[i]
    BY <1>2, <1>4, <1>5
<1>8. \A k \in 1..Len(l) : l[k] = r[k]
    BY <1>6, <1>7
<1>9. l = r
    BY <1>3, <1>6, <1>7, <1>8, SeqEqual
<1> QED
    BY <1>9 DEF l, r

LEMMA AppendToOne ==
    ASSUME NEW x, NEW y
    PROVE  Append(<<x>>, y) = <<x, y>>
<1> DEFINE T == {x, y}
<1>1. x \in T /\ y \in T
    OBVIOUS
<1> HIDE DEF T
<1>2. <<x>> \in Seq(T) /\ Len(<<x>>) = 1 /\ <<x>>[1] = x
    BY <1>1
<1>3. <<x, y>> \in Seq(T) /\ Len(<<x, y>>) = 2 /\ <<x, y>>[1] = x /\ <<x, y>>[2] = y
    BY <1>1
<1>4. Append(<<x>>, y) \in Seq(T) /\ Len(Append(<<x>>, y)) = 2
    BY <1>1, <1>2, AppendProperties
<1>5. Append(<<x>>, y)[1] = x /\ Append(<<x>>, y)[2] = y
    BY <1>1, <1>2, AppendProperties
<1>6. \A k \in 1..Len(Append(<<x>>, y)) : k = 1 \/ k = 2
    BY <1>4
<1> QED
    BY <1>3, <1>4, <1>5, <1>6, SeqEqual

\* The two halves of a concatenation, token by token.
LEMMA ConcatType ==
    ASSUME NEW T, NEW p \in Seq(T), NEW r \in Seq(T)
    PROVE  p \o r \in Seq(T) /\ Len(p \o r) = Len(p) + Len(r)
BY ConcatProperties

LEMMA ConcatFront ==
    ASSUME NEW T, NEW p \in Seq(T), NEW r \in Seq(T), NEW k \in 1..Len(p)
    PROVE  (p \o r)[k] = p[k]
<1>1. k \in 1..(Len(p) + Len(r)) /\ k <= Len(p)
    OBVIOUS
<1>2. \A m \in 1..(Len(p) + Len(r)) : (p \o r)[m] = IF m <= Len(p) THEN p[m] ELSE r[m - Len(p)]
    BY ConcatProperties
<1> QED
    BY <1>1, <1>2

LEMMA ConcatBack ==
    ASSUME NEW T, NEW p \in Seq(T), NEW r \in Seq(T), NEW k \in 1..Len(r)
    PROVE  (p \o r)[Len(p) + k] = r[k]
<1>1. Len(p) + k \in 1..(Len(p) + Len(r)) /\ ~(Len(p) + k <= Len(p)) /\ (Len(p) + k) - Len(p) = k
    OBVIOUS
<1>2. \A m \in 1..(Len(p) + Len(r)) : (p \o r)[m] = IF m <= Len(p) THEN p[m] ELSE r[m - Len(p)]
    BY ConcatProperties
<1> QED
    BY <1>1, <1>2

\* A query, a separator, and what is added to it.
LEMMA AddedToQuery ==
    ASSUME NEW T, NEW q \in Seq(T), NEW a \in T, NEW r \in Seq(T)
    PROVE  /\ q \o <<a>> \o r \in Seq(T)
           /\ Len(q \o <<a>> \o r) = Len(q) + 1 + Len(r)
           /\ (q \o <<a>> \o r)[Len(q) + 1] = a
<1>1. q \o <<a>> \in Seq(T) /\ Len(q \o <<a>>) = Len(q) + 1
    BY OneIsASeq, ConcatType
<1>2. (q \o <<a>>)[Len(q) + 1] = a
    BY OneIsASeq, ConcatBack
<1>3. Len(q) + 1 \in 1..Len(q \o <<a>>)
    BY <1>1
<1>4. ((q \o <<a>>) \o r)[Len(q) + 1] = (q \o <<a>>)[Len(q) + 1]
    BY <1>1, <1>3, ConcatFront
<1> QED
    BY <1>1, <1>2, <1>4, ConcatType

\* What stands before what was added, token by token.
LEMMA QueryFront ==
    ASSUME NEW T, NEW q \in Seq(T), NEW a \in T, NEW r \in Seq(T)
    PROVE  \A k \in 1..Len(q) : (q \o <<a>> \o r)[k] = q[k]
<1> TAKE k \in 1..Len(q)
<1>1. q \o <<a>> \in Seq(T) /\ Len(q \o <<a>>) = Len(q) + 1
    BY OneIsASeq, ConcatType
<1>2. k \in 1..Len(q \o <<a>>)
    BY <1>1
<1>3. ((q \o <<a>>) \o r)[k] = (q \o <<a>>)[k]
    BY <1>1, <1>2, ConcatFront
<1>4. (q \o <<a>>)[k] = q[k]
    BY OneIsASeq, ConcatFront
<1> QED
    BY <1>3, <1>4

LEMMA AddedToken ==
    ASSUME NEW T, NEW q \in Seq(T), NEW a \in T, NEW r \in Seq(T), NEW k \in 1..Len(r)
    PROVE  (q \o <<a>> \o r)[Len(q) + 1 + k] = r[k]
<1>1. q \o <<a>> \in Seq(T) /\ Len(q \o <<a>>) = Len(q) + 1
    BY OneIsASeq, ConcatType
<1> QED
    BY <1>1, ConcatBack

\* A token and a text after a text: what stands where.
LEMMA AddedTokens ==
    ASSUME NEW T, NEW q \in Seq(T), NEW a \in T, NEW r \in Seq(T)
    PROVE  LET full == q \o <<a>> \o r
           IN  /\ full \in Seq(T) /\ Len(full) = Len(q) + 1 + Len(r) /\ full[Len(q) + 1] = a
               /\ \A k \in 1..Len(q) : full[k] = q[k] /\ q[k] \in T
               /\ \A k \in 1..Len(r) : full[Len(q) + 1 + k] = r[k] /\ r[k] \in T
<1> DEFINE full == q \o <<a>> \o r
<1>1. full \in Seq(T) /\ Len(full) = Len(q) + 1 + Len(r) /\ full[Len(q) + 1] = a
    BY AddedToQuery
<1>2. \A k \in 1..Len(q) : full[k] = q[k]
    BY QueryFront
<1>3. \A k \in 1..Len(r) : full[Len(q) + 1 + k] = r[k]
    BY AddedToken
<1>4. (\A k \in 1..Len(q) : q[k] \in T) /\ (\A k \in 1..Len(r) : r[k] \in T)
    OBVIOUS
<1> HIDE DEF full
<1> QED
    BY <1>1, <1>2, <1>3, <1>4 DEF full

\* Two texts of three tokens and what joins them.
LEMMA SevenOfThree ==
    ASSUME NEW T, NEW q \in Seq(T), Len(q) = 3, NEW s \in T, NEW r \in Seq(T), Len(r) = 3
    PROVE  q \o <<s>> \o r = <<q[1], q[2], q[3], s, r[1], r[2], r[3]>>
<1> DEFINE l == q \o <<s>> \o r
           m == <<q[1], q[2], q[3], s, r[1], r[2], r[3]>>
<1>5. /\ l \in Seq(T) /\ Len(l) = Len(q) + 1 + Len(r) /\ l[Len(q) + 1] = s
      /\ \A k \in 1..Len(q) : l[k] = q[k] /\ q[k] \in T
      /\ \A k \in 1..Len(r) : l[Len(q) + 1 + k] = r[k] /\ r[k] \in T
    <2>1. \A Q \in Seq(T), R \in Seq(T) :
            LET full == Q \o <<s>> \o R
            IN  /\ full \in Seq(T) /\ Len(full) = Len(Q) + 1 + Len(R) /\ full[Len(Q) + 1] = s
                /\ \A k \in 1..Len(Q) : full[k] = Q[k] /\ Q[k] \in T
                /\ \A k \in 1..Len(R) : full[Len(Q) + 1 + k] = R[k] /\ R[k] \in T
        BY AddedTokens
    <2> QED
        BY <2>1, Zenon
<1> HIDE DEF l
<1>3. /\ l \in Seq(T) /\ Len(l) = 3 + 1 + 3 /\ l[3 + 1] = s
      /\ \A k \in 1..3 : l[k] = q[k] /\ q[k] \in T
      /\ \A k \in 1..3 : l[3 + 1 + k] = r[k] /\ r[k] \in T
    BY <1>5
<1>4. 1 \in 1..3 /\ 2 \in 1..3 /\ 3 \in 1..3
    OBVIOUS
<1>1. m \in Seq(T)
    BY <1>3, <1>4, SevenAreASeq
<1>2. /\ Len(m) = 7 /\ m[1] = q[1] /\ m[2] = q[2] /\ m[3] = q[3] /\ m[4] = s
      /\ m[5] = r[1] /\ m[6] = r[2] /\ m[7] = r[3]
    OBVIOUS
<1> HIDE DEF m
<1>6. Len(l) = 7 /\ l[4] = s
    BY <1>3
<1>7. l[1] = q[1] /\ l[2] = q[2] /\ l[3] = q[3]
    BY <1>3, <1>4
<1>8. l[5] = r[1] /\ l[6] = r[2] /\ l[7] = r[3]
    <2>1. l[3 + 1 + 1] = r[1] /\ l[3 + 1 + 2] = r[2] /\ l[3 + 1 + 3] = r[3]
        BY <1>3, <1>4
    <2> QED
        BY <2>1
<1>9. \A k \in 1..7 : k = 1 \/ k = 2 \/ k = 3 \/ k = 4 \/ k = 5 \/ k = 6 \/ k = 7
    OBVIOUS
<1>10. \A k \in 1..7 : l[k] = m[k]
    BY <1>2, <1>6, <1>7, <1>8, <1>9
<1>11. l = m
    BY <1>1, <1>2, <1>3, <1>6, <1>10, SeqEqual
<1> QED
    BY <1>11 DEF l, m

LEMMA NoneJoined ==
    ASSUME NEW x
    PROVE  <<>> \o <<x>> = <<x>> /\ <<x>> \o <<>> = <<x>> /\ <<>> \o <<>> = <<>>
<1> DEFINE T == {x}
           q == <<x>>
           none == <<>>
<1>1. q \in Seq(T) /\ none \in Seq(T)
    OBVIOUS
<1> HIDE DEF q, T
<1> QED
    BY <1>1, ConcatEmptySeq DEF q

LEMMA TwoJoined ==
    ASSUME NEW a, NEW b
    PROVE  <<a>> \o <<b>> = <<a, b>>
<1> DEFINE T == {a, b}
           q == <<a>>
           r == <<b>>
           m == <<a, b>>
<1>1. /\ q \in Seq(T) /\ r \in Seq(T) /\ m \in Seq(T) /\ Len(q) = 1 /\ Len(r) = 1 /\ Len(m) = 2
      /\ q[1] = a /\ r[1] = b /\ m[1] = a /\ m[2] = b
    OBVIOUS
<1> HIDE DEF T, q, r, m
<1>2. /\ q \o r \in Seq(T) /\ Len(q \o r) = Len(q) + Len(r)
      /\ \A i \in 1..(Len(q) + Len(r)) : (q \o r)[i] = IF i <= Len(q) THEN q[i] ELSE r[i - Len(q)]
    BY <1>1, ConcatProperties
<1>3. \A k \in 1..2 : (q \o r)[k] = m[k]
    BY <1>1, <1>2
<1>4. q \o r = m
    BY <1>1, <1>2, <1>3, SeqEqual
<1> QED
    BY <1>4 DEF q, r, m

\* Texts of one token joined are the text of these tokens.
LEMMA ThreeJoined ==
    ASSUME NEW a, NEW b, NEW c
    PROVE  <<a>> \o <<b>> \o <<c>> = <<a, b, c>>
<1> DEFINE T == {a, b, c}
           q == <<a>>
           r == <<c>>
           l == q \o <<b>> \o r
           m == <<a, b, c>>
<1>1. /\ q \in Seq(T) /\ b \in T /\ r \in Seq(T) /\ m \in Seq(T)
      /\ Len(q) = 1 /\ q[1] = a /\ Len(r) = 1 /\ r[1] = c
      /\ Len(m) = 3 /\ m[1] = a /\ m[2] = b /\ m[3] = c
    OBVIOUS
<1> HIDE DEF T, q, r, m
<1>2. /\ l \in Seq(T) /\ Len(l) = Len(q) + 1 + Len(r) /\ l[Len(q) + 1] = b
      /\ \A k \in 1..Len(q) : l[k] = q[k] /\ q[k] \in T
      /\ \A k \in 1..Len(r) : l[Len(q) + 1 + k] = r[k] /\ r[k] \in T
    <2>1. \A Q \in Seq(T), R \in Seq(T) :
            LET full == Q \o <<b>> \o R
            IN  /\ full \in Seq(T) /\ Len(full) = Len(Q) + 1 + Len(R) /\ full[Len(Q) + 1] = b
                /\ \A k \in 1..Len(Q) : full[k] = Q[k] /\ Q[k] \in T
                /\ \A k \in 1..Len(R) : full[Len(Q) + 1 + k] = R[k] /\ R[k] \in T
        BY <1>1, AddedTokens
    <2> QED
        BY <1>1, <2>1, Zenon
<1> HIDE DEF l
<1>3. Len(l) = 3 /\ l[1] = a /\ l[2] = b /\ l[3] = c
    <2>1. 1 \in 1..1 /\ 1 + 1 + 1 = 3 /\ 1 + 1 = 2
        OBVIOUS
    <2> QED
        BY <1>1, <1>2, <2>1
<1>4. \A k \in 1..3 : l[k] = m[k]
    <2>1. \A k \in 1..3 : k = 1 \/ k = 2 \/ k = 3
        OBVIOUS
    <2> QED
        BY <1>1, <1>3, <2>1
<1>5. l = m
    BY <1>1, <1>2, <1>3, <1>4, SeqEqual
<1> QED
    BY <1>5 DEF l, m, q, r

\* What is picked at some positions is of the sequence, in its order.
LEMMA PickedType ==
    ASSUME NEW S, NEW seq \in Seq(S), NEW positions \in SUBSET (DOMAIN seq)
    PROVE  /\ Picked(seq, positions) \in Seq(S)
           /\ DOMAIN Picked(seq, positions) = 1..Cardinality(positions)
           /\ \A n \in 1..Cardinality(positions) : /\ Nth(positions, n) \in positions
                                                   /\ Picked(seq, positions)[n] = seq[Nth(positions, n)]
<1> DEFINE L == Len(seq)
           count == Cardinality(positions)
<1>1. L \in Nat /\ DOMAIN seq = 1..L /\ positions \in SUBSET (0..L) /\ positions \in SUBSET (1..L)
    OBVIOUS
<1>2. count \in Nat
    <2>1. IsFiniteSet(1..L)
        BY <1>1, FS_Interval
    <2>2. IsFiniteSet(positions)
        BY <1>1, <2>1, FS_Subset
    <2> QED
        BY <2>2, FS_CardinalityType
<1>3. \A n \in 1..count : Nth(positions, n) \in positions
    BY <1>1, NthPosition
<1>4. \A n \in 1..count : seq[Nth(positions, n)] \in S
    BY <1>1, <1>3
<1> HIDE DEF count
<1>5. Picked(seq, positions) = [n \in 1..count |-> seq[Nth(positions, n)]]
    BY DEF Picked, count
<1> QED
    BY <1>2, <1>3, <1>4, <1>5 DEF count

\* What is picked at every position is the sequence.
LEMMA PickedAll ==
    ASSUME NEW S, NEW seq \in Seq(S)
    PROVE  Picked(seq, DOMAIN seq) = seq
<1> DEFINE L == Len(seq)
<1>1. L \in Nat /\ DOMAIN seq = 1..L /\ seq = [n \in 1..L |-> seq[n]]
    OBVIOUS
<1> HIDE DEF L
<1>2. \A n \in 1..L : Nth(1..L, n) = n
    BY <1>1, NthOfAll
<1>3. Cardinality(1..L) = L
    <2>1. CASE L = 0
        <3>1. 1..L = {}
            BY <2>1
        <3> QED
            BY <2>1, <3>1, FS_EmptySet
    <2>2. CASE L # 0
        <3>1. 1 \in 1..L
            BY <1>1, <2>2
        <3> QED
            BY <1>1, <3>1, NthOfAll
    <2> QED
        BY <2>1, <2>2
<1>4. Picked(seq, 1..L) = [n \in 1..L |-> seq[Nth(1..L, n)]]
    BY <1>3 DEF Picked
<1>5. [n \in 1..L |-> seq[Nth(1..L, n)]] = [n \in 1..L |-> seq[n]]
    BY <1>2
<1> QED
    BY <1>1, <1>4, <1>5

\* A text with something in it has a first token and a rest, and a last token and what is
\* before it.
LEMMA TextEnds ==
    ASSUME NEW T, NEW text \in Seq(T), text # <<>>
    PROVE  /\ Head(text) \in T /\ Tail(text) \in Seq(T)
           /\ Last(text) \in T /\ Front(text) \in Seq(T)
<1>1. Len(text) \in Nat \ {0} /\ text[1] \in T /\ text[Len(text)] \in T
    OBVIOUS
<1>2. Head(text) \in T /\ Tail(text) \in Seq(T)
    BY <1>1
<1>3. Last(text) \in T
    BY <1>1 DEF Last
<1>4. Front(text) \in Seq(T)
    BY <1>1 DEF Front
<1> QED
    BY <1>2, <1>3, <1>4

\* A field, an operator and a value are a text.
LEMMA ConditionType ==
    ASSUME NEW T, NEW field \in Seq(T), NEW op \in T, NEW value \in Seq(T)
    PROVE  field \o <<op>> \o value \in Seq(T) /\ field \o <<op>> \o value # <<>>
<1>1. field \o <<op>> \o value \in Seq(T) /\ Len(field \o <<op>> \o value) = Len(field) + 1 + Len(value)
    BY AddedToQuery
<1>2. Len(field) + 1 + Len(value) # 0
    OBVIOUS
<1>3. Len(<<>>) = 0
    OBVIOUS
<1> QED
    BY <1>1, <1>2, <1>3

-----------------------------------------------------------------------------
(* The parts of a text                                                      *)

\* What stands between two separators, or a separator and an end, is a part of the text.
LEMMA PartBetween ==
    ASSUME NEW T, NEW text \in Seq(T), NEW separator,
           NEW i \in Nat, NEW j \in Nat, i < j, j <= Len(text) + 1,
           i = 0 \/ text[i] = separator, j = Len(text) + 1 \/ text[j] = separator,
           \A k \in DOMAIN text : i < k /\ k < j => text[k] # separator
    PROVE  SubSeq(text, i + 1, j - 1) \in PartsOf(text, separator)
<1> DEFINE inner == {k \in DOMAIN text : text[k] = separator}
           cuts == {0, Len(text) + 1} \cup inner
           neighbours == {c \in cuts \X cuts : c[1] < c[2] /\ \A k \in cuts : k <= c[1] \/ k >= c[2]}
<1>1. DOMAIN text = 1..Len(text) /\ Len(text) \in Nat
    OBVIOUS
<1>2. i \in cuts /\ j \in cuts
    <2>1. i = 0 \/ i \in inner
        BY <1>1
    <2>2. j = Len(text) + 1 \/ j \in inner
        BY <1>1
    <2> QED
        BY <2>1, <2>2
<1>3. \A k \in cuts : k <= i \/ k >= j
    <2> SUFFICES ASSUME NEW k \in cuts
                 PROVE  k <= i \/ k >= j
        OBVIOUS
    <2>1. CASE k \in inner
        BY <1>1, <2>1
    <2>2. CASE k = 0
        BY <2>2
    <2>3. CASE k = Len(text) + 1
        BY <2>3, <1>1
    <2> QED
        BY <2>1, <2>2, <2>3
<1>4. PartsOf(text, separator) = {SubSeq(text, c[1] + 1, c[2] - 1) : c \in neighbours}
    BY DEF PartsOf, Cuts
<1> HIDE DEF cuts
<1>5. <<i, j>> \in neighbours
    BY <1>2, <1>3
<1> HIDE DEF neighbours
<1>6. SubSeq(text, <<i, j>>[1] + 1, <<i, j>>[2] - 1) \in PartsOf(text, separator)
    BY <1>4, <1>5
<1> QED
    BY <1>6

\* A text without the separator is its only part.
LEMMA OnePart ==
    ASSUME NEW T, NEW text \in Seq(T), NEW separator,
           \A k \in DOMAIN text : text[k] # separator
    PROVE  PartsOf(text, separator) = {text}
<1> DEFINE cuts == {0, Len(text) + 1} \cup {k \in DOMAIN text : text[k] = separator}
           neighbours == {c \in cuts \X cuts : c[1] < c[2] /\ \A k \in cuts : k <= c[1] \/ k >= c[2]}
<1>1. Len(text) \in Nat
    OBVIOUS
<1>2. cuts = {0, Len(text) + 1}
    OBVIOUS
<1>3. PartsOf(text, separator) = {SubSeq(text, c[1] + 1, c[2] - 1) : c \in neighbours}
    BY DEF PartsOf, Cuts
<1> HIDE DEF cuts
<1>4. neighbours = {<<0, Len(text) + 1>>}
    BY <1>1, <1>2
<1>5. SubSeq(text, 0 + 1, (Len(text) + 1) - 1) = text
    BY <1>1
<1> HIDE DEF neighbours
<1> QED
    BY <1>3, <1>4, <1>5

LEMMA ThreeAreOnePart ==
    ASSUME NEW a, NEW b, NEW c, NEW separator, a # separator, b # separator, c # separator
    PROVE  PartsOf(<<a, b, c>>, separator) = {<<a, b, c>>}
<1> DEFINE text == <<a, b, c>>
<1>1. text \in Seq({a, b, c}) /\ \A k \in DOMAIN text : text[k] # separator
    OBVIOUS
<1> HIDE DEF text
<1>2. PartsOf(text, separator) = {text}
    BY <1>1, OnePart
<1> QED
    BY <1>2 DEF text

LEMMA SameSlice ==
    ASSUME NEW T, NEW s \in Seq(T), NEW t \in Seq(T), NEW m \in Int, NEW n \in Int,
           \A k \in m..n : k \in 1..Len(s) /\ k \in 1..Len(t) /\ s[k] = t[k]
    PROVE  SubSeq(s, m, n) = SubSeq(t, m, n)
<1> DEFINE l == SubSeq(s, m, n)
           r == SubSeq(t, m, n)
<1>1. (\A k \in m..n : s[k] \in T) /\ (\A k \in m..n : t[k] \in T)
    OBVIOUS
<1>2. l \in Seq(T) /\ Len(l) = IF m <= n THEN n - m + 1 ELSE 0
    BY <1>1, SubSeqProperties
<1>3. r \in Seq(T) /\ Len(r) = IF m <= n THEN n - m + 1 ELSE 0
    BY <1>1, SubSeqProperties
<1>4. \A k \in 1..(n - m + 1) : l[k] = s[m + k - 1]
    BY <1>1, SubSeqProperties
<1>5. \A k \in 1..(n - m + 1) : r[k] = t[m + k - 1]
    BY <1>1, SubSeqProperties
<1> HIDE DEF l, r
<1>6. \A k \in 1..Len(l) : l[k] = r[k]
    <2> TAKE k \in 1..Len(l)
    <2>1. m <= n /\ k \in 1..(n - m + 1) /\ m + k - 1 \in m..n
        BY <1>2
    <2> QED
        BY <1>4, <1>5, <2>1
<1>7. l = r
    BY <1>2, <1>3, <1>6, SeqEqual
<1> QED
    BY <1>7 DEF l, r

\* The parts of a text stay parts of it, whatever is added after a separator.
LEMMA PartsAfterAdding ==
    ASSUME NEW T, NEW q \in Seq(T), NEW sep \in T, NEW r \in Seq(T)
    PROVE  PartsOf(q, sep) \subseteq PartsOf(q \o <<sep>> \o r, sep)
<1> DEFINE full == q \o <<sep>> \o r
           Ends(text) == {0, Len(text) + 1} \cup {i \in DOMAIN text : text[i] = sep}
           Neighbours(text) == {c \in Ends(text) \X Ends(text) : c[1] < c[2] /\ \A k \in Ends(text) : k <= c[1] \/ k >= c[2]}
<1>1. PartsOf(q, sep) = {SubSeq(q, c[1] + 1, c[2] - 1) : c \in Neighbours(q)}
    BY DEF PartsOf, Cuts
<1>2. /\ full \in Seq(T) /\ Len(full) = Len(q) + 1 + Len(r) /\ Len(full) \in Nat /\ Len(q) \in Nat
      /\ full[Len(q) + 1] = sep
    BY AddedToQuery
<1>3. \A k \in 1..Len(q) : full[k] = q[k]
    BY QueryFront
<1> HIDE DEF full
<1>4. ASSUME NEW c \in Neighbours(q)
      PROVE  SubSeq(q, c[1] + 1, c[2] - 1) \in PartsOf(full, sep)
    <2> DEFINE i == c[1]
               j == c[2]
    <2>1. i \in Nat /\ j \in Nat /\ i < j /\ j <= Len(q) + 1
        BY <1>2
    <2>2. (i = 0 \/ full[i] = sep) /\ full[j] = sep
        <3>1. i = 0 \/ (i \in 1..Len(q) /\ q[i] = sep)
            BY <1>2, <2>1
        <3>2. j = Len(q) + 1 \/ (j \in 1..Len(q) /\ q[j] = sep)
            BY <1>2, <2>1
        <3> QED
            BY <1>2, <1>3, <3>1, <3>2
    <2>3. \A k \in DOMAIN full : i < k /\ k < j => full[k] # sep
        <3> SUFFICES ASSUME NEW k \in DOMAIN full, i < k, k < j
                     PROVE  full[k] # sep
            OBVIOUS
        <3>1. k \in 1..Len(q)
            BY <1>2, <2>1
        <3>2. q[k] # sep
            BY <2>1, <3>1
        <3> QED
            BY <1>3, <3>1, <3>2
    <2>4. j <= Len(full) + 1
        BY <1>2, <2>1
    <2>5. SubSeq(full, i + 1, j - 1) \in PartsOf(full, sep)
        <3> HIDE DEF i, j
        <3> QED
            BY <1>2, <2>1, <2>2, <2>3, <2>4, PartBetween
    <2>6. SubSeq(full, i + 1, j - 1) = SubSeq(q, i + 1, j - 1)
        <3> HIDE DEF i, j
        <3>1. i + 1 \in 1..(Len(q) + 1) /\ j - 1 \in 0..Len(q)
            BY <2>1
        <3>2. \A k \in (i + 1)..(j - 1) : k \in 1..Len(q) /\ k \in 1..Len(full)
            BY <1>2, <3>1
        <3> QED
            BY <1>2, <1>3, <3>1, <3>2, SameSlice
    <2> QED
        BY <2>5, <2>6
<1> QED
    BY <1>1, <1>4 DEF full

\* A slice of a text, and the same slice of a longer text further on.
LEMMA ShiftedSlice ==
    ASSUME NEW T, NEW s \in Seq(T), NEW t \in Seq(T), NEW a \in Nat, NEW m \in Nat, NEW n \in Int, m >= 1,
           \A k \in m..n : k \in 1..Len(t) /\ a + k \in 1..Len(s) /\ s[a + k] = t[k]
    PROVE  SubSeq(s, a + m, a + n) = SubSeq(t, m, n)
<1> DEFINE l == SubSeq(s, a + m, a + n)
           r == SubSeq(t, m, n)
<1>1. \A k \in (a + m)..(a + n) : s[k] \in T
    <2> TAKE k \in (a + m)..(a + n)
    <2>1. k - a \in m..n /\ a + (k - a) = k
        OBVIOUS
    <2>2. k \in 1..Len(s)
        BY <2>1
    <2> QED
        BY <2>2
<1>2. \A k \in m..n : t[k] \in T
    OBVIOUS
<1>3. l \in Seq(T) /\ Len(l) = IF a + m <= a + n THEN (a + n) - (a + m) + 1 ELSE 0
    BY <1>1, SubSeqProperties
<1>4. \A k \in 1..((a + n) - (a + m) + 1) : l[k] = s[(a + m) + k - 1]
    BY <1>1, SubSeqProperties
<1>5. r \in Seq(T) /\ Len(r) = IF m <= n THEN n - m + 1 ELSE 0
    BY <1>2, SubSeqProperties
<1>6. \A k \in 1..(n - m + 1) : r[k] = t[m + k - 1]
    BY <1>2, SubSeqProperties
<1> HIDE DEF l, r
<1>7. Len(l) = Len(r)
    BY <1>3, <1>5
<1>8. \A k \in 1..Len(l) : l[k] = r[k]
    <2> TAKE k \in 1..Len(l)
    <2>1. m <= n /\ k \in 1..(n - m + 1) /\ k \in 1..((a + n) - (a + m) + 1) /\ m + k - 1 \in m..n
          /\ (a + m) + k - 1 = a + (m + k - 1)
        BY <1>3
    <2>2. s[a + (m + k - 1)] = t[m + k - 1]
        BY <2>1
    <2> QED
        BY <1>4, <1>6, <2>1, <2>2
<1>9. l = r
    BY <1>3, <1>5, <1>7, <1>8, SeqEqual
<1> QED
    BY <1>9 DEF l, r

\* The parts of what is added after a separator are parts of the whole.
LEMMA PartsOfAdded ==
    ASSUME NEW T, NEW q \in Seq(T), NEW sep \in T, NEW r \in Seq(T)
    PROVE  PartsOf(r, sep) \subseteq PartsOf(q \o <<sep>> \o r, sep)
<1> DEFINE full == q \o <<sep>> \o r
           a == Len(q) + 1
           Ends(text) == {0, Len(text) + 1} \cup {i \in DOMAIN text : text[i] = sep}
           Neighbours(text) == {c \in Ends(text) \X Ends(text) : c[1] < c[2] /\ \A k \in Ends(text) : k <= c[1] \/ k >= c[2]}
<1>1. PartsOf(r, sep) = {SubSeq(r, c[1] + 1, c[2] - 1) : c \in Neighbours(r)}
    BY DEF PartsOf, Cuts
<1>2. /\ full \in Seq(T) /\ Len(full) = a + Len(r) /\ Len(full) \in Nat /\ a \in Nat
      /\ Len(r) \in Nat /\ full[a] = sep
    BY AddedToQuery
<1>3. \A k \in 1..Len(r) : full[a + k] = r[k]
    BY AddedToken
<1> HIDE DEF full, a
<1>4. ASSUME NEW c \in Neighbours(r)
      PROVE  SubSeq(r, c[1] + 1, c[2] - 1) \in PartsOf(full, sep)
    <2> DEFINE i == c[1]
               j == c[2]
    <2>1. i \in 0..Len(r) /\ j \in 1..(Len(r) + 1) /\ i < j
        BY <1>2
    <2>2. full[a + i] = sep
        <3>1. i = 0 \/ (i \in 1..Len(r) /\ r[i] = sep)
            BY <1>2, <2>1
        <3>2. a + 0 = a
            BY <1>2
        <3> QED
            BY <1>2, <1>3, <3>1, <3>2
    <2>3. a + j = Len(full) + 1 \/ full[a + j] = sep
        <3>1. j = Len(r) + 1 \/ (j \in 1..Len(r) /\ r[j] = sep)
            BY <1>2, <2>1
        <3>2. a + (Len(r) + 1) = Len(full) + 1
            BY <1>2
        <3> QED
            BY <1>3, <3>1, <3>2
    <2>4. \A k \in DOMAIN full : a + i < k /\ k < a + j => full[k] # sep
        <3> SUFFICES ASSUME NEW k \in DOMAIN full, a + i < k, k < a + j
                     PROVE  full[k] # sep
            OBVIOUS
        <3>1. k - a \in 1..Len(r) /\ i < k - a /\ k - a < j /\ a + (k - a) = k
            BY <1>2, <2>1
        <3>2. r[k - a] # sep
            BY <2>1, <3>1
        <3> QED
            BY <1>3, <3>1, <3>2
    <2>5. a + i \in Nat /\ a + j \in Nat /\ a + i < a + j /\ a + j <= Len(full) + 1
        BY <1>2, <2>1
    <2> HIDE DEF i, j
    <2>6. SubSeq(full, (a + i) + 1, (a + j) - 1) \in PartsOf(full, sep)
        <3> DEFINE x == a + i
                   y == a + j
        <3> HIDE DEF x, y
        <3>1. x \in Nat /\ y \in Nat /\ x < y /\ y <= Len(full) + 1 /\ full[x] = sep
              /\ (y = Len(full) + 1 \/ full[y] = sep)
            BY <2>2, <2>3, <2>5 DEF x, y
        <3>2. \A k \in DOMAIN full : x < k /\ k < y => full[k] # sep
            BY <2>4 DEF x, y
        <3>3. SubSeq(full, x + 1, y - 1) \in PartsOf(full, sep)
            BY <1>2, <3>1, <3>2, PartBetween
        <3> QED
            BY <3>3 DEF x, y
    <2>7. SubSeq(full, a + (i + 1), a + (j - 1)) = SubSeq(r, i + 1, j - 1)
        <3> DEFINE x == i + 1
                   y == j - 1
        <3>1. x \in Nat /\ y \in Int /\ x >= 1
            BY <2>1
        <3>2. \A k \in x..y : k \in 1..Len(r) /\ a + k \in 1..Len(full) /\ full[a + k] = r[k]
            <4> TAKE k \in x..y
            <4>1. k \in 1..Len(r) /\ a + k \in 1..Len(full)
                BY <1>2, <2>1
            <4> QED
                BY <1>3, <4>1
        <3> HIDE DEF x, y
        <3>4. full \in Seq(T) /\ a \in Nat
            BY <1>2
        <3>3. SubSeq(full, a + x, a + y) = SubSeq(r, x, y)
            BY <3>1, <3>2, <3>4, ShiftedSlice
        <3> QED
            BY <3>3 DEF x, y
    <2>8. (a + i) + 1 = a + (i + 1) /\ (a + j) - 1 = a + (j - 1)
        BY <1>2, <2>1
    <2> QED
        BY <2>6, <2>7, <2>8 DEF i, j
<1> QED
    BY <1>1, <1>4 DEF full

\* The parts of a text, a separator and another text are the parts of both.
LEMMA PartsOfBoth ==
    ASSUME NEW T, NEW q \in Seq(T), NEW sep \in T, NEW r \in Seq(T)
    PROVE  PartsOf(q \o <<sep>> \o r, sep) = PartsOf(q, sep) \cup PartsOf(r, sep)
<1> DEFINE full == q \o <<sep>> \o r
           a == Len(q) + 1
           z == Len(full) + 1
           cuts == {0, z} \cup {i \in DOMAIN full : full[i] = sep}
           neighbours == {c \in cuts \X cuts : c[1] < c[2] /\ \A k \in cuts : k <= c[1] \/ k >= c[2]}
<1>1. PartsOf(full, sep) = {SubSeq(full, c[1] + 1, c[2] - 1) : c \in neighbours}
    BY DEF PartsOf, Cuts
<1>2. /\ full \in Seq(T) /\ Len(full) = Len(q) + 1 + Len(r) /\ Len(full) \in Nat /\ Len(q) \in Nat
      /\ Len(r) \in Nat /\ full[a] = sep
    BY AddedToQuery
<1>3. \A k \in 1..Len(q) : full[k] = q[k]
    BY QueryFront
<1>4. \A k \in 1..Len(r) : full[a + k] = r[k]
    BY AddedToken
<1> HIDE DEF full
<1>9. ASSUME NEW c \in neighbours
      PROVE  SubSeq(full, c[1] + 1, c[2] - 1) \in PartsOf(q, sep) \cup PartsOf(r, sep)
    <2> DEFINE i == c[1]
               j == c[2]
    <2>1. i \in cuts /\ j \in cuts /\ i < j /\ \A k \in cuts : k <= i \/ k >= j
        OBVIOUS
    <2>2. a \in cuts
        BY <1>2
    <2>3. \A k \in cuts : k \in 0..z
        BY <1>2
    <2> HIDE DEF i, j
    <2>4. CASE j <= a
        <3>1. i \in 0..Len(q) /\ j \in 1..(Len(q) + 1)
            BY <1>2, <2>1, <2>3, <2>4
        <3>2. i = 0 \/ q[i] = sep
            <4>1. CASE i = 0
                BY <4>1
            <4>2. CASE i # 0
                <5>1. full[i] = sep /\ i \in 1..Len(q)
                    BY <1>2, <2>1, <3>1, <4>2
                <5> QED
                    BY <1>3, <5>1
            <4> QED
                BY <4>1, <4>2
        <3>3. j = Len(q) + 1 \/ q[j] = sep
            <4>1. CASE j = Len(q) + 1
                BY <4>1
            <4>2. CASE j # Len(q) + 1
                <5>1. j \in 1..Len(q)
                    <6>1. \A n \in Nat : \A k \in 1..(n + 1) : k # n + 1 => k \in 1..n
                        OBVIOUS
                    <6> QED
                        BY <1>2, <3>1, <4>2, <6>1
                <5>2. j # 0 /\ j # z
                    BY <1>2, <5>1
                <5>3. full[j] = sep
                    BY <2>1, <5>2
                <5> QED
                    BY <1>3, <5>1, <5>3
            <4> QED
                BY <4>1, <4>2
        <3>4. \A k \in DOMAIN q : i < k /\ k < j => q[k] # sep
            <4> SUFFICES ASSUME NEW k \in DOMAIN q, i < k, k < j, q[k] = sep
                         PROVE  FALSE
                OBVIOUS
            <4>1. k \in 1..Len(q) /\ k \in DOMAIN full
                BY <1>2
            <4>2. full[k] = sep
                BY <1>3, <4>1
            <4>3. k \in cuts
                BY <4>1, <4>2
            <4> QED
                BY <2>1, <3>1, <4>1, <4>3
        <3>5. SubSeq(q, i + 1, j - 1) \in PartsOf(q, sep)
            BY <1>2, <2>1, <3>1, <3>2, <3>3, <3>4, PartBetween
        <3>6. SubSeq(full, i + 1, j - 1) = SubSeq(q, i + 1, j - 1)
            <4>1. \A k \in (i + 1)..(j - 1) : k \in 1..Len(q) /\ k \in 1..Len(full)
                BY <1>2, <3>1
            <4>2. i + 1 \in Int /\ j - 1 \in Int
                BY <3>1
            <4> QED
                BY <1>2, <1>3, <4>1, <4>2, SameSlice
        <3> QED
            BY <3>5, <3>6 DEF i, j
    <2>5. CASE ~(j <= a)
        <3> DEFINE x == i - a
                   y == j - a
        <3>1. a \in Nat /\ i \in 0..z /\ j \in 0..z /\ a <= i
            BY <1>2, <2>1, <2>2, <2>3, <2>5
        <3>2. x \in 0..Len(r) /\ y \in 1..(Len(r) + 1) /\ x < y /\ a + x = i /\ a + y = j
            BY <1>2, <2>1, <2>5, <3>1
        <3>3. x = 0 \/ r[x] = sep
            <4>1. CASE x = 0
                BY <4>1
            <4>2. CASE x # 0
                <5>1. full[i] = sep /\ x \in 1..Len(r)
                    BY <1>2, <2>1, <3>1, <3>2, <4>2
                <5> QED
                    BY <1>4, <3>2, <5>1
            <4> QED
                BY <4>1, <4>2
        <3>4. y = Len(r) + 1 \/ r[y] = sep
            <4>1. CASE y = Len(r) + 1
                BY <4>1
            <4>2. CASE y # Len(r) + 1
                <5>1. full[j] = sep /\ y \in 1..Len(r)
                    BY <1>2, <2>1, <3>1, <3>2, <4>2
                <5> QED
                    BY <1>4, <3>2, <5>1
            <4> QED
                BY <4>1, <4>2
        <3>5. \A k \in DOMAIN r : x < k /\ k < y => r[k] # sep
            <4> SUFFICES ASSUME NEW k \in DOMAIN r, x < k, k < y, r[k] = sep
                         PROVE  FALSE
                OBVIOUS
            <4>1. k \in 1..Len(r) /\ a + k \in DOMAIN full
                BY <1>2
            <4>2. full[a + k] = sep
                BY <1>4, <4>1
            <4>3. a + k \in cuts
                BY <4>1, <4>2
            <4>4. a + k <= i \/ a + k >= j
                BY <2>1, <4>3
            <4> QED
                BY <3>1, <3>2, <4>1, <4>4
        <3> HIDE DEF x, y
        <3>6. SubSeq(r, x + 1, y - 1) \in PartsOf(r, sep)
            BY <1>2, <3>2, <3>3, <3>4, <3>5, PartBetween
        <3>7. SubSeq(full, a + (x + 1), a + (y - 1)) = SubSeq(r, x + 1, y - 1)
            <4> DEFINE m == x + 1
                       n == y - 1
            <4>1. m \in Nat /\ n \in Int /\ m >= 1
                BY <3>2
            <4>2. \A k \in m..n : k \in 1..Len(r) /\ a + k \in 1..Len(full) /\ full[a + k] = r[k]
                <5> TAKE k \in m..n
                <5>1. k \in 1..Len(r) /\ a + k \in 1..Len(full)
                    BY <1>2, <3>2
                <5> QED
                    BY <1>4, <5>1
            <4> HIDE DEF m, n, a
            <4>3. SubSeq(full, a + m, a + n) = SubSeq(r, m, n)
                BY <1>2, <3>1, <4>1, <4>2, ShiftedSlice
            <4> QED
                BY <4>3 DEF m, n
        <3>8. a + (x + 1) = i + 1 /\ a + (y - 1) = j - 1
            BY <3>1, <3>2
        <3> QED
            BY <3>6, <3>7, <3>8 DEF i, j
    <2> QED
        BY <2>4, <2>5
<1>10. PartsOf(q, sep) \subseteq PartsOf(full, sep) /\ PartsOf(r, sep) \subseteq PartsOf(full, sep)
    BY PartsAfterAdding, PartsOfAdded DEF full
<1>11. PartsOf(full, sep) \subseteq PartsOf(q, sep) \cup PartsOf(r, sep)
    <2> HIDE DEF neighbours
    <2> QED
        BY <1>1, <1>9
<1> QED
    BY <1>10, <1>11 DEF full

\* The function that Join unfolds to, when rest are the parts after the first.
Unfolding(iter, n, first, sep, rest) ==
    iter = [s \in SUBSET (1..n) |-> IF s = {} THEN first ELSE iter[s \ {Max(s)}] \o <<sep>> \o rest[Max(s)]]

\* It exists.
LEMMA JoinUnfolds ==
    ASSUME NEW n \in Nat, NEW first, NEW sep, NEW rest
    PROVE  \E iter : Unfolding(iter, n, first, sep, rest)
<1> DEFINE Step(iter, s) == IF s = {} THEN first ELSE iter[s \ {Max(s)}] \o <<sep>> \o rest[Max(s)]
           Unfolds(iter, m) == iter = [s \in SUBSET (1..m) |-> Step(iter, s)]
           good == {m \in Nat : \E iter : Unfolds(iter, m)}
<1>1. 0 \in good
    <2> DEFINE empty == [s \in SUBSET (1..0) |-> first]
    <2>1. \A s \in SUBSET (1..0) : s = {}
        OBVIOUS
    <2>2. \A s \in SUBSET (1..0) : empty[s] = Step(empty, s)
        BY <2>1
    <2>3. Unfolds(empty, 0)
        BY <2>2
    <2> QED
        BY <2>3
<1>2. ASSUME NEW m \in 0..(n - 1), m \in good
      PROVE  m + 1 \in good
    <2>1. PICK old : Unfolds(old, m)
        BY <1>2
    <2> DEFINE all == SUBSET (1..(m + 1))
               new == [s \in all |-> IF m + 1 \in s THEN old[s \ {m + 1}] \o <<sep>> \o rest[m + 1] ELSE old[s]]
    <2>2. \A s \in SUBSET (1..m) : s \in all /\ m + 1 \notin s
        OBVIOUS
    <2>3. \A s \in SUBSET (1..m) : new[s] = old[s]
        BY <2>2
    <2>4. \A s \in SUBSET (1..m) : old[s] = Step(old, s)
        BY <2>1
    <2>5. ASSUME NEW s \in all
          PROVE  new[s] = Step(new, s)
        <3>1. CASE m + 1 \in s
            <4>1. Max(s) \in s /\ \A y \in s : y <= Max(s)
                <5>1. m + 1 \in Nat /\ s \in SUBSET (1..(m + 1)) /\ s # {}
                    BY <3>1
                <5> QED
                    BY <5>1, GreatestUpTo
            <4>2. Max(s) = m + 1
                <5>1. Max(s) \in 1..(m + 1) /\ m + 1 <= Max(s)
                    BY <3>1, <4>1
                <5> QED
                    BY <5>1
            <4>3. s \ {m + 1} \in SUBSET (1..m)
                OBVIOUS
            <4>4. new[s] = old[s \ {m + 1}] \o <<sep>> \o rest[m + 1]
                BY <3>1
            <4>5. new[s \ {m + 1}] = old[s \ {m + 1}]
                BY <2>3, <4>3
            <4> QED
                BY <3>1, <4>2, <4>4, <4>5
        <3>2. CASE m + 1 \notin s
            <4>1. s \in SUBSET (1..m)
                BY <3>2
            <4>2. new[s] = Step(old, s)
                BY <2>3, <2>4, <4>1
            <4>3. new[s \ {Max(s)}] = old[s \ {Max(s)}]
                BY <2>3, <4>1
            <4> QED
                BY <4>2, <4>3
        <3> QED
            BY <3>1, <3>2
    <2>6. Unfolds(new, m + 1)
        BY <2>5
    <2>7. m + 1 \in Nat
        OBVIOUS
    <2> QED
        BY <2>6, <2>7
<1> HIDE DEF good
<1>3. n \in good
    BY <1>1, <1>2, AllUpTo
<1> QED
    BY <1>3 DEF good, Unfolding

\* Join adds one part after the other, each after a separator.
JoinedBySteps(joined, parts, n, sep) ==
    /\ joined[0] = parts[1]
    /\ \A k \in 1..n : joined[k] = joined[k - 1] \o <<sep>> \o parts[k + 1]
    /\ Join(parts, sep) = joined[n]

LEMMA JoinSteps ==
    ASSUME NEW T, NEW parts \in Seq(T), NEW n \in Nat, Len(parts) = n + 1, NEW sep
    PROVE  \E joined : JoinedBySteps(joined, parts, n, sep)
<1> DEFINE rest == Tail(parts)
           Step(iter, s) == IF s = {} THEN parts[1] ELSE iter[s \ {Max(s)}] \o <<sep>> \o rest[Max(s)]
           Unfolds(iter) == iter = [s \in SUBSET (1..n) |-> Step(iter, s)]
           it == CHOOSE iter : Unfolds(iter)
           joined == [k \in 0..n |-> it[1..k]]
<1>1. parts # <<>> /\ DOMAIN rest = 1..n /\ \A k \in 1..n : rest[k] = parts[k + 1]
    OBVIOUS
<1>2. Join(parts, sep) = it[1..n]
    <2>1. Join(parts, sep) = (CHOOSE iter : iter = [s \in SUBSET (DOMAIN rest) |->
                                 IF s = {} THEN parts[1]
                                 ELSE LET x == Max(s) IN iter[s \ {x}] \o <<sep>> \o rest[x]])[DOMAIN rest]
        BY <1>1 DEF Join, FoldLeft, MapThenFoldSet
    <2> QED
        BY <1>1, <2>1
<1>3. \E iter : Unfolds(iter)
    <2>1. \E iter : Unfolding(iter, n, parts[1], sep, rest)
        <3> HIDE DEF rest
        <3> QED
            BY JoinUnfolds
    <2> QED
        BY <2>1 DEF Unfolding
<1>4. Unfolds(it)
    BY <1>3
<1> HIDE DEF it, rest
<1>5. it[{}] = parts[1]
    BY <1>4
<1>6. \A k \in 1..n : it[1..k] = it[1..(k - 1)] \o <<sep>> \o parts[k + 1]
    <2> TAKE k \in 1..n
    <2>1. 1..k \in SUBSET (1..n) /\ 1..k # {} /\ k \in 1..k /\ k \in Nat
        <3>1. \A y \in 1..k : y \in 1..n
            OBVIOUS
        <3>2. 1..k \in SUBSET (1..n)
            BY <3>1
        <3>3. k \in 1..k /\ k \in Nat
            OBVIOUS
        <3> QED
            BY <3>2, <3>3
    <2>2. Max(1..k) \in 1..k /\ \A y \in 1..k : y <= Max(1..k)
        BY <2>1, GreatestUpTo
    <2>3. Max(1..k) = k
        BY <2>1, <2>2
    <2>4. (1..k) \ {k} = 1..(k - 1)
        <3>1. \A y : y \in (1..k) \ {k} <=> y \in 1..(k - 1)
            BY <2>1
        <3> QED
            BY <3>1
    <2>5. it[1..k] = it[(1..k) \ {k}] \o <<sep>> \o rest[k]
        BY <1>4, <2>1, <2>3
    <2> QED
        BY <1>1, <2>4, <2>5
<1>7. joined[0] = parts[1]
    <2>1. 1..0 = {} /\ 0 \in 0..n
        OBVIOUS
    <2> QED
        BY <1>5, <2>1
<1>8. \A k \in 1..n : joined[k] = joined[k - 1] \o <<sep>> \o parts[k + 1]
    <2>1. \A k \in 1..n : k \in 0..n /\ k - 1 \in 0..n
        OBVIOUS
    <2> QED
        BY <1>6, <2>1
<1>9. Join(parts, sep) = joined[n]
    BY <1>2
<1> QED
    BY <1>7, <1>8, <1>9 DEF JoinedBySteps

\* The parts of joined texts are those of each of them.
LEMMA PartsOfJoin ==
    ASSUME NEW T, NEW sep \in T, NEW parts \in Seq(Seq(T)), parts # <<>>
    PROVE  /\ Join(parts, sep) \in Seq(T)
           /\ PartsOf(Join(parts, sep), sep) = UNION {PartsOf(parts[k], sep) : k \in DOMAIN parts}
<1> DEFINE n == Len(parts) - 1
<1>1. n \in Nat /\ Len(parts) = n + 1 /\ DOMAIN parts = 1..(n + 1)
    <2>1. Len(parts) \in Nat /\ Len(parts) # 0
        OBVIOUS
    <2> QED
        BY <2>1
<1>2. \A k \in 1..(n + 1) : parts[k] \in Seq(T)
    BY <1>1
<1> HIDE DEF n
<1>3. PICK joined : JoinedBySteps(joined, parts, n, sep)
    <2> DEFINE S == Seq(T)
    <2>1. parts \in Seq(S)
        OBVIOUS
    <2> HIDE DEF S
    <2> QED
        BY <1>1, <2>1, JoinSteps
<1>7. /\ joined[0] = parts[1]
      /\ \A k \in 1..n : joined[k] = joined[k - 1] \o <<sep>> \o parts[k + 1]
      /\ Join(parts, sep) = joined[n]
    BY <1>3 DEF JoinedBySteps
<1> DEFINE Up(k) == UNION {PartsOf(parts[m], sep) : m \in 1..k}
           Exact(k) == joined[k] \in Seq(T) /\ PartsOf(joined[k], sep) = Up(k + 1)
           exact == {k \in 0..n : Exact(k)}
<1>4. 0 \in exact
    <2>1. 1 \in 1..(n + 1) /\ 0 \in 0..n
        BY <1>1
    <2>2. \A m : m \in 1..(0 + 1) <=> m = 1
        OBVIOUS
    <2>3. Up(0 + 1) = PartsOf(parts[1], sep)
        BY <2>2
    <2> QED
        BY <1>2, <1>7, <2>1, <2>3
<1>5. ASSUME NEW k \in 0..(n - 1), k \in exact
      PROVE  k + 1 \in exact
    <2> DEFINE next == parts[k + 2]
    <2>1. k + 1 \in 1..n /\ (k + 1) - 1 = k /\ k + 2 \in 1..(n + 1) /\ (k + 1) + 1 = k + 2 /\ k + 1 \in 0..n
        BY <1>1
    <2>2. joined[k + 1] = joined[k] \o <<sep>> \o next
        BY <1>7, <2>1
    <2>3. next \in Seq(T)
        BY <1>2, <2>1
    <2>4. joined[k] \in Seq(T) /\ PartsOf(joined[k], sep) = Up(k + 1)
        BY <1>5
    <2>5. Up(k + 2)
          = Up(k + 1) \cup PartsOf(next, sep)
        <3> SUFFICES ASSUME NEW x
                     PROVE  x \in Up(k + 2) <=> x \in Up(k + 1) \/ x \in PartsOf(next, sep)
            OBVIOUS
        <3>1. \A m : m \in 1..(k + 2) <=> (m \in 1..(k + 1) \/ m = k + 2)
            BY <2>1
        <3>2. x \in Up(k + 2) <=> \E m \in 1..(k + 2) : x \in PartsOf(parts[m], sep)
            OBVIOUS
        <3>3. x \in Up(k + 1) <=> \E m \in 1..(k + 1) : x \in PartsOf(parts[m], sep)
            OBVIOUS
        <3> HIDE DEF Up
        <3> QED
            BY <3>1, <3>2, <3>3
    <2> HIDE DEF next, Up
    <2>6. joined[k + 1] \in Seq(T)
        BY <2>2, <2>3, <2>4, AddedToQuery
    <2>7. PartsOf(joined[k + 1], sep) = PartsOf(joined[k], sep) \cup PartsOf(next, sep)
        <3> DEFINE q == joined[k]
        <3>1. q \in Seq(T)
            BY <2>4
        <3> HIDE DEF q
        <3>2. PartsOf(q \o <<sep>> \o next, sep) = PartsOf(q, sep) \cup PartsOf(next, sep)
            BY <2>3, <3>1, PartsOfBoth
        <3> QED
            BY <2>2, <3>2 DEF q
    <2>8. Exact(k + 1)
        <3>1. PartsOf(joined[k + 1], sep) = Up(k + 2)
            BY <2>4, <2>5, <2>7
        <3> QED
            BY <2>1, <2>6, <3>1
    <2> QED
        BY <2>1, <2>8
<1> HIDE DEF exact
<1>6. n \in exact
    <2>1. n \in 0..n
        BY <1>1
    <2> QED
        BY <1>1, <1>4, <1>5, <2>1, AllUpTo
<1> QED
    BY <1>1, <1>6, <1>7 DEF exact

\* Texts joined are a text.
LEMMA JoinType ==
    ASSUME NEW T, NEW sep \in T, NEW parts \in Seq(Seq(T))
    PROVE  Join(parts, sep) \in Seq(T)
<1>1. CASE parts = <<>>
    <2>1. Join(parts, sep) = <<>>
        BY <1>1, Zenon DEF Join
    <2> QED
        BY <2>1
<1>2. CASE parts # <<>>
    BY <1>2, PartsOfJoin
<1> QED
    BY <1>1, <1>2

\* The cuts of a text are places of it, or its ends, and there are two at least.
LEMMA CutsOf ==
    ASSUME NEW T, NEW text \in Seq(T), NEW separator
    PROVE  /\ Cuts(text, separator) \in SUBSET (0..(Len(text) + 1))
           /\ Cardinality(Cuts(text, separator)) \in Nat /\ Cardinality(Cuts(text, separator)) >= 2
<1> DEFINE cuts == Cuts(text, separator)
           L == Len(text)
<1>1. L \in Nat /\ DOMAIN text = 1..L
    OBVIOUS
<1>2. cuts \in SUBSET (0..(L + 1)) /\ 0 \in cuts /\ L + 1 \in cuts /\ 0 # L + 1
    BY <1>1 DEF Cuts
<1> HIDE DEF cuts, L
<1>3. IsFiniteSet(cuts)
    <2>1. IsFiniteSet(0..(L + 1))
        BY <1>1, FS_Interval
    <2> QED
        BY <1>2, <2>1, FS_Subset
<1>4. Cardinality({0, L + 1}) = 2 /\ IsFiniteSet({0, L + 1})
    <2>1. Cardinality({0}) = 1 /\ IsFiniteSet({0})
        BY FS_Singleton
    <2>2. L + 1 \notin {0}
        BY <1>2
    <2>3. {0} \cup {L + 1} = {0, L + 1}
        OBVIOUS
    <2>4. Cardinality({0} \cup {L + 1}) = Cardinality({0}) + 1 /\ IsFiniteSet({0} \cup {L + 1})
        BY <2>1, <2>2, FS_AddElement
    <2> QED
        BY <2>1, <2>3, <2>4
<1>5. Cardinality({0, L + 1}) <= Cardinality(cuts)
    <2>1. {0, L + 1} \in SUBSET cuts
        BY <1>2
    <2> QED
        BY <1>3, <2>1, FS_Subset
<1>6. Cardinality(cuts) \in Nat
    BY <1>3, FS_CardinalityType
<1> QED
    BY <1>2, <1>4, <1>5, <1>6 DEF cuts, L

\* A text splits into texts of the same tokens, one at least.
LEMMA SplitType ==
    ASSUME NEW T, NEW text \in Seq(T), NEW separator
    PROVE  /\ Split(text, separator) \in Seq(Seq(T))
           /\ DOMAIN Split(text, separator) = 1..(Cardinality(Cuts(text, separator)) - 1)
           /\ 1 \in DOMAIN Split(text, separator)
<1> DEFINE cuts == Cuts(text, separator)
           n == Cardinality(cuts)
           L == Len(text)
           Part(k) == SubSeq(text, Nth(cuts, k) + 1, Nth(cuts, k + 1) - 1)
<1>1. cuts \in SUBSET (0..(L + 1)) /\ n \in Nat /\ n >= 2 /\ L \in Nat
    BY CutsOf
<1> HIDE DEF cuts, n
<1>2. \A k \in 1..n : Nth(cuts, k) \in 0..(L + 1)
    <2>1. PICK M \in Nat : M = L + 1
        BY <1>1
    <2>2. cuts \in SUBSET (0..M)
        BY <1>1, <2>1
    <2>3. \A k \in 1..Cardinality(cuts) : Nth(cuts, k) \in cuts
        BY <2>2, NthPosition
    <2> QED
        BY <1>1, <2>3 DEF n
<1>3. ASSUME NEW k \in 1..(n - 1)
      PROVE  Part(k) \in Seq(T)
    <2>1. k \in 1..n /\ k + 1 \in 1..n
        BY <1>1
    <2>2. PICK a \in 0..(L + 1) : a = Nth(cuts, k)
        BY <1>2, <2>1
    <2>3. PICK b \in 0..(L + 1) : b = Nth(cuts, k + 1)
        BY <1>2, <2>1
    <2>4. \A i \in (a + 1)..(b - 1) : i \in 1..L
        BY <1>1
    <2>5. SubSeq(text, a + 1, b - 1) \in Seq(T)
        BY <2>4
    <2> QED
        BY <2>2, <2>3, <2>5
<1> HIDE DEF L, Part
<1>4. Split(text, separator) = [k \in 1..(n - 1) |-> Part(k)]
    BY DEF Split, Part, n, cuts
<1>5. n - 1 \in Nat /\ 1 \in 1..(n - 1)
    BY <1>1
<1>6. [k \in 1..(n - 1) |-> Part(k)] \in Seq(Seq(T))
    BY <1>3, <1>5
<1> QED
    BY <1>4, <1>5, <1>6 DEF n, cuts

\* The parts of a list are texts of its tokens with something in them.
LEMMA ListType ==
    ASSUME NEW T, NEW value \in Seq(T)
    PROVE  ListOf(value) \in Seq(Seq(T) \ {<<>>})
<1> DEFINE parts == Split(value, ",")
           filled == {k \in DOMAIN parts : parts[k] # <<>>}
<1>1. parts \in Seq(Seq(T))
    BY SplitType
<1> HIDE DEF parts
<1>2. filled \in SUBSET (DOMAIN parts) /\ \A k \in filled : parts[k] # <<>>
    OBVIOUS
<1> HIDE DEF filled
<1>3. /\ Picked(parts, filled) \in Seq(Seq(T))
      /\ DOMAIN Picked(parts, filled) = 1..Cardinality(filled)
      /\ \A n \in 1..Cardinality(filled) : /\ Nth(filled, n) \in filled
                                           /\ Picked(parts, filled)[n] = parts[Nth(filled, n)]
    BY <1>1, <1>2, PickedType
<1> DEFINE list == Picked(parts, filled)
<1>4. \A n \in DOMAIN list : list[n] # <<>>
    BY <1>2, <1>3
<1>5. list \in Seq(Seq(T))
    BY <1>3
<1> HIDE DEF list
<1>6. list \in Seq(Seq(T) \ {<<>>})
    BY <1>4, <1>5
<1>7. ListOf(value) = list
    BY DEF ListOf, list, filled, parts
<1> QED
    BY <1>6, <1>7

\* The n-th cut of a text and the one after it are neighbours, and all neighbours are such.
LEMMA NextPosition ==
    ASSUME NEW L \in Nat, NEW positions \in SUBSET (0..L), NEW n \in 1..(Cardinality(positions) - 1)
    PROVE  LET a == Nth(positions, n)
               b == Nth(positions, n + 1)
           IN  a \in positions /\ b \in positions /\ a < b /\ \A k \in positions : k <= a \/ k >= b
<1> DEFINE UpTo(k) == {j \in positions : j <= k}
           Count(k) == Cardinality(UpTo(k))
           a == Nth(positions, n)
           b == Nth(positions, n + 1)
<1>1. IsFiniteSet(positions)
    <2>1. IsFiniteSet(0..L)
        BY FS_Interval
    <2> QED
        BY <2>1, FS_Subset
<1>2. Cardinality(positions) \in Nat /\ n \in 1..Cardinality(positions) /\ n + 1 \in 1..Cardinality(positions)
    BY <1>1, FS_CardinalityType
<1>3. a \in positions /\ Count(a) = n /\ b \in positions /\ Count(b) = n + 1
    BY <1>2, NthPosition
<1>4. \A x, y \in positions : x <= y => Count(x) <= Count(y)
    <2> TAKE x, y \in positions
    <2> HAVE x <= y
    <2>1. UpTo(x) \subseteq UpTo(y)
        <3> SUFFICES ASSUME NEW j \in positions, j <= x
                     PROVE  j <= y
            OBVIOUS
        <3>1. j \in Nat /\ x \in Nat /\ y \in Nat
            OBVIOUS
        <3> QED
            BY <3>1
    <2>2. UpTo(y) \in SUBSET positions
        OBVIOUS
    <2> HIDE DEF UpTo
    <2>3. IsFiniteSet(UpTo(y))
        BY <1>1, <2>2, FS_Subset
    <2> QED
        BY <2>1, <2>3, FS_Subset
<1>5. \A x, y \in positions : Count(x) = Count(y) => x = y
    <2> TAKE x, y \in positions
    <2> HAVE Count(x) = Count(y)
    <2>1. Nth(positions, Count(x)) = x /\ Nth(positions, Count(y)) = y
        BY NthIs
    <2> QED
        BY <2>1
<1>6. \A x \in positions : Count(x) \in Nat
    <2> TAKE x \in positions
    <2>1. UpTo(x) \in SUBSET positions
        OBVIOUS
    <2> HIDE DEF UpTo
    <2> QED
        BY <1>1, <2>1, FS_Subset, FS_CardinalityType
<1>7. positions \subseteq Nat
    OBVIOUS
<1> HIDE DEF Count, a, b
<1>8. a < b
    <2>1. b <= a => Count(b) <= Count(a)
        BY <1>3, <1>4
    <2>2. a \in Nat /\ b \in Nat
        BY <1>3, <1>7
    <2> QED
        BY <1>3, <2>1, <2>2
<1>9. ASSUME NEW k \in positions, ~(k <= a), ~(k >= b)
      PROVE  FALSE
    <2>1. k \in Nat /\ a \in Nat /\ b \in Nat
        BY <1>3, <1>7
    <2>2. Count(a) <= Count(k) /\ Count(k) <= Count(b)
        BY <1>3, <1>4, <1>9, <2>1
    <2>3. Count(k) = n \/ Count(k) = n + 1
        BY <1>3, <1>6, <2>2
    <2>4. k = a \/ k = b
        BY <1>3, <1>5, <2>3
    <2> QED
        BY <1>9, <2>1, <2>4
<1>10. \A k \in positions : k <= a \/ k >= b
    BY <1>9
<1> QED
    BY <1>3, <1>8, <1>10 DEF a, b

\* Two neighbours are the n-th and the one after it.
LEMMA NeighboursAreNext ==
    ASSUME NEW L \in Nat, NEW positions \in SUBSET (0..L), NEW a \in positions, NEW b \in positions, a < b,
           \A k \in positions : k <= a \/ k >= b
    PROVE  \E n \in 1..(Cardinality(positions) - 1) : Nth(positions, n) = a /\ Nth(positions, n + 1) = b
<1> DEFINE UpTo(k) == {j \in positions : j <= k}
           n == Cardinality(UpTo(a))
<1>1. IsFiniteSet(positions) /\ positions \subseteq Nat
    <2>1. IsFiniteSet(0..L)
        BY FS_Interval
    <2>2. IsFiniteSet(positions)
        BY <2>1, FS_Subset
    <2>3. positions \subseteq Nat
        OBVIOUS
    <2> QED
        BY <2>2, <2>3
<1>2. UpTo(b) = UpTo(a) \cup {b} /\ b \notin UpTo(a) /\ UpTo(a) \in SUBSET positions
    <2>1. a \in Nat /\ b \in Nat
        BY <1>1
    <2>2. ASSUME NEW j \in positions
          PROVE  j <= b <=> j <= a \/ j = b
        <3>1. j \in Nat /\ (j <= a \/ j >= b)
            BY <1>1
        <3> QED
            BY <2>1, <3>1
    <2>3. b \notin UpTo(a)
        BY <2>1
    <2>4. UpTo(b) = UpTo(a) \cup {b}
        BY <2>2
    <2> QED
        BY <2>3, <2>4
<1>3. n \in 1..Cardinality(positions) /\ Nth(positions, n) = a
    BY NthIs
<1>4. Cardinality(UpTo(b)) \in 1..Cardinality(positions) /\ Nth(positions, Cardinality(UpTo(b))) = b
    BY NthIs
<1> HIDE DEF UpTo
<1>5. Cardinality(UpTo(b)) = n + 1
    <2>1. IsFiniteSet(UpTo(a))
        BY <1>1, <1>2, FS_Subset
    <2> QED
        BY <1>2, <2>1, FS_AddElement
<1> HIDE DEF n
<1>6. Cardinality(positions) \in Nat
    BY <1>1, FS_CardinalityType
<1>7. n \in 1..(Cardinality(positions) - 1)
    BY <1>3, <1>4, <1>5, <1>6
<1> QED
    BY <1>3, <1>4, <1>5, <1>7

\* What a text splits into are its parts.
LEMMA SplitIsParts ==
    ASSUME NEW T, NEW text \in Seq(T), NEW separator
    PROVE  /\ \A k \in DOMAIN Split(text, separator) : Split(text, separator)[k] \in PartsOf(text, separator)
           /\ \A part \in PartsOf(text, separator) :
                 \E k \in DOMAIN Split(text, separator) : Split(text, separator)[k] = part
<1> DEFINE cuts == Cuts(text, separator)
           n == Cardinality(cuts)
           neighbours == {c \in cuts \X cuts : c[1] < c[2] /\ \A k \in cuts : k <= c[1] \/ k >= c[2]}
<1>1. PICK M \in Nat : cuts \in SUBSET (0..M)
    BY CutsOf
<1>2. PartsOf(text, separator) = {SubSeq(text, c[1] + 1, c[2] - 1) : c \in neighbours}
    BY DEF PartsOf
<1>3. Split(text, separator) = [k \in 1..(n - 1) |-> SubSeq(text, Nth(cuts, k) + 1, Nth(cuts, k + 1) - 1)]
    BY DEF Split
<1> HIDE DEF cuts
<1>4. ASSUME NEW k \in 1..(n - 1)
      PROVE  Split(text, separator)[k] \in PartsOf(text, separator)
    <2> DEFINE a == Nth(cuts, k)
               b == Nth(cuts, k + 1)
    <2>1. a \in cuts /\ b \in cuts /\ a < b /\ \A j \in cuts : j <= a \/ j >= b
        BY <1>1, NextPosition
    <2>2. Split(text, separator)[k] = SubSeq(text, a + 1, b - 1)
        BY <1>3
    <2> HIDE DEF a, b
    <2>3. PICK c \in neighbours : c = <<a, b>>
        BY <2>1
    <2>4. c[1] = a /\ c[2] = b
        BY <2>3
    <2> QED
        BY <1>2, <2>2, <2>4
<1>5. ASSUME NEW part \in PartsOf(text, separator)
      PROVE  \E k \in 1..(n - 1) : Split(text, separator)[k] = part
    <2>1. PICK c \in neighbours : part = SubSeq(text, c[1] + 1, c[2] - 1)
        BY <1>2
    <2>2. c[1] \in cuts /\ c[2] \in cuts /\ c[1] < c[2] /\ \A k \in cuts : k <= c[1] \/ k >= c[2]
        OBVIOUS
    <2>3. PICK k \in 1..(n - 1) : Nth(cuts, k) = c[1] /\ Nth(cuts, k + 1) = c[2]
        BY <1>1, <2>2, NeighboursAreNext
    <2> QED
        BY <1>3, <2>1, <2>3
<1>6. DOMAIN Split(text, separator) = 1..(n - 1)
    BY <1>3
<1> QED
    BY <1>4, <1>5, <1>6

\* What a list says is what its parts are that have something in them.
LEMMA ListIsParts ==
    ASSUME NEW T, NEW value \in Seq(T)
    PROVE  /\ \A k \in DOMAIN ListOf(value) : ListOf(value)[k] \in PartsOf(value, ",") \ {<<>>}
           /\ \A part \in PartsOf(value, ",") \ {<<>>} : \E k \in DOMAIN ListOf(value) : ListOf(value)[k] = part
<1>0. PICK comma : comma = ","
    OBVIOUS
<1> DEFINE parts == Split(value, comma)
           filled == {k \in DOMAIN parts : parts[k] # <<>>}
           list == Picked(parts, filled)
<1>1. parts \in Seq(Seq(T))
    BY SplitType
<1>2. /\ \A k \in DOMAIN parts : parts[k] \in PartsOf(value, comma)
      /\ \A part \in PartsOf(value, comma) : \E k \in DOMAIN parts : parts[k] = part
    BY SplitIsParts
<1> HIDE DEF parts
<1>3. filled \in SUBSET (DOMAIN parts) /\ \A k \in DOMAIN parts : k \in filled <=> parts[k] # <<>>
    OBVIOUS
<1> HIDE DEF filled
<1>4. /\ DOMAIN list = 1..Cardinality(filled)
      /\ \A n \in 1..Cardinality(filled) : Nth(filled, n) \in filled /\ list[n] = parts[Nth(filled, n)]
    BY <1>1, <1>3, PickedType
<1>5. ListOf(value) = list
    BY <1>0 DEF ListOf, list, filled, parts
<1> HIDE DEF list
<1>6. ASSUME NEW k \in DOMAIN list
      PROVE  list[k] \in PartsOf(value, comma) \ {<<>>}
    BY <1>2, <1>3, <1>4
<1>7. ASSUME NEW part \in PartsOf(value, comma), part # <<>>
      PROVE  \E k \in DOMAIN list : list[k] = part
    <2>1. PICK i \in DOMAIN parts : parts[i] = part
        BY <1>2
    <2>2. i \in filled
        BY <1>3, <1>7, <2>1
    <2>3. PICK M \in Nat : filled \in SUBSET (0..M)
        <3> DEFINE m == Len(parts)
        <3>1. m \in Nat /\ DOMAIN parts = 1..m
            BY <1>1
        <3> HIDE DEF m
        <3>2. filled \in SUBSET (0..m)
            BY <1>3, <3>1
        <3> QED
            BY <3>1, <3>2
    <2> DEFINE k == Cardinality({j \in filled : j <= i})
    <2>4. k \in 1..Cardinality(filled) /\ Nth(filled, k) = i
        BY <2>2, <2>3, NthIs
    <2> HIDE DEF k
    <2> QED
        BY <1>4, <2>1, <2>4
<1> QED
    BY <1>0, <1>5, <1>6, <1>7

-----------------------------------------------------------------------------
(* What a query selects                                                     *)

\* What one part of a query, its alternatives, lets through.
Allows(table, group, row) ==
    LET known == {c \in {ConditionOf(part) : part \in PartsOf(group, "^OR")} : Understood(table, c)}
    IN known = {} \/ \E c \in known : Holds(c, row)

\* A query selects the rows that each of its parts lets through.
LEMMA SelectsByGroups ==
    ASSUME NEW table, NEW query, NEW rows, NEW row
    PROVE  row \in Selects(table, query, rows) <=>
              row \in rows /\ \A group \in PartsOf(query, "^") : Allows(table, group, row)
<1> DEFINE Known(group) == {c \in {ConditionOf(part) : part \in PartsOf(group, "^OR")} : Understood(table, c)}
           read == {{c \in group : Understood(table, c)} : group \in Conditions(query)}
<1>1. read = {Known(group) : group \in PartsOf(query, "^")}
    BY DEF Conditions
<1>2. row \in Selects(table, query, rows) <=> row \in rows /\ \A known \in read \ {{}} : \E c \in known : Holds(c, row)
    BY DEF Selects
<1>3. \A group : Allows(table, group, row) <=> Known(group) = {} \/ \E c \in Known(group) : Holds(c, row)
    BY DEF Allows
<1> HIDE DEF Known, read
<1> QED
    BY <1>1, <1>2, <1>3

\* A query and another after ^ select what both do.
LEMMA SelectsBoth ==
    ASSUME NEW T, "^" \in T, NEW q \in Seq(T), NEW r \in Seq(T), NEW table, NEW rows
    PROVE  Selects(table, q \o <<"^">> \o r, rows) = Selects(table, q, rows) \cap Selects(table, r, rows)
<1> DEFINE full == q \o <<"^">> \o r
<1>1. PartsOf(full, "^") = PartsOf(q, "^") \cup PartsOf(r, "^")
    <2>1. PICK sep \in T : sep = "^"
        OBVIOUS
    <2>2. PartsOf(q \o <<sep>> \o r, sep) = PartsOf(q, sep) \cup PartsOf(r, sep)
        BY PartsOfBoth
    <2> QED
        BY <2>1, <2>2
<1> HIDE DEF full
<1>2. \A row : row \in Selects(table, full, rows) <=> row \in Selects(table, q, rows) /\ row \in Selects(table, r, rows)
    BY <1>1, SelectsByGroups
<1> QED
    BY <1>2 DEF full

\* Queries joined by ^ select what all of them do.
LEMMA SelectsAll ==
    ASSUME NEW T, "^" \in T, NEW parts \in Seq(Seq(T)), parts # <<>>, NEW table, NEW rows, NEW row
    PROVE  row \in Selects(table, Join(parts, "^"), rows) <=>
              row \in rows /\ \A k \in DOMAIN parts : row \in Selects(table, parts[k], rows)
<1> DEFINE full == Join(parts, "^")
<1>1. PartsOf(full, "^") = UNION {PartsOf(parts[k], "^") : k \in DOMAIN parts}
    <2>1. PICK sep \in T : sep = "^"
        OBVIOUS
    <2>2. PartsOf(Join(parts, sep), sep) = UNION {PartsOf(parts[k], sep) : k \in DOMAIN parts}
        BY PartsOfJoin
    <2> QED
        BY <2>1, <2>2
<1> HIDE DEF full
<1>2. \A group : group \in PartsOf(full, "^") <=> \E k \in DOMAIN parts : group \in PartsOf(parts[k], "^")
    BY <1>1
<1>3. row \in Selects(table, full, rows) <=>
         row \in rows /\ \A k \in DOMAIN parts : row \in Selects(table, parts[k], rows)
    <2>1. row \in Selects(table, full, rows) <=>
             row \in rows /\ \A group \in PartsOf(full, "^") : Allows(table, group, row)
        BY SelectsByGroups
    <2>2. \A k \in DOMAIN parts : row \in Selects(table, parts[k], rows) <=>
             row \in rows /\ \A group \in PartsOf(parts[k], "^") : Allows(table, group, row)
        BY SelectsByGroups
    <2> QED
        BY <1>2, <2>1, <2>2
<1> QED
    BY <1>3 DEF full

\* Without a condition a query selects every row.
LEMMA EmptySelectsAll ==
    ASSUME NEW table, NEW rows
    PROVE  Selects(table, <<>>, rows) = rows
<1> DEFINE text == <<>>
           nothing == [field |-> text, op |-> "none", value |-> <<>>]
<1>1. text \in Seq({}) /\ DOMAIN text = {}
    OBVIOUS
<1>2. PartsOf(text, "^") = {text} /\ PartsOf(text, "^OR") = {text}
    BY <1>1, OnePart
<1>3. ConditionOf(text) = nothing
    <2>1. SelectInSeq(text, LAMBDA token : token \in QueryOperators) = 0
        BY <1>1 DEF SelectInSeq
    <2> QED
        BY <2>1 DEF ConditionOf
<1>4. ~Understood(table, nothing)
    BY DEF Understood
<1> HIDE DEF text, nothing
<1>5. \A row : Allows(table, text, row)
    BY <1>2, <1>3, <1>4 DEF Allows
<1>6. \A row : row \in Selects(table, text, rows) <=> row \in rows
    BY <1>2, <1>5, SelectsByGroups
<1> QED
    BY <1>6 DEF text

\* Alternatives joined by ^OR select a row that one of them selects, if none of them
\* holds a separator and all are on known fields.
Alternative(table, part) ==
    (\A i \in DOMAIN part : part[i] # "^OR") /\ Understood(table, ConditionOf(part))

LEMMA SelectsAny ==
    ASSUME NEW T, "^" \notin T, NEW parts \in Seq(Seq(T)), parts # <<>>,
           NEW or \in T, or = "^OR",
           NEW table, \A k \in DOMAIN parts : Alternative(table, parts[k]), NEW rows, NEW row
    PROVE  row \in Selects(table, Join(parts, or), rows) <=>
              row \in rows /\ \E k \in DOMAIN parts : Holds(ConditionOf(parts[k]), row)
<1> DEFINE full == Join(parts, "^OR")
           known == {c \in {ConditionOf(part) : part \in PartsOf(full, "^OR")} : Understood(table, c)}
           n == Len(parts)
<1>1. parts \in Seq(Seq(T)) /\ parts # <<>> /\ DOMAIN parts = 1..n /\ n \in Nat \ {0}
    OBVIOUS
<1>12. \A k \in 1..n : Alternative(table, parts[k])
    BY <1>1
<1>2. full \in Seq(T) /\ PartsOf(full, "^OR") = UNION {PartsOf(parts[k], "^OR") : k \in 1..n}
    <2>1. Join(parts, or) \in Seq(T) /\ PartsOf(Join(parts, or), or) = UNION {PartsOf(parts[k], or) : k \in DOMAIN parts}
        <3>1. \A p \in Seq(Seq(T)) : p # <<>> =>
                 Join(p, or) \in Seq(T) /\ PartsOf(Join(p, or), or) = UNION {PartsOf(p[k], or) : k \in DOMAIN p}
            BY PartsOfJoin
        <3> QED
            BY <1>1, <3>1, Zenon
    <2> QED
        BY <1>1, <2>1
<1>3. \A k \in 1..n : PartsOf(parts[k], "^OR") = {parts[k]}
    <2> TAKE k \in 1..n
    <2>1. parts[k] \in Seq(T) /\ \A i \in DOMAIN parts[k] : parts[k][i] # "^OR"
        BY <1>1, <1>12 DEF Alternative
    <2> QED
        BY <2>1, OnePart
<1>4. PartsOf(full, "^") = {full}
    <2>1. \A i \in DOMAIN full : full[i] # "^"
        <3>1. \A i \in DOMAIN full : full[i] \in T
            BY <1>2
        <3> QED
            BY <3>1
    <2> HIDE DEF full
    <2> QED
        BY <1>2, <2>1, OnePart
<1> HIDE DEF full, n
<1>5. \A part : part \in PartsOf(full, "^OR") <=> \E k \in 1..n : part = parts[k]
    <2>1. \A part : part \in PartsOf(full, "^OR") <=> \E k \in 1..n : part \in PartsOf(parts[k], "^OR")
        BY <1>2
    <2>2. \A k \in 1..n : \A part : part \in PartsOf(parts[k], "^OR") <=> part = parts[k]
        BY <1>3
    <2> QED
        BY <2>1, <2>2
<1>6. \A c : c \in known <=> \E k \in 1..n : c = ConditionOf(parts[k])
    BY <1>5, <1>12 DEF Alternative
<1>7. 1 \in 1..n
    BY <1>1
<1>8. Allows(table, full, row) <=> known = {} \/ \E c \in known : Holds(c, row)
    BY DEF Allows
<1> HIDE DEF known
<1>9. known # {}
    BY <1>6, <1>7
<1>10. Allows(table, full, row) <=> \E k \in 1..n : Holds(ConditionOf(parts[k]), row)
    BY <1>6, <1>8, <1>9
<1>11. row \in Selects(table, full, rows) <=> row \in rows /\ Allows(table, full, row)
    BY <1>4, SelectsByGroups
<1> QED
    BY <1>1, <1>10, <1>11 DEF full

\* A text of three tokens, the second an operator, is one condition.
LEMMA ConditionOfThree ==
    ASSUME NEW field, NEW op \in QueryOperators, NEW value, field \notin QueryOperators
    PROVE  ConditionOf(<<field, op, value>>) = [field |-> <<field>>, op |-> op, value |-> <<value>>]
<1> DEFINE text == <<field, op, value>>
           I == {i \in 1..Len(text) : text[i] \in QueryOperators}
           first == SelectInSeq(text, LAMBDA token : token \in QueryOperators)
<1>1. Len(text) = 3 /\ text[1] = field /\ text[2] = op /\ text[3] = value
    OBVIOUS
<1>3. text \in Seq({field, op, value})
    OBVIOUS
<1>4. first = IF I # {} THEN Min(I) ELSE 0
    BY DEF SelectInSeq
<1>5. ConditionOf(text) =
        IF first = 0 THEN [field |-> text, op |-> "none", value |-> <<>>]
        ELSE [field |-> SubSeq(text, 1, first - 1), op |-> text[first],
              value |-> SubSeq(text, first + 1, Len(text))]
    BY DEF ConditionOf
<1> HIDE DEF text, first
<1>6. 2 \in I /\ \A i \in I : i \in Int /\ 2 <= i
    BY <1>1
<1> HIDE DEF I
<1>7. Min(I) = 2
    <2>1. \A y \in I : (\A z \in I : y <= z) => y = 2
        BY <1>6
    <2> QED
        BY <1>6, <2>1 DEF Min
<1>8. first = 2
    BY <1>4, <1>6, <1>7
<1>9. SubSeq(text, 1, 2 - 1) = <<field>> /\ SubSeq(text, 2 + 1, Len(text)) = <<value>>
    <2>1. SubSeq(text, 1, 1) = <<text[1]>> /\ SubSeq(text, 3, 3) = <<text[3]>>
        <3>1. 1 \in 1..Len(text) /\ 3 \in 1..Len(text)
            BY <1>1
        <3> QED
            BY <1>3, <3>1, OneToken
    <2> QED
        BY <1>1, <2>1
<1> QED
    BY <1>1, <1>5, <1>8, <1>9 DEF text

\* A condition on a known field, alone in a query, is what the query selects by.
LEMMA OneConditionSelects ==
    ASSUME NEW table, NEW rows, NEW field \in FieldsOf[table], field \notin QueryOperators \cup {"^", "^OR"},
           NEW op \in QueryOperators, NEW value, value \notin {"^", "^OR"}, NEW row
    PROVE  row \in Selects(table, <<field, op, value>>, rows) <=>
              row \in rows /\ Holds([field |-> <<field>>, op |-> op, value |-> <<value>>], row)
<1> DEFINE text == <<field, op, value>>
           condition == [field |-> <<field>>, op |-> op, value |-> <<value>>]
<1>1. op # "^" /\ op # "^OR"
    BY DEF QueryOperators
<1>2. PartsOf(text, "^") = {text} /\ PartsOf(text, "^OR") = {text}
    BY <1>1, ThreeAreOnePart
<1>3. ConditionOf(text) = condition
    BY ConditionOfThree
<1>4. Understood(table, condition)
    BY DEF Understood
<1> HIDE DEF text, condition
<1>5. Allows(table, text, row) <=> Holds(condition, row)
    BY <1>2, <1>3, <1>4 DEF Allows
<1>6. row \in Selects(table, text, rows) <=> row \in rows /\ Holds(condition, row)
    BY <1>2, <1>5, SelectsByGroups
<1> QED
    BY <1>6 DEF text, condition

\* What the conditions that the tools build ask of a row.
LEMMA LikeHolds ==
    ASSUME NEW field, NEW value, NEW row
    PROVE  Holds([field |-> <<field>>, op |-> "LIKE", value |-> <<value>>], row)
              <=> <<value, row[field]>> \in Matches["LIKE"]
<1> DEFINE condition == [field |-> <<field>>, op |-> "LIKE", value |-> <<value>>]
<1>1. condition.op = "LIKE" /\ Head(condition.field) = field /\ condition.value[1] = value
    OBVIOUS
<1> HIDE DEF condition
<1>2. Holds(condition, row) <=> <<value, row[field]>> \in Matches["LIKE"]
    BY <1>1 DEF Holds
<1> QED
    BY <1>2 DEF condition

LEMMA EqualHolds ==
    ASSUME NEW field, NEW value, value # "NULL", NEW row
    PROVE  /\ Holds([field |-> <<field>>, op |-> "=", value |-> <<value>>], row) <=> row[field] = value
           /\ Holds([field |-> <<field>>, op |-> "!=", value |-> <<value>>], row) <=> row[field] # value
<1> DEFINE Condition(o) == [field |-> <<field>>, op |-> o, value |-> <<value>>]
<1>1. \A o : Condition(o).op = o /\ Condition(o).value = <<value>> /\ Head(Condition(o).field) = field
    OBVIOUS
<1>2. \A x : <<value>> = <<x>> <=> x = value
    OBVIOUS
<1>3. <<value>> # <<"NULL">>
    OBVIOUS
<1> HIDE DEF Condition
<1>4. Holds(Condition("="), row) <=> row[field] = value
    BY <1>1, <1>2, <1>3 DEF Holds
<1>5. Holds(Condition("!="), row) <=> row[field] # value
    BY <1>1, <1>2, <1>3 DEF Holds
<1> QED
    BY <1>4, <1>5 DEF Condition

LEMMA SelectsEqual ==
    ASSUME NEW table, NEW rows, NEW field \in FieldsOf[table], field \notin QueryOperators \cup {"^", "^OR"},
           NEW value, value \notin {"^", "^OR", "NULL"}, NEW row
    PROVE  /\ row \in Selects(table, <<field, "=", value>>, rows) <=> row \in rows /\ row[field] = value
           /\ row \in Selects(table, <<field, "!=", value>>, rows) <=> row \in rows /\ row[field] # value
<1>1. PICK eq \in QueryOperators : eq = "="
    BY DEF QueryOperators
<1>2. PICK ne \in QueryOperators : ne = "!="
    BY DEF QueryOperators
<1>3. row \in Selects(table, <<field, eq, value>>, rows) <=>
         row \in rows /\ Holds([field |-> <<field>>, op |-> eq, value |-> <<value>>], row)
    BY OneConditionSelects
<1>4. row \in Selects(table, <<field, ne, value>>, rows) <=>
         row \in rows /\ Holds([field |-> <<field>>, op |-> ne, value |-> <<value>>], row)
    BY OneConditionSelects
<1> QED
    BY <1>1, <1>2, <1>3, <1>4, EqualHolds

-----------------------------------------------------------------------------
(* The queries that the tools build                                         *)

\* What is added to a query selects as if it stood alone, and so does the query.
LEMMA AppendedSelects ==
    ASSUME NEW T, "^" \in T, NEW q \in Seq(T), NEW addition \in Seq(T), NEW table, NEW rows
    PROVE  Selects(table, AppendToQuery(q, addition), rows)
           = Selects(table, q, rows) \cap Selects(table, addition, rows)
<1>1. CASE q = <<>>
    <2>1. Selects(table, q, rows) = rows
        BY <1>1, EmptySelectsAll
    <2>2. Selects(table, addition, rows) \subseteq rows
        BY DEF Selects
    <2>3. AppendToQuery(q, addition) = addition
        BY <1>1 DEF AppendToQuery
    <2> QED
        BY <2>1, <2>2, <2>3
<1>2. CASE q # <<>>
    <2>1. AppendToQuery(q, addition) = q \o <<"^">> \o addition
        BY <1>2 DEF AppendToQuery
    <2> QED
        BY <2>1, SelectsBoth
<1> QED
    BY <1>1, <1>2

\* The tokens of every text, those named that the exclusions and the builder add.
Tokens == STRING \cup {"^", "!=", "category", "Payroll", "cat_item.sc_catalogs.title", "People_Pay",
                       "assignment_group.name", "Payroll Managers"}
                 \cup {"=", ">=", "<=", ">", "<", "LIKE", "NOT LIKE", "BETWEEN", "@", "^OR", "priority", "riority",
                       "caller_id", "sys_created_on", "short_description", "number"}
Queries == Seq(Tokens)

LEMMA TokensAreTokens ==
    /\ STRING \subseteq Tokens /\ Seq(STRING) \subseteq Seq(Tokens)
    /\ CatalogExclusions \in Seq(Tokens) /\ CategoryExclusions \in Seq(Tokens)
<1>1. STRING \subseteq Tokens
    BY DEF Tokens
<1>2. Seq(STRING) \subseteq Seq(Tokens)
    BY <1>1, SeqMonotonic
<1>3. /\ "cat_item.sc_catalogs.title" \in Tokens /\ "!=" \in Tokens /\ "People_Pay" \in Tokens /\ "^" \in Tokens
      /\ "assignment_group.name" \in Tokens /\ "Payroll Managers" \in Tokens
      /\ "category" \in Tokens /\ "Payroll" \in Tokens
    BY DEF Tokens
<1>4. CatalogExclusions \in Seq(Tokens)
    BY <1>3, SevenAreASeq DEF CatalogExclusions
<1>5. CategoryExclusions \in Seq(Tokens)
    BY <1>3, ThreeAreASeq DEF CategoryExclusions
<1> QED
    BY <1>1, <1>2, <1>4, <1>5

\* What the exclusions make of a query.
LEMMA ExclusionsAdded ==
    ASSUME NEW table, NEW q
    PROVE  \/ ApplyDomainFilters(table, q) = q
           \/ ApplyDomainFilters(table, q) = AppendToQuery(q, CatalogExclusions)
           \/ ApplyDomainFilters(table, q) = AppendToQuery(q, CategoryExclusions)
<1>1. CASE table = "incident" /\ CategoryFiltering
    <2>1. table \notin SC_CATALOG_TABLES
        BY <1>1 DEF SC_CATALOG_TABLES
    <2> QED
        BY <1>1, <2>1, Zenon DEF ApplyDomainFilters
<1>2. CASE table \in SC_CATALOG_TABLES
    <2>1. table # "incident"
        BY <1>2 DEF SC_CATALOG_TABLES
    <2> QED
        BY <1>2, <2>1, Zenon DEF ApplyDomainFilters
<1>3. CASE ~(table = "incident" /\ CategoryFiltering) /\ table \notin SC_CATALOG_TABLES
    BY <1>3, Zenon DEF ApplyDomainFilters
<1> QED
    BY <1>1, <1>2, <1>3

\* The exclusions a table gets only narrow what a query selects.
LEMMA ExclusionsNarrow ==
    ASSUME NEW table, NEW q \in Queries, NEW rows
    PROVE  Selects(table, ApplyDomainFilters(table, q), rows) \subseteq Selects(table, q, rows)
<1>1. "^" \in Tokens /\ q \in Seq(Tokens)
    BY TokensAreTokens DEF Queries, Tokens
<1>2. \/ ApplyDomainFilters(table, q) = q
      \/ ApplyDomainFilters(table, q) = AppendToQuery(q, CatalogExclusions)
      \/ ApplyDomainFilters(table, q) = AppendToQuery(q, CategoryExclusions)
    BY ExclusionsAdded
<1> QED
    BY <1>1, <1>2, TokensAreTokens, AppendedSelects

\* The tokens that neither end a query nor begin another.
Plain == Tokens \ {"&", "^NQ"}

LEMMA PlainIsIntact ==
    ASSUME NEW q \in Seq(Plain)
    PROVE  q \in Queries /\ Intact(q)
<1>1. \A k \in DOMAIN q : q[k] \in Plain
    OBVIOUS
<1>2. Intact(q)
    BY <1>1 DEF Intact, Has, Plain
<1>3. Seq(Plain) \subseteq Seq(Tokens)
    <2>1. Plain \subseteq Tokens
        BY DEF Plain
    <2> QED
        BY <2>1, SeqMonotonic
<1> QED
    BY <1>2, <1>3 DEF Queries

LEMMA IntactIsPlain ==
    ASSUME NEW q \in Queries, Intact(q)
    PROVE  q \in Seq(Plain)
<1>1. PICK n \in Nat : DOMAIN q = 1..n /\ q \in [1..n -> Tokens]
    BY DEF Queries
<1>2. \A k \in 1..n : q[k] \in Plain
    BY <1>1 DEF Intact, Has, Plain
<1>3. q \in [1..n -> Plain]
    BY <1>1, <1>2
<1> QED
    BY <1>1, <1>3

\* A query with no & and no ^NQ in it reaches the instance whole and is read as one.
LEMMA IntactReturns ==
    ASSUME NEW T, NEW query \in Seq(T), Intact(query), NEW table, NEW rows
    PROVE  Returned(table, EncodeQueryString(query), rows) = Selects(table, query, rows)
<1>1. PICK next : next = "&"
    OBVIOUS
<1>2. PICK new : new = "^NQ"
    OBVIOUS
<1>3. (\A k \in DOMAIN query : query[k] # next) /\ (\A k \in DOMAIN query : query[k] # new)
    BY <1>1, <1>2 DEF Intact, Has
<1>4. PartsOf(query, next) = {query} /\ PartsOf(query, new) = {query}
    BY <1>3, OnePart
<1>5. 1 \in DOMAIN Split(query, next)
    BY SplitType
<1>6. \A k \in DOMAIN Split(query, next) : Split(query, next)[k] \in PartsOf(query, next)
    BY SplitIsParts
<1>7. EncodeQueryString(query) = query
    <2>1. Split(query, next)[1] = query
        BY <1>4, <1>5, <1>6
    <2> QED
        BY <1>1, <2>1, Zenon DEF EncodeQueryString
<1>8. Returned(table, query, rows) = UNION {Selects(table, branch, rows) : branch \in {query}}
    BY <1>2, <1>4 DEF Returned
<1> QED
    BY <1>7, <1>8

\* Whatever the instance returns are rows of the table.
LEMMA ReturnedRows ==
    ASSUME NEW table, NEW query, NEW rows
    PROVE  Returned(table, query, rows) \subseteq rows
BY DEF Returned, Selects

\* The exclusions leave a query whole.
LEMMA ExclusionsKeep ==
    ASSUME NEW table, NEW q \in Queries
    PROVE  /\ ApplyDomainFilters(table, q) \in Queries
           /\ Intact(q) => Intact(ApplyDomainFilters(table, q))
<1>1. /\ CatalogExclusions \in Seq(Plain) /\ CategoryExclusions \in Seq(Plain) /\ "^" \in Plain
    <2>1. /\ "cat_item.sc_catalogs.title" \in Plain /\ "!=" \in Plain /\ "People_Pay" \in Plain /\ "^" \in Plain
          /\ "assignment_group.name" \in Plain /\ "Payroll Managers" \in Plain
          /\ "category" \in Plain /\ "Payroll" \in Plain
        BY DEF Plain, Tokens
    <2>2. CatalogExclusions \in Seq(Plain)
        BY <2>1, SevenAreASeq DEF CatalogExclusions
    <2>3. CategoryExclusions \in Seq(Plain)
        BY <2>1, ThreeAreASeq DEF CategoryExclusions
    <2> QED
        BY <2>1, <2>2, <2>3
<1>2. ASSUME NEW T, "^" \in T, NEW text \in Seq(T), NEW addition \in Seq(T)
      PROVE  AppendToQuery(text, addition) \in Seq(T)
    <2>1. text \o <<"^">> \o addition \in Seq(T)
        BY <1>2, ConditionType
    <2> QED
        BY <2>1, Zenon DEF AppendToQuery
<1>3. ASSUME NEW T, "^" \in T, q \in Seq(T), CatalogExclusions \in Seq(T), CategoryExclusions \in Seq(T)
      PROVE  ApplyDomainFilters(table, q) \in Seq(T)
    <2>1. AppendToQuery(q, CatalogExclusions) \in Seq(T) /\ AppendToQuery(q, CategoryExclusions) \in Seq(T)
        BY <1>2, <1>3
    <2> QED
        BY <1>3, <2>1, ExclusionsAdded
<1>4. ApplyDomainFilters(table, q) \in Queries
    <2>1. "^" \in Tokens
        BY DEF Tokens
    <2> QED
        BY <1>3, <2>1, TokensAreTokens DEF Queries
<1>5. ASSUME Intact(q)
      PROVE  Intact(ApplyDomainFilters(table, q))
    <2>1. ApplyDomainFilters(table, q) \in Seq(Plain)
        BY <1>1, <1>3, <1>5, IntactIsPlain
    <2> QED
        BY <2>1, PlainIsIntact
<1> QED
    BY <1>4, <1>5

\* What the exclusions of the catalog tables take from what a query selects.
LEMMA PolicySelects ==
    ASSUME NEW table \in SC_CATALOG_TABLES, NEW q \in Queries, NEW rows,
           {"cat_item.sc_catalogs.title", "assignment_group.name"} \subseteq FieldsOf[table]
    PROVE  Selects(table, ApplyDomainFilters(table, q), rows)
           = {row \in Selects(table, q, rows) : ~Sensitive(table, row)}
<1> DEFINE titles == <<"cat_item.sc_catalogs.title", "!=", "People_Pay">>
           groups == <<"assignment_group.name", "!=", "Payroll Managers">>
<1>1. ApplyDomainFilters(table, q) = AppendToQuery(q, CatalogExclusions)
    <2>1. table # "incident"
        BY DEF SC_CATALOG_TABLES
    <2> QED
        BY <2>1, Zenon DEF ApplyDomainFilters
<1>2. "^" \in Tokens /\ q \in Seq(Tokens)
    BY TokensAreTokens DEF Queries, Tokens
<1>3. Selects(table, ApplyDomainFilters(table, q), rows)
      = Selects(table, q, rows) \cap Selects(table, CatalogExclusions, rows)
    BY <1>1, <1>2, TokensAreTokens, AppendedSelects
<1>5. titles \in Seq(Tokens) /\ groups \in Seq(Tokens)
    <2>1. /\ "cat_item.sc_catalogs.title" \in Tokens /\ "!=" \in Tokens /\ "People_Pay" \in Tokens
          /\ "assignment_group.name" \in Tokens /\ "Payroll Managers" \in Tokens
        BY DEF Tokens
    <2> QED
        BY <2>1, ThreeAreASeq
<1>4. CatalogExclusions = titles \o <<"^">> \o groups
    <2>1. /\ Len(titles) = 3 /\ titles[1] = "cat_item.sc_catalogs.title" /\ titles[2] = "!=" /\ titles[3] = "People_Pay"
          /\ Len(groups) = 3 /\ groups[1] = "assignment_group.name" /\ groups[2] = "!=" /\ groups[3] = "Payroll Managers"
        OBVIOUS
    <2> HIDE DEF titles, groups
    <2>2. PICK sep \in Tokens : sep = "^"
        BY <1>2
    <2>3. titles \o <<sep>> \o groups = <<titles[1], titles[2], titles[3], sep, groups[1], groups[2], groups[3]>>
        BY <1>5, <2>1, SevenOfThree
    <2> QED
        BY <2>1, <2>2, <2>3 DEF CatalogExclusions
<1>6. Selects(table, titles, rows) = {row \in rows : row["cat_item.sc_catalogs.title"] # "People_Pay"}
    <2>1. "cat_item.sc_catalogs.title" \notin QueryOperators \cup {"^", "^OR"} /\ "!=" \in QueryOperators
          /\ "People_Pay" \notin {"^", "^OR"} /\ "People_Pay" # "NULL"
        BY DEF QueryOperators
    <2>2. ASSUME NEW row
          PROVE  row \in Selects(table, titles, rows) <=> row \in rows /\ row["cat_item.sc_catalogs.title"] # "People_Pay"
        BY <2>1, SelectsEqual
    <2> QED
        BY <2>2
<1>7. Selects(table, groups, rows) = {row \in rows : row["assignment_group.name"] # "Payroll Managers"}
    <2>1. "assignment_group.name" \notin QueryOperators \cup {"^", "^OR"} /\ "!=" \in QueryOperators
          /\ "Payroll Managers" \notin {"^", "^OR"} /\ "Payroll Managers" # "NULL"
        BY DEF QueryOperators
    <2>2. ASSUME NEW row
          PROVE  row \in Selects(table, groups, rows) <=> row \in rows /\ row["assignment_group.name"] # "Payroll Managers"
        BY <2>1, SelectsEqual
    <2> QED
        BY <2>2
<1> HIDE DEF titles, groups
<1>8. Selects(table, CatalogExclusions, rows) = Selects(table, titles, rows) \cap Selects(table, groups, rows)
    BY <1>2, <1>4, <1>5, SelectsBoth
<1>9. Selects(table, q, rows) \subseteq rows
    BY DEF Selects
<1> QED
    BY <1>3, <1>6, <1>7, <1>8, <1>9 DEF Sensitive

\* On the catalog tables the exclusions take from what the instance returns the rows they
\* are about and no others, whatever the query they are added to: alternatives in it do
\* not reach over them, nor they over the query; if it is one query, for a & ends it
\* before the exclusions and a ^NQ leaves what stands before it without them
\* (_apply_domain_filters, _make_paginated_request).
THEOREM PolicyIsExact ==
    ASSUME NEW table \in SC_CATALOG_TABLES, NEW q \in Queries, Intact(q), NEW rows,
           {"cat_item.sc_catalogs.title", "assignment_group.name"} \subseteq FieldsOf[table]
    PROVE  Returned(table, EncodeQueryString(ApplyDomainFilters(table, q)), rows)
           = {row \in Returned(table, EncodeQueryString(q), rows) : ~Sensitive(table, row)}
<1>1. PICK excluding \in Seq(Tokens) : excluding = ApplyDomainFilters(table, q) /\ Intact(excluding)
    BY ExclusionsKeep DEF Queries
<1>2. Returned(table, EncodeQueryString(excluding), rows) = Selects(table, excluding, rows)
    BY <1>1, IntactReturns
<1>3. Returned(table, EncodeQueryString(q), rows) = Selects(table, q, rows)
    BY IntactReturns DEF Queries
<1>4. Selects(table, ApplyDomainFilters(table, q), rows) = {row \in Selects(table, q, rows) : ~Sensitive(table, row)}
    BY PolicySelects
<1> QED
    BY <1>1, <1>2, <1>3, <1>4

\* What a search for keywords selects.
LEMMA KeywordsSelect ==
    ASSUME NEW table, "short_description" \in FieldsOf[table],
           NEW keywords \in Seq(Words), keywords # <<>>, NEW rows, NEW row
    PROVE  row \in Selects(table, TextQuery(keywords), rows) <=>
              row \in rows /\ \E k \in DOMAIN keywords : <<keywords[k], row["short_description"]>> \in Matches["LIKE"]
<1> DEFINE n == Len(keywords)
           Part(k) == <<"short_description", "LIKE", keywords[k]>>
           parts == [k \in DOMAIN keywords |-> Part(k)]
<1>1. n \in Nat \ {0} /\ DOMAIN keywords = 1..n
    OBVIOUS
<1>2. PICK sd \in FieldsOf[table] : sd = "short_description"
    OBVIOUS
<1>3. PICK like \in QueryOperators : like = "LIKE"
    BY DEF QueryOperators
<1>4. PICK or : or = "^OR"
    OBVIOUS
<1> DEFINE T == (STRING \ {"^", "^OR"}) \cup {sd, like, or}
<1>5. "^" \notin T /\ or \in T
    BY <1>2, <1>3, <1>4
<1>6. \A k \in 1..n : keywords[k] \in T /\ keywords[k] # "^OR"
    BY <1>1 DEF Words
<1>7. ASSUME NEW k \in 1..n
      PROVE  /\ Part(k) \in Seq(T)
             /\ \A i \in DOMAIN Part(k) : Part(k)[i] # "^OR"
             /\ Understood(table, ConditionOf(Part(k)))
             /\ Holds(ConditionOf(Part(k)), row) <=> <<keywords[k], row["short_description"]>> \in Matches["LIKE"]
    <2> DEFINE word == keywords[k]
    <2>1. sd \in T /\ like \in T /\ word \in T
        BY <1>6
    <2>2. <<sd, like, word>> \in Seq(T)
        <3> HIDE DEF T, word
        <3> QED
            BY <2>1, ThreeAreASeq
    <2>3. sd # "^OR" /\ like # "^OR" /\ word # "^OR"
        BY <1>2, <1>3, <1>6
    <2>4. \A i \in DOMAIN <<sd, like, word>> : <<sd, like, word>>[i] # "^OR"
        <3> HIDE DEF word
        <3> QED
            BY <2>3
    <2>5. sd \notin QueryOperators
        BY <1>2 DEF QueryOperators
    <2>6. ConditionOf(<<sd, like, word>>) = [field |-> <<sd>>, op |-> like, value |-> <<word>>]
        <3> HIDE DEF word
        <3> QED
            BY <2>5, ConditionOfThree
    <2>7. Understood(table, [field |-> <<sd>>, op |-> like, value |-> <<word>>])
        BY DEF Understood
    <2>8. Holds([field |-> <<sd>>, op |-> "LIKE", value |-> <<word>>], row)
             <=> <<word, row[sd]>> \in Matches["LIKE"]
        <3> HIDE DEF word
        <3> QED
            BY LikeHolds
    <2>9. Part(k) = <<sd, like, word>>
        BY <1>2, <1>3
    <2> HIDE DEF word, Part, T
    <2> QED
        BY <1>2, <1>3, <2>2, <2>4, <2>6, <2>7, <2>8, <2>9 DEF word
<1> HIDE DEF T
<1>8. parts \in [1..n -> Seq(T)] /\ \A k \in 1..n : parts[k] = Part(k)
    BY <1>1, <1>7
<1>9. TextQuery(keywords) = Join(parts, "^OR")
    BY DEF TextQuery
<1> HIDE DEF n, Part, parts
<1>10. row \in Selects(table, Join(parts, or), rows) <=>
          row \in rows /\ \E k \in DOMAIN parts : Holds(ConditionOf(parts[k]), row)
    <2>1. \A k \in DOMAIN parts : Alternative(table, parts[k])
        BY <1>7, <1>8 DEF Alternative
    <2>2. parts \in Seq(Seq(T)) /\ parts # <<>>
        BY <1>1, <1>8
    <2> QED
        BY <1>4, <1>5, <2>1, <2>2, SelectsAny
<1>11. DOMAIN parts = 1..n
    BY <1>8
<1> QED
    BY <1>1, <1>4, <1>7, <1>8, <1>9, <1>10, <1>11

\* What a dictionary of filters selects.
LEMMA DictionarySelectsEach ==
    ASSUME NEW T, "^" \in T, NEW table, NEW n \in Nat, NEW filters, DOMAIN filters = 1..n,
           \A k \in 1..n : BuildQueryCondition(filters[k].field, filters[k].value) \in Seq(T), NEW rows, NEW row
    PROVE  row \in Selects(table, BuildQueryString(filters), rows) <=>
              row \in rows /\ \A k \in 1..n :
                 row \in Selects(table, BuildQueryCondition(filters[k].field, filters[k].value), rows)
<1> DEFINE Part(k) == BuildQueryCondition(filters[k].field, filters[k].value)
           parts == [k \in DOMAIN filters |-> Part(k)]
<1>1. BuildQueryString(filters) = Join(parts, "^")
    BY DEF BuildQueryString
<1>2. \A k \in 1..n : Part(k) \in Seq(T)
    OBVIOUS
<1> HIDE DEF Part
<1>3. parts \in [1..n -> Seq(T)] /\ \A k \in 1..n : parts[k] = Part(k)
    BY <1>2
<1> HIDE DEF parts
<1>4. parts \in Seq(Seq(T)) /\ DOMAIN parts = 1..n /\ (parts = <<>> <=> n = 0)
    BY <1>3
<1>5. CASE n = 0
    <2>1. Join(parts, "^") = <<>>
        BY <1>4, <1>5 DEF Join
    <2>2. Selects(table, Join(parts, "^"), rows) = rows
        BY <2>1, EmptySelectsAll
    <2>3. 1..n = {}
        BY <1>5
    <2> QED
        BY <1>1, <2>2, <2>3 DEF Part
<1>6. CASE n # 0
    <2>1. "^" \in T
        OBVIOUS
    <2>2. row \in Selects(table, Join(parts, "^"), rows) <=>
            row \in rows /\ \A k \in DOMAIN parts : row \in Selects(table, parts[k], rows)
        BY <1>4, <1>6, <2>1, SelectsAll
    <2> QED
        BY <1>1, <1>3, <1>4, <2>2 DEF Part
<1> QED
    BY <1>5, <1>6

\* A text of tokens that are neither the end of a query nor the beginning of one.
LEMMA WholeText ==
    ASSUME NEW T, "&" \notin T, "^NQ" \notin T, NEW text \in Seq(T)
    PROVE  Intact(text)
<1>1. \A k \in DOMAIN text : text[k] \in T
    OBVIOUS
<1> QED
    BY <1>1 DEF Intact, Has

\* What a dictionary becomes has the tokens that its conditions have.
LEMMA DictionaryType ==
    ASSUME NEW T, "^" \in T, NEW n \in Nat, NEW filters, DOMAIN filters = 1..n,
           \A k \in 1..n : BuildQueryCondition(filters[k].field, filters[k].value) \in Seq(T)
    PROVE  BuildQueryString(filters) \in Seq(T)
<1> DEFINE each == [k \in DOMAIN filters |-> BuildQueryCondition(filters[k].field, filters[k].value)]
<1>1. each \in Seq(Seq(T))
    OBVIOUS
<1> HIDE DEF each
<1>2. Join(each, "^") \in Seq(T)
    BY <1>1, JoinType
<1> QED
    BY <1>2 DEF BuildQueryString, each

\* A dictionary of filters is answered with the rows that each of its entries is answered
\* with when it is the only one: alternatives, lists and ranges of one entry do not reach
\* into another, whatever their order (_build_query_string); if none has a & or ^NQ.
THEOREM EachFilterAlone ==
    ASSUME NEW T, "^" \in T, NEW table, NEW n \in Nat, NEW filters, DOMAIN filters = 1..n,
           \A k \in 1..n : /\ BuildQueryCondition(filters[k].field, filters[k].value) \in Seq(T)
                           /\ Intact(BuildQueryCondition(filters[k].field, filters[k].value)), NEW rows, NEW row
    PROVE  row \in Returned(table, EncodeQueryString(BuildQueryString(filters)), rows) <=>
              row \in rows /\ \A k \in 1..n :
                 row \in Returned(table, EncodeQueryString(BuildQueryCondition(filters[k].field, filters[k].value)), rows)
<1> DEFINE Part(k) == BuildQueryCondition(filters[k].field, filters[k].value)
           W == T \ {"&", "^NQ"}
<1>1. ASSUME NEW k \in 1..n
      PROVE  Part(k) \in Seq(W)
    <2>1. Part(k) \in Seq(T) /\ Intact(Part(k))
        OBVIOUS
    <2>2. \A i \in DOMAIN Part(k) : Part(k)[i] \in W
        <3> HIDE DEF Part
        <3> QED
            BY <2>1 DEF Intact, Has
    <2> HIDE DEF Part, W
    <2> QED
        BY <2>1, <2>2
<1>2. "^" \in W /\ "&" \notin W /\ "^NQ" \notin W
    OBVIOUS
<1>3. BuildQueryString(filters) \in Seq(W)
    <2> HIDE DEF W
    <2> QED
        BY <1>1, <1>2, DictionaryType
<1>4. Intact(BuildQueryString(filters))
    <2> HIDE DEF W
    <2> QED
        BY <1>2, <1>3, WholeText
<1>5. Returned(table, EncodeQueryString(BuildQueryString(filters)), rows) = Selects(table, BuildQueryString(filters), rows)
    BY <1>3, <1>4, IntactReturns
<1>6. \A k \in 1..n : Returned(table, EncodeQueryString(Part(k)), rows) = Selects(table, Part(k), rows)
    <2>1. \A k \in 1..n : Intact(Part(k))
        OBVIOUS
    <2> HIDE DEF Part, W
    <2> QED
        BY <1>1, <2>1, IntactReturns
<1>7. row \in Selects(table, BuildQueryString(filters), rows) <=>
         row \in rows /\ \A k \in 1..n : row \in Selects(table, Part(k), rows)
    <2> HIDE DEF W
    <2> QED
        BY <1>1, <1>2, DictionarySelectsEach
<1> QED
    BY <1>5, <1>6, <1>7

\* One priority after another, as alternatives.
EitherOf(names, n) == Join([k \in 1..n |-> <<"priority">> \o <<"=">> \o <<names[k]>>], "^OR")

LEMMA PrioritiesSelect ==
    ASSUME NEW table, "priority" \in FieldsOf[table], NEW n \in Nat \ {0}, NEW names \in [1..n -> Names],
           NEW rows, NEW row
    PROVE  /\ \E T : EitherOf(names, n) \in Seq(T)
           /\ row \in Selects(table, EitherOf(names, n), rows) <=>
                 row \in rows /\ \E k \in 1..n : row["priority"] = names[k]
<1> DEFINE Part(k) == <<"priority">> \o <<"=">> \o <<names[k]>>
           parts == [k \in 1..n |-> Part(k)]
<1>2. PICK f \in FieldsOf[table] : f = "priority"
    OBVIOUS
<1>3. PICK eq \in QueryOperators : eq = "="
    BY DEF QueryOperators
<1>4. PICK or : or = "^OR"
    OBVIOUS
<1> DEFINE T == Names \cup {f, eq, or}
<1>5. "^" \notin T /\ or \in T
    BY <1>2, <1>3, <1>4 DEF Names, Words
<1>7. ASSUME NEW k \in 1..n
      PROVE  /\ Part(k) \in Seq(T)
             /\ \A i \in DOMAIN Part(k) : Part(k)[i] # "^OR"
             /\ Understood(table, ConditionOf(Part(k)))
             /\ Holds(ConditionOf(Part(k)), row) <=> row["priority"] = names[k]
    <2> DEFINE name == names[k]
    <2>1. f \in T /\ eq \in T /\ name \in T /\ name \in Names
        OBVIOUS
    <2>10. name # "^OR" /\ name # "NULL"
        BY <2>1 DEF Names, Words
    <2> HIDE DEF name
    <2>2. <<f, eq, name>> \in Seq(T)
        <3> HIDE DEF T
        <3> QED
            BY <2>1, ThreeAreASeq
    <2>4. \A i \in DOMAIN <<f, eq, name>> : <<f, eq, name>>[i] # "^OR"
        BY <1>2, <1>3, <2>10
    <2>5. f \notin QueryOperators
        BY <1>2 DEF QueryOperators
    <2>6. ConditionOf(<<f, eq, name>>) = [field |-> <<f>>, op |-> eq, value |-> <<name>>]
        BY <2>5, ConditionOfThree
    <2>7. Understood(table, [field |-> <<f>>, op |-> eq, value |-> <<name>>])
        BY DEF Understood
    <2>8. /\ Holds([field |-> <<f>>, op |-> "=", value |-> <<name>>], row) <=> row[f] = name
          /\ Holds([field |-> <<f>>, op |-> "!=", value |-> <<name>>], row) <=> row[f] # name
        BY <2>10, EqualHolds
    <2>9. Part(k) = <<f, eq, name>>
        <3>1. <<f>> \o <<eq>> \o <<name>> = <<f, eq, name>>
            BY ThreeJoined
        <3> QED
            BY <1>2, <1>3, <3>1 DEF name
    <2> HIDE DEF Part, T
    <2> QED
        BY <1>2, <1>3, <2>2, <2>4, <2>6, <2>7, <2>8, <2>9 DEF name
<1> HIDE DEF T, Part
<1>8. parts \in [1..n -> Seq(T)] /\ \A k \in 1..n : parts[k] = Part(k)
    BY <1>7
<1> HIDE DEF parts
<1>11. parts \in Seq(Seq(T)) /\ parts # <<>> /\ DOMAIN parts = 1..n
    BY <1>8
<1>10. row \in Selects(table, Join(parts, or), rows) <=>
          row \in rows /\ \E k \in DOMAIN parts : Holds(ConditionOf(parts[k]), row)
    <2>1. \A k \in DOMAIN parts : Alternative(table, parts[k])
        BY <1>7, <1>8 DEF Alternative
    <2> QED
        BY <1>4, <1>5, <1>11, <2>1, SelectsAny, ZenonT(60)
<1>12. Join(parts, or) \in Seq(T)
    BY <1>5, <1>11, PartsOfJoin
<1> QED
    BY <1>4, <1>7, <1>8, <1>10, <1>11, <1>12 DEF parts, Part, EitherOf

\* Priorities by their names, and conditions of some tokens.
NamedPriorities(given, names, n) ==
    names \in [1..n -> Names] /\ DOMAIN given = 1..n /\ \A k \in 1..n : given[k] = <<names[k]>>
TokensOf(additional, m, T) == DOMAIN additional = 1..m /\ \A k \in 1..m : Additional(additional[k]) \in Seq(T)

LEMMA PrioritiesAndOthers ==
    ASSUME NEW table, "priority" \in FieldsOf[table], NEW n \in Nat \ {0}, NEW names, NEW given,
           NamedPriorities(given, names, n), NEW m \in Nat, NEW additional, NEW T, TokensOf(additional, m, T),
           NEW rows, NEW row
    PROVE  row \in Selects(table, PriorityQuery(given, additional), rows) <=>
              /\ row \in rows
              /\ \E k \in 1..n : row["priority"] = names[k]
              /\ \A k \in 1..m : row \in Selects(table, Additional(additional[k]), rows)
<1>0. /\ names \in [1..n -> Names] /\ DOMAIN given = 1..n /\ \A k \in 1..n : given[k] = <<names[k]>>
      /\ DOMAIN additional = 1..m /\ \A k \in 1..m : Additional(additional[k]) \in Seq(T)
    BY DEF NamedPriorities, TokensOf
<1> DEFINE either == EitherOf(names, n)
           others == [k \in DOMAIN additional |-> Additional(additional[k])]
           parts == <<either>> \o others
<1>1. /\ \E U : either \in Seq(U)
      /\ row \in Selects(table, either, rows) <=> row \in rows /\ \E k \in 1..n : row["priority"] = names[k]
    <2>1. PICK chosen \in [1..n -> Names] : chosen = names
        BY <1>0
    <2>2. /\ \E U : EitherOf(chosen, n) \in Seq(U)
          /\ row \in Selects(table, EitherOf(chosen, n), rows) <=>
                row \in rows /\ \E k \in 1..n : row["priority"] = chosen[k]
        BY PrioritiesSelect
    <2> QED
        BY <2>1, <2>2
<1>2. PICK U : either \in Seq(U)
    BY <1>1
<1> DEFINE V == T \cup U \cup {"^"}
<1>3. PriorityQuery(given, additional) = Join(parts, "^")
    <2>1. [k \in DOMAIN given |-> <<"priority", "=">> \o given[k]]
          = [k \in 1..n |-> <<"priority">> \o <<"=">> \o <<names[k]>>]
        <3>1. <<"priority">> \o <<"=">> = <<"priority", "=">>
            BY TwoJoined
        <3> QED
            BY <1>0, <3>1
    <2> QED
        BY <2>1 DEF PriorityQuery, Additional, EitherOf
<1> HIDE DEF either
<1>4. either \in Seq(V) /\ \A k \in 1..m : others[k] \in Seq(V) /\ others[k] = Additional(additional[k])
    <2>1. Seq(T) \subseteq Seq(V) /\ Seq(U) \subseteq Seq(V)
        BY SeqMonotonic
    <2> QED
        BY <1>0, <1>2, <2>1
<1> DEFINE W == Seq(V)
<1>5. <<either>> \in Seq(W) /\ Len(<<either>>) = 1 /\ <<either>>[1] = either
    BY <1>4, OneIsASeq
<1>6. others \in Seq(W) /\ Len(others) = m /\ DOMAIN others = 1..m
    <2>1. others \in [1..m -> W]
        BY <1>0, <1>4
    <2> HIDE DEF others, W
    <2> QED
        BY <2>1
<1>8. "^" \in V
    OBVIOUS
<1> HIDE DEF W, V, others
<1>7. /\ parts \in Seq(W) /\ Len(parts) = 1 + m
      /\ \A i \in 1..(1 + m) : parts[i] = IF i <= 1 THEN either ELSE others[i - 1]
    <2>1. /\ parts \in Seq(W) /\ Len(parts) = Len(<<either>>) + Len(others)
          /\ \A i \in 1..(Len(<<either>>) + Len(others)) :
                parts[i] = IF i <= Len(<<either>>) THEN <<either>>[i] ELSE others[i - Len(<<either>>)]
        BY <1>5, <1>6, ConcatProperties
    <2> HIDE DEF parts
    <2> QED
        BY <1>5, <1>6, <2>1
<1> HIDE DEF parts
<1>9. row \in Selects(table, Join(parts, "^"), rows) <=>
        row \in rows /\ \A k \in DOMAIN parts : row \in Selects(table, parts[k], rows)
    <2>1. parts \in Seq(Seq(V)) /\ parts # <<>>
        BY <1>7 DEF W
    <2> QED
        BY <1>8, <2>1, SelectsAll
<1>10. DOMAIN parts = 1..(1 + m)
    BY <1>7
<1>11. (\A k \in 1..(1 + m) : row \in Selects(table, parts[k], rows)) <=>
          /\ row \in Selects(table, either, rows)
          /\ \A k \in 1..m : row \in Selects(table, others[k], rows)
    <2>1. parts[1] = either /\ 1 \in 1..(1 + m)
        BY <1>7
    <2>2. \A k \in 1..m : parts[k + 1] = others[k] /\ k + 1 \in 1..(1 + m)
        BY <1>7
    <2>3. \A i \in 1..(1 + m) : i = 1 \/ (i - 1 \in 1..m /\ (i - 1) + 1 = i)
        OBVIOUS
    <2> QED
        BY <2>1, <2>2, <2>3
<1>12. row \in Selects(table, Join(parts, "^"), rows) <=>
          /\ row \in rows
          /\ \E k \in 1..n : row["priority"] = names[k]
          /\ \A k \in 1..m : row \in Selects(table, Additional(additional[k]), rows)
    BY <1>1, <1>4, <1>9, <1>10, <1>11
<1> QED
    BY <1>3, <1>12

\* What the builder adds are tokens.
LEMMA TokensOfTheBuilder ==
    {"^", "!=", "=", ">=", "<=", ">", "<", "LIKE", "NOT LIKE", "BETWEEN", "@", "^OR", "priority", "riority",
     "caller_id", "sys_created_on"} \subseteq Tokens
BY DEF Tokens

\* What the builder makes of an operator or of a priority is a text.
LEMMA NormalizedType ==
    ASSUME NEW value \in Seq(Tokens), value # <<>>
    PROVE  /\ NormalizeOperator(value) \in Seq(Tokens) /\ NormalizeOperator(value) # <<>>
           /\ NormalizePriority(value) \in Seq(Tokens)
<1>1. Head(value) \in Tokens /\ Tail(value) \in Seq(Tokens)
    BY TextEnds
<1>2. "LIKE" \in Tokens /\ "NOT LIKE" \in Tokens /\ "riority" \in Tokens
    BY TokensOfTheBuilder
<1>3. /\ <<"LIKE">> \in Seq(Tokens) /\ <<"NOT LIKE">> \in Seq(Tokens) /\ <<"riority">> \in Seq(Tokens)
      /\ Len(<<"LIKE">>) = 1 /\ Len(<<"NOT LIKE">>) = 1
    BY <1>2, OneIsASeq
<1>4. /\ <<"LIKE">> \o Tail(value) \in Seq(Tokens) /\ <<"LIKE">> \o Tail(value) # <<>>
      /\ <<"NOT LIKE">> \o Tail(value) \in Seq(Tokens) /\ <<"NOT LIKE">> \o Tail(value) # <<>>
      /\ <<"riority">> \o Tail(value) \in Seq(Tokens)
    <2>1. \A p \in Seq(Tokens) : Len(p) = 1 => p \o Tail(value) \in Seq(Tokens) /\ p \o Tail(value) # <<>>
        <3> TAKE p \in Seq(Tokens)
        <3> HAVE Len(p) = 1
        <3>1. p \o Tail(value) \in Seq(Tokens) /\ Len(p \o Tail(value)) = 1 + Len(Tail(value))
            BY <1>1, ConcatType
        <3>2. 1 + Len(Tail(value)) # Len(<<>>)
            BY <1>1
        <3> QED
            BY <3>1, <3>2
    <2>2. <<"riority">> \o Tail(value) \in Seq(Tokens)
        BY <1>1, <1>3, ConcatType
    <2> QED
        BY <1>3, <2>1, <2>2
<1>5. NormalizeOperator(value) \in {<<"LIKE">> \o Tail(value), <<"NOT LIKE">> \o Tail(value), value}
    <2>1. CASE Head(value) = "CONTAINS"
        <3>1. Head(value) \notin {"NOTCONTAINS", "NOT CONTAINS"}
            BY <2>1
        <3> QED
            BY <2>1, <3>1, Zenon DEF NormalizeOperator
    <2>2. CASE Head(value) \in {"NOTCONTAINS", "NOT CONTAINS"}
        <3>1. Head(value) # "CONTAINS"
            BY <2>2
        <3> QED
            BY <2>2, <3>1, Zenon DEF NormalizeOperator
    <2>3. CASE Head(value) # "CONTAINS" /\ Head(value) \notin {"NOTCONTAINS", "NOT CONTAINS"}
        BY <2>3, Zenon DEF NormalizeOperator
    <2> QED
        BY <2>1, <2>2, <2>3
<1>6. NormalizePriority(value) \in {Tail(value), <<"riority">> \o Tail(value), value}
    <2>1. CASE Head(value) = "P"
        <3>1. Head(value) # "priority"
            BY <2>1
        <3> QED
            BY <2>1, <3>1, Zenon DEF NormalizePriority
    <2>2. CASE Head(value) = "priority"
        <3>1. Head(value) # "P"
            BY <2>2
        <3> QED
            BY <2>2, <3>1, Zenon DEF NormalizePriority
    <2>3. CASE Head(value) # "P" /\ Head(value) # "priority"
        BY <2>3, Zenon DEF NormalizePriority
    <2> QED
        BY <2>1, <2>2, <2>3
<1> QED
    BY <1>1, <1>4, <1>5, <1>6

\* Of texts each handler makes a text, if anything.
LEMMA HandlersType ==
    ASSUME NEW field \in Seq(Tokens), field # <<>>, NEW value \in Seq(Tokens), value # <<>>
    PROVE  /\ DateRangeCondition(field, value) \in Seq(Tokens)
           /\ PriorityCondition(field, value) \in Seq(Tokens)
           /\ CallerExclusionCondition(field, value) \in Seq(Tokens)
           /\ BareOrCondition(field, value) \in Seq(Tokens)
           /\ ServiceNowFilterCondition(field, value) \in Seq(Tokens)
           /\ OperatorCondition(field, value) \in Seq(Tokens)
           /\ SuffixOperatorCondition(field, value) \in Seq(Tokens)
           /\ field \o <<"=">> \o value \in Seq(Tokens) /\ field \o <<"=">> \o value # <<>>
<1>0. None \in Seq(Tokens)
    BY DEF None
<1>1. /\ "^" \in Tokens /\ "!=" \in Tokens /\ "=" \in Tokens /\ "BETWEEN" \in Tokens /\ "@" \in Tokens
      /\ "^OR" \in Tokens /\ "priority" \in Tokens /\ "caller_id" \in Tokens /\ "sys_created_on" \in Tokens
      /\ ">=" \in Tokens /\ "<=" \in Tokens /\ ">" \in Tokens /\ "<" \in Tokens
    BY TokensOfTheBuilder
<1>2. STRING \subseteq Tokens
    BY TokensAreTokens
<1>3. field \o value \in Seq(Tokens) /\ field \o <<"=">> \o value \in Seq(Tokens) /\ field \o <<"=">> \o value # <<>>
    BY <1>1, ConcatType, ConditionType
<1>4. DateRangeCondition(field, value) \in Seq(Tokens)
    <2> DEFINE range == DateTexts[Head(value)]
               between == <<"sys_created_on", "BETWEEN", range[1], "@", range[2]>>
    <2>1. Head(value) \in DOMAIN DateTexts => range[1] \in Tokens /\ range[2] \in Tokens
        BY <1>2, LookupAssumption DEF Words
    <2>2. Head(value) \in DOMAIN DateTexts => between \in Seq(Tokens)
        <3> HIDE DEF range
        <3> SUFFICES ASSUME Head(value) \in DOMAIN DateTexts
                     PROVE  between \in Seq(Tokens)
            OBVIOUS
        <3> QED
            BY <1>1, <2>1
    <2>3. DateRangeCondition(field, value) \in {None, value, field \o value}
          \/ (Head(value) \in DOMAIN DateTexts /\ DateRangeCondition(field, value) = between)
        BY Zenon DEF DateRangeCondition
    <2> HIDE DEF between
    <2> QED
        BY <1>0, <1>3, <2>2, <2>3
<1>5. PriorityCondition(field, value) \in Seq(Tokens)
    <2> DEFINE parts == ListOf(value)
               either == [k \in DOMAIN parts |-> <<"priority", "=">> \o NormalizePriority(parts[k])]
    <2>1. parts \in Seq(Seq(Tokens) \ {<<>>})
        BY ListType
    <2>2. \A k \in DOMAIN parts : parts[k] \in Seq(Tokens) /\ parts[k] # <<>>
        BY <2>1
    <2>3. <<"priority", "=">> \in Seq(Tokens)
        BY <1>1
    <2> HIDE DEF parts
    <2>4. \A k \in DOMAIN parts : <<"priority", "=">> \o NormalizePriority(parts[k]) \in Seq(Tokens)
        <3> TAKE k \in DOMAIN parts
        <3>1. NormalizePriority(parts[k]) \in Seq(Tokens)
            BY <2>2, NormalizedType
        <3> QED
            BY <2>3, <3>1, ConcatType
    <2>5. either \in Seq(Seq(Tokens))
        <3>1. PICK m \in Nat : DOMAIN parts = 1..m
            BY <2>1
        <3> QED
            BY <2>4, <3>1
    <2> HIDE DEF either
    <2>6. Join(either, "^OR") \in Seq(Tokens)
        BY <1>1, <2>5, JoinType
    <2>7. PriorityCondition(field, value) \in {None, value, Join(either, "^OR")}
        BY Zenon DEF PriorityCondition, ParsePriorityList, parts, either
    <2> QED
        BY <1>0, <2>6, <2>7
<1>6. CallerExclusionCondition(field, value) \in Seq(Tokens)
    <2>1. ASSUME NEW callers \in Seq(Seq(Tokens))
          PROVE  Excluding(callers) \in Seq(Tokens)
        <3> DEFINE each == [k \in DOMAIN callers |-> <<"caller_id", "!=">> \o callers[k]]
        <3>1. <<"caller_id", "!=">> \in Seq(Tokens)
            BY <1>1
        <3>2. \A k \in DOMAIN callers : <<"caller_id", "!=">> \o callers[k] \in Seq(Tokens)
            BY <3>1, ConcatType
        <3>3. each \in Seq(Seq(Tokens))
            <4>1. PICK m \in Nat : DOMAIN callers = 1..m
                OBVIOUS
            <4> QED
                BY <3>2, <4>1
        <3> HIDE DEF each
        <3>4. Join(each, "^") \in Seq(Tokens)
            BY <1>1, <3>3, JoinType
        <3> QED
            BY <3>4 DEF Excluding, each
    <2> DEFINE known == KnownCallers[Head(value)]
    <2>2. Head(value) \in DOMAIN KnownCallers => <<<<known>>>> \in Seq(Seq(Tokens))
        <3> SUFFICES ASSUME Head(value) \in DOMAIN KnownCallers
                     PROVE  <<<<known>>>> \in Seq(Seq(Tokens))
            OBVIOUS
        <3>1. known \in Tokens
            BY <1>2, LookupAssumption DEF Names, Words
        <3> HIDE DEF known
        <3>2. <<known>> \in Seq(Tokens)
            BY <3>1
        <3> QED
            BY <3>2, OneIsASeq
    <2>3. ListOf(value) \in Seq(Seq(Tokens))
        <3>1. ListOf(value) \in Seq(Seq(Tokens) \ {<<>>})
            BY ListType
        <3>2. Seq(Tokens) \ {<<>>} \subseteq Seq(Tokens)
            OBVIOUS
        <3> QED
            BY <3>1, <3>2, SeqMonotonic
    <2>4. \/ CallerExclusionCondition(field, value) \in {None, value, Excluding(ListOf(value))}
          \/ (Head(value) \in DOMAIN KnownCallers /\ CallerExclusionCondition(field, value) = Excluding(<<<<known>>>>))
        BY Zenon DEF CallerExclusionCondition
    <2> HIDE DEF known
    <2> QED
        BY <1>0, <2>1, <2>2, <2>3, <2>4
<1>7. /\ BareOrCondition(field, value) \in Seq(Tokens)
      /\ ServiceNowFilterCondition(field, value) \in Seq(Tokens)
      /\ OperatorCondition(field, value) \in Seq(Tokens)
    BY <1>0, <1>3, Zenon DEF BareOrCondition, ServiceNowFilterCondition, OperatorCondition
<1>8. SuffixOperatorCondition(field, value) \in Seq(Tokens)
    <2> DEFINE op == SUFFIX_OPERATORS[Last(field)]
    <2>1. Last(field) \in DOMAIN SUFFIX_OPERATORS => op \in Tokens
        BY <1>1 DEF SUFFIX_OPERATORS
    <2>2. Front(field) \in Seq(Tokens)
        BY TextEnds
    <2> HIDE DEF op
    <2>3. Last(field) \in DOMAIN SUFFIX_OPERATORS => Front(field) \o <<op>> \o value \in Seq(Tokens)
        BY <2>1, <2>2, ConditionType
    <2> QED
        BY <1>0, <2>3, Zenon DEF SuffixOperatorCondition, op
<1> QED
    BY <1>3, <1>4, <1>5, <1>6, <1>7, <1>8

\* The builder makes a text of a field and a value.
LEMMA BuilderType ==
    ASSUME NEW field \in Seq(Tokens), field # <<>>, NEW value \in Seq(Tokens), value # <<>>
    PROVE  BuildQueryCondition(field, value) \in Seq(Tokens)
<1> DEFINE w == NormalizeOperator(value)
           conditions == Handlers(field, w)
           filled == {k \in DOMAIN conditions : conditions[k] # None}
<1>1. w \in Seq(Tokens) /\ w # <<>>
    BY NormalizedType
<1> HIDE DEF w
<1>2. /\ DateRangeCondition(field, w) \in Seq(Tokens) /\ PriorityCondition(field, w) \in Seq(Tokens)
      /\ CallerExclusionCondition(field, w) \in Seq(Tokens) /\ BareOrCondition(field, w) \in Seq(Tokens)
      /\ ServiceNowFilterCondition(field, w) \in Seq(Tokens) /\ OperatorCondition(field, w) \in Seq(Tokens)
      /\ SuffixOperatorCondition(field, w) \in Seq(Tokens)
      /\ field \o <<"=">> \o w \in Seq(Tokens) /\ field \o <<"=">> \o w # <<>>
    BY <1>1, HandlersType
<1>3. /\ DOMAIN conditions = 1..8 /\ conditions[8] = field \o <<"=">> \o w
      /\ \A k \in 1..8 : conditions[k] \in Seq(Tokens)
    <2>1. \A a1, a2, a3, a4, a5, a6, a7, a8 \in Seq(Tokens) :
             LET t == <<a1, a2, a3, a4, a5, a6, a7, a8>>
             IN  DOMAIN t = 1..8 /\ t[8] = a8 /\ \A k \in 1..8 : t[k] \in Seq(Tokens)
        OBVIOUS
    <2> QED
        BY <1>2, <2>1, Zenon DEF Handlers
<1> HIDE DEF conditions
<1>4. filled \in SUBSET Nat /\ filled \in SUBSET (1..8) /\ filled # {}
    <2>1. filled \in SUBSET (1..8)
        BY <1>3
    <2>2. conditions[8] # None /\ 8 \in DOMAIN conditions
        BY <1>2, <1>3 DEF None
    <2> QED
        BY <2>1, <2>2
<1> HIDE DEF filled
<1>5. Min(filled) \in filled
    BY <1>4, LeastOf
<1>6. conditions[Min(filled)] \in Seq(Tokens)
    BY <1>3, <1>4, <1>5
<1>7. BuildQueryCondition(field, value) \in {value, conditions[Min(filled)]}
    BY Zenon DEF BuildQueryCondition, conditions, filled, w
<1> QED
    BY <1>6, <1>7

\* The keywords of a text are words of it.
LEMMA KeywordsAreWords ==
    ASSUME NEW text \in Texts
    PROVE  /\ ExtractKeywords(text) \in Seq(Words)
           /\ \A k \in DOMAIN ExtractKeywords(text) : ExtractKeywords(text)[k] \in ToSet(text)
<1> DEFINE L == Len(text)
           NumbersOf(kind) == {i \in DOMAIN text : text[i] \in RecordNumbers[kind]}
           kinds == {kind \in DOMAIN RecordNumbers : NumbersOf(kind) # {}}
           words == {i \in DOMAIN text : text[i] \in ContentWords /\ \A j \in 1..(i - 1) : text[j] # text[i]}
           Word(n) == Nth(words, n)
           most == Min({3, Cardinality(words)})
           number == Min(NumbersOf(Min(kinds)))
<1>1. L \in Nat /\ DOMAIN text = 1..L
    BY DEF Texts
<1>2. ExtractKeywords(text) = IF kinds # {} THEN <<text[number]>> ELSE [n \in 1..most |-> text[Word(n)]]
    BY DEF ExtractKeywords
<1>3. ContentWords \subseteq Words /\ RecordNumbers \in Seq(SUBSET Words)
    BY WordsAssumption
<1>4. \A i \in 1..L : text[i] \in ToSet(text)
    BY <1>1 DEF ToSet
<1>5. CASE kinds # {}
    <2>1. kinds \in SUBSET Nat
        BY <1>3
    <2>2. Min(kinds) \in kinds
        BY <1>5, <2>1, LeastOf
    <2> DEFINE kind == Min(kinds)
    <2>3. kind \in DOMAIN RecordNumbers /\ NumbersOf(kind) # {} /\ NumbersOf(kind) \in SUBSET Nat
        BY <1>1, <2>2
    <2>4. number \in NumbersOf(kind)
        <3> HIDE DEF NumbersOf, kind
        <3>1. Min(NumbersOf(kind)) \in NumbersOf(kind)
            BY <2>3, LeastOf
        <3> QED
            BY <3>1 DEF kind
    <2> HIDE DEF kind, number
    <2>5. number \in 1..L /\ text[number] \in Words
        BY <1>1, <1>3, <2>3, <2>4
    <2> DEFINE word == text[number]
    <2>6. <<word>> \in Seq(Words) /\ DOMAIN <<word>> = {1} /\ <<word>>[1] = word
        BY <2>5
    <2>7. ExtractKeywords(text) = <<word>>
        BY <1>2, <1>5
    <2>8. word \in ToSet(text)
        BY <1>4, <2>5
    <2> HIDE DEF word
    <2> QED
        BY <2>6, <2>7, <2>8
<1>6. CASE kinds = {}
    <2>1. words \in SUBSET (1..L)
        BY <1>1
    <2>2. \A i \in words : text[i] \in Words /\ text[i] \in ToSet(text)
        BY <1>1, <1>3, <1>4
    <2>3. Cardinality(words) \in Nat
        <3>1. IsFiniteSet(1..L)
            BY <1>1, FS_Interval
        <3>2. IsFiniteSet(words)
            BY <2>1, <3>1, FS_Subset
        <3> QED
            BY <3>2, FS_CardinalityType
    <2> HIDE DEF words
    <2>4. most \in Nat /\ most <= Cardinality(words)
        BY <2>3, MinOfTwo
    <2> HIDE DEF most
    <2>5. ASSUME NEW n \in 1..most
          PROVE  Word(n) \in words
        <3>1. n \in 1..Cardinality(words)
            BY <2>3, <2>4
        <3>2. words \in SUBSET (0..L)
            BY <1>1, <2>1
        <3> QED
            BY <1>1, <3>1, <3>2, NthPosition
    <2> HIDE DEF Word
    <2> DEFINE found == [n \in 1..most |-> text[Word(n)]]
    <2>6. \A n \in 1..most : found[n] \in Words /\ found[n] \in ToSet(text)
        BY <2>2, <2>5
    <2>7. found \in [1..most -> Words] /\ DOMAIN found = 1..most
        BY <2>2, <2>5
    <2>8. ExtractKeywords(text) = found
        BY <1>2, <1>6
    <2> HIDE DEF found
    <2>9. found \in Seq(Words)
        BY <2>4, <2>7
    <2> QED
        BY <2>6, <2>7, <2>8, <2>9
<1> QED
    BY <1>5, <1>6

\* A search for words is a query.
LEMMA TextQueryType ==
    ASSUME NEW keywords \in Seq(Words)
    PROVE  TextQuery(keywords) \in Queries /\ Intact(TextQuery(keywords))
<1> DEFINE each == [k \in DOMAIN keywords |-> <<"short_description", "LIKE", keywords[k]>>]
<1>1. Words \subseteq Plain /\ "short_description" \in Plain /\ "LIKE" \in Plain /\ "^OR" \in Plain
    BY TokensAreTokens DEF Plain, Tokens, Words
<1>2. PICK m \in Nat : DOMAIN keywords = 1..m /\ \A k \in 1..m : keywords[k] \in Words
    OBVIOUS
<1>3. \A k \in 1..m : keywords[k] \in Plain
    BY <1>1, <1>2
<1>4. \A k \in 1..m : <<"short_description", "LIKE", keywords[k]>> \in Seq(Plain)
    BY <1>1, <1>3, ThreeAreASeq
<1>5. each \in Seq(Seq(Plain))
    BY <1>2, <1>4
<1> HIDE DEF each
<1>6. Join(each, "^OR") \in Seq(Plain)
    BY <1>1, <1>5, JoinType
<1> QED
    BY <1>6, PlainIsIntact DEF TextQuery, each

\* A search for keywords is answered with the rows whose short description has one of
\* them in it, and no others (query_table_by_text).
THEOREM TextSelectsWords ==
    ASSUME NEW table, "short_description" \in FieldsOf[table],
           NEW keywords \in Seq(Words), keywords # <<>>, NEW rows, NEW row
    PROVE  row \in Returned(table, EncodeQueryString(TextQuery(keywords)), rows) <=>
              row \in rows /\ \E k \in DOMAIN keywords : <<keywords[k], row["short_description"]>> \in Matches["LIKE"]
<1>1. TextQuery(keywords) \in Seq(Tokens) /\ Intact(TextQuery(keywords))
    BY TextQueryType DEF Queries
<1>2. Returned(table, EncodeQueryString(TextQuery(keywords)), rows) = Selects(table, TextQuery(keywords), rows)
    BY <1>1, IntactReturns
<1>3. row \in Selects(table, TextQuery(keywords), rows) <=>
         row \in rows /\ \E k \in DOMAIN keywords : <<keywords[k], row["short_description"]>> \in Matches["LIKE"]
    BY KeywordsSelect
<1> QED
    BY <1>2, <1>3

\* A filter that a caller gives is one of tokens.
LEMMA FilterTypes ==
    ASSUME NEW filter \in Filters
    PROVE  /\ filter.field \in Seq(Tokens) /\ filter.field # <<>>
           /\ filter.value \in Seq(Tokens) /\ filter.value # <<>>
           /\ BuildQueryCondition(filter.field, filter.value) \in Seq(Tokens)
           /\ Additional(filter) \in Seq(Tokens)
<1>1. Seq(STRING) \subseteq Seq(Tokens)
    BY TokensAreTokens
<1>2. /\ filter.field \in Seq(STRING) /\ filter.field # <<>>
      /\ filter.value \in Seq(STRING) /\ filter.value # <<>>
    BY DEF Filters, Texts
<1>3. PICK field \in Seq(Tokens), value \in Seq(Tokens) : field = filter.field /\ value = filter.value
    BY <1>1, <1>2
<1>4. field # <<>> /\ value # <<>>
    BY <1>2, <1>3
<1>5. BuildQueryCondition(field, value) \in Seq(Tokens)
    BY <1>4, BuilderType
<1>6. "=" \in Tokens
    BY TokensOfTheBuilder
<1>7. field \o <<"=">> \o value \in Seq(Tokens)
    BY <1>6, ConditionType
<1>8. Additional(filter) \in {value, field \o <<"=">> \o value}
    BY <1>3, Zenon DEF Additional
<1> QED
    BY <1>3, <1>4, <1>5, <1>7, <1>8

\* What a dictionary becomes is a query.
LEMMA QueryStringType ==
    ASSUME NEW filters \in Seq(Filters)
    PROVE  BuildQueryString(filters) \in Queries
<1>1. PICK m \in Nat : DOMAIN filters = 1..m /\ \A k \in 1..m : filters[k] \in Filters
    OBVIOUS
<1>2. \A k \in 1..m : BuildQueryCondition(filters[k].field, filters[k].value) \in Seq(Tokens)
    BY <1>1, FilterTypes
<1>3. "^" \in Tokens
    BY TokensOfTheBuilder
<1> QED
    BY <1>1, <1>2, <1>3, DictionaryType DEF Queries

\* What get_records_by_priority asks for has the tokens of what it is given.
LEMMA PriorityQueryType ==
    ASSUME NEW T, {"priority", "=", "^OR", "^"} \subseteq T, NEW priorities \in Seq(Seq(T)),
           NEW additional, NEW n \in Nat, TokensOf(additional, n, T)
    PROVE  PriorityQuery(priorities, additional) \in Seq(T)
<1> DEFINE each == [k \in DOMAIN priorities |-> <<"priority", "=">> \o priorities[k]]
           others == [k \in DOMAIN additional |-> Additional(additional[k])]
           either == Join(each, "^OR")
<1>1. "priority" \in T /\ "=" \in T /\ "^OR" \in T /\ "^" \in T
    OBVIOUS
<1>2. PICK m \in Nat : DOMAIN priorities = 1..m /\ \A k \in 1..m : priorities[k] \in Seq(T)
    OBVIOUS
<1>3. \A k \in 1..m : <<"priority", "=">> \o priorities[k] \in Seq(T)
    <2>1. <<"priority", "=">> \in Seq(T)
        BY <1>1
    <2> QED
        BY <1>2, <2>1, ConcatType
<1>4. each \in Seq(Seq(T))
    BY <1>2, <1>3
<1>5. others \in Seq(Seq(T))
    BY DEF TokensOf
<1> HIDE DEF each, others
<1>6. either \in Seq(T)
    BY <1>1, <1>4, JoinType
<1> HIDE DEF either
<1>7. <<either>> \in Seq(Seq(T))
    BY <1>6, OneIsASeq
<1>8. <<either>> \o others \in Seq(Seq(T))
    BY <1>5, <1>7, ConcatType
<1>9. Join(<<either>> \o others, "^") \in Seq(T)
    BY <1>1, <1>8, JoinType
<1> QED
    BY <1>9 DEF PriorityQuery, either, each, others

\* A number asked for makes a query.
LEMMA NumberQueryType ==
    ASSUME NEW number \in STRING
    PROVE  /\ NumberQuery(number) \in Queries
           /\ number \in Names => Intact(NumberQuery(number))
<1>1. "number" \in Tokens /\ "=" \in Tokens /\ number \in Tokens
    BY TokensAreTokens DEF Tokens
<1>2. NumberQuery(number) \in Queries
    BY <1>1, ThreeAreASeq DEF NumberQuery, Queries
<1>3. ASSUME number \in Names
      PROVE  Intact(NumberQuery(number))
    <2>1. "number" \in Plain /\ "=" \in Plain /\ number \in Plain
        BY <1>1, <1>3 DEF Plain, Names, Words
    <2>2. NumberQuery(number) \in Seq(Plain)
        BY <2>1, ThreeAreASeq DEF NumberQuery
    <2> QED
        BY <2>2, PlainIsIntact
<1> QED
    BY <1>2, <1>3

\* What a call asks for first is a query.
LEMMA AsksForAQuery ==
    ASSUME NEW c \in Calls, Asks(c)
    PROVE  FirstQuery(c) \in Queries
<1>1. CASE TextOnly(c)
    <2>1. WordsOf(c) \in Texts
        BY <1>1, CallsAssumption
    <2>2. ExtractKeywords(WordsOf(c)) \in Seq(Words)
        BY <2>1, KeywordsAreWords
    <2>3. TextQuery(ExtractKeywords(WordsOf(c))) \in Queries
        BY <2>2, TextQueryType
    <2>4. c.tool \notin {"record", "similar"} /\ c.tool # "priority"
        BY <1>1 DEF TextOnly
    <2>5. FirstQuery(c) = TextQuery(ExtractKeywords(WordsOf(c)))
        BY <1>1, <2>4, Zenon DEF FirstQuery
    <2> QED
        BY <2>3, <2>5
<1>2. CASE c.tool \in {"record", "similar"}
    <2>1. ~TextOnly(c) /\ c.tool # "priority" /\ ~Refused(c)
        BY <1>2 DEF TextOnly, Asks
    <2>2. c.number \in STRING
        BY <1>2, <2>1, CallsAssumption, SimilarAssumption DEF Names, Words
    <2>3. FirstQuery(c) = NumberQuery(c.number)
        BY <1>2, <2>1, Zenon DEF FirstQuery
    <2> QED
        BY <2>2, <2>3, NumberQueryType
<1>3. CASE c.tool = "priority"
    <2>1. ~TextOnly(c) /\ c.tool \notin {"record", "similar"}
        BY <1>3 DEF TextOnly
    <2>2. c.priorities \in Seq(Texts \ {<<>>}) /\ c.filters \in Seq(Filters)
        BY <1>3, CallsAssumption
    <2>3. FirstQuery(c) = PriorityQuery(c.priorities, c.filters)
        BY <1>3, <2>1, Zenon DEF FirstQuery
    <2>4. c.priorities \in Seq(Seq(Tokens))
        <3>1. Texts \ {<<>>} \subseteq Seq(Tokens)
            BY TokensAreTokens DEF Texts
        <3>2. Seq(Texts \ {<<>>}) \subseteq Seq(Seq(Tokens))
            BY <3>1, SeqMonotonic
        <3> QED
            BY <2>2, <3>2
    <2>5. PICK n \in Nat : DOMAIN c.filters = 1..n /\ \A k \in 1..n : c.filters[k] \in Filters
        BY <2>2
    <2>6. TokensOf(c.filters, n, Tokens)
        BY <2>5, FilterTypes DEF TokensOf
    <2>7. PriorityQuery(c.priorities, c.filters) \in Seq(Tokens)
        BY <2>4, <2>6, TokensOfTheBuilder, PriorityQueryType
    <2> QED
        BY <2>3, <2>7 DEF Queries
<1>4. CASE ~TextOnly(c) /\ c.tool \notin {"record", "similar"} /\ c.tool # "priority"
    <2>1. FiltersOf(c) \in Seq(Filters)
        BY CallsAssumption
    <2>2. FirstQuery(c) = BuildQueryString(FiltersOf(c))
        BY <1>4, Zenon DEF FirstQuery
    <2> QED
        BY <2>1, <2>2, QueryStringType
<1> QED
    BY <1>1, <1>2, <1>3, <1>4

-----------------------------------------------------------------------------
(* How each form of a filter reads                                          *)

\* The least number is the one that is at most each other.
LEMMA LeastIs ==
    ASSUME NEW S \in SUBSET Nat, NEW m \in S, \A y \in S : m <= y
    PROVE  Min(S) = m
<1>1. \A x \in S : (\A y \in S : x <= y) => x = m
    <2> TAKE x \in S
    <2> HAVE \A y \in S : x <= y
    <2>1. x <= m /\ m <= x /\ x \in Nat /\ m \in Nat
        OBVIOUS
    <2> QED
        BY <2>1
<1> QED
    BY <1>1 DEF Min

\* The handlers are asked in their order.
LEMMA HandlersInOrder ==
    ASSUME NEW field, NEW value
    PROVE  /\ DOMAIN Handlers(field, value) = 1..8
           /\ Handlers(field, value)[1] = DateRangeCondition(field, value)
           /\ Handlers(field, value)[2] = PriorityCondition(field, value)
           /\ Handlers(field, value)[3] = CallerExclusionCondition(field, value)
           /\ Handlers(field, value)[4] = BareOrCondition(field, value)
           /\ Handlers(field, value)[5] = ServiceNowFilterCondition(field, value)
           /\ Handlers(field, value)[6] = OperatorCondition(field, value)
           /\ Handlers(field, value)[7] = SuffixOperatorCondition(field, value)
           /\ Handlers(field, value)[8] = field \o <<"=">> \o value
<1>1. \A a, b, c, d, e, f, g, h :
         LET t == <<a, b, c, d, e, f, g, h>>
         IN  /\ DOMAIN t = 1..8 /\ t[1] = a /\ t[2] = b /\ t[3] = c /\ t[4] = d
             /\ t[5] = e /\ t[6] = f /\ t[7] = g /\ t[8] = h
    OBVIOUS
<1> QED
    BY <1>1, Zenon DEF Handlers

\* The first handler that makes something of a filter makes its condition.
LEMMA FirstHandler ==
    ASSUME NEW field, field \notin {<<"_complete_query">>, <<"_complete_caller_exclusion">>},
           NEW given, NEW value, NormalizeOperator(given) = value,
           NEW k \in 1..8, Handlers(field, value)[k] # None,
           \A j \in 1..8 : j < k => Handlers(field, value)[j] = None
    PROVE  BuildQueryCondition(field, given) = Handlers(field, value)[k]
<1> DEFINE conditions == Handlers(field, value)
           filled == {j \in DOMAIN conditions : conditions[j] # None}
<1>1. DOMAIN conditions = 1..8
    BY HandlersInOrder
<1>2. BuildQueryCondition(field, given) = conditions[Min(filled)]
    BY Zenon DEF BuildQueryCondition
<1>3. conditions[k] # None /\ \A j \in 1..8 : j < k => conditions[j] = None
    OBVIOUS
<1> HIDE DEF conditions
<1>4. filled \in SUBSET Nat /\ k \in filled
    BY <1>1, <1>3
<1>5. \A j \in filled : k <= j
    <2> TAKE j \in filled
    <2>1. j \in 1..8 /\ ~(j < k)
        BY <1>1, <1>3
    <2> QED
        BY <2>1
<1> HIDE DEF filled
<1>6. Min(filled) = k
    BY <1>4, <1>5, LeastIs
<1> QED
    BY <1>2, <1>6 DEF conditions

\* The handlers that are asked before the one that answers, for each that may.
LEMMA HandledAtFirst ==
    ASSUME NEW field, field \notin {<<"_complete_query">>, <<"_complete_caller_exclusion">>},
           NEW given, NEW value, NormalizeOperator(given) = value, NEW condition, condition # None
    PROVE  /\ DateRangeCondition(field, value) = condition => BuildQueryCondition(field, given) = condition
           /\ /\ DateRangeCondition(field, value) = None
              /\ PriorityCondition(field, value) = condition
              => BuildQueryCondition(field, given) = condition
           /\ /\ DateRangeCondition(field, value) = None
              /\ PriorityCondition(field, value) = None
              /\ CallerExclusionCondition(field, value) = condition
              => BuildQueryCondition(field, given) = condition
<1> DEFINE h == Handlers(field, value)
<1>1. /\ h[1] = DateRangeCondition(field, value) /\ h[2] = PriorityCondition(field, value)
      /\ h[3] = CallerExclusionCondition(field, value)
    BY HandlersInOrder
<1>2. \A k \in 1..8 : h[k] # None /\ (\A j \in 1..8 : j < k => h[j] = None) => BuildQueryCondition(field, given) = h[k]
    BY FirstHandler
<1> HIDE DEF h
<1>3. h[1] = condition => BuildQueryCondition(field, given) = condition
    BY <1>2
<1>4. h[1] = None /\ h[2] = condition => BuildQueryCondition(field, given) = condition
    <2> SUFFICES ASSUME h[1] = None, h[2] = condition
                 PROVE  BuildQueryCondition(field, given) = condition
        OBVIOUS
    <2>1. \A j \in 1..8 : j < 2 => j = 1
        OBVIOUS
    <2> QED
        BY <1>2, <2>1
<1>5. h[1] = None /\ h[2] = None /\ h[3] = condition => BuildQueryCondition(field, given) = condition
    <2> SUFFICES ASSUME h[1] = None, h[2] = None, h[3] = condition
                 PROVE  BuildQueryCondition(field, given) = condition
        OBVIOUS
    <2>1. \A j \in 1..8 : j < 3 => j = 1 \/ j = 2
        OBVIOUS
    <2> QED
        BY <1>2, <2>1
<1> QED
    BY <1>1, <1>3, <1>4, <1>5

\* The condition of a later handler, where the first ones and those of alternatives give none.
LEMMA HandledAtLast ==
    ASSUME NEW field, field \notin {<<"_complete_query">>, <<"_complete_caller_exclusion">>},
           NEW given, NEW value, NormalizeOperator(given) = value, NEW condition, condition # None,
           DateRangeCondition(field, value) = None, PriorityCondition(field, value) = None,
           CallerExclusionCondition(field, value) = None, ~Has(value, "^OR")
    PROVE  /\ OperatorCondition(field, value) = condition => BuildQueryCondition(field, given) = condition
           /\ /\ OperatorCondition(field, value) = None
              /\ SuffixOperatorCondition(field, value) = condition
              => BuildQueryCondition(field, given) = condition
           /\ /\ OperatorCondition(field, value) = None
              /\ SuffixOperatorCondition(field, value) = None
              /\ field \o <<"=">> \o value = condition
              => BuildQueryCondition(field, given) = condition
<1> DEFINE h == Handlers(field, value)
<1>1. BareOrCondition(field, value) = None /\ ServiceNowFilterCondition(field, value) = None
    BY Zenon DEF BareOrCondition, ServiceNowFilterCondition
<1>2. /\ h[1] = None /\ h[2] = None /\ h[3] = None /\ h[4] = None /\ h[5] = None
      /\ h[6] = OperatorCondition(field, value) /\ h[7] = SuffixOperatorCondition(field, value)
      /\ h[8] = field \o <<"=">> \o value
    BY <1>1, HandlersInOrder
<1>3. \A k \in 1..8 : h[k] # None /\ (\A j \in 1..8 : j < k => h[j] = None) => BuildQueryCondition(field, given) = h[k]
    BY FirstHandler
<1> HIDE DEF h
<1>4. \A j \in 1..8 : j < 6 => h[j] = None
    <2> TAKE j \in 1..8
    <2> HAVE j < 6
    <2>1. j = 1 \/ j = 2 \/ j = 3 \/ j = 4 \/ j = 5
        OBVIOUS
    <2> QED
        BY <1>2, <2>1
<1>5. h[6] = condition => BuildQueryCondition(field, given) = condition
    BY <1>3, <1>4
<1>6. h[6] = None /\ h[7] = condition => BuildQueryCondition(field, given) = condition
    <2> SUFFICES ASSUME h[6] = None, h[7] = condition
                 PROVE  BuildQueryCondition(field, given) = condition
        OBVIOUS
    <2>1. \A j \in 1..8 : j < 7 => j < 6 \/ j = 6
        OBVIOUS
    <2> QED
        BY <1>3, <1>4, <2>1
<1>7. h[6] = None /\ h[7] = None /\ h[8] = condition => BuildQueryCondition(field, given) = condition
    <2> SUFFICES ASSUME h[6] = None, h[7] = None, h[8] = condition
                 PROVE  BuildQueryCondition(field, given) = condition
        OBVIOUS
    <2>1. \A j \in 1..8 : j < 8 => j < 6 \/ j = 6 \/ j = 7
        OBVIOUS
    <2> QED
        BY <1>3, <1>4, <2>1
<1> QED
    BY <1>2, <1>5, <1>6, <1>7

\* Texts of one token and of two.
LEMMA OneTokenText ==
    ASSUME NEW T, NEW text \in Seq(T), Len(text) = 1
    PROVE  text[1] \in T /\ text = <<text[1]>> /\ Head(text) = text[1]
<1>1. text \in [1..1 -> T]
    OBVIOUS
<1> QED
    BY <1>1

LEMMA TwoTokenText ==
    ASSUME NEW T, NEW text \in Seq(T), Len(text) = 2
    PROVE  text[1] \in T /\ text[2] \in T /\ text = <<text[1], text[2]>> /\ Head(text) = text[1]
<1>1. text \in [1..2 -> T]
    OBVIOUS
<1> QED
    BY <1>1

\* A token before two others.
LEMMA TwoAndOne ==
    ASSUME NEW a, NEW b, NEW c
    PROVE  /\ <<a>> \o <<b, c>> = <<a, b, c>> /\ <<a, b, c>> # <<>>
           /\ ~(Len(<<b, c>>) = 1)
<1> DEFINE T == {a, b, c}
           p == <<a>>
           q == <<b>>
           r == <<c>>
<1>1. p \in Seq(T) /\ q \in Seq(T) /\ r \in Seq(T)
    BY OneIsASeq
<1>4. q \o r = <<b, c>> /\ p \o q \o r = <<a, b, c>>
    BY TwoJoined, ThreeJoined
<1> HIDE DEF p, q, r, T
<1>2. (p \o q) \o r = p \o (q \o r)
    BY <1>1, ConcatAssociative
<1>3. ~(Len(<<b, c>>) = 1) /\ <<a, b, c>> # <<>>
    OBVIOUS
<1> QED
    BY <1>2, <1>3, <1>4 DEF p

\* What a field and a value have, one token each.
LEMMA TokensInText ==
    ASSUME NEW a, NEW b, NEW token
    PROVE  /\ Has(<<a>>, token) <=> token = a
           /\ Has(<<a, b>>, token) <=> token = a \/ token = b
           /\ Last(<<a>>) = a /\ Last(<<a, b>>) = b /\ Front(<<a, b>>) = <<a>> /\ Head(<<a, b>>) = a
           /\ Tail(<<a, b>>) = <<b>> /\ Head(<<a>>) = a
<1>1. /\ DOMAIN <<a>> = {1} /\ <<a>>[1] = a
      /\ DOMAIN <<a, b>> = {1, 2} /\ <<a, b>>[1] = a /\ <<a, b>>[2] = b
    OBVIOUS
<1>2. (Has(<<a>>, token) <=> token = a) /\ (Has(<<a, b>>, token) <=> token = a \/ token = b)
    BY <1>1 DEF Has
<1>3. Last(<<a>>) = a /\ Last(<<a, b>>) = b
    BY DEF Last
<1>4. Front(<<a, b>>) = <<a>>
    <2> DEFINE T == {a, b}
               s == <<a, b>>
    <2>1. s \in Seq(T) /\ Len(s) = 2 /\ s[1] = a
        OBVIOUS
    <2> HIDE DEF s, T
    <2>2. SubSeq(s, 1, 1) = <<s[1]>>
        BY <2>1, OneToken
    <2>3. Front(s) = <<a>>
        BY <2>1, <2>2 DEF Front
    <2> QED
        BY <2>3 DEF s
<1> QED
    BY <1>2, <1>3, <1>4

\* A name is nothing the builder looks for; a field of a table is no key of its own.
LEMMA NamesAreNames ==
    ASSUME NEW v \in Names
    PROVE  /\ v \notin {"^", "^OR", "NULL", "CONTAINS", "NOTCONTAINS", "NOT CONTAINS", ",", "P", "priority"}
           /\ v \notin QueryOperators /\ v \notin Comparisons
           /\ v \notin SN_PREFIX_OPERATORS \cup {"IN"} /\ v \notin {"BETWEEN", ">=", "<="}
BY DEF Names, Words, QueryOperators, Comparisons

\* A field is nothing that the builder or the instance looks for.
LEMMA FieldsAreFields ==
    ASSUME NEW f \in Fields
    PROVE  /\ f \notin QueryOperators \cup {"^", "^OR"} /\ f \notin DOMAIN SUFFIX_OPERATORS
           /\ <<f>> \notin {<<"exclude_caller">>, <<"caller_exclusion">>}
           /\ <<f>> \notin {<<"_complete_query">>, <<"_complete_caller_exclusion">>}
<1>1. /\ f \notin QueryOperators \cup {"^", "^OR"} /\ f \notin DOMAIN SUFFIX_OPERATORS
      /\ f # "exclude_caller" /\ f # "caller_exclusion" /\ f # "_complete_query" /\ f # "_complete_caller_exclusion"
    BY DEF Fields, Words
<1>2. \A x, y : <<x>> = <<y>> => x = y
    OBVIOUS
<1> QED
    BY <1>1, <1>2

\* A comparison holds as numbers and names compare.
LEMMA ComparisonHolds ==
    ASSUME NEW field, NEW op \in Comparisons, NEW value, value # "NULL", NEW row
    PROVE  Holds([field |-> <<field>>, op |-> op, value |-> <<value>>], row) <=> Compare(row[field], op, value)
<1> DEFINE condition == [field |-> <<field>>, op |-> op, value |-> <<value>>]
<1>1. condition.op = op /\ Head(condition.field) = field /\ condition.value = <<value>> /\ condition.value[1] = value
    OBVIOUS
<1>2. \A x : <<value>> = <<x>> <=> x = value
    OBVIOUS
<1>3. <<value>> # <<"NULL">>
    BY <1>2
<1>4. op \in {">=", "<=", ">", "<", "=", "!="}
    BY DEF Comparisons
<1> HIDE DEF condition
<1>5. Holds(condition, row) <=> Compare(row[field], op, value)
    BY <1>1, <1>2, <1>3, <1>4 DEF Holds, Compare
<1> QED
    BY <1>5 DEF condition

\* One comparison of a field with a name selects the rows that compare so.
LEMMA OneComparisonSelects ==
    ASSUME NEW table, NEW field \in FieldsOf[table] \cap Fields, NEW op \in Comparisons, NEW value \in Names,
           NEW rows, NEW row
    PROVE  row \in Selects(table, <<field, op, value>>, rows) <=> row \in rows /\ Compare(row[field], op, value)
<1>1. field \in FieldsOf[table] /\ field \notin QueryOperators \cup {"^", "^OR"}
    BY FieldsAreFields
<1>2. value \notin {"^", "^OR"} /\ value # "NULL"
    BY NamesAreNames
<1>3. op \in QueryOperators
    BY DEF Comparisons, QueryOperators
<1>4. row \in Selects(table, <<field, op, value>>, rows) <=>
         row \in rows /\ Holds([field |-> <<field>>, op |-> op, value |-> <<value>>], row)
    BY <1>1, <1>2, <1>3, OneConditionSelects
<1>5. Holds([field |-> <<field>>, op |-> op, value |-> <<value>>], row) <=> Compare(row[field], op, value)
    BY <1>2, ComparisonHolds
<1> QED
    BY <1>4, <1>5

\* What the builder makes of a field and a name.
LEMMA EqualityCondition ==
    ASSUME NEW f \in Fields, NEW v \in Names, f = "sys_created_on" => v \notin DOMAIN DateTexts
    PROVE  BuildQueryCondition(<<f>>, <<v>>) = <<f, "=", v>>
<1> DEFINE field == <<f>>
           value == <<v>>
<1>1. /\ Head(value) = v /\ Last(field) = f /\ \A token : Has(value, token) <=> token = v
    BY TokensInText
<1>2. /\ field \notin {<<"exclude_caller">>, <<"caller_exclusion">>}
      /\ field \notin {<<"_complete_query">>, <<"_complete_caller_exclusion">>}
      /\ f \notin DOMAIN SUFFIX_OPERATORS
    BY FieldsAreFields
<1>3. /\ v \notin {"^", "^OR", "NULL", "CONTAINS", "NOTCONTAINS", "NOT CONTAINS", ",", "P", "priority"}
      /\ v \notin QueryOperators /\ v \notin Comparisons
      /\ v \notin SN_PREFIX_OPERATORS \cup {"IN"} /\ v \notin {"BETWEEN", ">=", "<="}
    BY NamesAreNames
<1>4. field = <<"sys_created_on">> => f = "sys_created_on"
    OBVIOUS
<1>5. field \o <<"=">> \o value = <<f, "=", v>> /\ <<f, "=", v>> # None
    <2>1. PICK eq : eq = "="
        OBVIOUS
    <2>2. <<f>> \o <<eq>> \o <<v>> = <<f, eq, v>>
        BY ThreeJoined
    <2> QED
        BY <2>1, <2>2 DEF None
<1> HIDE DEF field, value
<1>6. NormalizeOperator(value) = value
    <2>1. Head(value) # "CONTAINS" /\ Head(value) \notin {"NOTCONTAINS", "NOT CONTAINS"}
        BY <1>1, <1>3
    <2> QED
        BY <2>1, Zenon DEF NormalizeOperator
<1>7. DateRangeCondition(field, value) = None
    <2>1. ~Has(value, "BETWEEN") /\ Head(value) \notin {">=", "<="}
        BY <1>1, <1>3
    <2>2. field = <<"sys_created_on">> => Head(value) \notin DOMAIN DateTexts
        BY <1>1, <1>4
    <2> QED
        BY <2>1, <2>2, Zenon DEF DateRangeCondition
<1>8. PriorityCondition(field, value) = None
    <2>1. ~Has(value, ",") /\ ~StartsWithP(value)
        BY <1>1, <1>3 DEF StartsWithP
    <2> QED
        BY <2>1, Zenon DEF PriorityCondition
<1>9. CallerExclusionCondition(field, value) = None
    BY <1>2, Zenon DEF CallerExclusionCondition
<1>10. ~Has(value, "^OR") /\ ~HasOperatorInValue(value)
    BY <1>1, <1>3 DEF HasOperatorInValue
<1>11. OperatorCondition(field, value) = None
    BY <1>10, Zenon DEF OperatorCondition
<1>12. SuffixOperatorCondition(field, value) = None
    BY <1>1, <1>2, Zenon DEF SuffixOperatorCondition
<1> DEFINE condition == <<f, "=", v>>
<1>13. field \o <<"=">> \o value = condition /\ condition # None
    BY <1>5
<1> HIDE DEF condition
<1>14. BuildQueryCondition(field, value) = condition
    BY <1>2, <1>6, <1>7, <1>8, <1>9, <1>10, <1>11, <1>12, <1>13, HandledAtLast
<1> QED
    BY <1>14 DEF field, value, condition

\* What it makes of a field and an operator with a name, whatever field it is.
LEMMA OperatorWithName ==
    ASSUME NEW f \in Fields, NEW op, op \in Comparisons \cup {"LIKE", "NOT LIKE"}, NEW v \in Names,
           NEW given, NormalizeOperator(given) = <<op, v>>
    PROVE  BuildQueryCondition(<<f>>, given) = <<f, op, v>>
<1> DEFINE field == <<f>>
           value == <<op, v>>
<1>1. /\ Head(value) = op /\ Last(field) = f /\ \A token : Has(value, token) <=> token = op \/ token = v
    BY TokensInText
<1>2. /\ field \notin {<<"exclude_caller">>, <<"caller_exclusion">>}
      /\ field \notin {<<"_complete_query">>, <<"_complete_caller_exclusion">>}
      /\ f \notin DOMAIN SUFFIX_OPERATORS
    BY FieldsAreFields
<1>3. /\ v \notin {"^", "^OR", "NULL", "CONTAINS", "NOTCONTAINS", "NOT CONTAINS", ",", "P", "priority"}
      /\ v \notin QueryOperators /\ v \notin Comparisons
      /\ v \notin SN_PREFIX_OPERATORS \cup {"IN"} /\ v \notin {"BETWEEN", ">=", "<="}
    BY NamesAreNames
<1>4. op \in {">=", "<=", ">", "<", "=", "!=", "LIKE", "NOT LIKE"}
    BY DEF Comparisons
<1>5. field \o value = <<f, op, v>> /\ <<f, op, v>> # None
    BY TwoAndOne DEF None
<1>6. NormalizeOperator(given) = value
    OBVIOUS
<1> DEFINE condition == <<f, op, v>>
<1>7. field \o value = condition /\ condition # None
    BY <1>5
<1>8. ~(Len(value) = 1)
    BY TwoAndOne, Zenon
<1> HIDE DEF field, value, condition
<1>9. ~Has(value, "BETWEEN") /\ ~Has(value, ",") /\ ~Has(value, "^OR")
    BY <1>1, <1>3, <1>4
<1>10. PriorityCondition(field, value) = None
    <2>1. ~StartsWithP(value)
        BY <1>1, <1>4 DEF StartsWithP
    <2> QED
        BY <1>9, <2>1, Zenon DEF PriorityCondition
<1>11. CallerExclusionCondition(field, value) = None
    BY <1>2, Zenon DEF CallerExclusionCondition
<1>12. HasOperatorInValue(value)
    BY <1>1, <1>4 DEF HasOperatorInValue, Comparisons, SN_PREFIX_OPERATORS
<1>13. OperatorCondition(field, value) = condition
    BY <1>7, <1>12, Zenon DEF OperatorCondition
<1>14. DateRangeCondition(field, value) \in {None, condition}
    BY <1>7, <1>8, <1>9, Zenon DEF DateRangeCondition
<1>15. CASE DateRangeCondition(field, value) = condition
    <2>1. BuildQueryCondition(field, given) = condition
        BY <1>2, <1>6, <1>7, <1>15, HandledAtFirst
    <2> QED
        BY <2>1 DEF field, condition
<1>16. CASE DateRangeCondition(field, value) = None
    <2>1. BuildQueryCondition(field, given) = condition
        BY <1>2, <1>6, <1>7, <1>9, <1>10, <1>11, <1>13, <1>16, HandledAtLast
    <2> QED
        BY <2>1 DEF field, condition
<1> QED
    BY <1>14, <1>15, <1>16

\* What it makes of a field with the suffix of an operator.
LEMMA SuffixCondition ==
    ASSUME NEW f \in Fields, NEW suffix \in DOMAIN SUFFIX_OPERATORS, NEW v \in Names
    PROVE  /\ BuildQueryCondition(<<f, suffix>>, <<v>>) = <<f, SUFFIX_OPERATORS[suffix], v>>
           /\ SUFFIX_OPERATORS[suffix] \in Comparisons
<1> DEFINE field == <<f, suffix>>
           value == <<v>>
           op == SUFFIX_OPERATORS[suffix]
           condition == <<f, op, v>>
<1>1. /\ Head(value) = v /\ Last(field) = suffix /\ Front(field) = <<f>>
      /\ \A token : Has(value, token) <=> token = v
    BY TokensInText
<1>2. \A x : <<f, suffix>> # <<x>>
    <2> TAKE x
    <2>1. Len(<<f, suffix>>) = 2 /\ Len(<<x>>) = 1
        OBVIOUS
    <2> QED
        BY <2>1
<1>3. /\ v \notin {"^", "^OR", "NULL", "CONTAINS", "NOTCONTAINS", "NOT CONTAINS", ",", "P", "priority"}
      /\ v \notin QueryOperators /\ v \notin Comparisons
      /\ v \notin SN_PREFIX_OPERATORS \cup {"IN"} /\ v \notin {"BETWEEN", ">=", "<="}
    BY NamesAreNames
<1>4. op \in Comparisons
    BY DEF SUFFIX_OPERATORS, Comparisons
<1> HIDE DEF op
<1>5. Front(field) \o <<op>> \o value = condition
    <2>1. <<f>> \o <<op>> \o <<v>> = <<f, op, v>>
        BY ThreeJoined
    <2> QED
        BY <1>1, <2>1
<1>6. condition # None
    BY DEF None
<1>7. /\ field # <<"sys_created_on">> /\ field # <<"priority">>
      /\ field \notin {<<"exclude_caller">>, <<"caller_exclusion">>}
      /\ field \notin {<<"_complete_query">>, <<"_complete_caller_exclusion">>}
    BY <1>2
<1> HIDE DEF field, value, condition
<1>8. NormalizeOperator(value) = value
    <2>1. Head(value) # "CONTAINS" /\ Head(value) \notin {"NOTCONTAINS", "NOT CONTAINS"}
        BY <1>1, <1>3
    <2> QED
        BY <2>1, Zenon DEF NormalizeOperator
<1>9. /\ DateRangeCondition(field, value) = None /\ PriorityCondition(field, value) = None
      /\ CallerExclusionCondition(field, value) = None
    BY <1>7, Zenon DEF DateRangeCondition, PriorityCondition, CallerExclusionCondition
<1>10. ~Has(value, "^OR") /\ ~HasOperatorInValue(value)
    BY <1>1, <1>3 DEF HasOperatorInValue
<1>11. OperatorCondition(field, value) = None
    BY <1>10, Zenon DEF OperatorCondition
<1>12. SuffixOperatorCondition(field, value) = condition
    BY <1>1, <1>5, Zenon DEF SuffixOperatorCondition, op
<1>13. BuildQueryCondition(field, value) = condition
    BY <1>6, <1>7, <1>8, <1>9, <1>10, <1>11, <1>12, HandledAtLast
<1> QED
    BY <1>4, <1>13 DEF field, value, condition, op

\* A text whose second token is its first operator is one condition.
LEMMA ConditionOfText ==
    ASSUME NEW T, NEW text \in Seq(T), Len(text) >= 2, text[1] \notin QueryOperators, text[2] \in QueryOperators
    PROVE  ConditionOf(text) = [field |-> <<text[1]>>, op |-> text[2], value |-> SubSeq(text, 3, Len(text))]
<1> DEFINE I == {i \in 1..Len(text) : text[i] \in QueryOperators}
           first == SelectInSeq(text, LAMBDA token : token \in QueryOperators)
<1>1. Len(text) \in Nat /\ 1 \in 1..Len(text) /\ 2 \in 1..Len(text)
    OBVIOUS
<1>2. first = IF I # {} THEN Min(I) ELSE 0
    BY DEF SelectInSeq
<1>3. ConditionOf(text) =
        IF first = 0 THEN [field |-> text, op |-> "none", value |-> <<>>]
        ELSE [field |-> SubSeq(text, 1, first - 1), op |-> text[first],
              value |-> SubSeq(text, first + 1, Len(text))]
    BY DEF ConditionOf
<1> HIDE DEF first
<1>4. 2 \in I /\ I \in SUBSET Nat
    BY <1>1
<1>5. \A i \in I : 2 <= i
    <2> TAKE i \in I
    <2>1. i \in 1..Len(text) /\ i # 1
        OBVIOUS
    <2> QED
        BY <1>1, <2>1
<1> HIDE DEF I
<1>6. Min(I) = 2
    BY <1>4, <1>5, LeastIs
<1>7. first = 2
    BY <1>2, <1>4, <1>6
<1>8. SubSeq(text, 1, 1) = <<text[1]>>
    BY <1>1, OneToken
<1>9. first # 0 /\ first - 1 = 1 /\ first + 1 = 3
    BY <1>7
<1> QED
    BY <1>3, <1>7, <1>8, <1>9

\* A query of one condition on a known field selects by it.
LEMMA OneTextSelects ==
    ASSUME NEW T, NEW text \in Seq(T), \A k \in DOMAIN text : text[k] # "^" /\ text[k] # "^OR",
           Len(text) >= 2, text[1] \notin QueryOperators, text[2] \in QueryOperators,
           NEW table, text[1] \in FieldsOf[table], NEW rows, NEW row
    PROVE  row \in Selects(table, text, rows) <=>
              /\ row \in rows
              /\ Holds([field |-> <<text[1]>>, op |-> text[2], value |-> SubSeq(text, 3, Len(text))], row)
<1> DEFINE condition == [field |-> <<text[1]>>, op |-> text[2], value |-> SubSeq(text, 3, Len(text))]
<1>1. PartsOf(text, "^") = {text} /\ PartsOf(text, "^OR") = {text}
    <2>1. \A k \in DOMAIN text : text[k] # "^"
        OBVIOUS
    <2>2. \A k \in DOMAIN text : text[k] # "^OR"
        OBVIOUS
    <2>3. PartsOf(text, "^") = {text}
        BY <2>1, OnePart
    <2>4. PartsOf(text, "^OR") = {text}
        BY <2>2, OnePart
    <2> QED
        BY <2>3, <2>4
<1>2. ConditionOf(text) = condition
    BY ConditionOfText
<1>3. Understood(table, condition)
    BY DEF Understood
<1> HIDE DEF condition
<1>4. Allows(table, text, row) <=> Holds(condition, row)
    BY <1>1, <1>2, <1>3 DEF Allows
<1>5. row \in Selects(table, text, rows) <=> row \in rows /\ Holds(condition, row)
    BY <1>1, <1>4, SelectsByGroups
<1> QED
    BY <1>5 DEF condition

\* A query for the dates of a range selects the rows with these dates.
LEMMA BetweenSelects ==
    ASSUME NEW table, "sys_created_on" \in FieldsOf[table], NEW from \in Words, NEW to \in Words,
           NEW rows, NEW row
    PROVE  row \in Selects(table, <<"sys_created_on", "BETWEEN", from, "@", to>>, rows) <=>
              row \in rows /\ Rank[row["sys_created_on"]] >= Rank[from] /\ Rank[row["sys_created_on"]] <= Rank[to]
<1>1. PICK f \in FieldsOf[table] : f = "sys_created_on"
    OBVIOUS
<1>2. PICK op \in QueryOperators : op = "BETWEEN"
    BY DEF QueryOperators
<1>3. PICK at : at = "@"
    OBVIOUS
<1>4. /\ f \notin QueryOperators \cup {"^", "^OR"} /\ op \notin {"^", "^OR"} /\ at \notin {"^", "^OR"}
      /\ from \notin {"^", "^OR"} /\ to \notin {"^", "^OR"}
    BY <1>1, <1>2, <1>3 DEF QueryOperators, Words
<1> DEFINE T == {f, op, from, at, to}
           text == <<f, op, from, at, to>>
<1>5. /\ text \in Seq(T) /\ Len(text) = 5 /\ DOMAIN text = 1..5
      /\ text[1] = f /\ text[2] = op /\ text[3] = from /\ text[4] = at /\ text[5] = to
    OBVIOUS
<1>6. \A k \in DOMAIN text : text[k] # "^" /\ text[k] # "^OR"
    <2>1. \A t \in T : t # "^" /\ t # "^OR"
        BY <1>4
    <2>2. \A k \in DOMAIN text : text[k] \in T
        BY <1>5
    <2> HIDE DEF T, text
    <2> QED
        BY <2>1, <2>2
<1> DEFINE rest == SubSeq(text, 3, Len(text))
<1>7. rest[1] = from /\ rest[3] = to
    <2> HIDE DEF text
    <2>1. \A k \in 3..5 : text[k] \in T
        BY <1>5
    <2> HIDE DEF T
    <2>2. \A k \in 1..(5 - 3 + 1) : SubSeq(text, 3, 5)[k] = text[3 + k - 1]
        BY <2>1, SubSeqProperties
    <2>3. SubSeq(text, 3, 5)[1] = text[3] /\ SubSeq(text, 3, 5)[3] = text[5]
        <3>1. 1 \in 1..(5 - 3 + 1) /\ 3 \in 1..(5 - 3 + 1) /\ 3 + 1 - 1 = 3 /\ 3 + 3 - 1 = 5
            OBVIOUS
        <3> QED
            BY <2>2, <3>1
    <2> QED
        BY <1>5, <2>3
<1> DEFINE condition == [field |-> <<f>>, op |-> op, value |-> rest]
<1>8. row \in Selects(table, text, rows) <=> row \in rows /\ Holds(condition, row)
    <2>1. text[1] \notin QueryOperators /\ text[2] \in QueryOperators /\ text[1] \in FieldsOf[table] /\ Len(text) >= 2
        BY <1>1, <1>4, <1>5
    <2>2. text \in Seq(T)
        BY <1>5
    <2> HIDE DEF text, T
    <2>3. row \in Selects(table, text, rows) <=>
              /\ row \in rows
              /\ Holds([field |-> <<text[1]>>, op |-> text[2], value |-> SubSeq(text, 3, Len(text))], row)
        BY <1>6, <2>1, <2>2, OneTextSelects
    <2> QED
        BY <1>5, <2>3
<1>9. condition.op = "BETWEEN" /\ Head(condition.field) = f /\ condition.value = rest
    BY <1>2
<1> HIDE DEF rest, condition
<1>10. Holds(condition, row) <=> Rank[row[f]] >= Rank[from] /\ Rank[row[f]] <= Rank[to]
    BY <1>7, <1>9 DEF Holds
<1> QED
    BY <1>1, <1>2, <1>3, <1>8, <1>10

\* Joined texts that start with something are something.
LEMMA JoinNotEmpty ==
    ASSUME NEW T, NEW sep \in T, NEW parts \in Seq(Seq(T)), parts # <<>>,
           parts[1] # <<>>, \A i \in DOMAIN parts[1] : parts[1][i] # sep
    PROVE  Join(parts, sep) # <<>>
<1>1. 1 \in DOMAIN parts /\ parts[1] \in Seq(T)
    OBVIOUS
<1>2. PartsOf(parts[1], sep) = {parts[1]}
    BY <1>1, OnePart
<1>3. PartsOf(Join(parts, sep), sep) = UNION {PartsOf(parts[k], sep) : k \in DOMAIN parts}
    BY PartsOfJoin
<1>4. parts[1] \in PartsOf(Join(parts, sep), sep)
    BY <1>1, <1>2, <1>3
<1>5. PartsOf(<<>>, sep) = {<<>>}
    <2>1. <<>> \in Seq(T) /\ \A k \in DOMAIN <<>> : <<>>[k] # sep
        OBVIOUS
    <2> QED
        BY <2>1, OnePart
<1> QED
    BY <1>4, <1>5

\* What the builder makes of a text of a date, of a caller with a name, of names and operators.
LEMMA DateTextCondition ==
    ASSUME NEW v \in Names, v \in DOMAIN DateTexts
    PROVE  BuildQueryCondition(<<"sys_created_on">>, <<v>>)
           = <<"sys_created_on", "BETWEEN", DateTexts[v][1], "@", DateTexts[v][2]>>
<1> DEFINE field == <<"sys_created_on">>
           value == <<v>>
           condition == <<"sys_created_on", "BETWEEN", DateTexts[v][1], "@", DateTexts[v][2]>>
<1>1. Head(value) = v /\ (\A token : Has(value, token) <=> token = v) /\ Len(value) = 1
    BY TokensInText
<1>2. v \notin {"CONTAINS", "NOTCONTAINS", "NOT CONTAINS"} /\ v \notin {"BETWEEN", ">=", "<="}
    BY NamesAreNames
<1>3. field \notin {<<"_complete_query">>, <<"_complete_caller_exclusion">>} /\ condition # None
    BY DEF None
<1> HIDE DEF value
<1>4. NormalizeOperator(value) = value
    <2>1. Head(value) # "CONTAINS" /\ Head(value) \notin {"NOTCONTAINS", "NOT CONTAINS"}
        BY <1>1, <1>2
    <2> QED
        BY <2>1, Zenon DEF NormalizeOperator
<1>5. DateRangeCondition(field, value) = condition
    <2>1. ~Has(value, "BETWEEN") /\ Head(value) \notin {">=", "<="}
        BY <1>1, <1>2
    <2> QED
        BY <1>1, <2>1, Zenon DEF DateRangeCondition
<1> HIDE DEF field, condition
<1>6. BuildQueryCondition(field, value) = condition
    BY <1>3, <1>4, <1>5, HandledAtFirst
<1> QED
    BY <1>6 DEF field, value, condition

\* The operators of texts have one name each after the builder has normalised them.
LEMMA NormalizedOperators ==
    ASSUME NEW op, NEW v
    PROVE  /\ op \notin {"CONTAINS", "NOTCONTAINS", "NOT CONTAINS"} => NormalizeOperator(<<op, v>>) = <<op, v>>
           /\ op = "CONTAINS" => NormalizeOperator(<<op, v>>) = <<"LIKE", v>>
           /\ op \in {"NOTCONTAINS", "NOT CONTAINS"} => NormalizeOperator(<<op, v>>) = <<"NOT LIKE", v>>
<1> DEFINE value == <<op, v>>
<1>1. Head(value) = op /\ Tail(value) = <<v>>
    BY TokensInText
<1>2. \A a : <<a>> \o <<v>> = <<a, v>>
    BY TwoJoined
<1> HIDE DEF value
<1>3. op \notin {"CONTAINS", "NOTCONTAINS", "NOT CONTAINS"} => NormalizeOperator(value) = value
    <2> SUFFICES ASSUME op \notin {"CONTAINS", "NOTCONTAINS", "NOT CONTAINS"}
                 PROVE  NormalizeOperator(value) = value
        OBVIOUS
    <2>1. Head(value) # "CONTAINS" /\ Head(value) \notin {"NOTCONTAINS", "NOT CONTAINS"}
        BY <1>1
    <2> QED
        BY <2>1, Zenon DEF NormalizeOperator
<1>4. op = "CONTAINS" => NormalizeOperator(value) = <<"LIKE">> \o <<v>>
    <2> SUFFICES ASSUME op = "CONTAINS"
                 PROVE  NormalizeOperator(value) = <<"LIKE">> \o <<v>>
        OBVIOUS
    <2>1. Head(value) = "CONTAINS" /\ Head(value) \notin {"NOTCONTAINS", "NOT CONTAINS"}
        BY <1>1
    <2> QED
        BY <1>1, <2>1, Zenon DEF NormalizeOperator
<1>5. op \in {"NOTCONTAINS", "NOT CONTAINS"} => NormalizeOperator(value) = <<"NOT LIKE">> \o <<v>>
    <2> SUFFICES ASSUME op \in {"NOTCONTAINS", "NOT CONTAINS"}
                 PROVE  NormalizeOperator(value) = <<"NOT LIKE">> \o <<v>>
        OBVIOUS
    <2>1. Head(value) \in {"NOTCONTAINS", "NOT CONTAINS"} /\ Head(value) # "CONTAINS"
        BY <1>1
    <2> QED
        BY <1>1, <2>1, Zenon DEF NormalizeOperator
<1> QED
    BY <1>2, <1>3, <1>4, <1>5 DEF value

\* A list with an entry has a first one.
LEMMA NotEmptyList ==
    ASSUME NEW S, NEW s \in Seq(S)
    PROVE  /\ \A k \in DOMAIN s : s[k] \in S /\ s # <<>>
           /\ s # <<>> => \E n \in Nat \ {0} : DOMAIN s = 1..n
<1>1. PICK m \in Nat : m = Len(s) /\ DOMAIN s = 1..m
    OBVIOUS
<1>2. m = 0 <=> s = <<>>
    BY <1>1
<1> QED
    BY <1>1, <1>2

\* Exclusions of callers, each of one name, select the rows of all others.
LEMMA ExcludingSelects ==
    ASSUME NEW table, "caller_id" \in FieldsOf[table], NEW n \in Nat \ {0}, NEW names \in [1..n -> Names],
           NEW callers, DOMAIN callers = 1..n, \A k \in 1..n : callers[k] = <<names[k]>>, NEW rows, NEW row
    PROVE  /\ Excluding(callers) # None
           /\ row \in Selects(table, Excluding(callers), rows) <=>
                 row \in rows /\ \A k \in 1..n : row["caller_id"] # names[k]
<1>1. PICK f \in FieldsOf[table] : f = "caller_id"
    OBVIOUS
<1>2. PICK ne \in Comparisons : ne = "!="
    BY DEF Comparisons
<1>3. PICK and : and = "^"
    OBVIOUS
<1> DEFINE T == Names \cup {f, ne, and}
           Part(k) == <<f, ne, names[k]>>
           parts == [k \in DOMAIN callers |-> <<f, ne>> \o callers[k]]
<1>4. f \notin QueryOperators \cup {"^", "^OR"} /\ f # "^" /\ ne # "^"
    BY <1>1, <1>2 DEF QueryOperators
<1>5. ASSUME NEW k \in 1..n
      PROVE  /\ <<f, ne>> \o callers[k] = Part(k) /\ Part(k) \in Seq(T) /\ Part(k) # <<>>
             /\ \A i \in DOMAIN Part(k) : Part(k)[i] # "^"
             /\ row \in Selects(table, Part(k), rows) <=> row \in rows /\ row["caller_id"] # names[k]
    <2> DEFINE name == names[k]
    <2>1. name \in Names /\ f \in T /\ ne \in T /\ name \in T
        OBVIOUS
    <2>2. name # "^" /\ name \notin {"^", "^OR", "NULL"}
        BY <2>1, NamesAreNames
    <2>3. callers[k] = <<name>>
        OBVIOUS
    <2> HIDE DEF name
    <2>4. <<f, ne>> \o <<name>> = <<f, ne, name>>
        <3>1. <<f>> \o <<ne>> = <<f, ne>> /\ <<f>> \o <<ne>> \o <<name>> = <<f, ne, name>>
            BY TwoJoined, ThreeJoined
        <3> QED
            BY <3>1
    <2>5. <<f, ne, name>> \in Seq(T) /\ <<f, ne, name>> # <<>>
        <3> HIDE DEF T
        <3> QED
            BY <2>1, ThreeAreASeq
    <2>6. \A i \in DOMAIN <<f, ne, name>> : <<f, ne, name>>[i] # "^"
        BY <1>4, <2>2
    <2>7. /\ row \in Selects(table, <<f, "=", name>>, rows) <=> row \in rows /\ row[f] = name
          /\ row \in Selects(table, <<f, "!=", name>>, rows) <=> row \in rows /\ row[f] # name
        BY <1>4, <2>2, SelectsEqual
    <2>8. row \in Selects(table, <<f, ne, name>>, rows) <=> row \in rows /\ row[f] # name
        BY <1>2, <2>7
    <2> HIDE DEF T
    <2> QED
        BY <1>1, <2>3, <2>4, <2>5, <2>6, <2>8 DEF name
<1>6. Excluding(callers) = Join(parts, "^")
    <2>1. parts = [k \in DOMAIN callers |-> <<"caller_id", "!=">> \o callers[k]]
        BY <1>1, <1>2
    <2> HIDE DEF parts
    <2> QED
        BY <2>1 DEF Excluding
<1>7. and \in T
    OBVIOUS
<1> HIDE DEF T, Part
<1>8. /\ parts \in [1..n -> Seq(T)]
      /\ \A k \in 1..n : parts[k] = Part(k)
    BY <1>5
<1> HIDE DEF parts
<1>9. parts \in Seq(Seq(T)) /\ parts # <<>> /\ DOMAIN parts = 1..n /\ 1 \in 1..n
    BY <1>8
<1>10. Join(parts, and) # <<>>
    <2>1. parts[1] # <<>> /\ \A i \in DOMAIN parts[1] : parts[1][i] # and
        BY <1>3, <1>5, <1>8, <1>9
    <2> QED
        BY <1>7, <1>9, <2>1, JoinNotEmpty
<1>11. row \in Selects(table, Join(parts, "^"), rows) <=>
          row \in rows /\ \A k \in DOMAIN parts : row \in Selects(table, parts[k], rows)
    <2>1. "^" \in T
        BY <1>3, <1>7
    <2> QED
        BY <1>9, <2>1, SelectsAll
<1> QED
    BY <1>3, <1>5, <1>6, <1>8, <1>9, <1>10, <1>11 DEF None

\* The handlers asked for a caller to be excluded.
LEMMA CallersHandled ==
    ASSUME NEW value, NormalizeOperator(value) = value, NEW condition, condition # None,
           CallerExclusionCondition(<<"exclude_caller">>, value) = condition
    PROVE  BuildQueryCondition(<<"exclude_caller">>, value) = condition
<1> DEFINE field == <<"exclude_caller">>
<1>1. field \notin {<<"_complete_query">>, <<"_complete_caller_exclusion">>}
    OBVIOUS
<1>2. field # <<"sys_created_on">> /\ field # <<"priority">>
    OBVIOUS
<1>3. CallerExclusionCondition(field, value) = condition
    OBVIOUS
<1> HIDE DEF field
<1>4. DateRangeCondition(field, value) = None /\ PriorityCondition(field, value) = None
    BY <1>2, Zenon DEF DateRangeCondition, PriorityCondition
<1>5. BuildQueryCondition(field, value) = condition
    BY <1>1, <1>3, <1>4, HandledAtFirst
<1> QED
    BY <1>5 DEF field

\* A caller known by name is the one that is excluded.
LEMMA KnownCallerSelects ==
    ASSUME NEW table, "caller_id" \in FieldsOf[table], NEW v \in Names, v \in DOMAIN KnownCallers, NEW rows, NEW row
    PROVE  row \in Selects(table, BuildQueryCondition(<<"exclude_caller">>, <<v>>), rows) <=>
              row \in rows /\ row["caller_id"] # KnownCallers[v]
<1> DEFINE field == <<"exclude_caller">>
           value == <<v>>
           callers == << <<KnownCallers[v]>> >>
           names == [k \in 1..1 |-> KnownCallers[v]]
<1>0. PICK n \in Nat \ {0} : n = 1
    OBVIOUS
<1>1. Head(value) = v /\ Len(value) = 1
    BY TokensInText
<1>2. NormalizeOperator(value) = value
    <2>1. Head(value) # "CONTAINS" /\ Head(value) \notin {"NOTCONTAINS", "NOT CONTAINS"}
        BY <1>1, NamesAreNames
    <2> HIDE DEF value
    <2> QED
        BY <2>1, Zenon DEF NormalizeOperator
<1>3. KnownCallers[v] \in Names
    BY LookupAssumption
<1>4. names \in [1..1 -> Names] /\ 1 \in Nat \ {0} /\ \A k \in 1..1 : names[k] = KnownCallers[v]
    BY <1>3
<1>5. DOMAIN callers = 1..1 /\ \A k \in 1..1 : callers[k] = <<names[k]>>
    BY <1>4
<1>6. CallerExclusionCondition(field, value) = Excluding(callers)
    <2> HIDE DEF value
    <2> QED
        BY <1>1, Zenon DEF CallerExclusionCondition
<1> HIDE DEF callers, value, names
<1>7. /\ Excluding(callers) # None
      /\ row \in Selects(table, Excluding(callers), rows) <=>
            row \in rows /\ \A k \in 1..n : row["caller_id"] # names[k]
    <2>1. names \in [1..n -> Names] /\ DOMAIN callers = 1..n /\ \A k \in 1..n : callers[k] = <<names[k]>>
        BY <1>0, <1>4, <1>5
    <2> QED
        BY <2>1, ExcludingSelects
<1>8. BuildQueryCondition(field, value) = Excluding(callers)
    BY <1>2, <1>6, <1>7, CallersHandled
<1>9. (\A k \in 1..n : row["caller_id"] # names[k]) <=> row["caller_id"] # KnownCallers[v]
    BY <1>0, <1>4
<1> QED
    BY <1>7, <1>8, <1>9 DEF value

\* What stands first in a list of names, and what is not in it.
LEMMA ListingTokens ==
    ASSUME NEW value, Listing(value)
    PROVE  /\ value \in Seq(Names \cup {",", "P"}) /\ value # <<>>
           /\ Head(value) \in Names \cup {",", "P"} /\ ListOf(value) # <<>>
           /\ ~Has(value, "^OR") /\ ~Has(value, "BETWEEN") /\ NormalizeOperator(value) = value
           /\ Head(value) \notin {">=", "<="}
<1> DEFINE T == Names \cup {",", "P"}
<1>1. value \in Seq(T) /\ Listed(value) # {}
    BY DEF Listing
<1>2. \A t \in T : t \notin {"^OR", "BETWEEN", ">=", "<=", "CONTAINS", "NOTCONTAINS", "NOT CONTAINS"}
    BY NamesAreNames
<1> HIDE DEF T
<1>3. ListOf(value) # <<>>
    <2>1. PICK part \in PartsOf(value, ",") \ {<<>>} : TRUE
        BY <1>1 DEF Listed
    <2>2. \E k \in DOMAIN ListOf(value) : ListOf(value)[k] = part
        BY <1>1, <2>1, ListIsParts
    <2>3. ListOf(value) \in Seq(Seq(T) \ {<<>>})
        BY <1>1, ListType
    <2> QED
        BY <2>2, <2>3, NotEmptyList
<1>4. value # <<>>
    <2> SUFFICES ASSUME value = <<>>
                 PROVE  FALSE
        OBVIOUS
    <2>1. <<>> \in Seq(T) /\ \A k \in DOMAIN <<>> : <<>>[k] # ","
        OBVIOUS
    <2>2. PartsOf(<<>>, ",") = {<<>>}
        BY <2>1, OnePart
    <2> QED
        BY <1>1, <2>2 DEF Listed
<1>5. Head(value) \in T /\ \A k \in DOMAIN value : value[k] \in T
    <2>1. Head(value) \in T
        BY <1>1, <1>4, TextEnds
    <2> QED
        BY <1>1, <2>1
<1>6. ~Has(value, "^OR") /\ ~Has(value, "BETWEEN")
    BY <1>2, <1>5 DEF Has
<1>7. Head(value) # "CONTAINS" /\ Head(value) \notin {"NOTCONTAINS", "NOT CONTAINS"} /\ Head(value) \notin {">=", "<="}
    BY <1>2, <1>5
<1>8. NormalizeOperator(value) = value
    BY <1>7, Zenon DEF NormalizeOperator
<1> QED
    BY <1>1, <1>3, <1>4, <1>5, <1>6, <1>7, <1>8 DEF T

\* What begins with two tokens has the second of them.
LEMMA SecondOfPrefix ==
    ASSUME NEW T, NEW value \in Seq(T), NEW p, NEW q, IsPrefix(<<p, q>>, value)
    PROVE  2 \in DOMAIN value /\ value[2] = q
<1>1. Len(<<p, q>>) = 2
    OBVIOUS
<1>2. Len(value) \in Nat /\ 2 <= Len(value) /\ SubSeq(<<p, q>>, 1, 2) = SubSeq(value, 1, 2)
    BY <1>1 DEF IsPrefix
<1>3. SubSeq(value, 1, 2)[2] = value[2]
    BY <1>2
<1>4. SubSeq(<<p, q>>, 1, 2)[2] = q
    OBVIOUS
<1> QED
    BY <1>2, <1>3, <1>4

\* A list of callers excludes each of them.
LEMMA CallerListSelects ==
    ASSUME NEW table, NEW filter \in Filters, IsCallerList(filter, FieldsOf[table]), NEW rows, NEW row
    PROVE  row \in Selects(table, BuildQueryCondition(filter.field, filter.value), rows) <=>
              row \in rows /\ \A part \in Listed(filter.value) : row["caller_id"] # Head(part)
<1> DEFINE value == filter.value
<1>0. /\ filter.field = <<"exclude_caller">> /\ "caller_id" \in FieldsOf[table]
      /\ Listing(value) /\ ~(Len(value) = 1 /\ Head(value) \in DOMAIN KnownCallers)
      /\ \A part \in Listed(value) : HasName(part, 1)
    BY DEF IsCallerList
<1> HIDE DEF value
<1> DEFINE T == Names \cup {",", "P"}
           field == <<"exclude_caller">>
           callers == ListOf(value)
           names == [k \in DOMAIN callers |-> Head(callers[k])]
<1>1. value \in Seq(T) /\ callers # <<>> /\ NormalizeOperator(value) = value
    BY <1>0, ListingTokens
<1>2. callers \in Seq(Seq(T) \ {<<>>})
    BY <1>1, ListType
<1>3. /\ \A k \in DOMAIN callers : callers[k] \in Listed(value)
      /\ \A part \in Listed(value) : \E k \in DOMAIN callers : callers[k] = part
    BY <1>1, ListIsParts DEF Listed
<1> HIDE DEF callers
<1>4. PICK n \in Nat \ {0} : DOMAIN callers = 1..n
    BY <1>1, <1>2, NotEmptyList
<1>5. ASSUME NEW k \in 1..n
      PROVE  callers[k] = <<Head(callers[k])>> /\ Head(callers[k]) \in Names
    <2> DEFINE part == callers[k]
    <2>1. part \in Seq(T) /\ HasName(part, 1)
        <3>1. part \in Listed(value) /\ part \in Seq(T) \ {<<>>}
            BY <1>2, <1>3, <1>4, NotEmptyList
        <3> QED
            BY <1>0, <3>1
    <2> HIDE DEF part, T
    <2>2. Len(part) = 1 /\ part[1] \in Names
        BY <2>1 DEF HasName
    <2>3. part = <<part[1]>> /\ Head(part) = part[1]
        BY <2>1, <2>2, OneTokenText
    <2> QED
        BY <2>2, <2>3 DEF part
<1> HIDE DEF T
<1>6. names \in [1..n -> Names] /\ \A k \in 1..n : names[k] = Head(callers[k])
    BY <1>4, <1>5
<1> HIDE DEF names
<1>7. \A k \in 1..n : callers[k] = <<names[k]>>
    BY <1>5, <1>6
<1>8. /\ Excluding(callers) # None
      /\ row \in Selects(table, Excluding(callers), rows) <=>
            row \in rows /\ \A k \in 1..n : row["caller_id"] # names[k]
    <2>1. names \in [1..n -> Names] /\ DOMAIN callers = 1..n /\ \A k \in 1..n : callers[k] = <<names[k]>>
        BY <1>4, <1>6, <1>7
    <2>2. "caller_id" \in FieldsOf[table]
        BY <1>0
    <2> QED
        BY <2>1, <2>2, ExcludingSelects
<1>9. CallerExclusionCondition(field, value) = Excluding(callers)
    <2>1. ~(Len(value) = 1 /\ Head(value) \in DOMAIN KnownCallers)
        BY <1>0
    <2>2. ~IsPrefix(<<"caller_id", "!=">>, value)
        <3> SUFFICES ASSUME IsPrefix(<<"caller_id", "!=">>, value)
                     PROVE  FALSE
            OBVIOUS
        <3>1. PICK p, q : p = "caller_id" /\ q = "!="
            OBVIOUS
        <3>2. IsPrefix(<<p, q>>, value)
            BY <3>1
        <3>3. 2 \in DOMAIN value /\ value[2] = q
            BY <1>1, <3>2, SecondOfPrefix
        <3>4. value[2] \in T
            <4>1. value \in Seq(T) /\ 2 \in DOMAIN value
                BY <1>1, <3>3
            <4> QED
                BY <4>1
        <3>5. value[2] \in Names \cup {",", "P"}
            BY <3>4 DEF T
        <3> QED
            BY <3>1, <3>3, <3>5, NamesAreNames DEF QueryOperators
    <2> QED
        BY <2>1, <2>2, Zenon DEF CallerExclusionCondition, callers
<1>10. BuildQueryCondition(field, value) = Excluding(callers)
    BY <1>1, <1>8, <1>9, CallersHandled
<1>11. (\A k \in 1..n : row["caller_id"] # names[k]) <=> \A part \in Listed(value) : row["caller_id"] # Head(part)
    BY <1>3, <1>4, <1>6
<1> QED
    BY <1>0, <1>8, <1>10, <1>11 DEF value

\* The number of a priority, with or without its letter.
LEMMA PriorityOf ==
    ASSUME NEW T, NEW part \in Seq(T), HasName(part, 1) \/ (HasName(part, 2) /\ Head(part) = "P")
    PROVE  NormalizePriority(part) = <<Last(part)>> /\ Last(part) \in Names
<1>1. CASE HasName(part, 1)
    <2>1. Len(part) = 1 /\ part[1] \in Names
        BY <1>1 DEF HasName
    <2>2. part = <<part[1]>> /\ Head(part) = part[1]
        BY <2>1, OneTokenText
    <2>3. Last(part) = part[1]
        BY <2>2, TokensInText
    <2>4. Head(part) # "P" /\ Head(part) # "priority"
        BY <2>1, <2>2, NamesAreNames
    <2>5. NormalizePriority(part) = part
        BY <2>4, Zenon DEF NormalizePriority
    <2> QED
        BY <2>1, <2>2, <2>3, <2>5
<1>2. CASE HasName(part, 2) /\ Head(part) = "P"
    <2>1. Len(part) = 2 /\ part[2] \in Names
        BY <1>2 DEF HasName
    <2>2. part = <<part[1], part[2]>>
        BY <2>1, TwoTokenText
    <2>3. Last(part) = part[2] /\ Tail(part) = <<part[2]>>
        <3>1. PICK a, b : part[1] = a /\ part[2] = b
            OBVIOUS
        <3>2. Last(<<a, b>>) = b /\ Tail(<<a, b>>) = <<b>>
            BY TokensInText
        <3> QED
            BY <2>2, <3>1, <3>2
    <2>4. Head(part) = "P" /\ Head(part) # "priority"
        BY <1>2
    <2>5. NormalizePriority(part) = Tail(part)
        BY <2>4, Zenon DEF NormalizePriority
    <2> QED
        BY <2>1, <2>3, <2>5
<1> QED
    BY <1>1, <1>2

\* Alternatives of priorities are something.
LEMMA EitherNotNone ==
    ASSUME NEW n \in Nat \ {0}, NEW names \in [1..n -> Names]
    PROVE  EitherOf(names, n) # None
<1>1. PICK f : f = "priority"
    OBVIOUS
<1>2. PICK eq : eq = "="
    OBVIOUS
<1>3. PICK or : or = "^OR"
    OBVIOUS
<1> DEFINE T == Names \cup {f, eq, or}
           Part(k) == <<f>> \o <<eq>> \o <<names[k]>>
           parts == [k \in 1..n |-> Part(k)]
<1>4. ASSUME NEW k \in 1..n
      PROVE  Part(k) \in Seq(T) /\ Part(k) # <<>> /\ \A i \in DOMAIN Part(k) : Part(k)[i] # or
    <2> DEFINE name == names[k]
    <2>1. f \in T /\ eq \in T /\ name \in T /\ name \in Names
        OBVIOUS
    <2>2. name # or /\ f # or /\ eq # or
        BY <1>1, <1>2, <1>3, <2>1 DEF Names, Words
    <2> HIDE DEF name
    <2>3. Part(k) = <<f, eq, name>>
        BY ThreeJoined DEF name
    <2>4. <<f, eq, name>> \in Seq(T) /\ <<f, eq, name>> # <<>> /\ \A i \in DOMAIN <<f, eq, name>> : <<f, eq, name>>[i] # or
        <3>1. \A i \in DOMAIN <<f, eq, name>> : <<f, eq, name>>[i] # or
            BY <2>2
        <3>2. <<f, eq, name>> # <<>>
            OBVIOUS
        <3> HIDE DEF T
        <3> QED
            BY <2>1, <3>1, <3>2, ThreeAreASeq
    <2> HIDE DEF Part, T
    <2> QED
        BY <2>3, <2>4
<1>5. or \in T
    OBVIOUS
<1> HIDE DEF T, Part
<1>6. parts \in [1..n -> Seq(T)] /\ \A k \in 1..n : parts[k] = Part(k)
    BY <1>4
<1> HIDE DEF parts
<1>7. parts \in Seq(Seq(T)) /\ parts # <<>> /\ 1 \in 1..n
    BY <1>6
<1>8. Join(parts, or) # <<>>
    <2>1. parts[1] # <<>> /\ \A i \in DOMAIN parts[1] : parts[1][i] # or
        BY <1>4, <1>6, <1>7
    <2> QED
        BY <1>5, <1>7, <2>1, JoinNotEmpty
<1> QED
    BY <1>1, <1>2, <1>3, <1>8 DEF parts, Part, EitherOf, None

\* A list of priorities selects the rows of each.
LEMMA PriorityListSelects ==
    ASSUME NEW table, NEW filter \in Filters, IsPriorityList(filter, FieldsOf[table]), NEW rows, NEW row
    PROVE  row \in Selects(table, BuildQueryCondition(filter.field, filter.value), rows) <=>
              row \in rows /\ \E part \in Listed(filter.value) : row["priority"] = Last(part)
<1> DEFINE value == filter.value
<1>0. /\ filter.field = <<"priority">> /\ "priority" \in FieldsOf[table]
      /\ Listing(value) /\ (Has(value, ",") \/ Head(value) = "P")
      /\ \A part \in Listed(value) : HasName(part, 1) \/ (HasName(part, 2) /\ Head(part) = "P")
    BY DEF IsPriorityList
<1> HIDE DEF value
<1> DEFINE T == Names \cup {",", "P"}
           field == <<"priority">>
           list == ListOf(value)
           names == [k \in DOMAIN list |-> Last(list[k])]
<1>1. value \in Seq(T) /\ list # <<>> /\ NormalizeOperator(value) = value /\ ~Has(value, "^OR")
    BY <1>0, ListingTokens
<1>2. list \in Seq(Seq(T) \ {<<>>})
    BY <1>1, ListType
<1>3. /\ \A k \in DOMAIN list : list[k] \in Listed(value)
      /\ \A part \in Listed(value) : \E k \in DOMAIN list : list[k] = part
    BY <1>1, ListIsParts DEF Listed
<1> HIDE DEF list
<1>4. PICK n \in Nat \ {0} : DOMAIN list = 1..n
    BY <1>1, <1>2, NotEmptyList
<1>5. ASSUME NEW k \in 1..n
      PROVE  NormalizePriority(list[k]) = <<Last(list[k])>> /\ Last(list[k]) \in Names
    <2>1. list[k] \in Seq(T) /\ list[k] \in Listed(value)
        <3>1. list[k] \in Listed(value) /\ list[k] \in Seq(T) \ {<<>>}
            BY <1>2, <1>3, <1>4, NotEmptyList
        <3> QED
            BY <3>1
    <2> HIDE DEF T
    <2>2. HasName(list[k], 1) \/ (HasName(list[k], 2) /\ Head(list[k]) = "P")
        BY <1>0, <2>1
    <2> QED
        BY <2>1, <2>2, PriorityOf
<1> HIDE DEF T
<1>6. names \in [1..n -> Names] /\ \A k \in 1..n : names[k] = Last(list[k])
    BY <1>4, <1>5
<1>7. [k \in DOMAIN list |-> <<"priority", "=">> \o NormalizePriority(list[k])]
      = [k \in 1..n |-> <<"priority">> \o <<"=">> \o <<names[k]>>]
    <2>1. <<"priority">> \o <<"=">> = <<"priority", "=">>
        BY TwoJoined
    <2> HIDE DEF names
    <2> QED
        BY <1>4, <1>5, <1>6, <2>1
<1> HIDE DEF names
<1> DEFINE condition == EitherOf(names, n)
<1>8. PriorityCondition(field, value) = condition
    <2>1. StartsWithP(value) <=> Head(value) = "P" \/ Head(value) = "priority"
        BY DEF StartsWithP
    <2>2. PriorityCondition(field, value) = ParsePriorityList(value)
        BY <1>0, <2>1, Zenon DEF PriorityCondition
    <2>3. ParsePriorityList(value) = Join([k \in DOMAIN list |-> <<"priority", "=">> \o NormalizePriority(list[k])], "^OR")
        BY <1>1, Zenon DEF ParsePriorityList, list
    <2> QED
        BY <1>7, <2>2, <2>3, Zenon DEF EitherOf
<1>9. row \in Selects(table, condition, rows) <=> row \in rows /\ \E k \in 1..n : row["priority"] = names[k]
    <2>0. "priority" \in FieldsOf[table]
        BY <1>0
    <2>1. names \in [1..n -> Names]
        BY <1>6
    <2> HIDE DEF condition
    <2>2. row \in Selects(table, EitherOf(names, n), rows) <=> row \in rows /\ \E k \in 1..n : row["priority"] = names[k]
        BY <2>0, <2>1, PrioritiesSelect
    <2> QED
        BY <2>2 DEF condition
<1>10. condition # None
    BY <1>6, EitherNotNone
<1>11. DateRangeCondition(field, value) = None /\ field \notin {<<"_complete_query">>, <<"_complete_caller_exclusion">>}
    <2>1. field # <<"sys_created_on">> /\ field \notin {<<"_complete_query">>, <<"_complete_caller_exclusion">>}
        OBVIOUS
    <2> HIDE DEF field
    <2> QED
        BY <2>1, Zenon DEF DateRangeCondition
<1> HIDE DEF condition, field
<1>12. BuildQueryCondition(field, value) = condition
    BY <1>1, <1>8, <1>10, <1>11, HandledAtFirst
<1>13. (\E k \in 1..n : row["priority"] = names[k]) <=> \E part \in Listed(value) : row["priority"] = Last(part)
    BY <1>3, <1>4, <1>6
<1> QED
    BY <1>0, <1>9, <1>12, <1>13 DEF field, value

\* A field and a name: the rows with that name.
LEMMA EqualityReads ==
    ASSUME NEW table, NEW filter \in Filters, IsEquality(filter, FieldsOf[table]), NEW rows, NEW row
    PROVE  row \in Selects(table, BuildQueryCondition(filter.field, filter.value), rows) <=>
              row \in rows /\ row[Head(filter.field)] = Head(filter.value)
<1> DEFINE field == filter.field
           value == filter.value
<1>1. field \in Seq(STRING) /\ value \in Seq(STRING)
    BY DEF Filters, Texts
<1>2. /\ Len(field) = 1 /\ Head(field) \in FieldsOf[table] \cap Fields /\ Len(value) = 1 /\ value[1] \in Names
      /\ field = <<"sys_created_on">> => Head(value) \notin DOMAIN DateTexts
    BY DEF IsEquality, OnField, HasName
<1> HIDE DEF field, value
<1>3. PICK f \in FieldsOf[table] \cap Fields : f = Head(field)
    BY <1>2
<1>4. PICK v \in Names : v = Head(value)
    BY <1>1, <1>2, OneTokenText
<1>5. field = <<f>> /\ value = <<v>>
    BY <1>1, <1>2, <1>3, <1>4, OneTokenText
<1>6. f = "sys_created_on" => v \notin DOMAIN DateTexts
    BY <1>2, <1>4, <1>5
<1>7. PICK eq \in Comparisons : eq = "="
    BY DEF Comparisons
<1>8. BuildQueryCondition(<<f>>, <<v>>) = <<f, eq, v>>
    BY <1>6, <1>7, EqualityCondition
<1>9. row \in Selects(table, <<f, eq, v>>, rows) <=> row \in rows /\ Compare(row[f], eq, v)
    BY OneComparisonSelects
<1>10. Compare(row[f], eq, v) <=> row[f] = v
    BY <1>7 DEF Compare
<1> QED
    BY <1>3, <1>4, <1>5, <1>8, <1>9, <1>10 DEF field, value

\* A field and a comparison with a name: the rows that compare so.
LEMMA ComparisonReads ==
    ASSUME NEW table, NEW filter \in Filters, IsComparison(filter, FieldsOf[table]), NEW rows, NEW row
    PROVE  row \in Selects(table, BuildQueryCondition(filter.field, filter.value), rows) <=>
              row \in rows /\ Compare(row[Head(filter.field)], filter.value[1], filter.value[2])
<1> DEFINE field == filter.field
           value == filter.value
<1>1. field \in Seq(STRING) /\ value \in Seq(STRING)
    BY DEF Filters, Texts
<1>2. /\ Len(field) = 1 /\ Head(field) \in FieldsOf[table] \cap Fields /\ Len(value) = 2 /\ value[2] \in Names
      /\ value[1] \in Comparisons
    BY DEF IsComparison, OnField, HasName
<1> HIDE DEF field, value
<1>3. PICK f \in FieldsOf[table] \cap Fields : f = Head(field)
    BY <1>2
<1>4. PICK v \in Names : v = value[2]
    BY <1>2
<1>5. PICK op \in Comparisons : op = value[1]
    BY <1>2
<1>6. field = <<f>>
    BY <1>1, <1>2, <1>3, OneTokenText
<1>7. value = <<op, v>>
    BY <1>1, <1>2, <1>4, <1>5, TwoTokenText
<1>8. BuildQueryCondition(<<f>>, <<op, v>>) = <<f, op, v>>
    <2>1. op \notin {"CONTAINS", "NOTCONTAINS", "NOT CONTAINS"} /\ op \in Comparisons \cup {"LIKE", "NOT LIKE"}
        BY DEF Comparisons
    <2>2. NormalizeOperator(<<op, v>>) = <<op, v>>
        BY <2>1, NormalizedOperators
    <2> QED
        BY <2>1, <2>2, OperatorWithName
<1>9. row \in Selects(table, <<f, op, v>>, rows) <=> row \in rows /\ Compare(row[f], op, v)
    BY OneComparisonSelects
<1> QED
    BY <1>3, <1>4, <1>5, <1>6, <1>7, <1>8, <1>9 DEF field, value

\* A field with the suffix of a comparison: the rows that compare so.
LEMMA SuffixReads ==
    ASSUME NEW table, NEW filter \in Filters, IsSuffixed(filter, FieldsOf[table]), NEW rows, NEW row
    PROVE  row \in Selects(table, BuildQueryCondition(filter.field, filter.value), rows) <=>
              /\ row \in rows
              /\ Compare(row[Head(filter.field)], SUFFIX_OPERATORS[filter.field[2]], Head(filter.value))
<1> DEFINE field == filter.field
           value == filter.value
<1>1. field \in Seq(STRING) /\ value \in Seq(STRING)
    BY DEF Filters, Texts
<1>2. /\ Len(field) = 2 /\ field[1] \in FieldsOf[table] \cap Fields /\ field[2] \in DOMAIN SUFFIX_OPERATORS
      /\ Len(value) = 1 /\ value[1] \in Names
    BY DEF IsSuffixed, HasName
<1> HIDE DEF field, value
<1>3. PICK f \in FieldsOf[table] \cap Fields : f = field[1]
    BY <1>2
<1>4. PICK v \in Names : v = Head(value)
    BY <1>1, <1>2, OneTokenText
<1>5. PICK suffix \in DOMAIN SUFFIX_OPERATORS : suffix = field[2]
    BY <1>2
<1>6. value = <<v>>
    BY <1>1, <1>2, <1>4, OneTokenText
<1>7. field = <<f, suffix>> /\ Head(field) = f
    BY <1>1, <1>2, <1>3, <1>5, TwoTokenText
<1>8. /\ BuildQueryCondition(<<f, suffix>>, <<v>>) = <<f, SUFFIX_OPERATORS[suffix], v>>
      /\ SUFFIX_OPERATORS[suffix] \in Comparisons
    BY SuffixCondition
<1>9. PICK op \in Comparisons : op = SUFFIX_OPERATORS[suffix]
    BY <1>8
<1>10. row \in Selects(table, <<f, op, v>>, rows) <=> row \in rows /\ Compare(row[f], op, v)
    BY OneComparisonSelects
<1> QED
    BY <1>4, <1>5, <1>6, <1>7, <1>8, <1>9, <1>10 DEF field, value

\* A condition that a word is not in a text holds where it is not.
LEMMA NotLikeHolds ==
    ASSUME NEW field, NEW value, NEW row
    PROVE  Holds([field |-> <<field>>, op |-> "NOT LIKE", value |-> <<value>>], row)
              <=> <<value, row[field]>> \notin Matches["LIKE"]
<1> DEFINE condition == [field |-> <<field>>, op |-> "NOT LIKE", value |-> <<value>>]
<1>1. condition.op = "NOT LIKE" /\ Head(condition.field) = field /\ condition.value[1] = value
    OBVIOUS
<1> HIDE DEF condition
<1>2. Holds(condition, row) <=> <<value, row[field]>> \notin Matches["LIKE"]
    BY <1>1 DEF Holds
<1> QED
    BY <1>2 DEF condition

\* A field that has a word in it or has it not: the rows whose text has it, or has it not.
LEMMA ContainingReads ==
    ASSUME NEW table, NEW filter \in Filters, IsContaining(filter, FieldsOf[table]), NEW rows, NEW row
    PROVE  row \in Selects(table, BuildQueryCondition(filter.field, filter.value), rows) <=>
              /\ row \in rows
              /\ filter.value[1] \in {"LIKE", "CONTAINS"}
                    <=> <<filter.value[2], row[Head(filter.field)]>> \in Matches["LIKE"]
<1> DEFINE field == filter.field
           value == filter.value
<1>1. field \in Seq(STRING) /\ value \in Seq(STRING)
    BY DEF Filters, Texts
<1>2. /\ Len(field) = 1 /\ Head(field) \in FieldsOf[table] \cap Fields /\ Len(value) = 2 /\ value[2] \in Names
      /\ value[1] \in {"LIKE", "CONTAINS", "NOT LIKE", "NOTCONTAINS", "NOT CONTAINS"}
    BY DEF IsContaining, OnField, HasName
<1> HIDE DEF field, value
<1>3. PICK f \in FieldsOf[table] \cap Fields : f = Head(field)
    BY <1>2
<1>4. PICK v \in Names : v = value[2]
    BY <1>2
<1>5. PICK word \in {"LIKE", "CONTAINS", "NOT LIKE", "NOTCONTAINS", "NOT CONTAINS"} : word = value[1]
    BY <1>2
<1>6. field = <<f>>
    BY <1>1, <1>2, <1>3, OneTokenText
<1>7. value = <<word, v>>
    BY <1>1, <1>2, <1>4, <1>5, TwoTokenText
<1>8. PICK op : op = IF word \in {"LIKE", "CONTAINS"} THEN "LIKE" ELSE "NOT LIKE"
    OBVIOUS
<1>9. op \in QueryOperators /\ op \in Comparisons \cup {"LIKE", "NOT LIKE"}
    BY <1>8 DEF QueryOperators
<1>10. BuildQueryCondition(<<f>>, <<word, v>>) = <<f, op, v>>
    <2>1. /\ word \notin {"CONTAINS", "NOTCONTAINS", "NOT CONTAINS"} => NormalizeOperator(<<word, v>>) = <<word, v>>
          /\ word = "CONTAINS" => NormalizeOperator(<<word, v>>) = <<"LIKE", v>>
          /\ word \in {"NOTCONTAINS", "NOT CONTAINS"} => NormalizeOperator(<<word, v>>) = <<"NOT LIKE", v>>
        BY NormalizedOperators
    <2>2. NormalizeOperator(<<word, v>>) = <<op, v>>
        BY <1>8, <2>1
    <2> QED
        BY <1>9, <2>2, OperatorWithName
<1>11. row \in Selects(table, <<f, op, v>>, rows) <=>
          row \in rows /\ Holds([field |-> <<f>>, op |-> op, value |-> <<v>>], row)
    <2>1. f \notin QueryOperators \cup {"^", "^OR"} /\ v \notin {"^", "^OR"}
        BY FieldsAreFields, NamesAreNames
    <2> QED
        BY <1>9, <2>1, OneConditionSelects
<1>12. Holds([field |-> <<f>>, op |-> op, value |-> <<v>>], row)
          <=> (word \in {"LIKE", "CONTAINS"} <=> <<v, row[f]>> \in Matches["LIKE"])
    <2>1. /\ Holds([field |-> <<f>>, op |-> "LIKE", value |-> <<v>>], row) <=> <<v, row[f]>> \in Matches["LIKE"]
          /\ Holds([field |-> <<f>>, op |-> "NOT LIKE", value |-> <<v>>], row) <=> <<v, row[f]>> \notin Matches["LIKE"]
        BY LikeHolds, NotLikeHolds
    <2> QED
        BY <1>8, <2>1
<1> QED
    BY <1>3, <1>4, <1>5, <1>6, <1>7, <1>10, <1>11, <1>12 DEF field, value

\* A text of dates: the rows created within them.
LEMMA DateTextReads ==
    ASSUME NEW table, NEW filter \in Filters, IsDateText(filter, FieldsOf[table]), NEW rows, NEW row
    PROVE  row \in Selects(table, BuildQueryCondition(filter.field, filter.value), rows) <=>
              row \in rows /\ Within(row["sys_created_on"], DateTexts[Head(filter.value)])
<1> DEFINE value == filter.value
<1>1. value \in Seq(STRING)
    BY DEF Filters, Texts
<1>2. /\ filter.field = <<"sys_created_on">> /\ "sys_created_on" \in FieldsOf[table]
      /\ Len(value) = 1 /\ value[1] \in Names /\ Head(value) \in DOMAIN DateTexts
    BY DEF IsDateText, HasName
<1> HIDE DEF value
<1>3. PICK v \in Names : v = Head(value)
    BY <1>1, <1>2, OneTokenText
<1>4. value = <<v>> /\ v \in DOMAIN DateTexts
    BY <1>1, <1>2, <1>3, OneTokenText
<1>5. BuildQueryCondition(<<"sys_created_on">>, <<v>>)
      = <<"sys_created_on", "BETWEEN", DateTexts[v][1], "@", DateTexts[v][2]>>
    BY <1>4, DateTextCondition
<1>6. PICK from \in Words : from = DateTexts[v][1]
    BY <1>4, LookupAssumption
<1>7. PICK to \in Words : to = DateTexts[v][2]
    BY <1>4, LookupAssumption
<1>8. row \in Selects(table, <<"sys_created_on", "BETWEEN", from, "@", to>>, rows) <=>
         row \in rows /\ Rank[row["sys_created_on"]] >= Rank[from] /\ Rank[row["sys_created_on"]] <= Rank[to]
    BY <1>2, BetweenSelects
<1>9. filter.field = <<"sys_created_on">>
    BY <1>2
<1>10. row \in Selects(table, BuildQueryCondition(filter.field, value), rows) <=>
         row \in rows /\ Rank[row["sys_created_on"]] >= Rank[from] /\ Rank[row["sys_created_on"]] <= Rank[to]
    BY <1>4, <1>5, <1>6, <1>7, <1>8, <1>9
<1> QED
    BY <1>3, <1>6, <1>7, <1>10 DEF value, Within

\* A caller known by name.
LEMMA KnownCallerReads ==
    ASSUME NEW table, NEW filter \in Filters, IsKnownCaller(filter, FieldsOf[table]), NEW rows, NEW row
    PROVE  row \in Selects(table, BuildQueryCondition(filter.field, filter.value), rows) <=>
              row \in rows /\ row["caller_id"] # KnownCallers[Head(filter.value)]
<1> DEFINE value == filter.value
<1>1. value \in Seq(STRING)
    BY DEF Filters, Texts
<1>2. /\ filter.field = <<"exclude_caller">> /\ "caller_id" \in FieldsOf[table]
      /\ Len(value) = 1 /\ value[1] \in Names /\ Head(value) \in DOMAIN KnownCallers
    BY DEF IsKnownCaller, HasName
<1> HIDE DEF value
<1>3. PICK v \in Names : v = Head(value)
    BY <1>1, <1>2, OneTokenText
<1>4. value = <<v>> /\ v \in DOMAIN KnownCallers
    BY <1>1, <1>2, <1>3, OneTokenText
<1>5. row \in Selects(table, BuildQueryCondition(<<"exclude_caller">>, <<v>>), rows) <=>
         row \in rows /\ row["caller_id"] # KnownCallers[v]
    BY <1>2, <1>4, KnownCallerSelects
<1> QED
    BY <1>2, <1>3, <1>4, <1>5 DEF value

\* A filter of one of the forms that a tool describes selects what it asks.
LEMMA FilterFormsSelect ==
    ASSUME NEW table, NEW filter \in Filters, IsPlain(filter, FieldsOf[table]), NEW rows, NEW row
    PROVE  row \in Selects(table, BuildQueryCondition(filter.field, filter.value), rows) <=>
              row \in rows /\ Asked(filter, FieldsOf[table], row)
<1> DEFINE fields == FieldsOf[table]
           field == Head(filter.field)
           value == filter.value
           selected == row \in Selects(table, BuildQueryCondition(filter.field, filter.value), rows)
           known == row \in rows
           Exactly(form, reading) == form => (selected <=> known /\ reading)
<1>1. Exactly(IsEquality(filter, fields), row[field] = Head(value))
    BY EqualityReads
<1>2. Exactly(IsComparison(filter, fields), Compare(row[field], value[1], value[2]))
    BY ComparisonReads
<1>3. Exactly(IsSuffixed(filter, fields), Compare(row[field], SUFFIX_OPERATORS[filter.field[2]], Head(value)))
    BY SuffixReads
<1>4. Exactly(IsContaining(filter, fields),
              value[1] \in {"LIKE", "CONTAINS"} <=> <<value[2], row[field]>> \in Matches["LIKE"])
    BY ContainingReads
<1>5. Exactly(IsDateText(filter, fields), Within(row["sys_created_on"], DateTexts[Head(value)]))
    BY DateTextReads
<1>6. Exactly(IsPriorityList(filter, fields), \E part \in Listed(value) : row["priority"] = Last(part))
    <2> SUFFICES ASSUME IsPriorityList(filter, fields)
                 PROVE  selected <=> known /\ \E part \in Listed(value) : row["priority"] = Last(part)
        OBVIOUS
    <2>1. row \in Selects(table, BuildQueryCondition(filter.field, filter.value), rows) <=>
              row \in rows /\ \E part \in Listed(filter.value) : row["priority"] = Last(part)
        BY PriorityListSelects, SMTT(90)
    <2> QED
        BY <2>1
<1>7. Exactly(IsKnownCaller(filter, fields), row["caller_id"] # KnownCallers[Head(value)])
    BY KnownCallerReads
<1>8. Exactly(IsCallerList(filter, fields), \A part \in Listed(value) : row["caller_id"] # Head(part))
    BY CallerListSelects
<1>9. IsPlain(filter, fields)
    OBVIOUS
<1> HIDE DEF selected, known
<1> QED
    BY <1>1, <1>2, <1>3, <1>4, <1>5, <1>6, <1>7, <1>8, <1>9 DEF IsPlain, Asked, selected, known

\* A filter of one of the forms that a tool describes is, as a query, exactly what it asks:
\* from a key and a value to the handler, from its condition to the rows
\* (_build_query_condition); if neither its field nor its value has a & or ^NQ.
THEOREM FilterFormsAreExact ==
    ASSUME NEW table, NEW filter \in Filters, IsPlain(filter, FieldsOf[table]),
           Intact(BuildQueryCondition(filter.field, filter.value)), NEW rows, NEW row
    PROVE  row \in Returned(table, EncodeQueryString(BuildQueryCondition(filter.field, filter.value)), rows) <=>
              row \in rows /\ Asked(filter, FieldsOf[table], row)
<1>1. PICK condition \in Seq(Tokens) : condition = BuildQueryCondition(filter.field, filter.value)
    BY FilterTypes
<1>2. Returned(table, EncodeQueryString(condition), rows) = Selects(table, condition, rows)
    BY <1>1, IntactReturns
<1>3. row \in Selects(table, BuildQueryCondition(filter.field, filter.value), rows) <=>
         row \in rows /\ Asked(filter, FieldsOf[table], row)
    BY FilterFormsSelect
<1> QED
    BY <1>1, <1>2, <1>3

-----------------------------------------------------------------------------
(* What is asked for and answered, request by request                       *)

\* A call has sent what it asks for with the exclusions; until it ends it answers nothing.
AskedInv ==
    /\ call \in Calls
    /\ stage \in {"called", "reading", "reading more", "answered"}
    /\ stage # "answered" => answer = Nothing
    /\ stage = "reading" =>
          Asks(call) /\ \E q \in Queries : sent = <<ApplyDomainFilters(call.table, q)>>
    /\ stage = "reading more" =>
          Asks(call) /\ \E q \in Queries : \E first : sent = <<first, ApplyDomainFilters(call.table, q)>>

SafeInv == AskedInv /\ NothingSensitive

\* A reply has rows the instance returns, however it is capped; those that the last
\* query selects, if that is whole.
LEMMA RepliesAreFound ==
    ASSUME NEW reply \in Replies
    PROVE  /\ reply.rows \subseteq Found
           /\ \/ reply.rows = {} /\ ~reply.ok
              \/ reply.rows \in Capped(Found) /\ reply.ok
<1>1. CASE reply = [rows |-> {}, ok |-> FALSE]
    BY <1>1
<1>2. CASE reply # [rows |-> {}, ok |-> FALSE]
    <2>1. PICK few \in Capped(Found) : reply = [rows |-> few, ok |-> TRUE]
        BY <1>2 DEF Replies
    <2>2. few \subseteq Found
        BY DEF Capped, Newest, kSubset
    <2> QED
        BY <2>1, <2>2
<1> QED
    BY <1>1, <1>2

LEMMA FoundIsSelected ==
    ASSUME NEW T, Last(sent) \in Seq(T), Intact(Last(sent))
    PROVE  Found = Selects(call.table, Last(sent), RowsOf(call))
<1>1. PICK query \in Seq(T) : query = Last(sent)
    OBVIOUS
<1>2. Returned(call.table, EncodeQueryString(query), RowsOf(call)) = Selects(call.table, query, RowsOf(call))
    BY <1>1, IntactReturns
<1> QED
    BY <1>1, <1>2 DEF Found

\* The query that is being answered is one with the exclusions.
LEMMA LastAsked ==
    ASSUME AskedInv, stage \in {"reading", "reading more"}
    PROVE  /\ \E q \in Queries : Last(sent) = ApplyDomainFilters(call.table, q)
           /\ AllIntact => Intact(Last(sent))
<1>1. CASE stage = "reading"
    <2>1. PICK q \in Queries : sent = <<ApplyDomainFilters(call.table, q)>>
        BY <1>1 DEF AskedInv
    <2>2. PICK e : e = ApplyDomainFilters(call.table, q)
        OBVIOUS
    <2>3. sent = <<e>>
        BY <2>1, <2>2
    <2>4. Last(sent) = e /\ sent[1] = e /\ 1 \in DOMAIN sent
        BY <2>3, LastOfFew, Zenon
    <2> QED
        BY <2>2, <2>4 DEF AllIntact
<1>2. CASE stage = "reading more"
    <2>1. PICK q \in Queries : \E first : sent = <<first, ApplyDomainFilters(call.table, q)>>
        BY <1>2 DEF AskedInv
    <2>2. PICK first : sent = <<first, ApplyDomainFilters(call.table, q)>>
        BY <2>1
    <2>3. PICK e : e = ApplyDomainFilters(call.table, q)
        OBVIOUS
    <2>4. sent = <<first, e>>
        BY <2>2, <2>3
    <2>5. Last(sent) = e /\ sent[2] = e /\ 2 \in DOMAIN sent
        BY <2>4, LastOfFew, Zenon
    <2> QED
        BY <2>3, <2>5 DEF AllIntact
<1> QED
    BY <1>1, <1>2

LEMMA RepliesAreSafe ==
    ASSUME AskedInv, stage \in {"reading", "reading more"}, NEW reply \in Replies,
           NEW row \in reply.rows
    PROVE  row \in RowsOf(call) /\ (Intact(Last(sent)) => ~Sensitive(call.table, row))
<1>1. PICK q \in Queries : Last(sent) = ApplyDomainFilters(call.table, q)
    BY LastAsked
<1>2. row \in RowsOf(call)
    BY RepliesAreFound, ReturnedRows DEF Found
<1>3. ASSUME Intact(Last(sent))
      PROVE  ~Sensitive(call.table, row)
    <2>1. CASE call.table \notin SC_CATALOG_TABLES
        BY <2>1 DEF Sensitive
    <2>2. CASE call.table \in SC_CATALOG_TABLES
        <3>1. {"cat_item.sc_catalogs.title", "assignment_group.name"} \subseteq FieldsOf[call.table]
            BY <2>2, PolicyAssumption DEF AskedInv
        <3>2. Last(sent) \in Seq(Tokens)
            BY <1>1, ExclusionsKeep DEF Queries
        <3>3. row \in Selects(call.table, Last(sent), RowsOf(call))
            BY <1>3, <3>2, FoundIsSelected, RepliesAreFound
        <3> QED
            BY <1>1, <2>2, <3>1, <3>3, PolicySelects
    <2> QED
        BY <2>1, <2>2
<1> QED
    BY <1>2, <1>3

\* What a search for the words of a phrase or of a description asks for is a query.
LEMMA PhraseAsksForWords ==
    ASSUME NEW c \in Calls, Asks(c), c.tool = "intelligent"
    PROVE  TextQuery(ExtractKeywords(c.phrase)) \in Queries
<1>1. c.phrase \in Texts
    BY CallsAssumption DEF WordsOf
<1> QED
    BY <1>1, KeywordsAreWords, TextQueryType

LEMMA SimilarAsksForWords ==
    ASSUME NEW c \in Calls, Asks(c), c.tool = "similar", NEW row \in RowsOf(c)
    PROVE  /\ TextQuery(ExtractKeywords(TextOf[row["short_description"]])) \in Queries
           /\ Intact(TextQuery(ExtractKeywords(TextOf[row["short_description"]])))
<1>1. TextOf[row["short_description"]] \in Texts
    BY SimilarAssumption DEF Asks
<1> QED
    BY <1>1, KeywordsAreWords, TextQueryType

LEMMA SafeInit == Init => SafeInv
BY DEF Init, SafeInv, AskedInv, NothingSensitive, Nothing

\* An answer keeps the invariant if its rows do.
LEMMA AnsweredSafely ==
    ASSUME SafeInv, NEW a, Answer(a), UNCHANGED sent,
           AllIntact => \A row \in a.rows : ~Sensitive(call.table, row)
    PROVE  SafeInv'
BY DEF Answer, SafeInv, AskedInv, NothingSensitive, AllIntact

LEMMA SentMoreSafely ==
    ASSUME SafeInv, stage = "reading", NEW keywords, SendMore(keywords), TextQuery(keywords) \in Queries
    PROVE  SafeInv'
<1> DEFINE more == ApplyDomainFilters(call.table, TextQuery(keywords))
<1>1. PICK q \in Queries : sent = <<ApplyDomainFilters(call.table, q)>>
    BY DEF SafeInv, AskedInv
<1>2. sent' = Append(sent, more) /\ stage' = "reading more" /\ call' = call /\ answer' = answer
    BY DEF SendMore, TextSearch
<1> HIDE DEF more
<1>3. sent' = <<ApplyDomainFilters(call.table, q), more>>
    BY <1>1, <1>2, AppendToOne, Zenon
<1>4. \E q2 \in Queries : \E first : sent' = <<first, ApplyDomainFilters(call.table, q2)>>
    BY <1>3 DEF more
<1>5. answer.rows = {}
    BY DEF SafeInv, AskedInv, Nothing
<1> QED
    BY <1>2, <1>4, <1>5 DEF SafeInv, AskedInv, NothingSensitive

LEMMA SafeStep == SafeInv /\ [Next]_vars => SafeInv'
<1> SUFFICES ASSUME SafeInv, [Next]_vars
             PROVE  SafeInv'
    OBVIOUS
<1>0. \A reply \in Replies : stage \in {"reading", "reading more"} =>
        \A row \in reply.rows : row \in RowsOf(call) /\ (AllIntact => ~Sensitive(call.table, row))
    BY LastAsked, RepliesAreSafe DEF SafeInv
<1>1. CASE Refuse
    <2>1. Answer([Nothing EXCEPT !.error = TRUE]) /\ UNCHANGED sent
        BY <1>1 DEF Refuse
    <2> QED
        BY <2>1, AnsweredSafely DEF Nothing
<1>2. CASE NoKeywords
    <2>1. Answer([Nothing EXCEPT !.fallback = call.tool = "intelligent"]) /\ UNCHANGED sent
        BY <1>2 DEF NoKeywords
    <2> QED
        BY <2>1, AnsweredSafely DEF Nothing
<1>3. CASE Send
    <2>1. FirstQuery(call) \in Queries
        BY <1>3, AsksForAQuery DEF Send, SafeInv, AskedInv
    <2>2. answer' = Nothing /\ Nothing.rows = {}
        BY <1>3 DEF Send, SafeInv, AskedInv, Nothing
    <2> QED
        BY <1>3, <2>1, <2>2 DEF Send, SafeInv, AskedInv, NothingSensitive
<1>4. CASE AnswerRows
    <2>1. PICK reply \in Replies : Answer([Nothing EXCEPT !.rows = reply.rows]) /\ UNCHANGED sent
        BY <1>4 DEF AnswerRows
    <2>2. stage = "reading"
        BY <1>4 DEF AnswerRows, Reads
    <2> QED
        BY <1>0, <2>1, <2>2, AnsweredSafely DEF Nothing
<1>5. CASE AnswerByState
    <2>1. PICK reply \in Replies :
            /\ Answer([Nothing EXCEPT !.articles = Deduped(reply.rows, call.state),
                                      !.truncated = Cardinality(reply.rows) >= call.max])
            /\ UNCHANGED sent
        BY <1>5 DEF AnswerByState
    <2> DEFINE a == [Nothing EXCEPT !.articles = Deduped(reply.rows, call.state),
                                    !.truncated = Cardinality(reply.rows) >= call.max]
    <2>2. a.rows = {}
        BY DEF Nothing
    <2> HIDE DEF a
    <2>3. Answer(a) /\ UNCHANGED sent
        BY <2>1 DEF a
    <2> QED
        BY <2>2, <2>3, AnsweredSafely
<1>6. CASE ReadDescription
    <2>1. stage = "reading" /\ call.tool = "similar"
        BY <1>6 DEF ReadDescription, Reads
    <2>2. CASE Answer(Nothing) /\ UNCHANGED sent
        BY <2>2, AnsweredSafely DEF Nothing
    <2>3. CASE ~(Answer(Nothing) /\ UNCHANGED sent)
        <3>4. PICK reply \in Replies : \E row \in reply.rows :
                IF ExtractKeywords(TextOf[row["short_description"]]) = <<>> THEN Answer(Nothing) /\ UNCHANGED sent
                ELSE SendMore(ExtractKeywords(TextOf[row["short_description"]]))
            BY <1>6, <2>3, Zenon DEF ReadDescription
        <3>1. PICK row \in reply.rows : SendMore(ExtractKeywords(TextOf[row["short_description"]]))
            BY <2>3, <3>4, Zenon
        <3>2. row \in RowsOf(call)
            BY <1>0, <2>1, <3>1, <3>4
        <3>3. TextQuery(ExtractKeywords(TextOf[row["short_description"]])) \in Queries
            BY <2>1, <3>2, SimilarAsksForWords DEF SafeInv, AskedInv
        <3> QED
            BY <2>1, <3>1, <3>3, SentMoreSafely
    <2> QED
        BY <2>2, <2>3
<1>7. CASE AnswerSimilar
    <2>1. PICK reply \in Replies : Answer([Nothing EXCEPT !.rows = WithoutOriginal(reply.rows)]) /\ UNCHANGED sent
        BY <1>7 DEF AnswerSimilar
    <2>2. stage = "reading more"
        BY <1>7 DEF AnswerSimilar
    <2> QED
        BY <1>0, <2>1, <2>2, AnsweredSafely DEF Nothing, WithoutOriginal
<1>8. CASE AnswerIntelligently
    <2>1. stage = "reading" /\ call.tool = "intelligent"
        BY <1>8 DEF AnswerIntelligently, Reads
    <2>2. PICK reply \in Replies :
            \/ Answer([Nothing EXCEPT !.rows = reply.rows]) /\ UNCHANGED sent
            \/ Answer([Nothing EXCEPT !.error = TRUE]) /\ UNCHANGED sent
            \/ SendMore(ExtractKeywords(call.phrase))
            \/ Answer([Nothing EXCEPT !.fallback = TRUE]) /\ UNCHANGED sent
        BY <1>8 DEF AnswerIntelligently
    <2>3. CASE Answer([Nothing EXCEPT !.rows = reply.rows]) /\ UNCHANGED sent
        BY <1>0, <2>1, <2>3, AnsweredSafely DEF Nothing
    <2>4. CASE SendMore(ExtractKeywords(call.phrase))
        <3>1. TextQuery(ExtractKeywords(call.phrase)) \in Queries
            BY <2>1, PhraseAsksForWords DEF SafeInv, AskedInv
        <3> QED
            BY <2>1, <2>4, <3>1, SentMoreSafely
    <2>5. CASE Answer([Nothing EXCEPT !.fallback = TRUE]) /\ UNCHANGED sent
        BY <2>5, AnsweredSafely DEF Nothing
    <2>6. CASE Answer([Nothing EXCEPT !.error = TRUE]) /\ UNCHANGED sent
        BY <2>6, AnsweredSafely DEF Nothing
    <2> QED
        BY <2>2, <2>3, <2>4, <2>5, <2>6
<1>9. CASE AnswerFallback
    <2>1. PICK reply \in Replies : Answer([Nothing EXCEPT !.rows = reply.rows, !.fallback = TRUE]) /\ UNCHANGED sent
        BY <1>9 DEF AnswerFallback
    <2>2. stage = "reading more"
        BY <1>9 DEF AnswerFallback
    <2> QED
        BY <1>0, <2>1, <2>2, AnsweredSafely DEF Nothing
<1>10. CASE UNCHANGED vars
    BY <1>10 DEF vars, SafeInv, AskedInv, NothingSensitive, AllIntact
<1> QED
    BY <1>1, <1>2, <1>3, <1>4, <1>5, <1>6, <1>7, <1>8, <1>9, <1>10 DEF Next

\* No tool shows a row the catalog policy hides: not a search of any of its words, not a
\* fallback, not the records similar to it, for any calls, rows and failures; if no query
\* it sends has a & or ^NQ in it.
THEOREM NothingSensitiveShown == Spec => []NothingSensitive
<1>1. SafeInv => NothingSensitive
    BY DEF SafeInv
<1> QED
    BY <1>1, SafeInit, SafeStep, PTL DEF Spec

-----------------------------------------------------------------------------
(* Similar records                                                          *)

\* A search for the keywords of a description finds rows with one of its words.
LEMMA SharesAWord ==
    ASSUME NEW table, "short_description" \in FieldsOf[table], NEW text \in Texts,
           ExtractKeywords(text) # <<>>, TextQuery(ExtractKeywords(text)) \in Queries, NEW rows,
           NEW row \in Selects(table, ApplyDomainFilters(table, TextQuery(ExtractKeywords(text))), rows)
    PROVE  \E word \in ToSet(text) : <<word, row["short_description"]>> \in Matches["LIKE"]
<1> DEFINE keywords == ExtractKeywords(text)
<1>1. keywords \in Seq(Words) /\ \A k \in DOMAIN keywords : keywords[k] \in ToSet(text)
    BY KeywordsAreWords
<1> HIDE DEF keywords
<1>2. row \in Selects(table, TextQuery(keywords), rows)
    BY ExclusionsNarrow DEF keywords
<1>3. \E k \in DOMAIN keywords : <<keywords[k], row["short_description"]>> \in Matches["LIKE"]
    <2>1. keywords # <<>>
        BY DEF keywords
    <2> QED
        BY <1>1, <1>2, <2>1, KeywordsSelect
<1> QED
    BY <1>1, <1>3

\* An original of the number the call gives: one the caller may see.
Original(row) ==
    row \in RowsOf(call) /\ row["number"] = call.number /\ ~Sensitive(call.table, row)

\* Before it reads similar records the tool has read the description of such an original,
\* and asked for its keywords.
SimilarInv ==
    /\ SafeInv
    /\ call.tool = "similar" /\ stage = "reading" =>
          sent = <<ApplyDomainFilters(call.table, NumberQuery(call.number))>>
    /\ call.tool = "similar" /\ stage = "reading more" =>
          \E original :
             /\ Original(original)
             /\ ExtractKeywords(TextOf[original["short_description"]]) # <<>>
             /\ Last(sent) = TextSearch(call.table, ExtractKeywords(TextOf[original["short_description"]]))
    /\ SimilarIsSimilar

\* Similar records start from a number.
LEMMA SimilarAsksForNumber ==
    ASSUME call.tool = "similar"
    PROVE  FirstQuery(call) = NumberQuery(call.number)
<1>1. ~TextOnly(call) /\ call.tool \in {"record", "similar"} /\ call.tool # "priority"
    BY DEF TextOnly
<1> QED
    BY <1>1, Zenon DEF FirstQuery

\* What is known of such a call while it reads.
LEMMA SimilarCalls ==
    ASSUME SafeInv, call.tool = "similar", stage \in {"reading", "reading more"}
    PROVE  /\ call \in Calls /\ Asks(call) /\ answer = Nothing
           /\ {"number", "short_description"} \subseteq FieldsOf[call.table] /\ call.number \in Names
           /\ FirstQuery(call) = NumberQuery(call.number)
           /\ NumberQuery(call.number) \in Queries /\ Intact(NumberQuery(call.number))
           /\ \A row \in RowsOf(call) : /\ TextOf[row["short_description"]] \in Texts
                                        /\ TextQuery(ExtractKeywords(TextOf[row["short_description"]])) \in Queries
                                        /\ Intact(TextQuery(ExtractKeywords(TextOf[row["short_description"]])))
<1>1. call \in Calls /\ Asks(call) /\ ~Refused(call) /\ answer = Nothing
    BY DEF SafeInv, AskedInv, Asks
<1>2. FirstQuery(call) = NumberQuery(call.number)
    BY SimilarAsksForNumber
<1>3. /\ {"number", "short_description"} \subseteq FieldsOf[call.table] /\ call.number \in Names
      /\ \A row \in RowsOf(call) : TextOf[row["short_description"]] \in Texts
    BY <1>1, SimilarAssumption
<1>4. /\ FirstQuery(call) \in Queries
      /\ \A row \in RowsOf(call) : /\ TextQuery(ExtractKeywords(TextOf[row["short_description"]])) \in Queries
                                   /\ Intact(TextQuery(ExtractKeywords(TextOf[row["short_description"]])))
    BY <1>1, AsksForAQuery, SimilarAsksForWords
<1>5. Intact(NumberQuery(call.number))
    <2>1. call.number \in STRING
        BY <1>3 DEF Names, Words
    <2> QED
        BY <1>3, <2>1, NumberQueryType
<1> QED
    BY <1>1, <1>2, <1>3, <1>4, <1>5

\* What the tool reads first are originals.
LEMMA ReadsOriginals ==
    ASSUME SimilarInv, stage = "reading", call.tool = "similar", NEW reply \in Replies, NEW row \in reply.rows
    PROVE  Original(row)
<1>1. /\ {"number", "short_description"} \subseteq FieldsOf[call.table] /\ call.number \in Names
      /\ NumberQuery(call.number) \in Queries /\ Intact(NumberQuery(call.number))
    BY SimilarCalls DEF SimilarInv
<1>2. Last(sent) = ApplyDomainFilters(call.table, NumberQuery(call.number))
    <2>1. \A x : Last(<<x>>) = x
        BY DEF Last
    <2> QED
        BY <2>1 DEF SimilarInv
<1>6. Last(sent) \in Seq(Tokens) /\ Intact(Last(sent))
    BY <1>1, <1>2, ExclusionsKeep DEF Queries
<1>3. row \in Selects(call.table, NumberQuery(call.number), RowsOf(call))
    <2>1. row \in Selects(call.table, Last(sent), RowsOf(call))
        BY <1>6, FoundIsSelected, RepliesAreFound
    <2> QED
        BY <1>1, <1>2, <2>1, ExclusionsNarrow
<1>4. row["number"] = call.number
    <2>1. PICK f \in FieldsOf[call.table] : f = "number"
        BY <1>1
    <2>2. f \notin QueryOperators \cup {"^", "^OR"}
        BY <2>1 DEF QueryOperators
    <2>3. PICK v : v = call.number
        OBVIOUS
    <2>4. v \notin {"^", "^OR", "NULL"}
        BY <1>1, <2>3 DEF Names, Words
    <2>5. row \in Selects(call.table, <<f, "=", v>>, RowsOf(call))
        BY <1>3, <2>1, <2>3 DEF NumberQuery
    <2>6. /\ row \in Selects(call.table, <<f, "=", v>>, RowsOf(call)) <=> row \in RowsOf(call) /\ row[f] = v
          /\ row \in Selects(call.table, <<f, "!=", v>>, RowsOf(call)) <=> row \in RowsOf(call) /\ row[f] # v
        BY <2>2, <2>4, SelectsEqual
    <2> QED
        BY <2>1, <2>3, <2>5, <2>6
<1>5. row \in RowsOf(call) /\ ~Sensitive(call.table, row)
    BY <1>6, RepliesAreSafe DEF SimilarInv, SafeInv
<1> QED
    BY <1>4, <1>5 DEF Original

\* What it then answers shares a word with that original, and is another record.
LEMMA SimilarAnswered ==
    ASSUME SimilarInv, AnswerSimilar
    PROVE  SimilarIsSimilar'
<1>1. stage = "reading more" /\ call.tool = "similar"
    BY DEF AnswerSimilar
<1>2. PICK reply \in Replies : Answer([Nothing EXCEPT !.rows = WithoutOriginal(reply.rows)])
    BY DEF AnswerSimilar
<1>3. answer'.rows = {row \in reply.rows : row["number"] # call.number} /\ call' = call
    BY <1>2 DEF Answer, Nothing, WithoutOriginal
<1>4. PICK original :
        /\ Original(original)
        /\ ExtractKeywords(TextOf[original["short_description"]]) # <<>>
        /\ Last(sent) = TextSearch(call.table, ExtractKeywords(TextOf[original["short_description"]]))
    BY <1>1 DEF SimilarInv
<1> DEFINE text == TextOf[original["short_description"]]
<1>5. /\ "short_description" \in FieldsOf[call.table] /\ text \in Texts
      /\ TextQuery(ExtractKeywords(text)) \in Queries /\ Intact(TextQuery(ExtractKeywords(text)))
    BY <1>1, <1>4, SimilarCalls DEF SimilarInv, Original
<1>6. ASSUME NEW row \in answer'.rows
      PROVE  /\ row # original
             /\ \E word \in ToSet(text) : <<word, row["short_description"]>> \in Matches["LIKE"]
    <2>1. row \in reply.rows /\ row["number"] # call.number
        BY <1>3
    <2>2. row \in Selects(call.table, ApplyDomainFilters(call.table, TextQuery(ExtractKeywords(text))), RowsOf(call))
        <3>1. Last(sent) = ApplyDomainFilters(call.table, TextQuery(ExtractKeywords(text)))
            BY <1>4 DEF TextSearch
        <3> HIDE DEF text
        <3>2. Last(sent) \in Seq(Tokens) /\ Intact(Last(sent))
            BY <1>5, <3>1, ExclusionsKeep DEF Queries
        <3>3. row \in Selects(call.table, Last(sent), RowsOf(call))
            BY <2>1, <3>2, FoundIsSelected, RepliesAreFound
        <3> QED
            BY <3>1, <3>3
    <2>3. ExtractKeywords(text) # <<>>
        BY <1>4
    <2> HIDE DEF text
    <2>4. \E word \in ToSet(text) : <<word, row["short_description"]>> \in Matches["LIKE"]
        BY <1>5, <2>2, <2>3, SharesAWord
    <2> QED
        BY <1>4, <2>1, <2>4 DEF Original
<1> QED
    BY <1>3, <1>4, <1>6 DEF SimilarIsSimilar, Original, RowsOf

\* Each step keeps what the tool has read and asked for.
LEMMA SimilarStep == SimilarInv /\ [Next]_vars => SimilarInv'
<1> SUFFICES ASSUME SimilarInv, [Next]_vars
             PROVE  SimilarInv'
    OBVIOUS
<1>1. SafeInv'
    BY SafeStep DEF SimilarInv
<1>2. call' = call
    BY DEF Next, vars, Refuse, NoKeywords, Send, AnswerRows, AnswerByState, ReadDescription, AnswerSimilar,
           AnswerIntelligently, AnswerFallback, Answer, SendMore
<1>3. CASE call.tool # "similar"
    BY <1>1, <1>2, <1>3 DEF SimilarInv, SimilarIsSimilar
<1>4. CASE call.tool = "similar"
    <2>1. CASE Refuse
        <3>1. stage' = "answered" /\ answer'.rows = {}
            BY <2>1 DEF Refuse, Answer, Nothing
        <3> QED
            BY <1>1, <3>1 DEF SimilarInv, SimilarIsSimilar
    <2>2. CASE NoKeywords
        <3>1. stage' = "answered" /\ answer'.rows = {}
            BY <2>2 DEF NoKeywords, Answer, Nothing
        <3> QED
            BY <1>1, <3>1 DEF SimilarInv, SimilarIsSimilar
    <2>3. CASE Send
        <3>1. /\ stage' = "reading" /\ answer' = answer
              /\ sent' = <<ApplyDomainFilters(call.table, FirstQuery(call))>>
            BY <2>3 DEF Send
        <3>2. answer' = Nothing
            BY <2>3, <3>1 DEF Send, SimilarInv, SafeInv, AskedInv
        <3> QED
            BY <1>1, <1>2, <1>4, <3>1, <3>2, SimilarAsksForNumber DEF SimilarInv, SimilarIsSimilar, Nothing
    <2>4. CASE ReadDescription
        <3>1. stage = "reading" /\ answer = Nothing
            BY <2>4 DEF ReadDescription, Reads, SimilarInv, SafeInv, AskedInv
        <3>2. CASE Answer(Nothing)
            BY <1>1, <3>2 DEF Answer, Nothing, SimilarInv, SimilarIsSimilar
        <3>3. CASE ~Answer(Nothing)
            <4>1. PICK reply \in Replies : \E row \in reply.rows :
                    IF ExtractKeywords(TextOf[row["short_description"]]) = <<>> THEN Answer(Nothing) /\ UNCHANGED sent
                    ELSE SendMore(ExtractKeywords(TextOf[row["short_description"]]))
                BY <2>4, <3>3, Zenon DEF ReadDescription
            <4>2. PICK row \in reply.rows :
                    /\ ExtractKeywords(TextOf[row["short_description"]]) # <<>>
                    /\ SendMore(ExtractKeywords(TextOf[row["short_description"]]))
                BY <3>3, <4>1, Zenon
            <4>3. Original(row)
                BY <1>4, <3>1, ReadsOriginals
            <4>4. Original(row)'
                BY <1>2, <4>3 DEF Original, RowsOf
            <4>5. /\ stage' = "reading more" /\ answer' = Nothing
                  /\ sent' = Append(sent, TextSearch(call.table, ExtractKeywords(TextOf[row["short_description"]])))
                BY <3>1, <4>2 DEF SendMore
            <4>6. Last(sent') = TextSearch(call.table, ExtractKeywords(TextOf[row["short_description"]]))
                <5>1. PICK x : sent = <<x>>
                    BY <1>4, <3>1 DEF SimilarInv
                <5>2. \A y : Last(Append(<<x>>, y)) = y
                    BY DEF Last
                <5> QED
                    BY <4>5, <5>1, <5>2
            <4> QED
                BY <1>1, <1>2, <4>2, <4>4, <4>5, <4>6 DEF SimilarInv, SimilarIsSimilar, Nothing, TextSearch
        <3> QED
            BY <3>2, <3>3
    <2>5. CASE AnswerSimilar
        <3>1. SimilarIsSimilar' /\ stage' = "answered"
            BY <2>5, SimilarAnswered DEF AnswerSimilar, Answer
        <3> QED
            BY <1>1, <3>1 DEF SimilarInv
    <2>6. CASE UNCHANGED vars
        BY <1>1, <2>6 DEF vars, SimilarInv, SimilarIsSimilar, Original, RowsOf, TextSearch
    <2>7. ~AnswerRows /\ ~AnswerByState /\ ~AnswerIntelligently /\ ~AnswerFallback
        BY <1>4 DEF AnswerRows, AnswerByState, AnswerIntelligently, AnswerFallback, Reads
    <2> QED
        BY <2>1, <2>2, <2>3, <2>4, <2>5, <2>6, <2>7 DEF Next
<1> QED
    BY <1>3, <1>4

\* What is answered as similar to a record is another record that shares a word with one of
\* its number which the caller may see, for any rows, descriptions, record numbers and
\* content words (find_similar_records).
THEOREM SimilarAreSimilar == Spec => []SimilarIsSimilar
<1>1. Init => SimilarInv
    BY SafeInit DEF Init, SimilarInv, SimilarIsSimilar, Nothing
<1>2. SimilarInv => SimilarIsSimilar
    BY DEF SimilarInv
<1> QED
    BY <1>1, <1>2, SimilarStep, PTL DEF Spec

-----------------------------------------------------------------------------
(* The merge of article versions                                            *)

States == {KB_STATE_PRIORITY[k] : k \in 1..5}

\* The rank of a version is the place of its state, which is listed once.
LEMMA RankOfState ==
    ASSUME NEW v, NEW k \in 1..5, v["workflow_state"] = KB_STATE_PRIORITY[k]
    PROVE  StateRank(v) = k
<1> DEFINE places == {n \in 1..5 : KB_STATE_PRIORITY[n] = v["workflow_state"]}
<1>1. \A n \in 1..5 : KB_STATE_PRIORITY[n] = KB_STATE_PRIORITY[k] => n = k
    <2>1. /\ KB_STATE_PRIORITY[1] = "published" /\ KB_STATE_PRIORITY[2] = "draft"
          /\ KB_STATE_PRIORITY[3] = "review" /\ KB_STATE_PRIORITY[4] = "outdated"
          /\ KB_STATE_PRIORITY[5] = "retired"
        BY DEF KB_STATE_PRIORITY
    <2>2. \A n \in 1..5 : n = 1 \/ n = 2 \/ n = 3 \/ n = 4 \/ n = 5
        OBVIOUS
    <2> QED
        BY <2>1, <2>2
<1>2. places = {k}
    BY <1>1
<1>3. StateRank(v) = Min({k} \cup {6})
    <2>1. Len(KB_STATE_PRIORITY) + 1 = 6
        BY DEF KB_STATE_PRIORITY
    <2> QED
        BY <1>2, <2>1 DEF StateRank
<1>4. \A y \in {k} \cup {6} : (\A z \in {k} \cup {6} : y <= z) <=> y = k
    OBVIOUS
<1> QED
    BY <1>3, <1>4 DEF Min

\* Of some versions with a rank there is one of the least.
LEMMA BestVersion ==
    ASSUME NEW versions, versions # {}, \A v \in versions : StateRank(v) \in 1..5
    PROVE  \E v \in versions : \A w \in versions : StateRank(v) <= StateRank(w)
<1> DEFINE Ranked(k) == \E v \in versions : StateRank(v) = k
<1>1. \E k \in 1..5 : Ranked(k) /\ \A m \in 1..5 : m < k => ~Ranked(m)
    <2>1. CASE Ranked(1)
        BY <2>1
    <2>2. CASE ~Ranked(1) /\ Ranked(2)
        BY <2>2
    <2>3. CASE ~Ranked(1) /\ ~Ranked(2) /\ Ranked(3)
        BY <2>3
    <2>4. CASE ~Ranked(1) /\ ~Ranked(2) /\ ~Ranked(3) /\ Ranked(4)
        BY <2>4
    <2>5. CASE ~Ranked(1) /\ ~Ranked(2) /\ ~Ranked(3) /\ ~Ranked(4)
        <3>1. Ranked(5)
            BY <2>5
        <3> QED
            BY <2>5, <3>1
    <2> QED
        BY <2>1, <2>2, <2>3, <2>4, <2>5
<1>2. PICK k \in 1..5 : Ranked(k) /\ \A m \in 1..5 : m < k => ~Ranked(m)
    BY <1>1
<1>3. PICK v \in versions : StateRank(v) = k
    BY <1>2
<1>4. \A w \in versions : StateRank(v) <= StateRank(w)
    BY <1>2, <1>3
<1> QED
    BY <1>4

\* The entry made of the versions of one article is its number, the best of their
\* states, and how many they are.
LEMMA EntryOfVersions ==
    ASSUME NEW rows, \A v \in rows : v["workflow_state"] \in States, NEW row \in rows
    PROVE  LET versions == {v \in rows : v["number"] = row["number"]}
           IN  Canonical(versions)
               = [number |-> row["number"], current_state |-> KB_STATE_PRIORITY[BestState(rows, row["number"])],
                  version_count |-> Cardinality(versions)]
<1> DEFINE number == row["number"]
           versions == {v \in rows : v["number"] = number}
           best == CHOOSE v \in versions : \A w \in versions : StateRank(v) <= StateRank(w)
<1>1. \A v \in rows : /\ StateRank(v) \in 1..5 /\ v["workflow_state"] = KB_STATE_PRIORITY[StateRank(v)]
    <2> TAKE v \in rows
    <2>1. PICK k \in 1..5 : v["workflow_state"] = KB_STATE_PRIORITY[k]
        BY DEF States
    <2>2. StateRank(v) = k
        BY <2>1, RankOfState
    <2> QED
        BY <2>1, <2>2
<1>2. row \in versions /\ versions \subseteq rows
    OBVIOUS
<1>3. \E v \in versions : \A w \in versions : StateRank(v) <= StateRank(w)
    BY <1>1, <1>2, BestVersion
<1>4. best \in versions /\ \A w \in versions : StateRank(best) <= StateRank(w)
    BY <1>3
<1>5. Canonical(versions) = [number |-> best["number"], current_state |-> best["workflow_state"],
                             version_count |-> Cardinality(versions)]
    BY DEF Canonical
<1> HIDE DEF best
<1> DEFINE IsBest(k) == /\ \E v \in rows : v["number"] = number /\ v["workflow_state"] = KB_STATE_PRIORITY[k]
                        /\ \A v \in rows : v["number"] = number => StateRank(v) >= k
<1>6. StateRank(best) \in 1..5 /\ IsBest(StateRank(best))
    BY <1>1, <1>4
<1>7. \A k \in 1..5 : IsBest(k) => k = StateRank(best)
    <2> TAKE k \in 1..5
    <2> HAVE IsBest(k)
    <2>1. PICK v \in rows : v["number"] = number /\ v["workflow_state"] = KB_STATE_PRIORITY[k]
        OBVIOUS
    <2>2. StateRank(v) = k
        BY <2>1, RankOfState
    <2>3. StateRank(best) <= k
        BY <1>4, <2>1, <2>2
    <2>4. StateRank(best) >= k
        BY <1>4
    <2> QED
        BY <1>6, <2>3, <2>4
<1>8. BestState(rows, number) = CHOOSE k \in 1..5 : IsBest(k)
    BY DEF BestState
<1> HIDE DEF IsBest
<1>9. BestState(rows, number) = StateRank(best)
    BY <1>6, <1>7, <1>8
<1>10. best["number"] = number /\ best["workflow_state"] = KB_STATE_PRIORITY[StateRank(best)]
    BY <1>1, <1>4
<1> QED
    BY <1>5, <1>9, <1>10

\* The merge of versions gives for each article one entry, with the best state of all its
\* versions and their number, and drops entries by that state and no other, for any
\* articles and versions in the known states (get_kb_articles_by_state).
THEOREM MergeIsCanonical ==
    ASSUME NEW rows, \A v \in rows : v["workflow_state"] \in States, NEW state
    PROVE  Deduped(rows, state) = Merged(rows, state)
<1> DEFINE Versions(number) == {v \in rows : v["number"] = number}
           Entry(number) == [number |-> number, current_state |-> KB_STATE_PRIORITY[BestState(rows, number)],
                             version_count |-> Cardinality(Versions(number))]
<1>1. {Canonical(versions) : versions \in ByNumber(rows)} = {Canonical(Versions(row["number"])) : row \in rows}
    BY DEF ByNumber
<1>2. \A row \in rows : Canonical(Versions(row["number"])) = Entry(row["number"])
    BY EntryOfVersions
<1>3. Deduped(rows, state) = {a \in {Canonical(Versions(row["number"])) : row \in rows} : state \in {"", a.current_state}}
    BY <1>1 DEF Deduped
<1>4. Merged(rows, state) = {a \in {Entry(n) : n \in {row["number"] : row \in rows}} : state \in {"", a.current_state}}
    BY DEF Merged
<1> HIDE DEF Versions, Entry
<1>5. {Canonical(Versions(row["number"])) : row \in rows} = {Entry(n) : n \in {row["number"] : row \in rows}}
    BY <1>2
<1> QED
    BY <1>3, <1>4, <1>5

-----------------------------------------------------------------------------
(* The list of articles by state                                            *)

\* A plain name given for the category or the base is looked for exactly.
LEMMA PlainCondition ==
    ASSUME NEW f \in {"kb_category", "kb_knowledge_base"}, NEW v \in Names
    PROVE  BuildQueryCondition(<<f>>, <<v>>) = <<f, "=", v>>
<1> DEFINE field == <<f>>
           value == <<v>>
<1>1. Head(value) = v /\ Last(field) = f /\ Has(field, f) /\ DOMAIN value = {1} /\ value[1] = v
    BY DEF Last, Has
<1>2. \A token : Has(value, token) => token = v
    BY <1>1 DEF Has
<1>3. /\ field # <<"sys_created_on">> /\ field # <<"priority">> /\ field # <<"exclude_caller">>
      /\ field # <<"caller_exclusion">> /\ field # <<"_complete_query">> /\ field # <<"_complete_caller_exclusion">>
    OBVIOUS
<1>4. NormalizeOperator(value) = value
    <2>1. v # "CONTAINS" /\ v \notin {"NOTCONTAINS", "NOT CONTAINS"}
        BY DEF Names
    <2> HIDE DEF value
    <2> QED
        BY <1>1, <2>1, Zenon DEF NormalizeOperator
<1>5. ~Has(value, "^OR") /\ ~HasOperatorInValue(value)
    BY <1>1, <1>2 DEF Names, Words, HasOperatorInValue, Comparisons, QueryOperators
<1>6. f \notin DOMAIN SUFFIX_OPERATORS
    BY DEF SUFFIX_OPERATORS
<1> DEFINE exact == <<f, "=", v>>
<1>14. field \o <<"=">> \o value = exact
    <2>1. PICK eq : eq = "="
        OBVIOUS
    <2>2. <<f>> \o <<eq>> \o <<v>> = <<f, eq, v>>
        BY ThreeJoined
    <2> QED
        BY <2>1, <2>2
<1> HIDE DEF field, value
<1>7. DateRangeCondition(field, value) = None
    BY <1>3 DEF DateRangeCondition
<1>8. PriorityCondition(field, value) = None
    BY <1>3, Zenon DEF PriorityCondition
<1>9. CallerExclusionCondition(field, value) = None
    BY <1>3 DEF CallerExclusionCondition
<1>10. BareOrCondition(field, value) = None
    BY <1>5, Zenon DEF BareOrCondition
<1>11. ServiceNowFilterCondition(field, value) = None
    BY <1>5, Zenon DEF ServiceNowFilterCondition
<1>12. OperatorCondition(field, value) = None
    BY <1>5, Zenon DEF OperatorCondition
<1>13. SuffixOperatorCondition(field, value) = None
    BY <1>1, <1>6, Zenon DEF SuffixOperatorCondition
<1>15. exact # None
    BY DEF None
<1>16. Handlers(field, value) = <<None, None, None, None, None, None, None, exact>>
    BY <1>7, <1>8, <1>9, <1>10, <1>11, <1>12, <1>13, <1>14, Zenon DEF Handlers
<1> HIDE DEF exact
<1> DEFINE conditions == <<None, None, None, None, None, None, None, exact>>
           given == {k \in DOMAIN conditions : conditions[k] # None}
<1>17. BuildQueryCondition(field, value) = conditions[Min(given)]
    <2>1. field \notin {<<"_complete_query">>, <<"_complete_caller_exclusion">>}
        BY <1>3
    <2> QED
        BY <1>4, <1>16, <2>1, Zenon DEF BuildQueryCondition
<1>18. given = {8} /\ conditions[8] = exact
    <2>1. DOMAIN conditions = 1..8
        OBVIOUS
    <2>2. /\ conditions[1] = None /\ conditions[2] = None /\ conditions[3] = None /\ conditions[4] = None
          /\ conditions[5] = None /\ conditions[6] = None /\ conditions[7] = None /\ conditions[8] = exact
        OBVIOUS
    <2> HIDE DEF conditions
    <2>3. \A k \in 1..8 : k = 1 \/ k = 2 \/ k = 3 \/ k = 4 \/ k = 5 \/ k = 6 \/ k = 7 \/ k = 8
        OBVIOUS
    <2> QED
        BY <1>15, <2>1, <2>2, <2>3
<1> HIDE DEF conditions, given
<1>19. Min({8}) = 8
    BY DEF Min
<1> QED
    BY <1>17, <1>18, <1>19 DEF field, value, exact

\* One filter of a name selects the rows that have the name.
LEMMA NameSelects ==
    ASSUME NEW f \in {"kb_category", "kb_knowledge_base"}, NEW v \in Names, NEW table, f \in FieldsOf[table],
           NEW rows, NEW row
    PROVE  row \in Selects(table, BuildQueryCondition(<<f>>, <<v>>), rows) <=> row \in rows /\ row[f] = v
<1>1. BuildQueryCondition(<<f>>, <<v>>) = <<f, "=", v>>
    BY PlainCondition
<1>2. f \notin QueryOperators \cup {"^", "^OR"}
    BY DEF QueryOperators
<1>3. v \notin {"^", "^OR", "NULL"}
    BY DEF Names, Words
<1>4. /\ row \in Selects(table, <<f, "=", v>>, rows) <=> row \in rows /\ row[f] = v
      /\ row \in Selects(table, <<f, "!=", v>>, rows) <=> row \in rows /\ row[f] # v
    BY <1>2, <1>3, SelectsEqual, Zenon
<1> QED
    BY <1>1, <1>4

\* A dictionary with one entry, with none, and with two.
LEMMA OneFilterSelects ==
    ASSUME NEW T, "^" \in T, NEW table, NEW f, NEW v, BuildQueryCondition(f, v) \in Seq(T), NEW rows, NEW row
    PROVE  row \in Selects(table, BuildQueryString(<<[field |-> f, value |-> v]>>), rows) <=>
              row \in rows /\ row \in Selects(table, BuildQueryCondition(f, v), rows)
<1> DEFINE filters == <<[field |-> f, value |-> v]>>
<1>1. DOMAIN filters = 1..1 /\ filters[1].field = f /\ filters[1].value = v
    OBVIOUS
<1> HIDE DEF filters
<1>3. \A k \in 1..1 : k = 1
    OBVIOUS
<1>2. row \in Selects(table, BuildQueryString(filters), rows) <=>
        row \in rows /\ \A k \in 1..1 :
           row \in Selects(table, BuildQueryCondition(filters[k].field, filters[k].value), rows)
    <2>1. 1 \in Nat /\ \A k \in 1..1 : BuildQueryCondition(filters[k].field, filters[k].value) \in Seq(T)
        BY <1>1, <1>3
    <2> QED
        BY <1>1, <2>1, DictionarySelectsEach
<1> QED
    BY <1>1, <1>2, <1>3 DEF filters

LEMMA NoFilterSelects ==
    ASSUME NEW T, "^" \in T, NEW table, NEW rows, NEW row
    PROVE  row \in Selects(table, BuildQueryString(<<>>), rows) <=> row \in rows
<1> DEFINE none == <<>>
<1>1. 0 \in Nat /\ DOMAIN none = 1..0
    OBVIOUS
<1>2. \A k \in 1..0 : FALSE
    OBVIOUS
<1> HIDE DEF none
<1>3. row \in Selects(table, BuildQueryString(none), rows) <=>
        row \in rows /\ \A k \in 1..0 :
           row \in Selects(table, BuildQueryCondition(none[k].field, none[k].value), rows)
    <2>1. \A k \in 1..0 : BuildQueryCondition(none[k].field, none[k].value) \in Seq(T)
        BY <1>2, Zenon
    <2> QED
        BY <1>1, <2>1, DictionarySelectsEach
<1> QED
    BY <1>2, <1>3 DEF none

LEMMA TwoFiltersSelect ==
    ASSUME NEW T, "^" \in T, NEW table, NEW f, NEW v, BuildQueryCondition(f, v) \in Seq(T),
           NEW g, NEW w, BuildQueryCondition(g, w) \in Seq(T), NEW rows, NEW row
    PROVE  row \in Selects(table, BuildQueryString(<<[field |-> f, value |-> v], [field |-> g, value |-> w]>>), rows) <=>
              /\ row \in rows
              /\ row \in Selects(table, BuildQueryCondition(f, v), rows)
              /\ row \in Selects(table, BuildQueryCondition(g, w), rows)
<1> DEFINE filters == <<[field |-> f, value |-> v], [field |-> g, value |-> w]>>
<1>1. /\ DOMAIN filters = 1..2 /\ filters[1].field = f /\ filters[1].value = v
      /\ filters[2].field = g /\ filters[2].value = w
    OBVIOUS
<1> HIDE DEF filters
<1>3. 1 \in 1..2 /\ 2 \in 1..2 /\ \A k \in 1..2 : k = 1 \/ k = 2
    OBVIOUS
<1>2. row \in Selects(table, BuildQueryString(filters), rows) <=>
        row \in rows /\ \A k \in 1..2 :
           row \in Selects(table, BuildQueryCondition(filters[k].field, filters[k].value), rows)
    <2>1. 2 \in Nat /\ \A k \in 1..2 : BuildQueryCondition(filters[k].field, filters[k].value) \in Seq(T)
        BY <1>1, <1>3
    <2> QED
        BY <1>1, <2>1, DictionarySelectsEach
<1> QED
    BY <1>1, <1>2, <1>3 DEF filters

\* The filters of the KB tools select the articles of the category and the base, when
\* these are given.
LEMMA KnowledgeSelects ==
    ASSUME NEW c, c.category = "" \/ c.category \in Names, c.kb_base = "" \/ c.kb_base \in Names,
           NEW table, {"kb_category", "kb_knowledge_base"} \subseteq FieldsOf[table], NEW rows, NEW row
    PROVE  row \in Selects(table, BuildQueryString(KnowledgeFilters(c)), rows) <=>
              /\ row \in rows
              /\ c.category \in {"", row["kb_category"]}
              /\ c.kb_base \in {"", row["kb_knowledge_base"]}
<1>1. PICK f \in {"kb_category", "kb_knowledge_base"} : f = "kb_category"
    OBVIOUS
<1>2. PICK g \in {"kb_category", "kb_knowledge_base"} : g = "kb_knowledge_base"
    OBVIOUS
<1>3. PICK sep : sep = "^"
    OBVIOUS
<1>4. PICK eq : eq = "="
    OBVIOUS
<1> DEFINE T == Names \cup {f, g, sep, eq}
           One == [field |-> <<f>>, value |-> <<c.category>>]
           Two == [field |-> <<g>>, value |-> <<c.kb_base>>]
<1>5. ASSUME NEW h \in {f, g}, NEW v \in Names
      PROVE  /\ BuildQueryCondition(<<h>>, <<v>>) \in Seq(T)
             /\ row \in Selects(table, BuildQueryCondition(<<h>>, <<v>>), rows) <=> row \in rows /\ row[h] = v
    <2>1. h \in {"kb_category", "kb_knowledge_base"} /\ h \in FieldsOf[table]
        BY <1>1, <1>2
    <2>2. BuildQueryCondition(<<h>>, <<v>>) = <<h, eq, v>>
        BY <1>4, <2>1, PlainCondition
    <2>3. h \in T /\ eq \in T /\ v \in T
        OBVIOUS
    <2>4. <<h, eq, v>> \in Seq(T)
        <3> HIDE DEF T
        <3> QED
            BY <2>3, ThreeAreASeq
    <2>5. row \in Selects(table, BuildQueryCondition(<<h>>, <<v>>), rows) <=> row \in rows /\ row[h] = v
        <3>1. PICK F \in {"kb_category", "kb_knowledge_base"} : F = h /\ F \in FieldsOf[table]
            BY <2>1
        <3> QED
            BY <3>1, NameSelects
    <2> QED
        BY <2>2, <2>4, <2>5
<1>6. "^" \in T
    BY <1>3
<1>7. KnowledgeFilters(c) = (IF c.category = "" THEN <<>> ELSE <<One>>) \o (IF c.kb_base = "" THEN <<>> ELSE <<Two>>)
    BY <1>1, <1>2 DEF KnowledgeFilters, At
<1>8. \A x : <<>> \o <<x>> = <<x>> /\ <<x>> \o <<>> = <<x>> /\ <<>> \o <<>> = <<>>
    BY NoneJoined
<1>9. \A x, y : <<x>> \o <<y>> = <<x, y>>
    BY TwoJoined
<1> HIDE DEF T
<1>10. CASE c.category = "" /\ c.kb_base = ""
    <2>1. KnowledgeFilters(c) = <<>>
        BY <1>7, <1>8, <1>10
    <2>2. row \in Selects(table, BuildQueryString(<<>>), rows) <=> row \in rows
        BY <1>6, NoFilterSelects
    <2> QED
        BY <1>10, <2>1, <2>2
<1>11. CASE c.category # "" /\ c.kb_base = ""
    <2>1. KnowledgeFilters(c) = <<One>>
        BY <1>7, <1>8, <1>11
    <2>2. row \in Selects(table, BuildQueryString(<<One>>), rows) <=>
            row \in rows /\ row \in Selects(table, BuildQueryCondition(<<f>>, <<c.category>>), rows)
        BY <1>5, <1>6, <1>11, OneFilterSelects
    <2> QED
        BY <1>1, <1>5, <1>11, <2>1, <2>2
<1>12. CASE c.category = "" /\ c.kb_base # ""
    <2>1. KnowledgeFilters(c) = <<Two>>
        BY <1>7, <1>8, <1>12
    <2>2. row \in Selects(table, BuildQueryString(<<Two>>), rows) <=>
            row \in rows /\ row \in Selects(table, BuildQueryCondition(<<g>>, <<c.kb_base>>), rows)
        BY <1>5, <1>6, <1>12, OneFilterSelects
    <2> QED
        BY <1>2, <1>5, <1>12, <2>1, <2>2
<1>13. CASE c.category # "" /\ c.kb_base # ""
    <2>1. KnowledgeFilters(c) = <<One, Two>>
        BY <1>7, <1>9, <1>13
    <2>2. row \in Selects(table, BuildQueryString(<<One, Two>>), rows) <=>
            /\ row \in rows
            /\ row \in Selects(table, BuildQueryCondition(<<f>>, <<c.category>>), rows)
            /\ row \in Selects(table, BuildQueryCondition(<<g>>, <<c.kb_base>>), rows)
        <3> DEFINE F == <<f>>
                   G == <<g>>
                   V == <<c.category>>
                   W == <<c.kb_base>>
        <3>1. BuildQueryCondition(F, V) \in Seq(T) /\ BuildQueryCondition(G, W) \in Seq(T)
            BY <1>5, <1>13
        <3> HIDE DEF F, G, V, W
        <3>2. row \in Selects(table, BuildQueryString(<<[field |-> F, value |-> V], [field |-> G, value |-> W]>>), rows) <=>
                /\ row \in rows
                /\ row \in Selects(table, BuildQueryCondition(F, V), rows)
                /\ row \in Selects(table, BuildQueryCondition(G, W), rows)
            BY <1>6, <3>1, TwoFiltersSelect
        <3> QED
            BY <3>2 DEF F, G, V, W
    <2> QED
        BY <1>1, <1>2, <1>5, <1>13, <2>1, <2>2
<1> QED
    BY <1>10, <1>11, <1>12, <1>13

\* The names of a category and a base leave the query whole.
LEMMA KnowledgeQueryIsWhole ==
    ASSUME NEW c, c.category = "" \/ c.category \in Names, c.kb_base = "" \/ c.kb_base \in Names
    PROVE  /\ \E T : BuildQueryString(KnowledgeFilters(c)) \in Seq(T)
           /\ Intact(BuildQueryString(KnowledgeFilters(c)))
<1>1. PICK f : f = "kb_category"
    OBVIOUS
<1>2. PICK g : g = "kb_knowledge_base"
    OBVIOUS
<1>3. PICK sep : sep = "^"
    OBVIOUS
<1>4. PICK eq : eq = "="
    OBVIOUS
<1> DEFINE T == Names \cup {f, g, sep, eq}
           One == [field |-> <<f>>, value |-> <<c.category>>]
           Two == [field |-> <<g>>, value |-> <<c.kb_base>>]
           E == {e \in {One, Two} : BuildQueryCondition(e.field, e.value) \in Seq(T)}
           a == IF c.category = "" THEN <<>> ELSE <<One>>
           b == IF c.kb_base = "" THEN <<>> ELSE <<Two>>
<1>5. "^" \in T /\ "&" \notin T /\ "^NQ" \notin T
    BY <1>1, <1>2, <1>3, <1>4 DEF Names, Words
<1>6. ASSUME NEW h \in {f, g}, NEW v \in Names
      PROVE  BuildQueryCondition(<<h>>, <<v>>) \in Seq(T)
    <2>1. BuildQueryCondition(<<h>>, <<v>>) = <<h, eq, v>>
        BY <1>1, <1>2, <1>4, PlainCondition
    <2>2. h \in T /\ eq \in T /\ v \in T
        OBVIOUS
    <2> HIDE DEF T
    <2> QED
        BY <2>1, <2>2, ThreeAreASeq
<1>7. /\ c.category # "" => One \in E
      /\ c.kb_base # "" => Two \in E
    <2> HIDE DEF T
    <2> QED
        BY <1>6
<1>8. KnowledgeFilters(c) = a \o b
    BY <1>1, <1>2 DEF KnowledgeFilters, At
<1>9. \A e \in E : BuildQueryCondition(e.field, e.value) \in Seq(T)
    OBVIOUS
<1> HIDE DEF T, E, One, Two
<1>10. a \in Seq(E)
    <2>1. CASE c.category = ""
        <3>1. <<>> \in Seq(E)
            BY EmptyIsASeq, Zenon
        <3>2. a = <<>>
            BY <2>1, Zenon
        <3> HIDE DEF a
        <3> QED
            BY <3>1, <3>2
    <2>2. CASE c.category # ""
        <3>1. One \in E
            BY <1>7, <2>2
        <3>2. <<One>> \in Seq(E)
            BY <3>1, OneIsASeq
        <3> QED
            BY <2>2, <3>2
    <2> QED
        BY <2>1, <2>2
<1>17. b \in Seq(E)
    <2>1. CASE c.kb_base = ""
        <3>1. <<>> \in Seq(E)
            BY EmptyIsASeq, Zenon
        <3>2. b = <<>>
            BY <2>1, Zenon
        <3> HIDE DEF b
        <3> QED
            BY <3>1, <3>2
    <2>2. CASE c.kb_base # ""
        <3>1. Two \in E
            BY <1>7, <2>2
        <3>2. <<Two>> \in Seq(E)
            BY <3>1, OneIsASeq
        <3> QED
            BY <2>2, <3>2
    <2> QED
        BY <2>1, <2>2
<1> HIDE DEF a, b
<1>11. a \o b \in Seq(E)
    BY <1>10, <1>17, ConcatType
<1>18. KnowledgeFilters(c) \in Seq(E)
    BY <1>8, <1>11
<1>12. PICK filters \in Seq(E) : filters = KnowledgeFilters(c)
    BY <1>18, Zenon
<1>13. PICK n \in Nat : DOMAIN filters = 1..n /\ \A k \in 1..n : filters[k] \in E
    BY <1>12, DomainOfSeq, Zenon
<1>14. \A k \in 1..n : BuildQueryCondition(filters[k].field, filters[k].value) \in Seq(T)
    BY <1>9, <1>13
<1>15. BuildQueryString(filters) \in Seq(T)
    BY <1>5, <1>13, <1>14, DictionaryType
<1>16. Intact(BuildQueryString(filters))
    BY <1>5, <1>15, WholeText
<1> QED
    BY <1>12, <1>15, <1>16

\* A cap that was not reached cut nothing.
LEMMA BelowTheCap ==
    ASSUME NEW rows, IsFiniteSet(rows), NEW max \in Nat, NEW few \in Newest(rows, max),
           ~(Cardinality(few) >= max)
    PROVE  few = rows
<1>1. Cardinality(rows) \in Nat
    BY FS_CardinalityType
<1>2. few \in SUBSET rows /\ Cardinality(few) = Min({max, Cardinality(rows)})
    BY DEF Newest, kSubset
<1>3. Cardinality(few) = Cardinality(rows)
    BY <1>1, <1>2, MinOfTwo
<1> QED
    BY <1>2, <1>3, FS_Subset

\* What get_kb_articles_by_state asks for: the articles of the category and the base.
LEMMA AskedByState ==
    ASSUME NEW c \in Calls, c.tool = "by state"
    PROVE  /\ ~Refused(c) /\ ~TextOnly(c)
           /\ ApplyDomainFilters(c.table, FirstQuery(c)) = BuildQueryString(KnowledgeFilters(c))
<1>1. c.table = "kb_knowledge"
    BY KnowledgeAssumption
<1>2. ~Refused(c)
    BY <1>1 DEF Refused, TABLE_CONFIGS
<1>3. ~TextOnly(c)
    BY DEF TextOnly
<1>4. FiltersOf(c) = KnowledgeFilters(c)
    <2>1. c.tool # "filter" /\ c.tool # "knowledge" /\ c.tool # "sla" /\ c.tool # "intelligent"
        OBVIOUS
    <2> QED
        BY <2>1, Zenon DEF FiltersOf
<1>5. FirstQuery(c) = BuildQueryString(FiltersOf(c))
    <2>1. c.tool \notin {"record", "similar"} /\ c.tool # "priority"
        OBVIOUS
    <2> QED
        BY <1>3, <2>1, Zenon DEF FirstQuery
<1>6. ApplyDomainFilters(c.table, FirstQuery(c)) = FirstQuery(c)
    <2>1. c.table # "incident" /\ c.table \notin SC_CATALOG_TABLES
        BY <1>1 DEF SC_CATALOG_TABLES
    <2> QED
        BY <2>1, Zenon DEF ApplyDomainFilters
<1> QED
    BY <1>2, <1>3, <1>4, <1>5, <1>6

\* The list by state asks once, for the articles of the category and the base.
StateInv ==
    /\ call \in Calls
    /\ call.tool = "by state" =>
          /\ stage \in {"called", "reading", "answered"}
          /\ stage = "reading" => sent = <<BuildQueryString(KnowledgeFilters(call))>>
    /\ CanonicalIfComplete

\* Its answer is the merge of all of them, if nothing was cut off and nothing failed.
LEMMA AnswerIsCanonical ==
    ASSUME StateInv, AnswerByState
    PROVE  CanonicalIfComplete'
<1> DEFINE asked == {r \in RowsOf(call) : /\ call.category \in {"", r["kb_category"]}
                                          /\ call.kb_base \in {"", r["kb_knowledge_base"]}}
           found == Selects(call.table, BuildQueryString(KnowledgeFilters(call)), RowsOf(call))
<1>1. stage = "reading" /\ call.tool = "by state" /\ call \in Calls
    BY DEF AnswerByState, Reads, StateInv
<1>2. /\ call.table = "kb_knowledge" /\ {"kb_category", "kb_knowledge_base"} \subseteq FieldsOf[call.table]
      /\ call.category = "" \/ call.category \in Names
      /\ call.kb_base = "" \/ call.kb_base \in Names
      /\ "max" \in DOMAIN call /\ call.max \in Nat /\ IsFiniteSet(call.versions)
      /\ \A v \in call.versions : v["workflow_state"] \in {"published", "draft", "review", "outdated", "retired"}
    BY <1>1, KnowledgeAssumption
<1>3. RowsOf(call) = call.versions
    BY <1>2 DEF RowsOf
<1>4. found = asked
    <2>1. ASSUME NEW row
          PROVE  row \in found <=>
              /\ row \in RowsOf(call)
              /\ call.category \in {"", row["kb_category"]}
              /\ call.kb_base \in {"", row["kb_knowledge_base"]}
        BY <1>2, KnowledgeSelects
    <2> HIDE DEF found
    <2> QED
        BY <2>1
<1>5. Last(sent) = BuildQueryString(KnowledgeFilters(call))
    <2>1. \A x : Last(<<x>>) = x
        BY DEF Last
    <2> QED
        BY <1>1, <2>1 DEF StateInv
<1>6. PICK reply \in Replies :
        /\ NoteFailure(reply)
        /\ Answer([Nothing EXCEPT !.articles = Deduped(reply.rows, call.state),
                                  !.truncated = Cardinality(reply.rows) >= call.max])
    BY DEF AnswerByState
<1>7. /\ call' = call /\ failed' = (failed \/ ~reply.ok)
      /\ answer'.articles = Deduped(reply.rows, call.state)
      /\ answer'.truncated = (Cardinality(reply.rows) >= call.max)
    BY <1>6 DEF Answer, Nothing, NoteFailure
<1> SUFFICES ASSUME ~answer'.truncated, ~failed'
             PROVE  answer'.articles = Merged(asked, call.state)
    BY <1>7 DEF CanonicalIfComplete, RowsOf
<1>8. reply.rows \in Newest(found, call.max)
    <2>1. reply.ok
        BY <1>7
    <2>2. reply.rows \in Capped(Found)
        BY <2>1, RepliesAreFound
    <2>3. PICK T : Last(sent) \in Seq(T) /\ Intact(Last(sent))
        BY <1>2, <1>5, KnowledgeQueryIsWhole
    <2>4. Found = found
        BY <1>5, <2>3, FoundIsSelected
    <2> QED
        BY <1>2, <2>2, <2>4 DEF Capped
<1>9. IsFiniteSet(asked)
    BY <1>2, <1>3, FS_Subset
<1>10. reply.rows = asked
    <2>1. ~(Cardinality(reply.rows) >= call.max)
        BY <1>7
    <2> HIDE DEF asked, found
    <2> QED
        BY <1>2, <1>4, <1>8, <1>9, <2>1, BelowTheCap
<1>11. \A v \in asked : v["workflow_state"] \in States
    <2>1. States = {"published", "draft", "review", "outdated", "retired"}
        <3>1. /\ KB_STATE_PRIORITY[1] = "published" /\ KB_STATE_PRIORITY[2] = "draft"
              /\ KB_STATE_PRIORITY[3] = "review" /\ KB_STATE_PRIORITY[4] = "outdated"
              /\ KB_STATE_PRIORITY[5] = "retired"
            BY DEF KB_STATE_PRIORITY
        <3>2. \A k : k \in 1..5 <=> k = 1 \/ k = 2 \/ k = 3 \/ k = 4 \/ k = 5
            OBVIOUS
        <3> QED
            BY <3>1, <3>2 DEF States
    <2> QED
        BY <1>2, <1>3, <2>1
<1> HIDE DEF asked, found
<1> QED
    BY <1>7, <1>10, <1>11, MergeIsCanonical

\* No other step answers for it, and none changes what it has asked.
LEMMA StateStep == StateInv /\ [Next]_vars => StateInv'
<1> SUFFICES ASSUME StateInv, [Next]_vars
             PROVE  StateInv'
    OBVIOUS
<1>1. CASE Refuse
    BY <1>1, AskedByState DEF Refuse, Answer, StateInv, CanonicalIfComplete
<1>2. CASE NoKeywords
    BY <1>2, AskedByState DEF NoKeywords, Answer, StateInv, CanonicalIfComplete
<1>3. CASE Send
    <2>1. call.tool = "by state" => sent' = <<BuildQueryString(KnowledgeFilters(call))>>
        BY <1>3, AskedByState DEF Send, StateInv
    <2> QED
        BY <1>3, <2>1 DEF Send, StateInv, CanonicalIfComplete
<1>4. CASE AnswerByState
    <2>1. CanonicalIfComplete'
        BY <1>4, AnswerIsCanonical
    <2> QED
        BY <1>4, <2>1 DEF AnswerByState, Answer, StateInv
<1>5. CASE AnswerRows
    <2>1. call.tool # "by state" /\ call' = call
        BY <1>5 DEF AnswerRows, Reads, Answer
    <2> QED
        BY <2>1 DEF StateInv, CanonicalIfComplete
<1>6. CASE ReadDescription
    <2>1. call.tool # "by state" /\ call' = call
        BY <1>6 DEF ReadDescription, Reads, Answer, SendMore
    <2> QED
        BY <2>1 DEF StateInv, CanonicalIfComplete
<1>7. CASE AnswerSimilar
    <2>1. call.tool # "by state" /\ call' = call
        BY <1>7 DEF AnswerSimilar, Answer
    <2> QED
        BY <2>1 DEF StateInv, CanonicalIfComplete
<1>8. CASE AnswerIntelligently
    <2>1. call.tool # "by state" /\ call' = call
        BY <1>8 DEF AnswerIntelligently, Reads, Answer, SendMore
    <2> QED
        BY <2>1 DEF StateInv, CanonicalIfComplete
<1>9. CASE AnswerFallback
    <2>1. call.tool # "by state" /\ call' = call
        BY <1>9 DEF AnswerFallback, Answer
    <2> QED
        BY <2>1 DEF StateInv, CanonicalIfComplete
<1>10. CASE UNCHANGED vars
    BY <1>10 DEF vars, StateInv, CanonicalIfComplete
<1> QED
    BY <1>1, <1>2, <1>3, <1>4, <1>5, <1>6, <1>7, <1>8, <1>9, <1>10 DEF Next

\* The list by state says of every article in the category and the base asked for the
\* best state of all its versions, unless it says it is cut short or the GET failed, for
\* any articles, versions, categories and caps (get_kb_articles_by_state).
THEOREM CanonicalWhenComplete == Spec => []CanonicalIfComplete
<1>1. Init => StateInv
    BY DEF Init, StateInv, CanonicalIfComplete
<1>2. StateInv => CanonicalIfComplete
    BY DEF StateInv
<1> QED
    BY <1>1, <1>2, StateStep, PTL DEF Spec

-----------------------------------------------------------------------------
(* What a call asks for, filter by filter                                   *)

\* What a call asks of a row, for each kind of call.
LEMMA AskedOfEach ==
    ASSUME NEW c, NEW row
    PROVE  /\ c.tool = "priority" =>
                (row \in AsAsked(c) <=>
                   /\ row \in RowsOf(c) /\ <<row["priority"]>> \in ToSet(c.priorities)
                   /\ \A filter \in ToSet(c.filters) : row \in Selects(c.table, Additional(filter), RowsOf(c)))
           /\ c.tool # "priority" /\ TextOnly(c) =>
                (row \in AsAsked(c) <=>
                   /\ row \in RowsOf(c)
                   /\ \E word \in ToSet(ExtractKeywords(WordsOf(c))) : <<word, row["short_description"]>> \in Matches["LIKE"])
           /\ c.tool # "priority" /\ ~TextOnly(c) =>
                (row \in AsAsked(c) <=>
                   row \in RowsOf(c) /\ \A filter \in ToSet(FiltersOf(c)) : row \in FilterSelects(c, filter))
<1> DEFINE words == ToSet(ExtractKeywords(WordsOf(c)))
           text(r) == {word \in words : <<word, r["short_description"]>> \in Matches["LIKE"]}
<1>1. c.tool = "priority" =>
        AsAsked(c) = {r \in RowsOf(c) :
           \A selected \in {Selects(c.table, Additional(filter), RowsOf(c)) : filter \in ToSet(c.filters)}
                           \cup {{s \in RowsOf(c) : <<s["priority"]>> \in ToSet(c.priorities)}} : r \in selected}
    BY DEF AsAsked
<1>2. c.tool # "priority" /\ TextOnly(c) =>
        AsAsked(c) = {r \in RowsOf(c) : \A selected \in {{s \in RowsOf(c) : text(s) # {}}} : r \in selected}
    <2>1. {s \in RowsOf(c) : \E word \in words : <<word, s["short_description"]>> \in Matches["LIKE"]}
          = {s \in RowsOf(c) : text(s) # {}}
        <3> HIDE DEF words
        <3> QED
            OBVIOUS
    <2> QED
        BY <2>1 DEF AsAsked
<1>3. c.tool # "priority" /\ ~TextOnly(c) =>
        AsAsked(c) = {r \in RowsOf(c) :
           \A selected \in {FilterSelects(c, filter) : filter \in ToSet(FiltersOf(c))} : r \in selected}
    BY DEF AsAsked
<1>4. ASSUME c.tool = "priority"
      PROVE  row \in AsAsked(c) <=>
                /\ row \in RowsOf(c) /\ <<row["priority"]>> \in ToSet(c.priorities)
                /\ \A filter \in ToSet(c.filters) : row \in Selects(c.table, Additional(filter), RowsOf(c))
    <2> DEFINE all == {Selects(c.table, Additional(filter), RowsOf(c)) : filter \in ToSet(c.filters)}
               some == {s \in RowsOf(c) : <<s["priority"]>> \in ToSet(c.priorities)}
    <2>1. row \in AsAsked(c) <=> row \in RowsOf(c) /\ \A selected \in all \cup {some} : row \in selected
        BY <1>1, <1>4
    <2>2. row \in some <=> row \in RowsOf(c) /\ <<row["priority"]>> \in ToSet(c.priorities)
        OBVIOUS
    <2>3. (\A selected \in all : row \in selected)
             <=> \A filter \in ToSet(c.filters) : row \in Selects(c.table, Additional(filter), RowsOf(c))
        OBVIOUS
    <2> HIDE DEF all, some
    <2> QED
        BY <2>1, <2>2, <2>3
<1>5. ASSUME c.tool # "priority", TextOnly(c)
      PROVE  row \in AsAsked(c) <=> row \in RowsOf(c) /\ text(row) # {}
    <2> HIDE DEF words, text
    <2> QED
        BY <1>2, <1>5
<1>6. ASSUME c.tool # "priority", ~TextOnly(c)
      PROVE  row \in AsAsked(c) <=>
                row \in RowsOf(c) /\ \A filter \in ToSet(FiltersOf(c)) : row \in FilterSelects(c, filter)
    BY <1>3, <1>6
<1> QED
    BY <1>4, <1>5, <1>6

\* A filter alone selects as it asks, as it reads or as the query it is.
LEMMA FilterSelectsExactly ==
    ASSUME NEW c, NEW filter \in Filters, NEW row
    PROVE  row \in FilterSelects(c, filter) <=>
              row \in Selects(c.table, BuildQueryCondition(filter.field, filter.value), RowsOf(c))
<1> DEFINE selected == Selects(c.table, BuildQueryCondition(filter.field, filter.value), RowsOf(c))
           asked == {r \in RowsOf(c) : Asked(filter, FieldsOf[c.table], r)}
           plain == IsPlain(filter, FieldsOf[c.table])
<1>1. plain => (row \in selected <=> row \in RowsOf(c) /\ Asked(filter, FieldsOf[c.table], row))
    BY FilterFormsSelect
<1>2. row \in asked <=> row \in RowsOf(c) /\ Asked(filter, FieldsOf[c.table], row)
    OBVIOUS
<1>3. FilterSelects(c, filter) = IF plain THEN asked ELSE selected
    BY DEF FilterSelects
<1> HIDE DEF selected, asked, plain
<1>4. row \in FilterSelects(c, filter) <=> row \in selected
    BY <1>1, <1>2, <1>3
<1> QED
    BY <1>4 DEF selected

\* A dictionary of filters selects what each of its filters asks.
LEMMA DictionarySelects ==
    ASSUME NEW c, NEW filters \in Seq(Filters), NEW row
    PROVE  row \in Selects(c.table, BuildQueryString(filters), RowsOf(c)) <=>
              row \in RowsOf(c) /\ \A filter \in ToSet(filters) : row \in FilterSelects(c, filter)
<1>1. PICK n \in Nat : DOMAIN filters = 1..n
    OBVIOUS
<1>2. "^" \in Tokens
    BY TokensOfTheBuilder
<1>3. \A k \in 1..n : filters[k] \in Filters
    BY <1>1
<1>4. \A k \in 1..n : BuildQueryCondition(filters[k].field, filters[k].value) \in Seq(Tokens)
    BY <1>3, FilterTypes
<1>5. row \in Selects(c.table, BuildQueryString(filters), RowsOf(c)) <=>
         row \in RowsOf(c) /\ \A k \in 1..n :
            row \in Selects(c.table, BuildQueryCondition(filters[k].field, filters[k].value), RowsOf(c))
    BY <1>1, <1>2, <1>4, DictionarySelectsEach
<1>6. \A k \in 1..n : row \in FilterSelects(c, filters[k]) <=>
         row \in Selects(c.table, BuildQueryCondition(filters[k].field, filters[k].value), RowsOf(c))
    BY <1>3, FilterSelectsExactly
<1>7. (\A filter \in ToSet(filters) : row \in FilterSelects(c, filter)) <=>
         \A k \in 1..n : row \in FilterSelects(c, filters[k])
    BY <1>1 DEF ToSet
<1> QED
    BY <1>5, <1>6, <1>7

\* A text selects the rows that have one of its keywords.
LEMMA TextOnlySelects ==
    ASSUME NEW c \in Calls, Asks(c), Plainly(c), TextOnly(c), NEW row
    PROVE  row \in Selects(c.table, FirstQuery(c), RowsOf(c)) <=> row \in AsAsked(c)
<1> DEFINE keywords == ExtractKeywords(WordsOf(c))
<1>1. WordsOf(c) \in Texts /\ "short_description" \in FieldsOf[c.table]
    BY CallsAssumption DEF Plainly
<1>2. keywords \in Seq(Words)
    BY <1>1, KeywordsAreWords
<1>3. keywords # <<>> /\ FirstQuery(c) = TextQuery(keywords) /\ c.tool # "priority"
    BY DEF Asks, FirstQuery, TextOnly
<1>4. row \in AsAsked(c) <=>
         row \in RowsOf(c) /\ \E word \in ToSet(keywords) : <<word, row["short_description"]>> \in Matches["LIKE"]
    BY <1>3, AskedOfEach
<1> HIDE DEF keywords
<1>5. row \in Selects(c.table, TextQuery(keywords), RowsOf(c)) <=>
         row \in RowsOf(c) /\ \E k \in DOMAIN keywords : <<keywords[k], row["short_description"]>> \in Matches["LIKE"]
    BY <1>1, <1>2, <1>3, KeywordsSelect
<1>6. ToSet(keywords) = {keywords[k] : k \in DOMAIN keywords}
    BY DEF ToSet
<1> QED
    BY <1>3, <1>4, <1>5, <1>6

\* What a query for priorities selects.
LEMMA PrioritiesSelectExactly ==
    ASSUME NEW table, "priority" \in FieldsOf[table], NEW given \in Seq(Seq(Names)), given # <<>>,
           \A k \in DOMAIN given : Len(given[k]) = 1, NEW additional \in Seq(Filters), NEW rows, NEW row
    PROVE  row \in Selects(table, PriorityQuery(given, additional), rows) <=>
              /\ row \in rows /\ <<row["priority"]>> \in ToSet(given)
              /\ \A filter \in ToSet(additional) : row \in Selects(table, Additional(filter), rows)
<1> DEFINE names == [k \in DOMAIN given |-> given[k][1]]
<1>1. PICK n \in Nat \ {0} : DOMAIN given = 1..n
    BY NotEmptyList
<1>2. PICK m \in Nat : DOMAIN additional = 1..m
    OBVIOUS
<1>3. ASSUME NEW k \in 1..n
      PROVE  given[k] = <<given[k][1]>> /\ given[k][1] \in Names
    <2>1. given[k] \in Seq(Names) /\ Len(given[k]) = 1
        BY <1>1, NotEmptyList
    <2> QED
        BY <2>1, OneTokenText
<1>4. names \in [1..n -> Names] /\ \A k \in 1..n : names[k] = given[k][1]
    BY <1>1, <1>3
<1> HIDE DEF names
<1>5. \A k \in 1..n : given[k] = <<names[k]>>
    BY <1>3, <1>4
<1>6. NamedPriorities(given, names, n)
    BY <1>1, <1>4, <1>5 DEF NamedPriorities
<1>7. \A k \in 1..m : Additional(additional[k]) \in Seq(Tokens)
    <2>1. \A k \in 1..m : additional[k] \in Filters
        BY <1>2
    <2> QED
        BY <2>1, FilterTypes
<1>8. TokensOf(additional, m, Tokens)
    BY <1>2, <1>7 DEF TokensOf
<1>9. row \in Selects(table, PriorityQuery(given, additional), rows) <=>
         /\ row \in rows
         /\ \E k \in 1..n : row["priority"] = names[k]
         /\ \A k \in 1..m : row \in Selects(table, Additional(additional[k]), rows)
    BY <1>6, <1>8, PrioritiesAndOthers
<1>10. (\E k \in 1..n : row["priority"] = names[k]) <=> <<row["priority"]>> \in ToSet(given)
    <2>1. ToSet(given) = {given[k] : k \in 1..n}
        BY <1>1 DEF ToSet
    <2>2. \A x, y : <<x>> = <<y>> <=> x = y
        OBVIOUS
    <2>3. <<row["priority"]>> \in ToSet(given) <=> \E k \in 1..n : <<row["priority"]>> = <<names[k]>>
        BY <1>5, <2>1
    <2> QED
        BY <2>2, <2>3
<1>11. (\A filter \in ToSet(additional) : row \in Selects(table, Additional(filter), rows)) <=>
          \A k \in 1..m : row \in Selects(table, Additional(additional[k]), rows)
    <2>1. ToSet(additional) = {additional[k] : k \in 1..m}
        BY <1>2 DEF ToSet
    <2> QED
        BY <2>1
<1> QED
    BY <1>9, <1>10, <1>11

\* The records of some priorities are those that have one of these and that every other
\* filter finds by itself: the alternatives of the priorities do not reach over what
\* follows them (get_records_by_priority); if no filter has a & or ^NQ.
THEOREM PriorityIsExact ==
    ASSUME NEW table, "priority" \in FieldsOf[table], NEW given \in Seq(Seq(Names)), given # <<>>,
           \A k \in DOMAIN given : Len(given[k]) = 1, NEW additional \in Seq(Filters),
           \A filter \in ToSet(additional) : Intact(Additional(filter)), NEW rows, NEW row
    PROVE  row \in Returned(table, EncodeQueryString(PriorityQuery(given, additional)), rows) <=>
              /\ row \in rows /\ <<row["priority"]>> \in ToSet(given)
              /\ \A filter \in ToSet(additional) : row \in Returned(table, EncodeQueryString(Additional(filter)), rows)
<1>1. PICK n \in Nat : DOMAIN additional = 1..n /\ \A k \in 1..n : additional[k] \in Filters
    OBVIOUS
<1>2. ASSUME NEW filter \in ToSet(additional)
      PROVE  /\ Additional(filter) \in Seq(Plain)
             /\ Returned(table, EncodeQueryString(Additional(filter)), rows) = Selects(table, Additional(filter), rows)
    <2>1. filter \in Filters
        BY <1>1 DEF ToSet
    <2>2. PICK condition \in Seq(Tokens) : condition = Additional(filter) /\ Intact(condition)
        BY <2>1, FilterTypes
    <2>3. condition \in Seq(Plain)
        BY <2>2, IntactIsPlain DEF Queries
    <2>4. Returned(table, EncodeQueryString(condition), rows) = Selects(table, condition, rows)
        BY <2>2, IntactReturns
    <2> QED
        BY <2>2, <2>3, <2>4
<1>3. TokensOf(additional, n, Plain)
    <2>1. \A k \in 1..n : additional[k] \in ToSet(additional)
        BY <1>1 DEF ToSet
    <2> QED
        BY <1>1, <1>2, <2>1 DEF TokensOf
<1>4. given \in Seq(Seq(Plain))
    <2>1. Names \subseteq Plain
        BY TokensAreTokens DEF Plain, Names, Words
    <2>2. Seq(Names) \subseteq Seq(Plain)
        BY <2>1, SeqMonotonic
    <2>3. Seq(Seq(Names)) \subseteq Seq(Seq(Plain))
        BY <2>2, SeqMonotonic
    <2> QED
        BY <2>3
<1>5. {"priority", "=", "^OR", "^"} \subseteq Plain
    BY DEF Plain, Tokens
<1>6. PriorityQuery(given, additional) \in Seq(Plain)
    BY <1>3, <1>4, <1>5, PriorityQueryType
<1>7. Returned(table, EncodeQueryString(PriorityQuery(given, additional)), rows)
      = Selects(table, PriorityQuery(given, additional), rows)
    <2>1. PICK query \in Seq(Plain) : query = PriorityQuery(given, additional)
        BY <1>6
    <2>2. Intact(query)
        BY PlainIsIntact
    <2> QED
        BY <2>1, <2>2, IntactReturns
<1>8. row \in Selects(table, PriorityQuery(given, additional), rows) <=>
         /\ row \in rows /\ <<row["priority"]>> \in ToSet(given)
         /\ \A filter \in ToSet(additional) : row \in Selects(table, Additional(filter), rows)
    BY PrioritiesSelectExactly
<1> QED
    BY <1>2, <1>7, <1>8

\* A call for priorities selects the rows that have one and meet each other filter.
LEMMA PrioritiesSelectEach ==
    ASSUME NEW c \in Calls, Asks(c), Plainly(c), c.tool = "priority", NEW row
    PROVE  row \in Selects(c.table, FirstQuery(c), RowsOf(c)) <=> row \in AsAsked(c)
<1>1. /\ "priority" \in FieldsOf[c.table] /\ c.filters \in Seq(Filters)
      /\ c.priorities \in Seq(Seq(Names)) /\ \A k \in DOMAIN c.priorities : Len(c.priorities[k]) = 1
    <2>1. c.priorities \in Seq(Texts \ {<<>>}) /\ \A k \in DOMAIN c.priorities : HasName(c.priorities[k], 1)
        BY CallsAssumption DEF Plainly
    <2>2. PICK n \in Nat : DOMAIN c.priorities = 1..n
        BY <2>1
    <2>3. ASSUME NEW k \in 1..n
          PROVE  c.priorities[k] \in Seq(Names) /\ Len(c.priorities[k]) = 1
        <3>1. c.priorities[k] \in Seq(STRING) /\ Len(c.priorities[k]) = 1 /\ c.priorities[k][1] \in Names
            BY <2>1, <2>2 DEF Texts, HasName
        <3>2. PICK text : text = c.priorities[k]
            OBVIOUS
        <3>3. text = <<text[1]>> /\ text[1] \in Names
            BY <3>1, <3>2
        <3>4. <<text[1]>> \in Seq(Names)
            BY <3>3, OneIsASeq
        <3> QED
            BY <3>1, <3>2, <3>3, <3>4
    <2>4. c.priorities \in Seq(Seq(Names))
        BY <2>1, <2>2, <2>3
    <2> QED
        BY <2>2, <2>3, <2>4, CallsAssumption
<1>2. c.priorities # <<>> /\ FirstQuery(c) = PriorityQuery(c.priorities, c.filters)
    <2>1. ~TextOnly(c) /\ c.tool \notin {"record", "similar"} /\ c.tool = "priority"
        BY DEF TextOnly
    <2>2. FirstQuery(c) = PriorityQuery(c.priorities, c.filters)
        BY <2>1, Zenon DEF FirstQuery
    <2> QED
        BY <2>2 DEF Asks, Refused
<1>3. row \in AsAsked(c) <=>
         /\ row \in RowsOf(c) /\ <<row["priority"]>> \in ToSet(c.priorities)
         /\ \A filter \in ToSet(c.filters) : row \in Selects(c.table, Additional(filter), RowsOf(c))
    BY AskedOfEach
<1>4. row \in Selects(c.table, PriorityQuery(c.priorities, c.filters), RowsOf(c)) <=>
         /\ row \in RowsOf(c) /\ <<row["priority"]>> \in ToSet(c.priorities)
         /\ \A filter \in ToSet(c.filters) : row \in Selects(c.table, Additional(filter), RowsOf(c))
    BY <1>1, <1>2, PrioritiesSelectExactly
<1> QED
    BY <1>2, <1>3, <1>4

\* What a call first asks the instance for is what it asks: each of its filters, a priority
\* of those it lists, a word of its text, and nothing that comes of putting them together.
LEMMA FirstQuerySelects ==
    ASSUME NEW c \in Calls, Asks(c), Plainly(c),
           c.tool \in {"search", "filter", "priority", "sla", "knowledge", "intelligent"},
           NEW row
    PROVE  row \in Selects(c.table, FirstQuery(c), RowsOf(c)) <=> row \in AsAsked(c)
<1>1. CASE TextOnly(c)
    BY <1>1, TextOnlySelects
<1>2. CASE c.tool = "priority"
    BY <1>2, PrioritiesSelectEach
<1>3. CASE ~TextOnly(c) /\ c.tool # "priority"
    <2>1. FirstQuery(c) = BuildQueryString(FiltersOf(c))
        <3>1. ~TextOnly(c) /\ c.tool \notin {"record", "similar"} /\ c.tool # "priority"
            BY <1>3
        <3> QED
            BY <3>1, Zenon DEF FirstQuery
    <2>2. FiltersOf(c) \in Seq(Filters)
        BY CallsAssumption
    <2>3. row \in Selects(c.table, BuildQueryString(FiltersOf(c)), RowsOf(c)) <=>
              row \in RowsOf(c) /\ \A filter \in ToSet(FiltersOf(c)) : row \in FilterSelects(c, filter)
        BY <2>2, DictionarySelects
    <2>4. row \in AsAsked(c) <=>
              row \in RowsOf(c) /\ \A filter \in ToSet(FiltersOf(c)) : row \in FilterSelects(c, filter)
        BY <1>3, AskedOfEach
    <2> QED
        BY <2>1, <2>3, <2>4
<1> QED
    BY <1>1, <1>2, <1>3

\* The rows the exclusions leave, and those of them that a call asks for.
Visible(c, row) ==
    /\ ~Sensitive(c.table, row)
    /\ c.table = "incident" /\ CategoryFiltering => row \in Selects(c.table, CategoryExclusions, RowsOf(c))
Wanted(c) == {row \in AsAsked(c) : Visible(c, row)}

\* The tools that answer with the rows of their first query.
AskingTools == {"search", "filter", "priority", "sla", "knowledge", "intelligent"}

\* What such a tool answers, not as a fallback, are rows the call asks for; all of them if
\* nothing failed and it does not cap their number. An error is the answer to a call that is
\* refused, and to a phrase about a table that is not configured when its filters find nothing.
AnswersAsAsked ==
    (/\ stage = "answered" /\ call.tool \in AskingTools /\ (call.tool = "intelligent" => ~answer.fallback)
     /\ AllIntact /\ Plainly(call))
      => \/ /\ answer.error /\ answer.rows = {}
            /\ Refused(call) \/ (call.tool = "intelligent" /\ call.table \notin TABLE_CONFIGS)
         \/ /\ ~answer.error /\ ~Refused(call) /\ answer.rows \subseteq Wanted(call)
            /\ ~failed /\ "max" \notin DOMAIN call => answer.rows = Wanted(call)

\* What holds in every state: the answers above, and that a tool which is reading reads what
\* its first query selects, with the exclusions of the policy.
FirstInv ==
    /\ SafeInv
    /\ stage = "reading" /\ call.tool \in AskingTools =>
          sent = <<ApplyDomainFilters(call.table, FirstQuery(call))>>
    /\ AnswersAsAsked

\* The exclusions take from a query the rows they block, no more and no less.
LEMMA ExclusionsAreExact ==
    ASSUME NEW c \in Calls, Asks(c), NEW q \in Queries, NEW row
    PROVE  row \in Selects(c.table, ApplyDomainFilters(c.table, q), RowsOf(c)) <=>
              row \in Selects(c.table, q, RowsOf(c)) /\ Visible(c, row)
<1> DEFINE all == Selects(c.table, q, RowsOf(c))
           excluded == Selects(c.table, CategoryExclusions, RowsOf(c))
<1>0. "incident" \notin SC_CATALOG_TABLES
    BY DEF SC_CATALOG_TABLES
<1>1. CASE c.table \in SC_CATALOG_TABLES
    <2>1. {"cat_item.sc_catalogs.title", "assignment_group.name"} \subseteq FieldsOf[c.table]
        BY <1>1, PolicyAssumption
    <2>2. Selects(c.table, ApplyDomainFilters(c.table, q), RowsOf(c)) = {r \in all : ~Sensitive(c.table, r)}
        BY <1>1, <2>1, PolicySelects
    <2>3. c.table # "incident"
        BY <1>0, <1>1
    <2> QED
        BY <2>2, <2>3 DEF Visible
<1>2. CASE c.table = "incident" /\ CategoryFiltering
    <2>1. ApplyDomainFilters(c.table, q) = AppendToQuery(q, CategoryExclusions)
        BY <1>0, <1>2, Zenon DEF ApplyDomainFilters
    <2>2. q \in Seq(Tokens) /\ CategoryExclusions \in Seq(Tokens) /\ "^" \in Tokens
        BY TokensAreTokens, TokensOfTheBuilder DEF Queries
    <2>3. Selects(c.table, AppendToQuery(q, CategoryExclusions), RowsOf(c)) = all \cap excluded
        BY <2>2, AppendedSelects
    <2>4. ~Sensitive(c.table, row)
        BY <1>0, <1>2 DEF Sensitive
    <2> QED
        BY <1>2, <2>1, <2>3, <2>4 DEF Visible
<1>3. CASE c.table \notin SC_CATALOG_TABLES /\ ~(c.table = "incident" /\ CategoryFiltering)
    <2>1. ApplyDomainFilters(c.table, q) = q
        BY <1>3, Zenon DEF ApplyDomainFilters
    <2>2. Visible(c, row)
        BY <1>3 DEF Visible, Sensitive
    <2> QED
        BY <2>1, <2>2
<1> QED
    BY <1>1, <1>2, <1>3

\* A reply to the first query has rows the call asks for, all of them if there is no cap.
LEMMA RepliesAreWanted ==
    ASSUME FirstInv, stage = "reading", call.tool \in AskingTools, AllIntact, Plainly(call), NEW reply \in Replies
    PROVE  /\ ~Refused(call)
           /\ reply.rows \subseteq Wanted(call)
           /\ (reply.ok \/ reply.rows # {}) /\ "max" \notin DOMAIN call => reply.rows = Wanted(call)
<1> DEFINE selected == Selects(call.table, Last(sent), RowsOf(call))
<1>1. call \in Calls /\ Asks(call)
    BY DEF FirstInv, SafeInv, AskedInv
<1>8. ~Refused(call)
    BY <1>1 DEF Asks
<1>2. Last(sent) = ApplyDomainFilters(call.table, FirstQuery(call))
    <2>1. \A x : Last(<<x>>) = x
        BY DEF Last
    <2> QED
        BY <2>1 DEF FirstInv
<1>3. FirstQuery(call) \in Queries
    BY <1>1, AsksForAQuery
<1>4. \A row : row \in selected <=> row \in Wanted(call)
    <2> TAKE row
    <2>1. row \in selected <=> row \in Selects(call.table, FirstQuery(call), RowsOf(call)) /\ Visible(call, row)
        BY <1>1, <1>2, <1>3, ExclusionsAreExact
    <2>2. row \in Selects(call.table, FirstQuery(call), RowsOf(call)) <=> row \in AsAsked(call)
        BY <1>1, FirstQuerySelects DEF AskingTools
    <2> HIDE DEF selected
    <2> QED
        BY <2>1, <2>2 DEF Wanted
<1>5. selected = Wanted(call)
    BY <1>4
<1>9. Found = selected
    <2>1. Last(sent) \in Seq(Tokens)
        BY <1>2, <1>3, ExclusionsKeep DEF Queries
    <2>2. Intact(Last(sent))
        BY LastAsked DEF FirstInv, SafeInv
    <2> QED
        BY <2>1, <2>2, FoundIsSelected
<1>6. \/ reply.rows = {} /\ ~reply.ok
      \/ reply.rows \in Capped(selected) /\ reply.ok
    BY <1>9, RepliesAreFound
<1>7. \A few \in Capped(selected) : few \subseteq selected /\ ("max" \notin DOMAIN call => few = selected)
    BY DEF Capped, Newest, kSubset
<1> HIDE DEF selected
<1> QED
    BY <1>5, <1>6, <1>7, <1>8

\* A text without a keyword asks for no row.
LEMMA NoKeywordNoRow ==
    ASSUME NEW c, c.tool # "priority", TextOnly(c), ExtractKeywords(WordsOf(c)) = <<>>
    PROVE  Wanted(c) = {}
<1>1. ToSet(ExtractKeywords(WordsOf(c))) = {}
    <2>1. ToSet(<<>>) = {}
        BY DEF ToSet
    <2> QED
        BY <2>1
<1>2. ASSUME NEW row
      PROVE  row \notin AsAsked(c)
    <2>1. row \in AsAsked(c) <=>
             /\ row \in RowsOf(c)
             /\ \E word \in ToSet(ExtractKeywords(WordsOf(c))) : <<word, row["short_description"]>> \in Matches["LIKE"]
        BY AskedOfEach
    <2> QED
        BY <1>1, <2>1
<1> QED
    BY <1>2 DEF Wanted

\* Every step keeps that invariant.
LEMMA FirstStep == FirstInv /\ [Next]_vars => FirstInv'
<1> SUFFICES ASSUME FirstInv, [Next]_vars
             PROVE  FirstInv'
    OBVIOUS
<1>1. SafeInv'
    BY SafeStep DEF FirstInv
<1>2. call' = call
    BY DEF Next, vars, Refuse, NoKeywords, Send, AnswerRows, AnswerByState, ReadDescription, AnswerSimilar,
           AnswerIntelligently, AnswerFallback, Answer, SendMore
<1>3. Wanted(call)' = Wanted(call)
    BY <1>2
<1>4. CASE call.tool \notin AskingTools
    BY <1>1, <1>2, <1>4 DEF FirstInv, AnswersAsAsked
<1>5. CASE call.tool \in AskingTools
    <2>1. CASE Refuse
        <3>1. stage' = "answered" /\ answer'.error /\ answer'.rows = {} /\ Refused(call)
            BY <2>1 DEF Refuse, Answer, Nothing
        <3> QED
            BY <1>1, <1>2, <3>1 DEF FirstInv, AnswersAsAsked
    <2>2. CASE NoKeywords
        <3>1. /\ stage' = "answered" /\ answer'.rows = {} /\ answer'.fallback = (call.tool = "intelligent")
              /\ TextOnly(call) /\ ExtractKeywords(WordsOf(call)) = <<>> /\ ~Refused(call) /\ ~answer'.error
            BY <2>2 DEF NoKeywords, Answer, Nothing
        <3>2. Wanted(call) = {}
            <4>1. call.tool # "priority"
                <5>1. CASE call.tool = "priority"
                    BY <3>1, <5>1 DEF TextOnly
                <5> QED
                    BY <5>1
            <4> QED
                BY <3>1, <4>1, NoKeywordNoRow
        <3> QED
            BY <1>1, <1>2, <1>3, <3>1, <3>2 DEF FirstInv, AnswersAsAsked
    <2>3. CASE Send
        <3>1. stage' = "reading" /\ sent' = <<ApplyDomainFilters(call.table, FirstQuery(call))>>
            BY <2>3 DEF Send
        <3> QED
            BY <1>1, <1>2, <3>1 DEF FirstInv, AnswersAsAsked
    <2>4. CASE AnswerRows
        <3>1. PICK reply \in Replies : NoteFailure(reply) /\ Answer([Nothing EXCEPT !.rows = reply.rows])
            BY <2>4 DEF AnswerRows
        <3>2. stage = "reading" /\ sent' = sent
            BY <2>4 DEF AnswerRows, Reads
        <3>3. stage' = "answered" /\ answer'.rows = reply.rows /\ ~answer'.error /\ (~failed' => reply.ok)
            BY <3>1 DEF Answer, Nothing, NoteFailure
        <3> SUFFICES ASSUME AllIntact, Plainly(call)
                     PROVE  AnswersAsAsked'
            BY <1>1, <1>2, <3>2, <3>3 DEF FirstInv, AnswersAsAsked, AllIntact
        <3>4. /\ ~Refused(call)
              /\ reply.rows \subseteq Wanted(call)
              /\ (reply.ok \/ reply.rows # {}) /\ "max" \notin DOMAIN call => reply.rows = Wanted(call)
            BY <1>5, <3>2, RepliesAreWanted
        <3> QED
            BY <1>1, <1>2, <1>3, <3>3, <3>4 DEF FirstInv, AnswersAsAsked
    <2>5. CASE AnswerIntelligently
        <3>1. stage = "reading"
            BY <2>5 DEF AnswerIntelligently, Reads
        <3>2. PICK reply \in Replies :
                \/ reply.rows # {} /\ Answer([Nothing EXCEPT !.rows = reply.rows]) /\ UNCHANGED sent
                \/ call.table \notin TABLE_CONFIGS /\ Answer([Nothing EXCEPT !.error = TRUE])
                \/ SendMore(ExtractKeywords(call.phrase))
                \/ Answer([Nothing EXCEPT !.fallback = TRUE])
            BY <2>5 DEF AnswerIntelligently
        <3>3. CASE reply.rows # {} /\ Answer([Nothing EXCEPT !.rows = reply.rows]) /\ UNCHANGED sent
            <4>1. stage' = "answered" /\ answer'.rows = reply.rows /\ ~answer'.error
                BY <3>3 DEF Answer, Nothing
            <4> SUFFICES ASSUME AllIntact, Plainly(call)
                         PROVE  AnswersAsAsked'
                BY <1>1, <1>2, <3>3, <4>1 DEF FirstInv, AnswersAsAsked, AllIntact
            <4>2. /\ ~Refused(call)
                  /\ reply.rows \subseteq Wanted(call)
                  /\ "max" \notin DOMAIN call => reply.rows = Wanted(call)
                BY <1>5, <3>1, <3>3, RepliesAreWanted
            <4> QED
                BY <1>1, <1>2, <1>3, <4>1, <4>2 DEF FirstInv, AnswersAsAsked
        <3>4. CASE SendMore(ExtractKeywords(call.phrase))
            <4>1. stage' = "reading more"
                BY <3>4 DEF SendMore
            <4> QED
                BY <1>1, <4>1 DEF FirstInv, AnswersAsAsked
        <3>5. CASE Answer([Nothing EXCEPT !.fallback = TRUE])
            <4>1. stage' = "answered" /\ answer'.fallback
                BY <3>5 DEF Answer, Nothing
            <4>2. call.tool = "intelligent"
                BY <2>5 DEF AnswerIntelligently, Reads
            <4> QED
                BY <1>1, <1>2, <4>1, <4>2 DEF FirstInv, AnswersAsAsked
        <3>6. CASE call.table \notin TABLE_CONFIGS /\ Answer([Nothing EXCEPT !.error = TRUE])
            <4>1. stage' = "answered" /\ answer'.error /\ answer'.rows = {}
                BY <3>6 DEF Answer, Nothing
            <4>2. call.tool = "intelligent"
                BY <2>5 DEF AnswerIntelligently, Reads
            <4> QED
                BY <1>1, <1>2, <3>6, <4>1, <4>2 DEF FirstInv, AnswersAsAsked
        <3> QED
            BY <3>2, <3>3, <3>4, <3>5, <3>6
    <2>6. CASE AnswerFallback
        <3>1. stage' = "answered" /\ answer'.fallback /\ call.tool = "intelligent"
            BY <2>6 DEF AnswerFallback, Answer, Nothing
        <3> QED
            BY <1>1, <1>2, <3>1 DEF FirstInv, AnswersAsAsked
    <2>7. CASE UNCHANGED vars
        BY <1>1, <1>3, <2>7 DEF vars, FirstInv, AnswersAsAsked, AllIntact
    <2>8. ~AnswerByState /\ ~ReadDescription /\ ~AnswerSimilar
        BY <1>5 DEF AnswerByState, ReadDescription, AnswerSimilar, Reads, AskingTools
    <2> QED
        BY <2>1, <2>2, <2>3, <2>4, <2>5, <2>6, <2>7, <2>8 DEF Next
<1> QED
    BY <1>4, <1>5

\* A dictionary of filters, an SLA preset, a list of priorities, a category or a text, and a
\* phrase with its context, are answered with the rows that each of their filters asks for
\* by itself and the policy does not block; but for a query with a & or ^NQ in it, a
\* priority that is not a number and a text search of a table without descriptions.
THEOREM AnswersAreAsAsked == Spec => []AnswersAsAsked
<1>1. Init => FirstInv
    BY SafeInit DEF Init, FirstInv, AnswersAsAsked
<1>2. FirstInv => AnswersAsAsked
    BY DEF FirstInv
<1> QED
    BY <1>1, <1>2, FirstStep, PTL DEF Spec

-----------------------------------------------------------------------------
(* A phrase and its context                                                 *)

\* Filters of which no two have one field.
OneEach(filters) == \A i, j \in DOMAIN filters : filters[i].field = filters[j].field => filters[i] = filters[j]

\* Two lists of filters, one after the other.
LEMMA FiltersJoined ==
    ASSUME NEW S, NEW p \in Seq(S), NEW q \in Seq(S)
    PROVE  /\ p \o q \in Seq(S)
           /\ ToSet(p \o q) = ToSet(p) \cup ToSet(q)
           /\ FieldsIn(p \o q) = FieldsIn(p) \cup FieldsIn(q)
           /\ OneEach(p) /\ OneEach(q) /\ FieldsIn(p) \cap FieldsIn(q) = {} => OneEach(p \o q)
<1> DEFINE r == p \o q
<1>1. PICK m \in Nat : m = Len(p) /\ DOMAIN p = 1..m
    OBVIOUS
<1>2. PICK n \in Nat : n = Len(q) /\ DOMAIN q = 1..n
    OBVIOUS
<1>3. r \in Seq(S) /\ Len(r) = m + n
    BY <1>1, <1>2, ConcatType
<1>4. (\A k \in 1..m : r[k] = p[k]) /\ (\A k \in 1..n : r[m + k] = q[k])
    BY <1>1, <1>2, ConcatFront, ConcatBack
<1> HIDE DEF r
<1>5. DOMAIN r = 1..(m + n)
    BY <1>3
<1>6. \A k \in 1..(m + n) : k \in 1..m \/ (k - m \in 1..n /\ m + (k - m) = k)
    OBVIOUS
<1>7. (\A k \in 1..m : k \in 1..(m + n)) /\ (\A k \in 1..n : m + k \in 1..(m + n))
    OBVIOUS
<1>8. \A k \in DOMAIN r : (\E i \in DOMAIN p : r[k] = p[i]) \/ (\E i \in DOMAIN q : r[k] = q[i])
    <2> TAKE k \in DOMAIN r
    <2>1. CASE k \in 1..m
        BY <1>1, <1>4, <2>1
    <2>2. CASE k - m \in 1..n /\ m + (k - m) = k
        <3>1. r[m + (k - m)] = q[k - m]
            BY <1>4, <2>2
        <3> QED
            BY <1>2, <2>2, <3>1
    <2> QED
        BY <1>5, <1>6, <2>1, <2>2
<1>9. /\ \A i \in DOMAIN p : \E k \in DOMAIN r : r[k] = p[i]
      /\ \A i \in DOMAIN q : \E k \in DOMAIN r : r[k] = q[i]
    BY <1>1, <1>2, <1>4, <1>5, <1>7
<1>10. ToSet(r) = ToSet(p) \cup ToSet(q)
    BY <1>8, <1>9 DEF ToSet
<1>11. FieldsIn(r) = FieldsIn(p) \cup FieldsIn(q)
    BY <1>8, <1>9 DEF FieldsIn
<1>12. ASSUME OneEach(p), OneEach(q), FieldsIn(p) \cap FieldsIn(q) = {}
       PROVE  OneEach(r)
    <2> SUFFICES ASSUME NEW i \in DOMAIN r, NEW j \in DOMAIN r, r[i].field = r[j].field
                 PROVE  r[i] = r[j]
        BY DEF OneEach
    <2>1. \A k \in DOMAIN p : p[k].field \in FieldsIn(p)
        BY DEF FieldsIn
    <2>2. \A k \in DOMAIN q : q[k].field \in FieldsIn(q)
        BY DEF FieldsIn
    <2>3. CASE \E a \in DOMAIN p : r[i] = p[a]
        <3>1. PICK a \in DOMAIN p : r[i] = p[a]
            BY <2>3
        <3>2. PICK b \in DOMAIN p : r[j] = p[b]
            BY <1>8, <1>12, <2>1, <2>2, <3>1
        <3> QED
            BY <1>12, <3>1, <3>2 DEF OneEach
    <2>4. CASE \E a \in DOMAIN q : r[i] = q[a]
        <3>1. PICK a \in DOMAIN q : r[i] = q[a]
            BY <2>4
        <3>2. PICK b \in DOMAIN q : r[j] = q[b]
            BY <1>8, <1>12, <2>1, <2>2, <3>1
        <3> QED
            BY <1>12, <3>1, <3>2 DEF OneEach
    <2> QED
        BY <1>8, <2>3, <2>4
<1> QED
    BY <1>3, <1>10, <1>11, <1>12 DEF r

\* A dictionary that is updated has every entry of the other one, and its own entries for
\* the other keys.
LEMMA UpdateHas ==
    ASSUME NEW S, NEW filters \in Seq(S), NEW others \in Seq(S), OneEach(others)
    PROVE  /\ \A filter \in ToSet(others) : filter \in ToSet(Update(filters, others))
           /\ \A filter \in ToSet(filters) :
                 filter.field \in FieldsIn(others) \/ filter \in ToSet(Update(filters, others))
<1> DEFINE kept == [k \in DOMAIN filters |-> IF filters[k].field \in FieldsIn(others)
                                               THEN EntryOf(others, filters[k].field) ELSE filters[k]]
           new == {k \in DOMAIN others : others[k].field \notin FieldsIn(filters)}
           added == Picked(others, new)
<1>1. \A j \in DOMAIN others : EntryOf(others, others[j].field) = others[j]
    <2> TAKE j \in DOMAIN others
    <2> DEFINE k == CHOOSE i \in DOMAIN others : others[i].field = others[j].field
    <2>1. k \in DOMAIN others /\ others[k].field = others[j].field
        OBVIOUS
    <2>2. EntryOf(others, others[j].field) = others[k]
        BY DEF EntryOf
    <2> HIDE DEF k
    <2> QED
        BY <2>1, <2>2 DEF OneEach
<1>2. PICK m \in Nat : DOMAIN filters = 1..m
    OBVIOUS
<1>3. kept \in [1..m -> S]
    <2>1. \A k \in 1..m : kept[k] \in S
        <3> TAKE k \in 1..m
        <3>1. CASE filters[k].field \notin FieldsIn(others)
            BY <1>2, <3>1
        <3>2. CASE filters[k].field \in FieldsIn(others)
            <4>1. PICK j \in DOMAIN others : others[j].field = filters[k].field
                BY <3>2 DEF FieldsIn
            <4>2. EntryOf(others, filters[k].field) = others[j] /\ others[j] \in S
                BY <1>1, <4>1
            <4> QED
                BY <1>2, <3>2, <4>2
        <3> QED
            BY <3>1, <3>2
    <2> QED
        BY <1>2, <2>1
<1>4. kept \in Seq(S) /\ DOMAIN kept = 1..m
    <2> HIDE DEF kept
    <2> QED
        BY <1>3
<1>5. /\ added \in Seq(S) /\ DOMAIN added = 1..Cardinality(new)
      /\ \A n \in 1..Cardinality(new) : added[n] = others[Nth(new, n)]
    <2>1. new \in SUBSET (DOMAIN others)
        OBVIOUS
    <2> HIDE DEF new
    <2> QED
        BY <2>1, PickedType
<1>6. Update(filters, others) = kept \o added
    BY DEF Update
<1>7. ToSet(Update(filters, others)) = ToSet(kept) \cup ToSet(added)
    <2> HIDE DEF kept, added
    <2> QED
        BY <1>4, <1>5, <1>6, FiltersJoined
<1>8. ASSUME NEW filter \in ToSet(filters)
      PROVE  filter.field \in FieldsIn(others) \/ filter \in ToSet(kept)
    <2>1. PICK k \in DOMAIN filters : filter = filters[k]
        BY DEF ToSet
    <2>2. filter.field \notin FieldsIn(others) => kept[k] = filter
        BY <2>1
    <2> HIDE DEF kept
    <2> QED
        BY <1>2, <1>4, <2>1, <2>2 DEF ToSet
<1>9. ASSUME NEW filter \in ToSet(others)
      PROVE  filter \in ToSet(kept) \cup ToSet(added)
    <2>1. PICK j \in DOMAIN others : filter = others[j]
        BY DEF ToSet
    <2>2. CASE filter.field \in FieldsIn(filters)
        <3>1. PICK k \in DOMAIN filters : filters[k].field = filter.field
            BY <2>2 DEF FieldsIn
        <3>2. filters[k].field \in FieldsIn(others)
            BY <2>1, <3>1 DEF FieldsIn
        <3>3. kept[k] = filter
            BY <1>1, <2>1, <3>1, <3>2
        <3> HIDE DEF kept
        <3> QED
            BY <1>2, <1>4, <3>3 DEF ToSet
    <2>3. CASE filter.field \notin FieldsIn(filters)
        <3>1. j \in new
            BY <2>1, <2>3
        <3>2. PICK M \in Nat : DOMAIN others = 1..M
            OBVIOUS
        <3>3. new \in SUBSET (0..M)
            BY <3>2
        <3> DEFINE n == Cardinality({i \in new : i <= j})
        <3> HIDE DEF new
        <3>4. n \in 1..Cardinality(new) /\ Nth(new, n) = j
            BY <3>1, <3>3, NthIs
        <3> HIDE DEF n, added
        <3>5. added[n] = filter /\ n \in DOMAIN added
            BY <1>5, <2>1, <3>4
        <3> QED
            BY <3>5 DEF ToSet
    <2> QED
        BY <2>2, <2>3
<1> HIDE DEF kept, added
<1> QED
    BY <1>7, <1>8, <1>9

\* A filter that may be there.
LEMMA OptionalFilter ==
    ASSUME NEW S, NEW filter \in S, NEW optional, optional \in {<<>>, <<filter>>}
    PROVE  /\ optional \in Seq(S) /\ OneEach(optional) /\ FieldsIn(optional) \subseteq {filter.field}
           /\ optional = <<filter>> => filter \in ToSet(optional)
<1>1. CASE optional = <<>>
    <2>1. optional \in Seq(S) /\ DOMAIN optional = {} /\ optional # <<filter>>
        BY <1>1
    <2> QED
        BY <2>1 DEF OneEach, FieldsIn
<1>2. CASE optional = <<filter>>
    <2>1. optional \in Seq(S) /\ DOMAIN optional = {1} /\ optional[1] = filter
        BY <1>2
    <2> QED
        BY <2>1 DEF OneEach, FieldsIn, ToSet
<1> QED
    BY <1>1, <1>2

\* The filters of a context: of dates, callers, states and an assignee.
DatesOf(context) == Between(context.date_range[1], context.date_range[2])
CallersOf(context) ==
    At("_complete_caller_exclusion",
       Join([k \in DOMAIN context.exclude_caller |-> <<"caller_id", "!=", context.exclude_caller[k]>>], "^"))
Unresolved == At("state", STATE_EXCLUDE_RESOLVED)
AssignedToUser == At("assigned_to", <<"getUserID">>)

\* A context is the filters that it has, each once.
LEMMA ContextFilters ==
    ASSUME NEW context
    PROVE  /\ \E S : ApplyContext(context) \in Seq(S)
           /\ OneEach(ApplyContext(context))
           /\ context.date_range # <<>> => DatesOf(context) \in ToSet(ApplyContext(context))
           /\ context.exclude_caller # <<>> => CallersOf(context) \in ToSet(ApplyContext(context))
           /\ context.exclude_resolved => Unresolved \in ToSet(ApplyContext(context))
           /\ context.user_assigned_only => AssignedToUser \in ToSet(ApplyContext(context))
<1>1. PICK dates : dates = DatesOf(context)
    OBVIOUS
<1>2. PICK callers : callers = CallersOf(context)
    OBVIOUS
<1>3. PICK unresolved : unresolved = Unresolved
    OBVIOUS
<1>4. PICK assigned : assigned = AssignedToUser
    OBVIOUS
<1> DEFINE S == {dates, callers, unresolved, assigned}
           a == IF context.date_range = <<>> THEN <<>> ELSE <<dates>>
           b == IF context.exclude_caller = <<>> THEN <<>> ELSE <<callers>>
           c == IF context.exclude_resolved THEN <<unresolved>> ELSE <<>>
           d == IF context.user_assigned_only THEN <<assigned>> ELSE <<>>
<1>5. ApplyContext(context) = ((a \o b) \o c) \o d
    BY <1>1, <1>2, <1>3, <1>4 DEF ApplyContext, DatesOf, CallersOf, Unresolved, AssignedToUser
<1>6. dates.field # callers.field /\ dates.field # unresolved.field /\ dates.field # assigned.field
      /\ callers.field # unresolved.field /\ callers.field # assigned.field /\ unresolved.field # assigned.field
    <2>1. /\ dates.field = <<"sys_created_on">> /\ callers.field = <<"_complete_caller_exclusion">>
          /\ unresolved.field = <<"state">> /\ assigned.field = <<"assigned_to">>
        BY <1>1, <1>2, <1>3, <1>4 DEF DatesOf, CallersOf, Unresolved, AssignedToUser, Between, At
    <2>2. \A x, y : <<x>> = <<y>> => x = y
        OBVIOUS
    <2> QED
        BY <2>1, <2>2
<1>7. dates \in S /\ callers \in S /\ unresolved \in S /\ assigned \in S
    OBVIOUS
<1>8. /\ a \in {<<>>, <<dates>>} /\ b \in {<<>>, <<callers>>} /\ c \in {<<>>, <<unresolved>>} /\ d \in {<<>>, <<assigned>>}
      /\ context.date_range # <<>> => a = <<dates>>
      /\ context.exclude_caller # <<>> => b = <<callers>>
      /\ context.exclude_resolved => c = <<unresolved>>
      /\ context.user_assigned_only => d = <<assigned>>
    OBVIOUS
<1> HIDE DEF S, a, b, c, d
<1>9. /\ a \in Seq(S) /\ OneEach(a) /\ FieldsIn(a) \subseteq {dates.field}
      /\ a = <<dates>> => dates \in ToSet(a)
      /\ b \in Seq(S) /\ OneEach(b) /\ FieldsIn(b) \subseteq {callers.field}
      /\ b = <<callers>> => callers \in ToSet(b)
    BY <1>7, <1>8, OptionalFilter
<1>10. /\ c \in Seq(S) /\ OneEach(c) /\ FieldsIn(c) \subseteq {unresolved.field}
       /\ c = <<unresolved>> => unresolved \in ToSet(c)
       /\ d \in Seq(S) /\ OneEach(d) /\ FieldsIn(d) \subseteq {assigned.field}
       /\ d = <<assigned>> => assigned \in ToSet(d)
    BY <1>7, <1>8, OptionalFilter
<1>11. PICK ab : ab = a \o b
    OBVIOUS
<1>12. /\ ab \in Seq(S) /\ ToSet(ab) = ToSet(a) \cup ToSet(b) /\ FieldsIn(ab) \subseteq {dates.field, callers.field}
       /\ OneEach(ab)
    <2>1. /\ a \o b \in Seq(S) /\ ToSet(a \o b) = ToSet(a) \cup ToSet(b) /\ FieldsIn(a \o b) = FieldsIn(a) \cup FieldsIn(b)
          /\ (OneEach(a) /\ OneEach(b) /\ FieldsIn(a) \cap FieldsIn(b) = {}) => OneEach(a \o b)
        BY <1>9, FiltersJoined
    <2>2. FieldsIn(a) \cap FieldsIn(b) = {}
        BY <1>6, <1>9
    <2> QED
        BY <1>9, <1>11, <2>1, <2>2
<1>13. PICK abc : abc = ab \o c
    OBVIOUS
<1>14. /\ abc \in Seq(S) /\ ToSet(abc) = ToSet(ab) \cup ToSet(c)
       /\ FieldsIn(abc) \subseteq {dates.field, callers.field, unresolved.field} /\ OneEach(abc)
    <2>1. /\ ab \o c \in Seq(S) /\ ToSet(ab \o c) = ToSet(ab) \cup ToSet(c) /\ FieldsIn(ab \o c) = FieldsIn(ab) \cup FieldsIn(c)
          /\ (OneEach(ab) /\ OneEach(c) /\ FieldsIn(ab) \cap FieldsIn(c) = {}) => OneEach(ab \o c)
        BY <1>10, <1>12, FiltersJoined
    <2>2. FieldsIn(ab) \cap FieldsIn(c) = {}
        BY <1>6, <1>10, <1>12
    <2> QED
        BY <1>10, <1>12, <1>13, <2>1, <2>2
<1>15. PICK all : all = abc \o d
    OBVIOUS
<1>16. all \in Seq(S) /\ ToSet(all) = ToSet(abc) \cup ToSet(d) /\ OneEach(all)
    <2>1. /\ abc \o d \in Seq(S) /\ ToSet(abc \o d) = ToSet(abc) \cup ToSet(d)
          /\ FieldsIn(abc \o d) = FieldsIn(abc) \cup FieldsIn(d)
          /\ (OneEach(abc) /\ OneEach(d) /\ FieldsIn(abc) \cap FieldsIn(d) = {}) => OneEach(abc \o d)
        BY <1>10, <1>14, FiltersJoined
    <2>2. FieldsIn(abc) \cap FieldsIn(d) = {}
        BY <1>6, <1>10, <1>14
    <2> QED
        BY <1>10, <1>14, <1>15, <2>1, <2>2
<1>17. ApplyContext(context) = all
    BY <1>5, <1>11, <1>13, <1>15
<1>18. /\ dates \in ToSet(a) => dates \in ToSet(all)
       /\ callers \in ToSet(b) => callers \in ToSet(all)
       /\ unresolved \in ToSet(c) => unresolved \in ToSet(all)
       /\ assigned \in ToSet(d) => assigned \in ToSet(all)
    BY <1>12, <1>14, <1>16
<1> QED
    BY <1>1, <1>2, <1>3, <1>4, <1>8, <1>9, <1>10, <1>16, <1>17, <1>18

\* What a context asks of a row, each of its filters by itself; and what a phrase asks,
\* each of its filters that the context leaves.
ContextAsks(c) ==
    {row \in RowsOf(c) : \A filter \in ToSet(ApplyContext(c.context)) : row \in FilterSelects(c, filter)}
PhraseAsks(c) ==
    {row \in RowsOf(c) :
       IF TextOnly(c) THEN row \in AsAsked(c)
       ELSE \A filter \in ToSet(ParseNaturalLanguage(c.phrase)) :
               filter.field \in FieldsIn(ApplyContext(c.context)) \/ row \in FilterSelects(c, filter)}

\* A call by phrase and context has every filter of its context, and of its phrase those
\* for other fields.
LEMMA ContextInFilters ==
    ASSUME NEW c \in Calls, Asks(c), c.tool = "intelligent"
    PROVE  /\ \A filter \in ToSet(ApplyContext(c.context)) : filter \in ToSet(FiltersOf(c))
           /\ \A filter \in ToSet(ParseNaturalLanguage(c.phrase)) :
                 filter.field \in FieldsIn(ApplyContext(c.context)) \/ filter \in ToSet(FiltersOf(c))
<1> DEFINE parsed == ParseNaturalLanguage(c.phrase)
           applied == ApplyContext(c.context)
<1>1. parsed \in Seq(Filters)
    BY ContextAssumption
<1>2. FiltersOf(c) = Update(parsed, applied)
    BY Zenon DEF FiltersOf, BuildIntelligentFilter
<1>3. PICK S : applied \in Seq(S)
    BY ContextFilters
<1>4. OneEach(applied)
    BY ContextFilters
<1> HIDE DEF parsed, applied
<1> DEFINE R == S \cup Filters
<1>5. parsed \in Seq(R) /\ applied \in Seq(R)
    <2>1. Seq(S) \subseteq Seq(R) /\ Seq(Filters) \subseteq Seq(R)
        BY SeqMonotonic
    <2> QED
        BY <1>1, <1>3, <2>1
<1>6. /\ \A filter \in ToSet(applied) : filter \in ToSet(FiltersOf(c))
      /\ \A filter \in ToSet(parsed) : filter.field \in FieldsIn(applied) \/ filter \in ToSet(FiltersOf(c))
    <2> HIDE DEF R
    <2> QED
        BY <1>2, <1>4, <1>5, UpdateHas
<1> QED
    BY <1>6 DEF parsed, applied

\* A phrase and its context ask for what both ask for, where both speak of one field the
\* context.
LEMMA BothAreAsked ==
    ASSUME NEW c \in Calls, Asks(c), c.tool = "intelligent", NEW row \in AsAsked(c)
    PROVE  row \in ContextAsks(c) /\ row \in PhraseAsks(c)
<1> DEFINE parsed == ParseNaturalLanguage(c.phrase)
           applied == ApplyContext(c.context)
<1>6. /\ \A filter \in ToSet(applied) : filter \in ToSet(FiltersOf(c))
      /\ \A filter \in ToSet(parsed) : filter.field \in FieldsIn(applied) \/ filter \in ToSet(FiltersOf(c))
    BY ContextInFilters
<1> HIDE DEF parsed, applied
<1>7. row \in RowsOf(c)
    BY AskedOfEach
<1>8. CASE TextOnly(c)
    <2>1. FiltersOf(c) = <<>>
        BY <1>8 DEF TextOnly
    <2>2. ToSet(<<>>) = {}
        BY DEF ToSet
    <2>3. ToSet(applied) = {}
        BY <1>6, <2>1, <2>2
    <2> QED
        BY <1>7, <1>8, <2>3 DEF ContextAsks, PhraseAsks, applied
<1>9. CASE ~TextOnly(c)
    <2>1. \A filter \in ToSet(FiltersOf(c)) : row \in FilterSelects(c, filter)
        BY <1>9, AskedOfEach
    <2> QED
        BY <1>6, <1>7, <1>9, <2>1 DEF ContextAsks, PhraseAsks, applied, parsed
<1> QED
    BY <1>8, <1>9

\* Every answer that is no fallback has rows that both the phrase and the context ask for
\* and the policy does not block, under the same conditions.
AnswersBoth ==
    (call.tool = "intelligent" /\ ~answer.fallback /\ answer.rows # {} /\ AllIntact /\ Plainly(call))
      => /\ call \in Calls /\ Asks(call)
         /\ answer.rows \subseteq {row \in ContextAsks(call) \cap PhraseAsks(call) : Visible(call, row)}

\* Rows that were asked for filter by filter are asked for by phrase and context.
LEMMA FirstAnswersBoth == FirstInv => AnswersBoth
<1> SUFFICES ASSUME FirstInv, call.tool = "intelligent", ~answer.fallback, AllIntact, Plainly(call),
                    NEW row \in answer.rows
             PROVE  /\ call \in Calls /\ Asks(call)
                    /\ row \in ContextAsks(call) /\ row \in PhraseAsks(call) /\ Visible(call, row)
    BY DEF AnswersBoth
<1>1. stage = "answered"
    <2>1. stage # "answered" => answer = Nothing
        BY DEF FirstInv, SafeInv, AskedInv
    <2>2. Nothing.rows = {}
        BY DEF Nothing
    <2> QED
        BY <2>1, <2>2
<1>2. ~Refused(call) /\ row \in Wanted(call)
    BY <1>1 DEF FirstInv, AnswersAsAsked, AskingTools
<1>3. Asks(call)
    <2>1. CASE TextOnly(call) /\ ExtractKeywords(WordsOf(call)) = <<>>
        BY <1>2, <2>1, NoKeywordNoRow
    <2> QED
        BY <1>2, <2>1 DEF Asks
<1>4. call \in Calls /\ row \in AsAsked(call) /\ Visible(call, row)
    BY <1>2 DEF FirstInv, SafeInv, AskedInv, Wanted
<1> QED
    BY <1>3, <1>4, BothAreAsked

\* A phrase and a context are never answered, but for a fallback, with a row that a filter
\* of the context does not ask for, or a filter of the phrase on a field that the context
\* leaves: merging the two dictionaries, building the query and adding the exclusions lose
\* none of them (build_intelligent_filter, query_table_intelligently).
THEOREM PhraseAndContext == Spec => []AnswersBoth
<1>1. Init => FirstInv
    BY SafeInit DEF Init, FirstInv, AnswersAsAsked
<1> QED
    BY <1>1, FirstAnswersBoth, FirstStep, PTL DEF Spec

\* The rows that a context means to keep. Of the states that are no longer worked on the
\* first, 6, is not among them: its condition names the field twice, and the instance
\* ignores it (intelligence.py:21).
KeptBy(context, row) ==
    /\ context.date_range # <<>> => Within(row["sys_created_on"], context.date_range)
    /\ \A k \in DOMAIN context.exclude_caller : row["caller_id"] # context.exclude_caller[k]
    /\ context.exclude_resolved => row["state"] \notin {"7", "8"}
    /\ context.user_assigned_only => row["assigned_to"] = "getUserID"

\* Two days around what is asked for.
LEMMA DatesSelect ==
    ASSUME NEW table, "sys_created_on" \in FieldsOf[table], NEW from \in Words, NEW to \in Words, NEW rows, NEW row
    PROVE  LET filter == Between(from, to)
           IN  row \in Selects(table, BuildQueryCondition(filter.field, filter.value), rows) <=>
                  row \in rows /\ Rank[row["sys_created_on"]] >= Rank[from] /\ Rank[row["sys_created_on"]] <= Rank[to]
<1> DEFINE value == <<"sys_created_on", "BETWEEN", from, "@", to>>
           field == <<"sys_created_on">>
<1>1. Between(from, to).field = field /\ Between(from, to).value = value
    BY DEF Between, At
<1>2. NormalizeOperator(value) = value
    <2>1. Head(value) = "sys_created_on"
        OBVIOUS
    <2> HIDE DEF value
    <2> QED
        BY <2>1, Zenon DEF NormalizeOperator
<1>3. DateRangeCondition(field, value) = value
    <2>1. Has(value, "BETWEEN")
        <3>1. 2 \in DOMAIN value /\ value[2] = "BETWEEN"
            OBVIOUS
        <3> HIDE DEF value
        <3> QED
            BY <3>1 DEF Has
    <2> HIDE DEF value
    <2> QED
        BY <2>1 DEF DateRangeCondition, field
<1>4. value # None
    BY DEF None
<1>5. field \notin {<<"_complete_query">>, <<"_complete_caller_exclusion">>}
    OBVIOUS
<1> HIDE DEF value, field
<1>6. BuildQueryCondition(field, value) = value
    BY <1>2, <1>3, <1>4, <1>5, HandledAtFirst
<1>7. row \in Selects(table, value, rows) <=>
         row \in rows /\ Rank[row["sys_created_on"]] >= Rank[from] /\ Rank[row["sys_created_on"]] <= Rank[to]
    BY BetweenSelects DEF value
<1> QED
    BY <1>1, <1>6, <1>7

\* Conditions that each leave out a caller.
LEMMA JoinedCallersSelect ==
    ASSUME NEW table, "caller_id" \in FieldsOf[table], NEW n \in Nat \ {0}, NEW names \in [1..n -> Names],
           NEW rows, NEW row
    PROVE  row \in Selects(table, Join([k \in DOMAIN names |-> <<"caller_id", "!=", names[k]>>], "^"), rows) <=>
              row \in rows /\ \A k \in 1..n : row["caller_id"] # names[k]
<1> DEFINE callers == [k \in 1..n |-> <<names[k]>>]
           conditions == [k \in DOMAIN names |-> <<"caller_id", "!=", names[k]>>]
<1>1. DOMAIN callers = 1..n
    OBVIOUS
<1>2. \A k \in 1..n : callers[k] = <<names[k]>>
    OBVIOUS
<1>3. Join(conditions, "^") = Excluding(callers)
    <2>1. \A k \in 1..n : <<"caller_id", "!=">> \o <<names[k]>> = <<"caller_id", "!=", names[k]>>
        <3>1. \A a, b, c : <<a, b>> \o <<c>> = <<a, b, c>>
            BY TwoJoined, ThreeJoined
        <3> QED
            BY <3>1
    <2>2. DOMAIN names = 1..n
        OBVIOUS
    <2> HIDE DEF callers
    <2>3. [k \in DOMAIN callers |-> <<"caller_id", "!=">> \o callers[k]] = conditions
        BY <1>1, <1>2, <2>1, <2>2
    <2> QED
        BY <2>3 DEF Excluding
<1> HIDE DEF callers
<1>4. row \in Selects(table, Excluding(callers), rows) <=>
         row \in rows /\ \A k \in 1..n : row["caller_id"] # names[k]
    BY <1>1, <1>2, ExcludingSelects
<1> QED
    BY <1>3, <1>4

\* The callers of a context.
LEMMA CallersSelect ==
    ASSUME NEW table, "caller_id" \in FieldsOf[table], NEW context, context.exclude_caller \in Seq(Names),
           context.exclude_caller # <<>>, NEW rows, NEW row
    PROVE  row \in Selects(table, BuildQueryCondition(CallersOf(context).field, CallersOf(context).value), rows) <=>
              row \in rows /\ \A k \in DOMAIN context.exclude_caller : row["caller_id"] # context.exclude_caller[k]
<1>1. PICK names : names = context.exclude_caller
    OBVIOUS
<1>2. PICK n \in Nat \ {0} : DOMAIN names = 1..n
    BY <1>1, NotEmptyList
<1>3. names \in [1..n -> Names]
    <2>1. names \in Seq(Names)
        BY <1>1
    <2> QED
        BY <1>2, <2>1
<1> DEFINE value == Join([k \in DOMAIN names |-> <<"caller_id", "!=", names[k]>>], "^")
<1>4. CallersOf(context).field = <<"_complete_caller_exclusion">> /\ CallersOf(context).value = value
    BY <1>1 DEF CallersOf, At
<1>5. row \in Selects(table, value, rows) <=> row \in rows /\ \A k \in 1..n : row["caller_id"] # names[k]
    BY <1>3, JoinedCallersSelect
<1> HIDE DEF value
<1>6. BuildQueryCondition(<<"_complete_caller_exclusion">>, value) = value
    BY DEF BuildQueryCondition
<1> QED
    BY <1>1, <1>2, <1>4, <1>5, <1>6

\* The states that a context leaves out, but for the first.
LEMMA UnresolvedSelects ==
    ASSUME NEW table, "state" \in FieldsOf[table], NEW rows,
           NEW row \in Selects(table, BuildQueryCondition(Unresolved.field, Unresolved.value), rows)
    PROVE  row["state"] \notin {"7", "8"}
<1> DEFINE field == <<"state">>
           value == STATE_EXCLUDE_RESOLVED
           first == <<"state", "state", "!=", "6">>
           second == <<"state", "!=", "7">>
           third == <<"state", "!=", "8">>
<1>1. Unresolved.field = field /\ Unresolved.value = value
    BY DEF Unresolved, At
<1>2. /\ Head(value) = "state" /\ 2 \in DOMAIN value /\ value[2] = "!="
      /\ \A k \in DOMAIN value : value[k] # "^OR"
    BY DEF STATE_EXCLUDE_RESOLVED
<1>3. field \o value = (first \o <<"^">> \o second) \o <<"^">> \o third
    BY DEF STATE_EXCLUDE_RESOLVED
<1>4. field \o value # None
    BY DEF STATE_EXCLUDE_RESOLVED, None
<1>5. field \notin {<<"_complete_query">>, <<"_complete_caller_exclusion">>, <<"sys_created_on">>, <<"priority">>,
                    <<"exclude_caller">>, <<"caller_exclusion">>}
    OBVIOUS
<1> HIDE DEF field, value
<1>6. NormalizeOperator(value) = value
    BY <1>2, Zenon DEF NormalizeOperator
<1>7. /\ DateRangeCondition(field, value) = None /\ PriorityCondition(field, value) = None
      /\ CallerExclusionCondition(field, value) = None
    BY <1>5 DEF DateRangeCondition, PriorityCondition, CallerExclusionCondition
<1>8. ~Has(value, "^OR") /\ Has(value, "!=")
    BY <1>2 DEF Has
<1>9. OperatorCondition(field, value) = field \o value
    BY <1>8 DEF OperatorCondition, HasOperatorInValue, Comparisons
<1>10. BuildQueryCondition(field, value) = field \o value
    BY <1>4, <1>5, <1>6, <1>7, <1>8, <1>9, HandledAtLast
<1> DEFINE T == {"state", "!=", "6", "7", "8", "^"}
<1>11. /\ first \in Seq(T) /\ second \in Seq(T) /\ third \in Seq(T) /\ first \o <<"^">> \o second \in Seq(T)
       /\ "^" \in T
    OBVIOUS
<1> HIDE DEF T, first, second, third
<1>12. Selects(table, (first \o <<"^">> \o second) \o <<"^">> \o third, rows)
       = Selects(table, first, rows) \cap Selects(table, second, rows) \cap Selects(table, third, rows)
    <2>1. PICK both \in Seq(T) : both = first \o <<"^">> \o second
        BY <1>11
    <2>2. Selects(table, first \o <<"^">> \o second, rows)
          = Selects(table, first, rows) \cap Selects(table, second, rows)
        BY <1>11, SelectsBoth
    <2>3. Selects(table, both \o <<"^">> \o third, rows) = Selects(table, both, rows) \cap Selects(table, third, rows)
        <3>1. third \in Seq(T) /\ "^" \in T
            BY <1>11
        <3> QED
            BY <3>1, SelectsBoth
    <2> QED
        BY <2>1, <2>2, <2>3
<1>13. row \in Selects(table, second, rows) /\ row \in Selects(table, third, rows)
    BY <1>1, <1>3, <1>10, <1>12
<1>14. "state" \notin QueryOperators \cup {"^", "^OR"}
    BY DEF QueryOperators
<1> QED
    BY <1>13, <1>14, SelectsEqual DEF second, third

\* The user's own.
LEMMA AssignedSelects ==
    ASSUME NEW table, "assigned_to" \in FieldsOf[table], AssignedToUser \in Filters, NEW rows,
           NEW row \in Selects(table, BuildQueryCondition(AssignedToUser.field, AssignedToUser.value), rows)
    PROVE  row["assigned_to"] = "getUserID"
<1>1. AssignedToUser.field = <<"assigned_to">> /\ AssignedToUser.value = <<"getUserID">>
    BY DEF AssignedToUser, At
<1>2. "assigned_to" \in STRING /\ "getUserID" \in STRING
    <2>1. \A x : <<x>> \in Texts => x \in STRING
        <3> TAKE x
        <3> HAVE <<x>> \in Texts
        <3>1. <<x>>[1] \in STRING
            BY DEF Texts
        <3> QED
            BY <3>1
    <2>2. AssignedToUser.field \in Texts /\ AssignedToUser.value \in Texts
        BY DEF Filters
    <2> QED
        BY <1>1, <2>1, <2>2
<1>3. "assigned_to" \in Fields
    BY <1>2 DEF Fields, Words, QueryOperators, SUFFIX_OPERATORS
<1>4. "getUserID" \in Names
    BY <1>2 DEF Names, Words, QueryOperators, SN_PREFIX_OPERATORS
<1>5. BuildQueryCondition(<<"assigned_to">>, <<"getUserID">>) = <<"assigned_to", "=", "getUserID">>
    BY <1>3, <1>4, EqualityCondition
<1>6. "assigned_to" \notin QueryOperators \cup {"^", "^OR"}
    BY DEF QueryOperators
<1>7. row \in Selects(table, <<"assigned_to", "=", "getUserID">>, rows)
    BY <1>1, <1>5
<1>8. PICK f \in FieldsOf[table] : f = "assigned_to"
    OBVIOUS
<1>9. PICK v : v = "getUserID"
    OBVIOUS
<1>10. f \notin QueryOperators \cup {"^", "^OR"}
    BY <1>6, <1>8
<1>11. v \notin {"^", "^OR", "NULL"}
    BY <1>9
<1>12. /\ row \in Selects(table, <<f, "=", v>>, rows) <=> row \in rows /\ row[f] = v
       /\ row \in Selects(table, <<f, "!=", v>>, rows) <=> row \in rows /\ row[f] # v
    BY <1>10, <1>11, SelectsEqual
<1> QED
    BY <1>7, <1>8, <1>9, <1>12

\* What a context asks for is what it means to keep.
LEMMA ContextKeeps ==
    ASSUME NEW c \in Calls, Asks(c), c.tool = "intelligent",
           {"sys_created_on", "caller_id", "state", "assigned_to"} \subseteq FieldsOf[c.table],
           NEW row \in ContextAsks(c)
    PROVE  KeptBy(c.context, row)
<1> DEFINE context == c.context
<1>1. /\ {"sys_created_on", "caller_id", "state", "assigned_to"} \subseteq FieldsOf[c.table]
      /\ context.date_range = <<>> \/ {context.date_range[1], context.date_range[2]} \subseteq Words
      /\ context.exclude_caller \in Seq(Names)
    BY ContextAssumption
<1>2. FiltersOf(c) \in Seq(Filters)
    BY CallsAssumption
<1>3. ASSUME NEW filter \in ToSet(ApplyContext(context))
      PROVE  /\ row \in Selects(c.table, BuildQueryCondition(filter.field, filter.value), RowsOf(c))
             /\ filter \in Filters
    <2>1. filter \in ToSet(FiltersOf(c))
        BY ContextInFilters
    <2>2. filter \in Filters
        BY <1>2, <2>1 DEF ToSet
    <2>3. row \in FilterSelects(c, filter)
        BY DEF ContextAsks
    <2> QED
        BY <2>2, <2>3, FilterSelectsExactly
<1> HIDE DEF context
<1>4. ASSUME context.date_range # <<>>
      PROVE  Within(row["sys_created_on"], context.date_range)
    <2>1. DatesOf(context) \in ToSet(ApplyContext(context))
        BY <1>4, ContextFilters
    <2>2. row \in Selects(c.table, BuildQueryCondition(DatesOf(context).field, DatesOf(context).value), RowsOf(c))
        BY <1>3, <2>1
    <2>3. context.date_range[1] \in Words /\ context.date_range[2] \in Words
        BY <1>1, <1>4
    <2> QED
        <3>1. PICK from \in Words, to \in Words : from = context.date_range[1] /\ to = context.date_range[2]
            BY <2>3
        <3>2. row \in Selects(c.table, BuildQueryCondition(Between(from, to).field, Between(from, to).value), RowsOf(c))
            BY <2>2, <3>1 DEF DatesOf
        <3>3. "sys_created_on" \in FieldsOf[c.table]
            BY <1>1
        <3>4. Rank[row["sys_created_on"]] >= Rank[from] /\ Rank[row["sys_created_on"]] <= Rank[to]
            BY <3>2, <3>3, DatesSelect
        <3> QED
            BY <3>1, <3>4 DEF Within
<1>5. ASSUME NEW k \in DOMAIN context.exclude_caller
      PROVE  row["caller_id"] # context.exclude_caller[k]
    <2>1. context.exclude_caller # <<>>
        BY <1>1, NotEmptyList
    <2>2. CallersOf(context) \in ToSet(ApplyContext(context))
        BY <2>1, ContextFilters
    <2>3. row \in Selects(c.table, BuildQueryCondition(CallersOf(context).field, CallersOf(context).value), RowsOf(c))
        BY <1>3, <2>2
    <2> QED
        <3>1. "caller_id" \in FieldsOf[c.table] /\ context.exclude_caller \in Seq(Names)
            BY <1>1
        <3>2. \A j \in DOMAIN context.exclude_caller : row["caller_id"] # context.exclude_caller[j]
            BY <2>1, <2>3, <3>1, CallersSelect
        <3> QED
            BY <3>2
<1>6. ASSUME context.exclude_resolved
      PROVE  row["state"] \notin {"7", "8"}
    <2>1. Unresolved \in ToSet(ApplyContext(context))
        BY <1>6, ContextFilters
    <2>2. row \in Selects(c.table, BuildQueryCondition(Unresolved.field, Unresolved.value), RowsOf(c))
        BY <1>3, <2>1
    <2> QED
        BY <1>1, <2>2, UnresolvedSelects
<1>7. ASSUME context.user_assigned_only
      PROVE  row["assigned_to"] = "getUserID"
    <2>1. AssignedToUser \in ToSet(ApplyContext(context))
        BY <1>7, ContextFilters
    <2>2. /\ row \in Selects(c.table, BuildQueryCondition(AssignedToUser.field, AssignedToUser.value), RowsOf(c))
          /\ AssignedToUser \in Filters
        BY <1>3, <2>1
    <2> QED
        BY <1>1, <2>2, AssignedSelects
<1> QED
    BY <1>4, <1>5, <1>6, <1>7 DEF KeptBy, context

\* Whatever the phrase reads as, no row of an answer that is no fallback is outside the
\* dates of the context, of a caller or in a state that it leaves out, or another
\* user's where it asks for the user's own (build_intelligent_filter lets the context
\* replace what the phrase says of the same field); on a table that has the fields of a
\* context, and if no query has a & or ^NQ in it.
ContextIsKept ==
    (/\ call.tool = "intelligent" /\ ~answer.fallback /\ AllIntact /\ Plainly(call)
     /\ {"sys_created_on", "caller_id", "state", "assigned_to"} \subseteq FieldsOf[call.table])
      => \A row \in answer.rows : KeptBy(call.context, row)

\* The context is kept in every answer that is no fallback: its dates, the callers it leaves
\* out, its states but for the first, and its user.
THEOREM ContextKept == Spec => []ContextIsKept
<1>1. AnswersBoth => ContextIsKept
    <2> SUFFICES ASSUME AnswersBoth, call.tool = "intelligent", ~answer.fallback, AllIntact, Plainly(call),
                        {"sys_created_on", "caller_id", "state", "assigned_to"} \subseteq FieldsOf[call.table],
                        NEW row \in answer.rows
                 PROVE  KeptBy(call.context, row)
        BY DEF ContextIsKept
    <2>1. call \in Calls /\ Asks(call) /\ row \in ContextAsks(call)
        BY DEF AnswersBoth
    <2> QED
        BY <2>1, ContextKeeps
<1> QED
    BY <1>1, PhraseAndContext, PTL
=============================================================================
