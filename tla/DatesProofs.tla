---------------------------- MODULE DatesProofs ----------------------------
\* Proofs about Dates: every day from the second year of the calendar on, through all its
\* leap years and the centuries that have none.
EXTENDS Dates, WellFoundedInduction, TLAPS

-----------------------------------------------------------------------------
(* Years                                                                    *)

NewYear(y) == Ordinal(Date(y, 1, 1))

LEMMA NewYearIs ==
    ASSUME NEW y \in Int
    PROVE  /\ NewYear(y) = 365 * (y - 1) + ((y - 1) \div 4) - ((y - 1) \div 100)
                           + ((y - 1) \div 400) + 1
           /\ NewYear(y) \in Int
BY DEF NewYear, Ordinal, Date

\* A year has 365 days, a leap year 366.
LEMMA YearLength ==
    ASSUME NEW y \in Int
    PROVE  NewYear(y + 1) = NewYear(y) + (IF IsLeap(y) THEN 366 ELSE 365)
<1>1. /\ y \div 4 - (y - 1) \div 4 = IF y % 4 = 0 THEN 1 ELSE 0
      /\ y \div 100 - (y - 1) \div 100 = IF y % 100 = 0 THEN 1 ELSE 0
      /\ y \div 400 - (y - 1) \div 400 = IF y % 400 = 0 THEN 1 ELSE 0
    OBVIOUS
<1>2. (y % 100 = 0 => y % 4 = 0) /\ (y % 400 = 0 => y % 100 = 0)
    OBVIOUS
<1>3. NewYear(y + 1) = 365 * y + (y \div 4) - (y \div 100) + (y \div 400) + 1
    BY NewYearIs
<1>4. NewYear(y) = 365 * (y - 1) + ((y - 1) \div 4) - ((y - 1) \div 100) + ((y - 1) \div 400) + 1
    BY NewYearIs
<1>5. NewYear(y + 1) - NewYear(y) = 365 + (IF y % 4 = 0 THEN 1 ELSE 0)
                                    - (IF y % 100 = 0 THEN 1 ELSE 0) + (IF y % 400 = 0 THEN 1 ELSE 0)
    BY <1>1, <1>3, <1>4
<1>6. NewYear(y + 1) \in Int /\ NewYear(y) \in Int
    BY <1>3, <1>4
<1>7. CASE IsLeap(y)
    BY <1>2, <1>5, <1>6, <1>7 DEF IsLeap
<1>8. CASE ~IsLeap(y)
    BY <1>2, <1>5, <1>6, <1>8 DEF IsLeap
<1> QED
    BY <1>7, <1>8

LEMMA NewYearsInOrder ==
    ASSUME NEW y \in Int, NEW z \in Int, y <= z
    PROVE  NewYear(y) <= NewYear(z)
<1>1. /\ (y - 1) \div 4 <= (z - 1) \div 4
      /\ (z - 1) \div 100 - (y - 1) \div 100 <= z - y
      /\ (y - 1) \div 400 <= (z - 1) \div 400
    OBVIOUS
<1> QED
    BY <1>1, NewYearIs

\* Every day is in a year, and in the range FromOrdinal looks for it.
LEMMA YearOfDay ==
    ASSUME NEW n \in Nat, n > 0
    PROVE  \E y \in ((n \div 366) .. (n \div 365) + 1) :
               /\ y \in Nat /\ y > 0
               /\ NewYear(y) <= n /\ n < NewYear(y + 1)
<1> DEFINE less == {p \in Nat \X Nat : p[1] < p[2]}
           Ends == {y \in Nat : n < NewYear(y + 1)}
<1>1. IsWellFoundedOn(less, Nat)
    <2>1. OpToRel(<, Nat) = less
        BY DEF OpToRel
    <2> QED
        BY <2>1, NatLessThanWellFounded
<1>2. n \in Ends
    <2>1. n \div 4 >= 0 /\ n \div 100 <= n /\ n \div 400 >= 0
        OBVIOUS
    <2> QED
        BY <2>1, NewYearIs
<1>3. PICK y \in Ends : \A z \in Ends : ~(<<z, y>> \in less)
    <2>1. Ends \subseteq Nat /\ Ends # {}
        BY <1>2
    <2> HIDE DEF less, Ends
    <2> QED
        BY <1>1, <2>1, WFMin
<1>4. y \in Nat /\ n < NewYear(y + 1)
    BY <1>3
<1>5. y > 0
    BY <1>4, NewYearIs
<1>6. NewYear(y) <= n
    <2>1. y - 1 \in Nat /\ (y - 1) + 1 = y /\ <<y - 1, y>> \in less
        BY <1>4, <1>5
    <2>2. y - 1 \notin Ends
        BY <1>3, <2>1
    <2> QED
        BY <1>4, <2>1, <2>2, NewYearIs
<1>7. n \div 366 <= y
    <2>1. y \div 4 <= y /\ y \div 400 <= y \div 100
        BY <1>4
    <2>2. n <= 366 * y
        BY <1>4, <2>1, NewYearIs
    <2> QED
        BY <1>4, <2>2
<1>8. y <= (n \div 365) + 1
    <2>1. (y - 1) \div 4 >= (y - 1) \div 100 /\ (y - 1) \div 400 >= 0
        BY <1>4, <1>5
    <2>2. 365 * (y - 1) <= n
        BY <1>4, <1>6, <2>1, NewYearIs
    <2> QED
        BY <1>4, <2>2
<1> QED
    BY <1>4, <1>5, <1>6, <1>7, <1>8

-----------------------------------------------------------------------------
(* Months                                                                   *)

First(y, m) == Ordinal(Date(y, m, 1))

LEMMA FirstIs ==
    ASSUME NEW y \in Int, NEW m \in 1..12
    PROVE  /\ First(y, m) \in Int /\ MonthLength(y, m) \in 28..31
           /\ First(y, 1) = NewYear(y)
           /\ \A d \in Int : Ordinal(Date(y, m, d)) = First(y, m) + d - 1
<1>1. <<0, 31, 59, 90, 120, 151, 181, 212, 243, 273, 304, 334>>[m] \in Int
    OBVIOUS
<1>2. MonthLength(y, m) \in 28..31
    BY DEF MonthLength
<1> QED
    BY <1>1, <1>2 DEF First, NewYear, Ordinal, Date

\* The months of a year follow one another, and the last of them ends it.
LEMMA MonthsFollow ==
    ASSUME NEW y \in Int
    PROVE  /\ \A m \in 1..11 : First(y, m + 1) = First(y, m) + MonthLength(y, m)
           /\ NewYear(y + 1) = First(y, 12) + MonthLength(y, 12)
<1>1. ASSUME NEW m \in 1..11
      PROVE  First(y, m + 1) = First(y, m) + MonthLength(y, m)
    BY DEF First, Ordinal, Date, MonthLength
<1>2. NewYear(y + 1) = First(y, 12) + MonthLength(y, 12)
    <2>1. First(y, 12) = NewYear(y) + 334 + (IF IsLeap(y) THEN 1 ELSE 0)
        BY DEF First, NewYear, Ordinal, Date
    <2>2. MonthLength(y, 12) = 31
        BY DEF MonthLength
    <2>3. NewYear(y + 1) = NewYear(y) + (IF IsLeap(y) THEN 366 ELSE 365) /\ NewYear(y) \in Int
        BY YearLength, NewYearIs
    <2>4. CASE IsLeap(y)
        BY <2>1, <2>2, <2>3, <2>4
    <2>5. CASE ~IsLeap(y)
        BY <2>1, <2>2, <2>3, <2>5
    <2> QED
        BY <2>4, <2>5
<1> QED
    BY <1>1, <1>2

LEMMA FirstsInOrder ==
    ASSUME NEW y \in Int, NEW m \in 1..12, NEW k \in 1..12, m < k
    PROVE  First(y, m) + MonthLength(y, m) <= First(y, k)
BY DEF First, Ordinal, Date, MonthLength

LEMMA MonthInYear ==
    ASSUME NEW y \in Int, NEW m \in 1..12
    PROVE  NewYear(y) <= First(y, m) /\ First(y, m) + MonthLength(y, m) <= NewYear(y + 1)
<1>1. First(y, 1) <= First(y, m)
    <2>1. CASE m = 1
        <3>1. First(y, 1) \in Int
            BY FirstIs
        <3> QED
            BY <2>1, <3>1
    <2>2. CASE m # 1
        <3>1. First(y, 1) + MonthLength(y, 1) <= First(y, m)
            BY <2>2, FirstsInOrder
        <3>2. First(y, m) \in Int
            BY FirstIs
        <3>3. First(y, 1) \in Int /\ MonthLength(y, 1) \in 28..31
            <4>1. 1 \in 1..12
                OBVIOUS
            <4> QED
                BY <4>1, FirstIs
        <3> QED
            BY <3>1, <3>2, <3>3
    <2> QED
        BY <2>1, <2>2
<1>2. First(y, m) + MonthLength(y, m) <= First(y, 12) + MonthLength(y, 12)
    <2>1. CASE m = 12
        <3>1. First(y, 12) \in Int /\ MonthLength(y, 12) \in 28..31
            BY FirstIs
        <3> QED
            BY <2>1, <3>1
    <2>2. CASE m # 12
        <3>1. First(y, m) + MonthLength(y, m) <= First(y, 12)
            BY <2>2, FirstsInOrder
        <3>2. First(y, 12) \in Int /\ MonthLength(y, 12) \in 28..31
            BY FirstIs
        <3>3. First(y, m) \in Int /\ MonthLength(y, m) \in 28..31
            BY FirstIs
        <3> QED
            BY <3>1, <3>2, <3>3
    <2> QED
        BY <2>1, <2>2
<1> QED
    BY <1>1, <1>2, FirstIs, MonthsFollow

\* A month runs from its first day to before the first day of the next.
InMonth(n, y, m) == First(y, m) <= n /\ n < First(y, m) + MonthLength(y, m)

\* Every day of a year is in one of its months.
LEMMA MonthOfDay ==
    ASSUME NEW y \in Int, NEW n \in Int, NewYear(y) <= n, n < NewYear(y + 1)
    PROVE  \E m \in 1..12 : InMonth(n, y, m)
<1> SUFFICES ASSUME \A m \in 1..12 : ~InMonth(n, y, m)
             PROVE  FALSE
    OBVIOUS
<1>1. ASSUME NEW m \in 1..11, First(y, m) <= n
      PROVE  First(y, m + 1) <= n
    <2>1. ~(n < First(y, m) + MonthLength(y, m))
        BY <1>1 DEF InMonth
    <2>2. First(y, m) \in Int /\ MonthLength(y, m) \in 28..31
        <3>1. m \in 1..12
            OBVIOUS
        <3> QED
            BY <3>1, FirstIs
    <2>3. First(y, m + 1) = First(y, m) + MonthLength(y, m)
        BY MonthsFollow
    <2> QED
        BY <2>1, <2>2, <2>3
<1>2. First(y, 1) <= n
    BY FirstIs
<1>3. First(y, 1 + 1) <= n
    BY <1>1, <1>2
<1>4. First(y, 2 + 1) <= n
    BY <1>1, <1>3
<1>5. First(y, 3 + 1) <= n
    BY <1>1, <1>4
<1>6. First(y, 4 + 1) <= n
    BY <1>1, <1>5
<1>7. First(y, 5 + 1) <= n
    BY <1>1, <1>6
<1>8. First(y, 6 + 1) <= n
    BY <1>1, <1>7
<1>9. First(y, 7 + 1) <= n
    BY <1>1, <1>8
<1>10. First(y, 8 + 1) <= n
    BY <1>1, <1>9
<1>11. First(y, 9 + 1) <= n
    BY <1>1, <1>10
<1>12. First(y, 10 + 1) <= n
    BY <1>1, <1>11
<1>13. First(y, 11 + 1) <= n
    BY <1>1, <1>12
<1>14. 12 \in 1..12 /\ 11 + 1 = 12
    OBVIOUS
<1>15. ~InMonth(n, y, 12)
    BY <1>14
<1> QED
    BY <1>13, <1>14, <1>15, FirstIs, MonthsFollow DEF InMonth

\* A day is in one month only.
LEMMA OneMonth ==
    ASSUME NEW n \in Int, NEW y \in Int, NEW m \in 1..12, NEW z \in Int, NEW k \in 1..12,
           InMonth(n, y, m), InMonth(n, z, k)
    PROVE  y = z /\ m = k
<1>1. ASSUME NEW a \in Int, NEW i \in 1..12, NEW b \in Int, NEW j \in 1..12,
             InMonth(n, a, i), InMonth(n, b, j), a < b
      PROVE  FALSE
    <2>1. n < NewYear(a + 1) /\ NewYear(b) <= n
        <3>1. /\ First(a, i) + MonthLength(a, i) <= NewYear(a + 1) /\ NewYear(b) <= First(b, j)
              /\ NewYear(a + 1) \in Int /\ NewYear(b) \in Int
            <4>1. First(a, i) + MonthLength(a, i) <= NewYear(a + 1)
                BY MonthInYear
            <4>2. NewYear(b) <= First(b, j)
                BY MonthInYear
            <4>3. NewYear(b) \in Int
                BY NewYearIs
            <4>4. NewYear(a + 1) \in Int
                <5>1. a + 1 \in Int
                    OBVIOUS
                <5> QED
                    BY <5>1, NewYearIs
            <4> QED
                BY <4>1, <4>2, <4>3, <4>4
        <3>2. First(a, i) \in Int /\ MonthLength(a, i) \in 28..31
            BY FirstIs
        <3>3. First(b, j) \in Int /\ MonthLength(b, j) \in 28..31
            BY FirstIs
        <3> QED
            BY <1>1, <3>1, <3>2, <3>3 DEF InMonth
    <2>2. NewYear(a + 1) <= NewYear(b)
        BY <1>1, NewYearsInOrder
    <2> QED
        BY <2>1, <2>2, NewYearIs
<1>2. y = z
    BY <1>1
<1>3. ASSUME NEW i \in 1..12, NEW j \in 1..12, InMonth(n, y, i), InMonth(n, y, j), i < j
      PROVE  FALSE
    <2>1. First(y, i) + MonthLength(y, i) <= First(y, j)
        BY <1>3, FirstsInOrder
    <2> QED
        <3>1. First(y, i) \in Int /\ MonthLength(y, i) \in 28..31
            BY FirstIs
        <3>2. First(y, j) \in Int
            BY FirstIs
        <3> QED
            BY <1>3, <2>1, <3>1, <3>2 DEF InMonth
<1>4. m = k
    BY <1>2, <1>3
<1> QED
    BY <1>2, <1>4

-----------------------------------------------------------------------------
(* Dates and their ordinals                                                 *)

\* The date of a day is a day of the calendar, and is that day.
LEMMA DateOfDay ==
    ASSUME NEW n \in Nat, n > 0
    PROVE  \E y \in Nat, m \in 1..12 :
               /\ y > 0 /\ InMonth(n, y, m)
               /\ FromOrdinal(n) = Date(y, m, n - First(y, m) + 1)
               /\ NewYear(y) <= n /\ n < NewYear(y + 1)
<1> DEFINE Years == ((n \div 366) .. (n \div 365) + 1)
           y == CHOOSE z \in Years : Ordinal(Date(z, 1, 1)) <= n /\ n < Ordinal(Date(z + 1, 1, 1))
           m == CHOOSE k \in 1..12 : LET first == Ordinal(Date(y, k, 1)) IN
                    first <= n /\ n < first + MonthLength(y, k)
<1>1. FromOrdinal(n) = Date(y, m, n - Ordinal(Date(y, m, 1)) + 1)
    BY DEF FromOrdinal
<1>2. y \in Years /\ NewYear(y) <= n /\ n < NewYear(y + 1)
    <2>1. \E z \in Years : Ordinal(Date(z, 1, 1)) <= n /\ n < Ordinal(Date(z + 1, 1, 1))
        BY YearOfDay DEF NewYear
    <2> QED
        BY <2>1 DEF NewYear
<1>3. y \in Nat
    <2>1. n \div 366 \in Nat /\ n \div 365 \in Nat
        OBVIOUS
    <2> QED
        BY <1>2, <2>1
<1> HIDE DEF y
<1>4. m \in 1..12 /\ InMonth(n, y, m)
    <2>1. \E k \in 1..12 : InMonth(n, y, k)
        BY <1>2, <1>3, MonthOfDay
    <2> QED
        BY <2>1 DEF InMonth, First
<1> HIDE DEF m
<1>5. y > 0
    <2>1. CASE y = 0
        <3>1. NewYear(y + 1) = 1
            BY <2>1, NewYearIs
        <3> QED
            BY <1>2, <3>1
    <2> QED
        BY <1>3, <2>1
<1> QED
    BY <1>1, <1>2, <1>3, <1>4, <1>5 DEF First

\* A date of the calendar is the date of its day.
LEMMA DayOfDate ==
    ASSUME NEW n \in Nat, n > 0, NEW y \in Int, NEW m \in 1..12, InMonth(n, y, m)
    PROVE  FromOrdinal(n) = Date(y, m, n - First(y, m) + 1)
<1>1. PICK z \in Nat, k \in 1..12 : /\ InMonth(n, z, k)
                                    /\ FromOrdinal(n) = Date(z, k, n - First(z, k) + 1)
    BY DateOfDay
<1>2. z = y /\ k = m
    <2>1. n \in Int /\ z \in Int
        OBVIOUS
    <2> QED
        BY <1>1, <2>1, OneMonth
<1> QED
    BY <1>1, <1>2

-----------------------------------------------------------------------------
(* Texts                                                                    *)

\* A full month name is the name of its month only.
LEMMA NamedMonth ==
    ASSUME NEW m \in 1..12
    PROVE  MonthNumber(MONTHS[m]) = {m}
<1>1. \A k \in 1..12 : MONTHS[k] = MONTHS[m] => k = m
    BY DEF MONTHS
<1> QED
    BY <1>1 DEF MonthNumber

IsDate(date) ==
    /\ date.month \in 1..12
    /\ date = Date(date.year, date.month, date.day)

LEMMA NamesRead ==
    ASSUME NEW a, IsDate(a), NEW b, IsDate(b)
    PROVE  FromMonthNames(MONTHS[a.month], a.day, a.year, MONTHS[b.month], b.day, b.year) = <<a, b>>
<1> DEFINE m == a.month
           k == b.month
<1>1. m \in 1..12 /\ k \in 1..12
    BY DEF IsDate
<1>2. MonthNumber(MONTHS[m]) = {m} /\ MonthNumber(MONTHS[k]) = {k}
    BY <1>1, NamedMonth
<1>3. /\ (CHOOSE i \in MonthNumber(MONTHS[m]) : TRUE) = m
      /\ (CHOOSE i \in MonthNumber(MONTHS[k]) : TRUE) = k
    BY <1>2
<1>4. a = Date(a.year, m, a.day) /\ b = Date(b.year, k, b.day)
    BY DEF IsDate
<1> HIDE DEF m, k
<1>5. FromMonthNames(MONTHS[m], a.day, a.year, MONTHS[k], b.day, b.year)
         = <<Date(a.year, m, a.day), Date(b.year, k, b.day)>>
    BY <1>2, <1>3 DEF FromMonthNames
<1> QED
    BY <1>4, <1>5 DEF m, k

\* A text that names two dates is read as those dates, in each format that can.
LEMMA TextReadAsMeant ==
    ASSUME NEW a, IsDate(a), NEW b, IsDate(b), NEW text \in TextsFor(a, b)
    PROVE  ParseText(text) = <<a, b>>
<1> DEFINE Text(format) == [format |-> format, from |-> a, to |-> b,
                            m1 |-> MONTHS[a.month], d1 |-> a.day, y1 |-> a.year,
                            m2 |-> MONTHS[b.month], d2 |-> b.day, y2 |-> b.year]
           SameYear == a.year = b.year
           SameMonth == a.year = b.year /\ a.month = b.month
<1>1. \/ text \in {Text("iso"), Text("crossMonth"), Text("between")}
      \/ text = Text("yearAtEnd") /\ SameYear
      \/ text = Text("monthRange") /\ SameMonth
    BY DEF TextsFor
<1>2. /\ text.from = a /\ text.to = b
      /\ text.m1 = MONTHS[a.month] /\ text.d1 = a.day /\ text.y1 = a.year
      /\ text.m2 = MONTHS[b.month] /\ text.d2 = b.day /\ text.y2 = b.year
    BY <1>1
<1>3. \/ text.format = "iso" \/ text.format = "crossMonth" \/ text.format = "between"
      \/ text.format = "yearAtEnd" /\ SameYear
      \/ text.format = "monthRange" /\ SameMonth
    BY <1>1
<1> HIDE DEF Text
<1>4. FromMonthNames(text.m1, text.d1, text.y1, text.m2, text.d2, text.y2) = <<a, b>>
    BY <1>2, NamesRead
<1>5. CASE text.format = "iso"
    <2>1. ParseText(text) = <<text.from, text.to>>
        BY <1>5, Zenon DEF ParseText
    <2> QED
        BY <1>2, <2>1
<1>6. CASE text.format = "crossMonth" \/ text.format = "between"
    <2>1. ParseText(text) = FromMonthNames(text.m1, text.d1, text.y1, text.m2, text.d2, text.y2)
        BY <1>6, Zenon DEF ParseText
    <2> QED
        BY <1>4, <2>1
<1>7. CASE text.format = "yearAtEnd" /\ SameYear
    <2>1. ParseText(text) = FromMonthNames(text.m1, text.d1, text.y2, text.m2, text.d2, text.y2)
        BY <1>7, Zenon DEF ParseText
    <2>2. text.y1 = text.y2
        BY <1>2, <1>7
    <2> QED
        BY <1>4, <2>1, <2>2
<1>8. CASE text.format = "monthRange" /\ SameMonth
    <2>1. ParseText(text) = FromMonthNames(text.m1, text.d1, text.y1, text.m1, text.d2, text.y1)
        BY <1>8, Zenon DEF ParseText
    <2>2. text.y1 = text.y2 /\ text.m1 = text.m2
        BY <1>2, <1>8
    <2> QED
        BY <1>4, <2>1, <2>2
<1> QED
    BY <1>3, <1>5, <1>6, <1>7, <1>8

-----------------------------------------------------------------------------
(* Filters by days                                                          *)

Seconds == 0..86399

\* What the ends of a filter let through.
LEMMA FilterSelects ==
    ASSUME NEW p \in Int, NEW q \in Int, NEW n \in Int, NEW second \in Seconds
    PROVE  DateFilterSelects(<<p, q>>, <<n, second>>) <=> p <= n /\ n <= q
<1>1. Normalize(p, "start") = <<p, 0>> /\ Normalize(q, "end") = <<q, 86399>>
    BY DEF Normalize
<1>2. NotAfter(<<p, 0>>, <<n, second>>) <=> p <= n
    BY DEF NotAfter, Seconds
<1>3. NotAfter(<<n, second>>, <<q, 86399>>) <=> n <= q
    BY DEF NotAfter, Seconds
<1> QED
    BY <1>1, <1>2, <1>3 DEF DateFilterSelects

LEMMA LastDaysSelect ==
    ASSUME NEW p \in Int, NEW n \in Int, today \in Int
    PROVE  LastNDaysSelects(today - p, <<n, 0>>) <=> p <= n
<1>1. today - (today - p) = p
    OBVIOUS
<1>2. Normalize(p, "start") = <<p, 0>>
    BY DEF Normalize
<1>3. NotAfter(<<p, 0>>, <<n, 0>>) <=> p <= n
    BY DEF NotAfter
<1> QED
    BY <1>1, <1>2, <1>3 DEF LastNDaysSelects

-----------------------------------------------------------------------------
(* Theorems                                                                 *)

\* The days that today goes through.
DayInv == today \in Nat /\ today > 366

LEMMA DaysHold == Spec => []DayInv
<1>1. Init => DayInv
    BY DatesAssumption DEF Init, DayInv
<1>2. DayInv /\ [Midnight]_today => DayInv'
    BY DEF Midnight, DayInv
<1> QED
    BY <1>1, <1>2, PTL DEF Spec

\* The current month of get_current_month_range has exactly the days of its month and
\* year, in every month of every year.
THEOREM MonthsAreExact == Spec => []MonthRangeExact
<1>1. ASSUME DayInv, NEW n \in today-62..today+62
      PROVE  (CurrentMonthRange[1] <= n /\ n <= CurrentMonthRange[2])
                <=> (FromOrdinal(n).year = Now.year /\ FromOrdinal(n).month = Now.month)
    <2>1. today \in Nat /\ today > 0 /\ n \in Nat /\ n > 0
        BY <1>1 DEF DayInv
    <2>2. PICK y \in Nat, m \in 1..12 : /\ InMonth(today, y, m)
                                        /\ Now = Date(y, m, today - First(y, m) + 1)
        BY <2>1, DateOfDay DEF Now
    <2>3. PICK z \in Nat, k \in 1..12 : /\ InMonth(n, z, k)
                                        /\ FromOrdinal(n) = Date(z, k, n - First(z, k) + 1)
        BY <2>1, DateOfDay
    <2>4. CurrentMonthRange = <<First(y, m), First(y, m) + MonthLength(y, m) - 1>>
        <3>1. Now.month = m /\ Now.year = y
            BY <2>2 DEF Date
        <3>2. First(y, m) \in Int /\ MonthLength(y, m) \in 28..31 /\ y \in Int
            <4>1. y \in Int
                OBVIOUS
            <4> QED
                BY <4>1, FirstIs
        <3>3. CASE m = 12
            <4>1. First(y, m) + MonthLength(y, m) = NewYear(y + 1)
                BY <3>2, <3>3, MonthsFollow
            <4>2. CurrentMonthRange = <<First(y, m), NewYear(y + 1) - 1>>
                BY <3>1, <3>3 DEF CurrentMonthRange, First, NewYear
            <4>3. NewYear(y + 1) - 1 = First(y, m) + MonthLength(y, m) - 1
                BY <3>2, <4>1
            <4> QED
                BY <4>2, <4>3
        <3>4. CASE m # 12
            <4>1. First(y, m + 1) = First(y, m) + MonthLength(y, m)
                <5>1. m \in 1..11
                    BY <3>4
                <5> QED
                    BY <3>2, <5>1, MonthsFollow
            <4>2. CurrentMonthRange = <<First(y, m), First(y, m + 1) - 1>>
                BY <3>1, <3>4 DEF CurrentMonthRange, First
            <4>3. First(y, m + 1) - 1 = First(y, m) + MonthLength(y, m) - 1
                BY <3>2, <4>1
            <4> QED
                BY <4>2, <4>3
        <3> QED
            BY <3>3, <3>4
    <2>5. (CurrentMonthRange[1] <= n /\ n <= CurrentMonthRange[2]) <=> InMonth(n, y, m)
        <3>1. First(y, m) \in Int /\ MonthLength(y, m) \in 28..31
            <4>1. y \in Int
                OBVIOUS
            <4> QED
                BY <4>1, FirstIs
        <3> QED
            BY <2>1, <2>4, <3>1 DEF InMonth
    <2>6. InMonth(n, y, m) <=> z = y /\ k = m
        <3>1. InMonth(n, y, m) => z = y /\ k = m
            <4>1. n \in Int /\ y \in Int /\ z \in Int
                BY <2>1
            <4> QED
                BY <2>3, <4>1, OneMonth
        <3> QED
            BY <2>3, <3>1
    <2>7. /\ Now.year = y /\ Now.month = m
          /\ FromOrdinal(n).year = z /\ FromOrdinal(n).month = k
        BY <2>2, <2>3 DEF Date
    <2> QED
        BY <2>5, <2>6, <2>7
<1>2. DayInv => MonthRangeExact
    BY <1>1 DEF MonthRangeExact
<1> QED
    BY <1>2, DaysHold, PTL

\* The text of an ISO week is read as the week that ISO 8601 gives that number, the year
\* of its Thursday, around every turn of the year (_parse_week_format).
THEOREM WeeksAreIso == Spec => []WeekIsIso
<1>1. ASSUME DayInv
      PROVE  WeekIsIso
    <2> DEFINE monday == today - Weekday(today)
               thursday == monday + 3
               year == FromOrdinal(thursday).year
               first == NewYear(year)
               week == (thursday - first) \div 7 + 1
               start == (first + 3) - ((first + 2) % 7) + 7 * (week - 1)
    <2>1. monday \in Nat /\ monday > 0 /\ monday % 7 = 1
        BY <1>1 DEF DayInv, Weekday
    <2> HIDE DEF monday
    <2>2. thursday \in Nat /\ thursday > 0
        BY <2>1
    <2>3. year \in Nat
        <3>1. PICK y \in Nat, m \in 1..12 :
                  FromOrdinal(thursday) = Date(y, m, thursday - First(y, m) + 1)
            BY <2>2, DateOfDay
        <3> QED
            BY <3>1 DEF Date
    <2> HIDE DEF year
    <2>4. first \in Int
        BY <2>3, NewYearIs
    <2>5. Ordinal(Date(year, 1, 4)) = first + 3
        <3>1. 1 \in 1..12
            OBVIOUS
        <3>2. \A d \in Int : Ordinal(Date(year, 1, d)) = First(year, 1) + d - 1
            BY <2>3, <3>1, FirstIs
        <3> QED
            BY <2>4, <3>2 DEF First, NewYear
    <2> HIDE DEF first
    <2>6. start = monday
        <3>1. (thursday - first) \div 7 = (monday - 1) \div 7 - (first + 2) \div 7
            BY <2>1, <2>4
        <3>2. /\ first + 2 = 7 * ((first + 2) \div 7) + ((first + 2) % 7)
              /\ monday - 1 = 7 * ((monday - 1) \div 7)
            BY <2>1, <2>4
        <3>3. (first + 2) \div 7 \in Int /\ (first + 2) % 7 \in Int /\ (monday - 1) \div 7 \in Int
            BY <2>1, <2>4
        <3> QED
            BY <2>1, <2>4, <3>1, <3>2, <3>3
    <2>7. ParseWeek(week, year) = <<FromOrdinal(start), FromOrdinal(start + 6)>>
        <3>1. (first + 3) - Weekday(first + 3) + 7 * (week - 1) = start
            <4>1. (first + 3) - 1 = first + 2
                BY <2>4
            <4> QED
                BY <4>1 DEF Weekday
        <3> HIDE DEF start, week
        <3> QED
            BY <2>5, <3>1 DEF ParseWeek
    <2>8. ParseText([format |-> "week", week |-> week, year |-> year]) = ParseWeek(week, year)
        BY DEF ParseText
    <2>9. ParseText([format |-> "week", week |-> week, year |-> year])
             = <<FromOrdinal(monday), FromOrdinal(monday + 6)>>
        BY <2>6, <2>7, <2>8
    <2>10. ThisWeekRange = <<monday, monday + 6>>
        BY DEF ThisWeekRange, monday
    <2> QED
        BY <2>9, <2>10 DEF WeekIsIso, NewYear, monday, year, first
<1> QED
    BY <1>1, DaysHold, PTL

\* A text that names the days from today to a later one is read as exactly those days, for
\* every day, length of the range and format (_parse_date_range_from_text).
THEOREM TextsAreExact == Spec => []TextRangeExact
<1>1. ASSUME DayInv, NEW length \in Lengths, NEW text \in TextsFor(Now, FromOrdinal(today + length))
      PROVE  ParseText(text) = <<Now, FromOrdinal(today + length)>>
    <2>1. today \in Nat /\ today > 0 /\ today + length \in Nat /\ today + length > 0
        <3>1. length \in Nat
            BY DatesAssumption
        <3> QED
            BY <1>1, <3>1 DEF DayInv
    <2>2. \A n \in Nat : n > 0 => IsDate(FromOrdinal(n))
        BY DateOfDay DEF IsDate, Date
    <2>3. IsDate(Now) /\ IsDate(FromOrdinal(today + length))
        BY <2>1, <2>2 DEF Now
    <2> QED
        BY <1>1, <2>3, TextReadAsMeant
<1>2. DayInv => TextRangeExact
    BY <1>1 DEF TextRangeExact
<1> QED
    BY <1>2, DaysHold, PTL

\* A filter by days selects the whole of its first and last day and no moment outside
\* (build_date_filter, build_last_n_days_filter).
THEOREM DaysAreWhole == Spec => []WholeDays
<1>1. ASSUME DayInv
      PROVE  WholeDays
    <2> SUFFICES ASSUME NEW range \in {TodayRange, YesterdayRange, LastNDaysRange(7), ThisWeekRange}
                 PROVE  SelectsWhole(range)
        BY DEF WholeDays
    <2>1. today \in Int /\ Weekday(today) \in 0..6
        BY <1>1 DEF DayInv, Weekday
    <2>2. \E p \in Int, q \in Int : range = <<p, q>>
        <3>1. TodayRange = <<today, today>>
            BY DEF TodayRange
        <3>2. YesterdayRange = <<today - 1, today - 1>>
            BY DEF YesterdayRange
        <3>3. LastNDaysRange(7) = <<today - 7, today>>
            BY DEF LastNDaysRange
        <3>4. ThisWeekRange = <<today - Weekday(today), today - Weekday(today) + 6>>
            BY DEF ThisWeekRange
        <3>5. today - 1 \in Int /\ today - 7 \in Int /\ today - Weekday(today) \in Int
              /\ today - Weekday(today) + 6 \in Int
            BY <2>1
        <3> QED
            BY <2>1, <3>1, <3>2, <3>3, <3>4, <3>5
    <2>3. PICK p \in Int, q \in Int : range = <<p, q>>
        BY <2>2
    <2>4. ASSUME NEW n \in p..q, NEW second \in {0, 43200, 86399}
          PROVE  DateFilterSelects(<<p, q>>, <<n, second>>)
        <3>1. n \in Int /\ p <= n /\ n <= q /\ second \in Seconds
            BY DEF Seconds
        <3> QED
            BY <3>1, FilterSelects
    <2>5. ~DateFilterSelects(<<p, q>>, <<p - 1, 86399>>)
        <3>1. p - 1 \in Int /\ ~(p <= p - 1) /\ 86399 \in Seconds
            BY DEF Seconds
        <3> QED
            BY <3>1, FilterSelects
    <2>6. ~DateFilterSelects(<<p, q>>, <<q + 1, 0>>)
        <3>1. q + 1 \in Int /\ ~(q + 1 <= q) /\ 0 \in Seconds
            BY DEF Seconds
        <3> QED
            BY <3>1, FilterSelects
    <2>7. ASSUME NEW n \in p..today
          PROVE  LastNDaysSelects(today - p, <<n, 0>>)
        <3>1. n \in Int /\ p <= n
            BY <2>1
        <3> QED
            BY <2>1, <3>1, LastDaysSelect
    <2> QED
        BY <2>3, <2>4, <2>5, <2>6, <2>7 DEF SelectsWhole
<1> QED
    BY <1>1, DaysHold, PTL

=============================================================================
