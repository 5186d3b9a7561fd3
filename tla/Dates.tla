------------------------------- MODULE Dates -------------------------------
(***************************************************************************)
(* The ranges of days the tools compute or read: date_utils.py, and the     *)
(* parsers of a date range in a text (generic_table_tools.py).  A behaviour *)
(* goes through the days of a calendar; on each of them the helpers are     *)
(* compared with what their names say, and every text that names a range    *)
(* from that day on with the range it is read as.                           *)
(***************************************************************************)
EXTENDS Integers, Sequences

CONSTANTS FirstDay, LastDay,  \* bounds: the days today goes through
          Lengths             \* bound: how many days after today a text's range ends

ASSUME DatesAssumption == FirstDay \in Nat /\ LastDay \in Nat /\ FirstDay > 366 /\ Lengths \subseteq Nat

MONTHS == <<"january", "february", "march", "april", "may", "june", "july",
            "august", "september", "october", "november", "december">>

-----------------------------------------------------------------------------
(* The calendar of Python's datetime: a date, and its ordinal, 1 for the    *)
(* first of January of the year 1, a Monday.                                *)

Date(y, m, d) == [year |-> y, month |-> m, day |-> d]
IsLeap(y) == y % 4 = 0 /\ (y % 100 # 0 \/ y % 400 = 0)
MonthLength(y, m) == IF m = 2 THEN (IF IsLeap(y) THEN 29 ELSE 28)
                     ELSE IF m \in {4, 6, 9, 11} THEN 30 ELSE 31

Ordinal(date) ==
    LET y == date.year - 1
        before == <<0, 31, 59, 90, 120, 151, 181, 212, 243, 273, 304, 334>>
    IN 365 * y + (y \div 4) - (y \div 100) + (y \div 400) + before[date.month] + date.day
       + (IF date.month > 2 /\ IsLeap(date.year) THEN 1 ELSE 0)

Weekday(n) == (n - 1) % 7   \* weekday(): 0 on a Monday

FromOrdinal(n) ==
    LET y == CHOOSE y \in ((n \div 366) .. (n \div 365) + 1) :
                 Ordinal(Date(y, 1, 1)) <= n /\ n < Ordinal(Date(y + 1, 1, 1))
        m == CHOOSE m \in 1..12 : LET first == Ordinal(Date(y, m, 1)) IN
                 first <= n /\ n < first + MonthLength(y, m)
    IN Date(y, m, n - Ordinal(Date(y, m, 1)) + 1)

-----------------------------------------------------------------------------
VARIABLE today   \* datetime.now(), as an ordinal

Init == today = FirstDay
Midnight == today < LastDay /\ today' = today + 1
Spec == Init /\ [][Midnight]_today

Now == FromOrdinal(today)

CurrentMonthRangeSameYear ==   \* slip: December has no next month of its own year
    <<Ordinal(Date(Now.year, Now.month, 1)),
      Ordinal(Date(Now.year, (Now.month % 12) + 1, 1)) - 1>>
\* get_current_month_range: the day before the first of the next month
CurrentMonthRange ==
    <<Ordinal(Date(Now.year, Now.month, 1)),
      IF Now.month = 12
        THEN Ordinal(Date(Now.year + 1, 1, 1)) - 1
        ELSE Ordinal(Date(Now.year, Now.month + 1, 1)) - 1>>

LastNDaysRange(days) == <<today - days, today>>
ThisWeekRange == LET start == today - Weekday(today) IN <<start, start + 6>>
TodayRange == <<today, today>>
YesterdayRange == <<today - 1, today - 1>>

\* normalize_date_to_full_format of a date without a time: a moment is an ordinal
\* and a second of the day.
NormalizeAtMidnight(n, isEnd) == <<n, 0>>   \* slip: the end of a range at its first second
Normalize(n, isEnd) == IF isEnd = "end" THEN <<n, 86399>> ELSE <<n, 0>>

NotAfter(p, q) == p[1] < q[1] \/ (p[1] = q[1] /\ p[2] <= q[2])

\* build_date_filter: >= and <= against the normalized ends
DateFilterSelects(range, moment) ==
    NotAfter(Normalize(range[1], "start"), moment) /\ NotAfter(moment, Normalize(range[2], "end"))

\* build_last_n_days_filter: no end
LastNDaysSelects(days, moment) == NotAfter(Normalize(today - days, "start"), moment)

-----------------------------------------------------------------------------
(* A range in a text: its format, and the numbers and names in it.  Neither *)
(* the days nor their order are checked.                                    *)

NoRange == <<>>

\* _month_name_to_num: full names only
MonthNumber(name) == {m \in 1..12 : MONTHS[m] = name}

\* _iso_range_from_month_names
FromMonthNames(m1, d1, y1, m2, d2, y2) ==
    IF MonthNumber(m1) = {} \/ MonthNumber(m2) = {} THEN NoRange
    ELSE <<Date(y1, CHOOSE m \in MonthNumber(m1) : TRUE, d1),
           Date(y2, CHOOSE m \in MonthNumber(m2) : TRUE, d2)>>

\* _parse_week_format: the week of January 4 is week 1
WeekOfJanuaryFirst(week, year) ==   \* slip: week 1 is the one that has January 1
    LET first == Ordinal(Date(year, 1, 1))
        start == first - Weekday(first) + 7 * (week - 1)
    IN <<FromOrdinal(start), FromOrdinal(start + 6)>>
ParseWeek(week, year) ==
    LET jan4 == Ordinal(Date(year, 1, 4))
        start == jan4 - Weekday(jan4) + 7 * (week - 1)
    IN <<FromOrdinal(start), FromOrdinal(start + 6)>>

ParseTextFirstYear(text) ==   \* slip: the end of a range in the year of its start
    IF text.format = "crossMonth"
      THEN FromMonthNames(text.m1, text.d1, text.y1, text.m2, text.d2, text.y1)
      ELSE CASE text.format = "week" -> ParseWeek(text.week, text.year)
             [] text.format = "iso" -> <<text.from, text.to>>
             [] OTHER -> FromMonthNames(text.m1, text.d1, text.y1, text.m2, text.d2, text.y2)
\* _parse_date_range_from_text: the one parser whose format the text has.
ParseText(text) ==
    CASE text.format = "week" -> ParseWeek(text.week, text.year)
      [] text.format = "monthRange" ->
           FromMonthNames(text.m1, text.d1, text.y1, text.m1, text.d2, text.y1)
      [] text.format = "iso" -> <<text.from, text.to>>
      [] text.format \in {"crossMonth", "between"} ->
           FromMonthNames(text.m1, text.d1, text.y1, text.m2, text.d2, text.y2)
      [] text.format = "yearAtEnd" ->
           FromMonthNames(text.m1, text.d1, text.y2, text.m2, text.d2, text.y2)
      [] OTHER -> NoRange

\* The texts that name the days from a to b, of each format that can.
TextsFor(a, b) ==
    LET Text(format) == [format |-> format, from |-> a, to |-> b,
                         m1 |-> MONTHS[a.month], d1 |-> a.day, y1 |-> a.year,
                         m2 |-> MONTHS[b.month], d2 |-> b.day, y2 |-> b.year]
    IN {Text("iso"), Text("crossMonth"), Text("between")}
       \cup (IF a.year = b.year THEN {Text("yearAtEnd")} ELSE {})
       \cup (IF a.year = b.year /\ a.month = b.month THEN {Text("monthRange")} ELSE {})

-----------------------------------------------------------------------------
(* Properties                                                               *)

\* The month has exactly its days, in December and in a leap year too
\* (get_current_month_range).
MonthRangeExact ==
    \A n \in today-62..today+62 :
        LET date == FromOrdinal(n) IN
        (CurrentMonthRange[1] <= n /\ n <= CurrentMonthRange[2])
            <=> (date.year = Now.year /\ date.month = Now.month)

\* ISO 8601 numbers a week by the year its Thursday is in: the text "week w of y" for
\* the week of today is read as that week, around every turn of the year.
WeekIsIso ==
    LET thursday == today - Weekday(today) + 3
        year == FromOrdinal(thursday).year
        week == (thursday - Ordinal(Date(year, 1, 1))) \div 7 + 1
    IN ParseText([format |-> "week", week |-> week, year |-> year])
         = <<FromOrdinal(ThisWeekRange[1]), FromOrdinal(ThisWeekRange[2])>>

\* A text that names the days from today to a later one is read as those days,
\* across the ends of months and years.
TextRangeExact ==
    \A k \in Lengths : \A text \in TextsFor(Now, FromOrdinal(today + k)) :
        ParseText(text) = <<Now, FromOrdinal(today + k)>>

SelectsWhole(range) ==
    /\ \A n \in range[1]..range[2], second \in {0, 43200, 86399} :
          DateFilterSelects(range, <<n, second>>)
    /\ ~DateFilterSelects(range, <<range[1] - 1, 86399>>)
    /\ ~DateFilterSelects(range, <<range[2] + 1, 0>>)
    /\ \A n \in range[1]..today : LastNDaysSelects(today - range[1], <<n, 0>>)

\* A filter by days selects the whole of its first and of its last day, and nothing
\* outside (build_date_filter with the ranges above).
WholeDays ==
    \A range \in {TodayRange, YesterdayRange, LastNDaysRange(7), ThisWeekRange} : SelectsWhole(range)
=============================================================================
