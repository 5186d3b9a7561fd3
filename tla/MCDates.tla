------------------------------ MODULE MCDates ------------------------------
\* Model checking of Dates: from the end of 2019 over the leap year 2020, in which
\* ISO week 53 reaches into 2021, to the end of 2021.
EXTENDS Dates
MCFirstDay == Ordinal(Date(2019, 12, 20))
MCLastDay == Ordinal(Date(2022, 1, 10))
=============================================================================
