----------------------------- MODULE MCDeadlines -----------------------------
(***************************************************************************)
(* Cases opened on every day of 2021 and 2022, whose holidays fall on      *)
(* Saturdays and Sundays too, and around a leap day.  Three in the morning *)
(* UTC is the evening before in New York; such openings are taken around   *)
(* the changes to and from daylight saving, and around the leap day.       *)
(***************************************************************************)
EXTENDS Deadlines

MCYears == 2020..2024

OpenedIn(first, last, hours) == { 24 * day + hour : day \in first..last, hour \in hours }

MCOpenings ==
    OpenedIn(Date(2021, 1, 1), Date(2022, 12, 31), {15})
    \cup OpenedIn(Date(2021, 3, 1), Date(2021, 3, 31), {3})
    \cup OpenedIn(Date(2021, 11, 1), Date(2021, 11, 30), {3})
    \cup OpenedIn(Date(2024, 2, 15), Date(2024, 3, 15), {3, 15})

\* the hours around a stored due time and around the one meant
MCChecks == {-1, 0, 4, 5}
=============================================================================
