------------------------------ MODULE Deadlines ------------------------------
(***************************************************************************)
(* The statutory deadlines of a Reg E case: DeadlineRuleSet.calculate and  *)
(* its add_business_days loop over the federal holiday calendar            *)
(* (tandem/workflow/deadlines.py), the due dates as the deadlines table    *)
(* keeps them, and mark_overdue_deadlines, which judges them by the clock. *)
(*                                                                         *)
(* A date is its proleptic ordinal, as in Python; an instant is a number   *)
(* of UTC hours; a moment of the institution's wall clock is a date and an *)
(* hour.  date, weekday and the America/New_York offset stand for Python's *)
(* datetime and zoneinfo.                                                  *)
(***************************************************************************)
EXTENDS Integers, FiniteSets

CONSTANTS
    Years,      \* the years the calendar is asked about
    Openings,   \* instants at which a case is opened
    Checks      \* hours from a stored due time to the clock that judges it

\* an opening is an instant after the first two days of the calendar
ASSUME OpeningsAssumption == \A opened \in Openings : opened \in Nat /\ opened >= 48
ASSUME ChecksAssumption == Checks \subseteq Int

VARIABLES
    base,       \* the case's opening on the wall clock
    extended,   \* new account, point-of-sale or foreign-initiated
    counting,   \* the deadline add_business_days is computing
    cursor, added,   \* its loop variables
    due,        \* the due moments computed so far
    now, status \* the last judgement: its instant and what it said

vars == <<base, extended, counting, cursor, added, due, now, status>>

-----------------------------------------------------------------------------
(* The calendar *)

IsLeap(y) == y % 4 = 0 /\ (y % 100 # 0 \/ y % 400 = 0)

DaysBeforeMonth == <<0, 31, 59, 90, 120, 151, 181, 212, 243, 273, 304, 334>>

Date(y, m, d) ==
    365 * (y - 1) + ((y - 1) \div 4) - ((y - 1) \div 100) + ((y - 1) \div 400)
    + DaysBeforeMonth[m] + (IF m > 2 /\ IsLeap(y) THEN 1 ELSE 0) + d

weekday(day) == (day + 6) % 7

InYear(day, y) == Date(y, 1, 1) <= day /\ day < Date(y + 1, 1, 1)

YearOf(day) == CHOOSE y \in Years : InYear(day, y)

\* the calendar knows the year of every day that a case's deadlines may look at
ASSUME YearsAssumption ==
    /\ Years \subseteq Int
    /\ \A opened \in Openings, n \in -1..91 :
          \E y \in Years : InYear((opened \div 24) + n, y)

\* Mutant: the offset to the first such weekday is taken the wrong way round
nth_weekday_of_month_reversed(y, m, wd, occurrence) ==
    LET first == Date(y, m, 1)
    IN  first + ((weekday(first) - wd) % 7) + 7 * (occurrence - 1)

nth_weekday_of_month(y, m, wd, occurrence) ==
    LET first == Date(y, m, 1)
    IN  first + ((wd - weekday(first)) % 7) + 7 * (occurrence - 1)

last_weekday_of_month(y, m, wd) ==
    LET last_day == (IF m = 12 THEN Date(y + 1, 1, 1) ELSE Date(y, m + 1, 1)) - 1
    IN  last_day - ((weekday(last_day) - wd) % 7)

\* in lieu of a Saturday the Friday, of a Sunday the Monday
observed(holiday) ==
    CASE weekday(holiday) = 5 -> holiday - 1
      [] weekday(holiday) = 6 -> holiday + 1
      [] OTHER -> holiday

federal_holidays(y) ==
    { observed(d) : d \in { Date(y, 1, 1), Date(y, 6, 19), Date(y, 7, 4),
                            Date(y, 11, 11), Date(y, 12, 25) } }
    \cup { nth_weekday_of_month(y, 1, 0, 3), nth_weekday_of_month(y, 2, 0, 3),
           last_weekday_of_month(y, 5, 0), nth_weekday_of_month(y, 9, 0, 1),
           nth_weekday_of_month(y, 10, 0, 2), nth_weekday_of_month(y, 11, 3, 4) }

\* Mutant: the comparison with the weekend is turned round
is_business_day_onlySundays(day) == weekday(day) > 5 /\ day \notin federal_holidays(YearOf(day))

is_business_day(day) == weekday(day) < 5 /\ day \notin federal_holidays(YearOf(day))

-----------------------------------------------------------------------------
(* The wall clock of America/New_York *)

WallHours(m) == 24 * m.day + m.hour

\* hours behind UTC at a wall-clock time: daylight saving runs from two
\* o'clock on the second Sunday of March to two o'clock on the first of November
UtcOffset(hours) ==
    LET y == YearOf(hours \div 24)
    IN  IF /\ 24 * nth_weekday_of_month(y, 3, 6, 2) + 2 <= hours
           /\ hours < 24 * nth_weekday_of_month(y, 11, 6, 1) + 2
        THEN 4 ELSE 5

\* the instant a wall-clock moment names
Instant(m) == WallHours(m) + UtcOffset(WallHours(m))

\* an instant on the wall clock
localize(instant) ==
    LET wall == instant - UtcOffset(instant - 5)
    IN  [day |-> wall \div 24, hour |-> wall % 24]

-----------------------------------------------------------------------------
(* calculate *)

Kinds == {"NOTICE", "INVESTIGATION", "FINAL_RESOLUTION"}
cutoff_hour == 17
NoMoment == [day |-> 0, hour |-> 0]

BusinessDays(kind) ==
    CASE kind = "NOTICE" -> 2
      [] kind = "INVESTIGATION" /\ ~extended -> 10
      [] kind = "INVESTIGATION" /\ extended -> 20

Init ==
    /\ base \in { localize(opened) : opened \in Openings }
    /\ extended \in BOOLEAN
    /\ counting = "NOTICE"
    /\ cursor = base.day /\ added = 0
    /\ due = [k \in Kinds |-> NoMoment]
    /\ now = 0
    /\ status = [k \in Kinds |-> "PENDING"]

\* Mutant: the opening day is the first of the count
AddDay_fromOpening ==
    /\ counting \in {"NOTICE", "INVESTIGATION"}
    /\ added < BusinessDays(counting)
    /\ cursor' = cursor + 1
    /\ added' = IF is_business_day(cursor) THEN added + 1 ELSE added
    /\ UNCHANGED <<base, extended, counting, due, now, status>>

\* one turn of add_business_days' loop
AddDay ==
    /\ counting \in {"NOTICE", "INVESTIGATION"}
    /\ added < BusinessDays(counting)
    /\ cursor' = cursor + 1
    /\ added' = IF is_business_day(cursor + 1) THEN added + 1 ELSE added
    /\ UNCHANGED <<base, extended, counting, due, now, status>>

\* the loop ends; the next deadline is counted from the opening again
BusinessDeadline ==
    /\ counting \in {"NOTICE", "INVESTIGATION"}
    /\ added = BusinessDays(counting)
    /\ due' = [due EXCEPT ![counting] = [day |-> cursor, hour |-> cutoff_hour]]
    /\ counting' = IF counting = "NOTICE" THEN "INVESTIGATION" ELSE "FINAL_RESOLUTION"
    /\ cursor' = base.day /\ added' = 0
    /\ UNCHANGED <<base, extended, now, status>>

\* calendar days, at the hour of the opening
CalendarDeadline ==
    /\ counting = "FINAL_RESOLUTION"
    /\ due' = [due EXCEPT ![counting] =
                  [base EXCEPT !.day = @ + (IF extended THEN 90 ELSE 45)]]
    /\ counting' = "none"
    /\ UNCHANGED <<base, extended, cursor, added, now, status>>

-----------------------------------------------------------------------------
(* mark_overdue_deadlines *)

\* Mutant: a time without a zone is read as the institution's and then as UTC
JudgedAt_shiftedTwice(kind, reloaded) ==
    IF reloaded THEN WallHours(due[kind]) - UtcOffset(WallHours(due[kind]))
    ELSE Instant(due[kind])

\* The deadlines table keeps the date and the hour and drops the time zone; a
\* row read back has none, and evaluate_deadlines takes it for UTC.  A row the
\* session still holds as it was created has its zone.
JudgedAt(kind, reloaded) ==
    IF reloaded THEN WallHours(due[kind]) ELSE Instant(due[kind])

\* Mutant: due only once the clock has passed the due time
MarkOverdue_late(reference, reloaded) ==
    /\ counting = "none"
    /\ reference > now
    /\ now' = reference
    /\ status' = [k \in Kinds |->
          IF reference > JudgedAt(k, reloaded) THEN "OVERDUE" ELSE status[k]]
    /\ UNCHANGED <<base, extended, counting, cursor, added, due>>

MarkOverdue(reference, reloaded) ==
    /\ counting = "none"
    /\ reference > now
    /\ now' = reference
    /\ status' = [k \in Kinds |->
          IF reference >= JudgedAt(k, reloaded) THEN "OVERDUE" ELSE status[k]]
    /\ UNCHANGED <<base, extended, counting, cursor, added, due>>

Next ==
    \/ AddDay
    \/ BusinessDeadline
    \/ CalendarDeadline
    \/ \E k \in Kinds, hours \in Checks, reloaded \in BOOLEAN :
          MarkOverdue(WallHours(due[k]) + hours, reloaded)

Spec == Init /\ [][Next]_vars

-----------------------------------------------------------------------------
(* Properties *)

TypeOK ==
    /\ base \in [day : Int, hour : Int]
    /\ extended \in BOOLEAN
    /\ counting \in Kinds \cup {"none"}
    /\ cursor \in Int /\ added \in Nat
    /\ due \in [Kinds -> [day : Int, hour : Int]]
    /\ status \in [Kinds -> {"PENDING", "OVERDUE"}]

BusinessDaysAfter(first, last) == { d \in (first + 1)..last : is_business_day(d) }

\* The loop's invariant: added counts the business days after the opening, up
\* to the cursor, which stands on one of them or on the opening.
LoopCounts ==
    /\ cursor >= base.day
    /\ added = Cardinality(BusinessDaysAfter(base.day, cursor))
    /\ counting \in {"NOTICE", "INVESTIGATION"} =>
          /\ added <= BusinessDays(counting)
          /\ added = BusinessDays(counting) => is_business_day(cursor)

\* add_business_days against its definition: a deadline of n business days
\* falls on the n-th business day after the opening, at the cutoff.
DueExact ==
    \A k \in {"NOTICE", "INVESTIGATION"} :
        due[k] # NoMoment =>
            /\ due[k].hour = cutoff_hour
            /\ is_business_day(due[k].day)
            /\ Cardinality(BusinessDaysAfter(base.day, due[k].day)) = BusinessDays(k)

RulesInv == TypeOK /\ LoopCounts /\ DueExact

\* The three clocks of a case run out in order: the notice before the
\* investigation, the investigation before the final resolution.
DeadlinesOrdered ==
    counting = "none" =>
        /\ WallHours(due["NOTICE"]) < WallHours(due["INVESTIGATION"])
        /\ WallHours(due["INVESTIGATION"]) < WallHours(due["FINAL_RESOLUTION"])

\* The federal calendar as the law has it (5 U.S.C. 6103): a fixed date, a
\* weekday of a month within seven days of that month, and the Friday before
\* or the Monday after a fixed date that falls on a weekend.
MonthOf(day) ==
    CHOOSE m \in 1..12 :
        /\ Date(YearOf(day), m, 1) <= day
        /\ m < 12 => day < Date(YearOf(day), m + 1, 1)
DayOfMonth(day) == day + 1 - Date(YearOf(day), MonthOf(day), 1)
FixedHoliday(day) ==
    <<MonthOf(day), DayOfMonth(day)>> \in {<<1, 1>>, <<6, 19>>, <<7, 4>>, <<11, 11>>, <<12, 25>>}
WeekdayHoliday(day) ==
    \E h \in {<<1, 0, 15>>, <<2, 0, 15>>, <<5, 0, 25>>, <<9, 0, 1>>, <<10, 0, 8>>, <<11, 3, 22>>} :
        /\ MonthOf(day) = h[1] /\ weekday(day) = h[2]
        /\ DayOfMonth(day) \in h[3]..(h[3] + 6)
BankingDay(day) ==
    /\ weekday(day) < 5
    /\ ~FixedHoliday(day) /\ ~WeekdayHoliday(day)
    /\ ~(weekday(day) = 4 /\ FixedHoliday(day + 1))
    /\ ~(weekday(day) = 0 /\ FixedHoliday(day - 1))

\* Every day add_business_days looks at is counted exactly when the law makes
\* it a business day, over weekends, floating holidays and the days observed
\* in lieu of a fixed one.  The one exception is the Friday before a New
\* Year's Day on a Saturday: is_business_day asks only the calendar of the
\* day's own year, where that observance is not listed.
CalendarFollowsLaw ==
    is_business_day(cursor) <=>
        \/ BankingDay(cursor)
        \/ weekday(cursor) = 4 /\ <<MonthOf(cursor), DayOfMonth(cursor)>> = <<12, 31>>

\* mark_overdue_deadlines: "stale reads never report a lapsed deadline as still
\* on track", whether the row was read back or is held from its creation.
LapsedIsOverdue ==
    counting = "none" =>
        \A k \in Kinds : now >= Instant(due[k]) => status[k] = "OVERDUE"

\* evaluate_deadlines says "OVERDUE for any deadline whose due date has passed
\* and PENDING otherwise".  A row read back has lost its zone and is judged
\* early, but by no more than the institution's offset from UTC, five hours.
OverdueWithinOffset ==
    \A k \in Kinds : status[k] = "OVERDUE" => now >= Instant(due[k]) - 5
=============================================================================
