--------------------------- MODULE DeadlinesProofs ---------------------------
(***************************************************************************)
(* add_business_days is exact for every opening date, whatever the holiday *)
(* calendar: the first two parts never open is_business_day.  The others   *)
(* prove that the calendar is the law's, and that the three deadlines are  *)
(* in order because six weeks hold at least ten business days.             *)
(***************************************************************************)
EXTENDS Deadlines, FiniteSetTheorems, TLAPS

\* One more day: it joins the business days counted, or it is skipped
LEMMA OneMoreDay ==
    ASSUME NEW first \in Int, NEW last \in Int, last >= first
    PROVE  /\ IsFiniteSet(BusinessDaysAfter(first, last))
           /\ Cardinality(BusinessDaysAfter(first, last)) \in Nat
           /\ Cardinality(BusinessDaysAfter(first, last + 1)) =
                IF is_business_day(last + 1)
                THEN Cardinality(BusinessDaysAfter(first, last)) + 1
                ELSE Cardinality(BusinessDaysAfter(first, last))
  <1> DEFINE Before == BusinessDaysAfter(first, last)
             After == BusinessDaysAfter(first, last + 1)
  <1>1. IsFiniteSet((first + 1)..last)
    BY FS_Interval
  <1>2. IsFiniteSet(Before)
    <2>1. Before \subseteq (first + 1)..last
      BY DEF BusinessDaysAfter
    <2> QED BY <1>1, <2>1, FS_Subset
  <1>3. Cardinality(Before) \in Nat
    BY <1>2, FS_CardinalityType
  <1>4. CASE is_business_day(last + 1)
    <2>1. After = Before \cup {last + 1} /\ last + 1 \notin Before
      BY <1>4 DEF BusinessDaysAfter
    <2>2. Cardinality(Before \cup {last + 1}) = Cardinality(Before) + 1
      <3> HIDE DEF Before
      <3> QED BY <1>2, <2>1, FS_AddElement
    <2> QED BY <1>2, <1>3, <1>4, <2>1, <2>2
  <1>5. CASE ~is_business_day(last + 1)
    <2>1. After = Before
      BY <1>5 DEF BusinessDaysAfter
    <2> QED BY <1>2, <1>3, <1>5, <2>1
  <1> QED BY <1>4, <1>5

\* However many days are counted, they are a number
LEMMA CountedDays ==
    ASSUME NEW first \in Int, NEW last \in Int
    PROVE  /\ IsFiniteSet(BusinessDaysAfter(first, last))
           /\ Cardinality(BusinessDaysAfter(first, last)) \in Nat
  <1>1. IsFiniteSet((first + 1)..last)
    BY FS_Interval
  <1>2. BusinessDaysAfter(first, last) \in SUBSET ((first + 1)..last)
    BY DEF BusinessDaysAfter
  <1>3. IsFiniteSet(BusinessDaysAfter(first, last))
    BY <1>1, <1>2, FS_Subset
  <1> QED BY <1>3, FS_CardinalityType

\* No business day after the opening has passed when the loop starts
LEMMA NoDayYet ==
    ASSUME NEW first \in Int
    PROVE  Cardinality(BusinessDaysAfter(first, first)) = 0
  <1>1. BusinessDaysAfter(first, first) = {}
    BY DEF BusinessDaysAfter
  <1> QED BY <1>1, FS_EmptySet

LEMMA RulesInit == Init => RulesInv
  <1> SUFFICES ASSUME Init PROVE RulesInv
    OBVIOUS
  <1>1. base \in [day : Int, hour : Int]
    <2>1. PICK opened \in Openings : base = localize(opened)
      BY DEF Init
    <2>2. opened \in Int /\ UtcOffset(opened - 5) \in Int
      BY OpeningsAssumption DEF UtcOffset
    <2>3. opened - UtcOffset(opened - 5) \in Int
      BY <2>2
    <2> HIDE DEF UtcOffset
    <2>4. /\ (opened - UtcOffset(opened - 5)) \div 24 \in Int
          /\ (opened - UtcOffset(opened - 5)) % 24 \in Int
      BY <2>3
    <2> QED BY <2>1, <2>4 DEF localize
  <1>2. TypeOK
    BY <1>1 DEF Init, TypeOK, Kinds, NoMoment
  <1>3. LoopCounts
    BY <1>1, NoDayYet DEF Init, LoopCounts, BusinessDays
  <1>4. DueExact
    BY DEF Init, DueExact, NoMoment, Kinds
  <1> QED BY <1>2, <1>3, <1>4 DEF RulesInv

LEMMA AddDayStep == RulesInv /\ AddDay => RulesInv'
  <1> SUFFICES ASSUME RulesInv, AddDay PROVE RulesInv'
    OBVIOUS
  <1> USE DEF RulesInv
  <1>1. base.day \in Int /\ cursor \in Int /\ cursor >= base.day /\ added \in Nat
    BY DEF TypeOK, LoopCounts
  <1>2. added' = Cardinality(BusinessDaysAfter(base.day, cursor + 1))
    BY <1>1, OneMoreDay DEF AddDay, LoopCounts
  <1>3. BusinessDays(counting)' = BusinessDays(counting)
    BY DEF AddDay, BusinessDays
  <1>4. BusinessDays(counting) \in Nat
    BY DEF AddDay, TypeOK, BusinessDays
  <1>5. TypeOK'
    BY <1>1 DEF AddDay, TypeOK
  <1>6. LoopCounts'
    <2>1. cursor' >= base'.day /\ added' = Cardinality(BusinessDaysAfter(base.day, cursor)')
      BY <1>1, <1>2 DEF AddDay, BusinessDaysAfter
    <2>2. added' <= BusinessDays(counting)
      BY <1>1, <1>4 DEF AddDay
    <2>3. added' = BusinessDays(counting) => is_business_day(cursor + 1)
      BY <1>1, <1>4 DEF AddDay
    <2> QED BY <1>3, <2>1, <2>2, <2>3 DEF AddDay, LoopCounts
  <1>7. DueExact'
    BY DEF AddDay, DueExact, BusinessDays, BusinessDaysAfter
  <1> QED BY <1>5, <1>6, <1>7

LEMMA BusinessDeadlineStep == RulesInv /\ BusinessDeadline => RulesInv'
  <1> SUFFICES ASSUME RulesInv, BusinessDeadline PROVE RulesInv'
    OBVIOUS
  <1> USE DEF RulesInv
  <1>1. base.day \in Int
    BY DEF TypeOK
  <1>2. TypeOK'
    BY <1>1 DEF BusinessDeadline, TypeOK, Kinds, cutoff_hour
  <1>3. LoopCounts'
    BY <1>1, NoDayYet DEF BusinessDeadline, LoopCounts, BusinessDays, TypeOK, BusinessDaysAfter
  <1>4. /\ is_business_day(cursor)
        /\ Cardinality(BusinessDaysAfter(base.day, cursor)) = BusinessDays(counting)
    BY DEF BusinessDeadline, LoopCounts
  <1>5. DueExact'
    <2> SUFFICES ASSUME NEW k \in {"NOTICE", "INVESTIGATION"}, due'[k] # NoMoment
                 PROVE  /\ due'[k].hour = cutoff_hour
                        /\ is_business_day(due'[k].day)
                        /\ Cardinality(BusinessDaysAfter(base.day, due'[k].day)) = BusinessDays(k)
      BY DEF BusinessDeadline, DueExact, BusinessDays, BusinessDaysAfter
    <2>1. CASE k = counting
      <3>1. due'[k] = [day |-> cursor, hour |-> cutoff_hour]
        BY <2>1 DEF BusinessDeadline, TypeOK, Kinds
      <3> QED BY <1>4, <2>1, <3>1
    <2>2. CASE k # counting
      <3>1. due'[k] = due[k]
        BY <2>2 DEF BusinessDeadline, TypeOK, Kinds
      <3> QED BY <3>1 DEF DueExact
    <2> QED BY <2>1, <2>2
  <1> QED BY <1>2, <1>3, <1>5

LEMMA CalendarDeadlineStep == RulesInv /\ CalendarDeadline => RulesInv'
  <1> SUFFICES ASSUME RulesInv, CalendarDeadline PROVE RulesInv'
    OBVIOUS
  <1> USE DEF RulesInv
  <1>1. TypeOK'
    BY DEF CalendarDeadline, TypeOK, Kinds
  <1>2. LoopCounts'
    BY DEF CalendarDeadline, LoopCounts, BusinessDaysAfter
  <1>3. \A k \in {"NOTICE", "INVESTIGATION"} : due'[k] = due[k]
    BY DEF CalendarDeadline, TypeOK, Kinds
  <1>4. DueExact'
    BY <1>3 DEF CalendarDeadline, DueExact, BusinessDays, BusinessDaysAfter
  <1> QED BY <1>1, <1>2, <1>4

LEMMA MarkOverdueStep ==
    ASSUME RulesInv, NEW reference, NEW reloaded, MarkOverdue(reference, reloaded)
    PROVE  RulesInv'
  BY DEF RulesInv, MarkOverdue, TypeOK, LoopCounts, DueExact, BusinessDays, BusinessDaysAfter

\* RulesInv is inductive: the loop counts the business days it has passed.
THEOREM RulesInductive == Spec => []RulesInv
  <1>1. RulesInv /\ [Next]_vars => RulesInv'
    <2> SUFFICES ASSUME RulesInv, [Next]_vars PROVE RulesInv'
      OBVIOUS
    <2>1. CASE UNCHANGED vars
      BY <2>1 DEF vars, RulesInv, TypeOK, LoopCounts, DueExact, BusinessDays, BusinessDaysAfter
    <2>2. CASE Next
      BY <2>2, AddDayStep, BusinessDeadlineStep, CalendarDeadlineStep, MarkOverdueStep DEF Next
    <2> QED BY <2>1, <2>2
  <1> QED BY <1>1, RulesInit, PTL DEF Spec

\* For every opening date, a deadline of n business days falls on the n-th
\* business day after the opening, at the cutoff: add_business_days meets its
\* definition whatever calendar is_business_day consults.
THEOREM DueExactHolds == Spec => []DueExact
  <1>1. RulesInv => DueExact
    BY DEF RulesInv
  <1> QED BY <1>1, RulesInductive, PTL

-----------------------------------------------------------------------------
(* The clocks of a case *)

\* A deadline counted from an earlier day, over no more business days, is due
\* no later.
LEMMA EarlierCountIsDueFirst ==
    ASSUME NEW a \in Int, NEW b \in Int, a <= b,
           NEW p \in Int, NEW q \in Int, is_business_day(p),
           Cardinality(BusinessDaysAfter(a, p)) > 0,
           Cardinality(BusinessDaysAfter(a, p)) <= Cardinality(BusinessDaysAfter(b, q))
    PROVE  p <= q
  <1> SUFFICES ASSUME q < p PROVE FALSE
    OBVIOUS
  <1> DEFINE P == BusinessDaysAfter(a, p)
             Q == BusinessDaysAfter(b, q)
  <1>1. IsFiniteSet(P)
    <2>1. P \subseteq (a + 1)..p /\ IsFiniteSet((a + 1)..p)
      BY FS_Interval DEF BusinessDaysAfter
    <2> QED BY <2>1, FS_Subset
  <1>2. p \in P
    <2>1. P # {}
      BY FS_EmptySet
    <2> QED BY <2>1 DEF BusinessDaysAfter
  <1>3. Q \subseteq P \ {p}
    BY DEF BusinessDaysAfter
  <1> HIDE DEF P, Q
  <1>4. /\ IsFiniteSet(P \ {p})
        /\ Cardinality(P \ {p}) = Cardinality(P) - 1
    BY <1>1, <1>2, FS_RemoveElement
  <1>5. Cardinality(Q) <= Cardinality(P \ {p})
    BY <1>3, <1>4, FS_Subset
  <1>6. Cardinality(P) \in Nat /\ Cardinality(Q) \in Nat
    BY <1>1, <1>3, <1>4, FS_Subset, FS_CardinalityType
  <1>7. Cardinality(P) <= Cardinality(Q)
    BY DEF P, Q
  <1> QED BY <1>4, <1>5, <1>6, <1>7

\* The offset of the wall clock is four or five hours, whatever the calendar
LEMMA OffsetRange == \A hours : UtcOffset(hours) \in {4, 5}
  BY DEF UtcOffset

\* Due moments are stored in the order they are computed, nothing is judged
\* before all are, and none lies in the first hours of the calendar.
Computed ==
    /\ base.day >= 1 /\ base.hour >= 0
    /\ counting # "NOTICE" => due["NOTICE"].hour = cutoff_hour
    /\ counting \in {"FINAL_RESOLUTION", "none"} =>
          due["INVESTIGATION"].hour = cutoff_hour
    /\ counting = "none" =>
          \A k \in Kinds : due[k].day >= 1 /\ due[k].hour >= 0
    /\ \A k \in {"NOTICE", "INVESTIGATION"} :
          due[k] # NoMoment => due[k].day >= 1
    /\ now \in Nat
    /\ counting # "none" => now = 0 /\ \A k \in Kinds : status[k] = "PENDING"

JudgeInv == RulesInv /\ Computed /\ LapsedIsOverdue /\ OverdueWithinOffset

LEMMA JudgeInit == Init => JudgeInv
  <1> SUFFICES ASSUME Init PROVE JudgeInv
    OBVIOUS
  <1>1. base.day >= 1 /\ base.hour >= 0
    <2>1. PICK opened \in Openings : base = localize(opened)
      BY DEF Init
    <2>2. opened \in Nat /\ opened >= 48 /\ UtcOffset(opened - 5) \in {4, 5}
      BY OpeningsAssumption, OffsetRange
    <2> DEFINE wall == opened - UtcOffset(opened - 5)
    <2>3. wall \in Int /\ wall >= 24
      BY <2>2
    <2>4. base = [day |-> wall \div 24, hour |-> wall % 24]
      BY <2>1 DEF localize
    <2> HIDE DEF wall
    <2>5. wall \div 24 >= 1 /\ wall % 24 >= 0
      BY <2>3
    <2> QED BY <2>4, <2>5
  <1>2. Computed
    BY <1>1 DEF Init, Computed, Kinds, NoMoment
  <1>3. LapsedIsOverdue /\ OverdueWithinOffset
    BY DEF Init, LapsedIsOverdue, OverdueWithinOffset, Kinds
  <1> QED BY RulesInit, <1>2, <1>3 DEF JudgeInv

LEMMA CountingStep ==
    ASSUME JudgeInv, RulesInv', AddDay \/ BusinessDeadline
    PROVE  JudgeInv'
  <1> USE DEF JudgeInv
  <1>1. counting \in {"NOTICE", "INVESTIGATION"} /\ counting' # "none"
    BY DEF AddDay, BusinessDeadline
  <1>2. now' = 0 /\ now' \in Nat /\ \A k \in Kinds : status'[k] = "PENDING"
    BY <1>1 DEF AddDay, BusinessDeadline, Computed
  <1>3. (LapsedIsOverdue /\ OverdueWithinOffset)'
    BY <1>1, <1>2 DEF LapsedIsOverdue, OverdueWithinOffset
  <1>4. Computed'
    <2>1. CASE AddDay
      BY <1>1, <1>2, <2>1 DEF AddDay, Computed, NoMoment
    <2>2. CASE BusinessDeadline
      <3>1. cursor \in Int /\ base.day \in Int /\ cursor >= base.day /\ base.day >= 1
        BY DEF RulesInv, TypeOK, LoopCounts, Computed
      <3>2. \A k \in Kinds :
                due'[k] = IF k = counting THEN [day |-> cursor, hour |-> cutoff_hour]
                          ELSE due[k]
        BY <2>2 DEF BusinessDeadline, RulesInv, TypeOK, Kinds
      <3>3. base' = base
        BY <2>2 DEF BusinessDeadline
      <3>4. counting' = IF counting = "NOTICE" THEN "INVESTIGATION" ELSE "FINAL_RESOLUTION"
        BY <2>2 DEF BusinessDeadline
      <3>5. \A k \in {"NOTICE", "INVESTIGATION"} : due'[k] # NoMoment => due'[k].day >= 1
        BY <3>1, <3>2 DEF Computed, Kinds
      <3> QED BY <1>1, <1>2, <3>2, <3>3, <3>4, <3>5 DEF Computed, Kinds
    <2> QED BY <2>1, <2>2
  <1> QED BY <1>3, <1>4

LEMMA FinalStep ==
    ASSUME JudgeInv, RulesInv', CalendarDeadline
    PROVE  JudgeInv'
  <1> USE DEF JudgeInv
  <1>1. base \in [day : Int, hour : Int] /\ base.day >= 1 /\ base.hour >= 0
    BY DEF RulesInv, TypeOK, Computed
  <1>2. \A k \in {"NOTICE", "INVESTIGATION"} : due'[k] = due[k]
    BY DEF CalendarDeadline, RulesInv, TypeOK, Kinds
  <1>3. /\ due'["FINAL_RESOLUTION"].day >= 1
        /\ due'["FINAL_RESOLUTION"].hour >= 0
    <2>1. due'["FINAL_RESOLUTION"] =
              [base EXCEPT !.day = base.day + (IF extended THEN 90 ELSE 45)]
      BY DEF CalendarDeadline, RulesInv, TypeOK, Kinds
    <2>2. /\ due'["FINAL_RESOLUTION"].day = base.day + (IF extended THEN 90 ELSE 45)
          /\ due'["FINAL_RESOLUTION"].hour = base.hour
      BY <1>1, <2>1
    <2> QED BY <1>1, <2>2
  <1>4. \A k \in {"NOTICE", "INVESTIGATION"} :
            due[k].hour = cutoff_hour /\ due[k].day >= 1
    BY DEF CalendarDeadline, Computed, NoMoment, cutoff_hour
  <1>5. \A k \in Kinds : due'[k].day >= 1 /\ due'[k].hour >= 0
    BY <1>2, <1>3, <1>4 DEF Kinds, cutoff_hour
  <1>6. now' = 0 /\ \A k \in Kinds : status'[k] = "PENDING"
    BY DEF CalendarDeadline, Computed
  <1>7. Computed'
    BY <1>1, <1>2, <1>4, <1>5, <1>6 DEF CalendarDeadline, Computed, Kinds
  <1>8. \A k \in Kinds : Instant(due'[k]) > 0
    <2> TAKE k \in Kinds
    <2>1. due'[k] \in [day : Int, hour : Int]
      BY DEF RulesInv, TypeOK
    <2>2. WallHours(due'[k]) \in Int /\ WallHours(due'[k]) > 0
      BY <1>5, <2>1 DEF WallHours
    <2> QED BY <2>2, OffsetRange DEF Instant
  <1>9. (LapsedIsOverdue /\ OverdueWithinOffset)'
    <2>1. \A k \in Kinds : Instant(due[k])' = Instant(due'[k]) /\ Instant(due'[k]) \in Int
      <3> TAKE k \in Kinds
      <3>1. due'[k] \in [day : Int, hour : Int]
        BY DEF RulesInv, TypeOK
      <3>2. WallHours(due'[k]) \in Int
        BY <3>1 DEF WallHours
      <3> QED BY <3>2, OffsetRange DEF Instant, WallHours
    <2>2. \A k \in Kinds : ~(now' >= Instant(due'[k]))
      BY <1>6, <1>8, <2>1
    <2> QED BY <1>6, <2>1, <2>2 DEF LapsedIsOverdue, OverdueWithinOffset
  <1> QED BY <1>7, <1>9

LEMMA JudgeStep ==
    ASSUME JudgeInv, RulesInv', NEW reference \in Int, NEW reloaded,
           MarkOverdue(reference, reloaded)
    PROVE  JudgeInv'
  <1> USE DEF JudgeInv
  <1>1. now' = reference /\ now' \in Nat /\ now < now'
    BY DEF MarkOverdue, Computed
  <1>2. Computed'
    BY <1>1 DEF MarkOverdue, Computed, Kinds
  <1>3. ASSUME NEW k \in Kinds
        PROVE  /\ Instant(due[k])' = Instant(due[k])
               /\ Instant(due[k]) \in Int /\ JudgedAt(k, reloaded) \in Int
               /\ JudgedAt(k, reloaded) <= Instant(due[k])
               /\ JudgedAt(k, reloaded) >= Instant(due[k]) - 5
    <2>1. due[k] \in [day : Int, hour : Int]
      BY DEF RulesInv, TypeOK
    <2>2. WallHours(due[k]) \in Int
      BY <2>1 DEF WallHours
    <2>3. Instant(due[k]) = WallHours(due[k]) + UtcOffset(WallHours(due[k]))
      BY DEF Instant
    <2>4. due' = due
      BY DEF MarkOverdue
    <2> QED BY <2>2, <2>3, <2>4, OffsetRange DEF JudgedAt, Instant, WallHours, UtcOffset
  <1>4. ASSUME NEW k \in Kinds
        PROVE  status'[k] = IF now' >= JudgedAt(k, reloaded) THEN "OVERDUE" ELSE status[k]
    BY DEF MarkOverdue
  <1>5. counting = "none"
    BY DEF MarkOverdue
  <1>6. LapsedIsOverdue'
    <2> SUFFICES ASSUME NEW k \in Kinds, now' >= Instant(due[k]) PROVE status'[k] = "OVERDUE"
      BY <1>3 DEF LapsedIsOverdue
    <2> QED BY <1>1, <1>3, <1>4
  <1>7. OverdueWithinOffset'
    <2> SUFFICES ASSUME NEW k \in Kinds, status'[k] = "OVERDUE"
                 PROVE  now' >= Instant(due[k]) - 5
      BY <1>3 DEF OverdueWithinOffset
    <2>1. CASE now' >= JudgedAt(k, reloaded)
      BY <1>1, <1>3, <2>1
    <2>2. CASE ~(now' >= JudgedAt(k, reloaded))
      <3>1. status[k] = "OVERDUE"
        BY <1>4, <2>2
      <3>2. now >= Instant(due[k]) - 5
        BY <3>1 DEF OverdueWithinOffset
      <3>3. now \in Nat
        BY DEF Computed
      <3> QED BY <1>1, <1>3, <3>2, <3>3
    <2> QED BY <2>1, <2>2
  <1> QED BY <1>2, <1>6, <1>7

LEMMA JudgeInductive == Spec => []JudgeInv
  <1>1. JudgeInv /\ RulesInv' /\ [Next]_vars => JudgeInv'
    <2> SUFFICES ASSUME JudgeInv, RulesInv', [Next]_vars PROVE JudgeInv'
      OBVIOUS
    <2>1. CASE UNCHANGED vars
      BY <2>1 DEF vars, JudgeInv, Computed, LapsedIsOverdue, OverdueWithinOffset, Instant,
                  WallHours, UtcOffset
    <2>2. CASE AddDay \/ BusinessDeadline
      BY <2>2, CountingStep
    <2>3. CASE CalendarDeadline
      BY <2>3, FinalStep
    <2>4. CASE \E k \in Kinds, hours \in Checks, reloaded \in BOOLEAN :
                  MarkOverdue(WallHours(due[k]) + hours, reloaded)
      <3>1. PICK k \in Kinds, hours \in Checks, reloaded \in BOOLEAN :
                  MarkOverdue(WallHours(due[k]) + hours, reloaded)
        BY <2>4
      <3>2. WallHours(due[k]) + hours \in Int
        BY ChecksAssumption DEF JudgeInv, RulesInv, TypeOK, WallHours
      <3> QED BY <3>1, <3>2, JudgeStep
    <2> QED BY <2>1, <2>2, <2>3, <2>4 DEF Next
  <1> QED BY <1>1, JudgeInit, RulesInductive, PTL DEF Spec

\* A lapsed deadline is reported OVERDUE at every evaluation at or after its
\* due time, whether its row was read back or is held from its creation, for
\* every opening and any sequence of evaluations.
THEOREM LapsedIsOverdueHolds == Spec => []LapsedIsOverdue
  <1>1. JudgeInv => LapsedIsOverdue
    BY DEF JudgeInv
  <1> QED BY <1>1, JudgeInductive, PTL

\* No deadline is reported OVERDUE more than five hours before its due time:
\* the zone a stored row has lost is all that evaluate_deadlines can be wrong by.
THEOREM OverdueWithinOffsetHolds == Spec => []OverdueWithinOffset
  <1>1. JudgeInv => OverdueWithinOffset
    BY DEF JudgeInv
  <1> QED BY <1>1, JudgeInductive, PTL

\* The notice of a case falls due before its investigation, for every opening
\* and any calendar, in the standard and the extended rules.
THEOREM NoticeDueFirst ==
    Spec => [](counting = "none" => due["NOTICE"].day < due["INVESTIGATION"].day)
  <1>1. JudgeInv /\ counting = "none" => due["NOTICE"].day < due["INVESTIGATION"].day
    <2> SUFFICES ASSUME JudgeInv, counting = "none"
                 PROVE  due["NOTICE"].day < due["INVESTIGATION"].day
      OBVIOUS
    <2> DEFINE p == due["NOTICE"].day
               q == due["INVESTIGATION"].day
    <2>1. /\ due["NOTICE"] # NoMoment /\ due["INVESTIGATION"] # NoMoment
      BY DEF JudgeInv, Computed, NoMoment, cutoff_hour
    <2>2. /\ is_business_day(p)
          /\ Cardinality(BusinessDaysAfter(base.day, p)) = BusinessDays("NOTICE")
          /\ Cardinality(BusinessDaysAfter(base.day, q)) = BusinessDays("INVESTIGATION")
      BY <2>1 DEF JudgeInv, RulesInv, DueExact
    <2>3. BusinessDays("NOTICE") = 2 /\ BusinessDays("INVESTIGATION") \in {10, 20}
      BY DEF BusinessDays, JudgeInv, RulesInv, TypeOK
    <2>4. base.day \in Int /\ p \in Int /\ q \in Int
      BY DEF JudgeInv, RulesInv, TypeOK, Kinds
    <2> HIDE DEF p, q
    <2>5. p <= q
      <3>1. /\ base.day <= base.day
            /\ Cardinality(BusinessDaysAfter(base.day, p)) > 0
            /\ Cardinality(BusinessDaysAfter(base.day, p)) <=
                 Cardinality(BusinessDaysAfter(base.day, q))
        BY <2>2, <2>3, <2>4
      <3> QED BY <2>2, <2>4, <3>1, EarlierCountIsDueFirst
    <2>6. p # q
      BY <2>2, <2>3
    <2>7. p < q
      BY <2>4, <2>5, <2>6
    <2> QED BY <2>7 DEF p, q
  <1> QED BY <1>1, JudgeInductive, PTL

\* The notice is counted from the opening, before the credit it follows is
\* posted.  Counted from a later posting it would be due no earlier: the date
\* the code keeps is never the laxer one.
THEOREM OpeningIsStricter ==
    ASSUME RulesInv, due["NOTICE"] # NoMoment,
           NEW posted \in Int, base.day <= posted,
           NEW alternative \in Int,
           Cardinality(BusinessDaysAfter(posted, alternative)) = BusinessDays("NOTICE")
    PROVE  due["NOTICE"].day <= alternative
  <1>1. /\ is_business_day(due["NOTICE"].day)
        /\ Cardinality(BusinessDaysAfter(base.day, due["NOTICE"].day)) = BusinessDays("NOTICE")
    BY DEF RulesInv, DueExact
  <1>2. BusinessDays("NOTICE") = 2
    BY DEF BusinessDays
  <1>3. base.day \in Int /\ due["NOTICE"].day \in Int
    BY DEF RulesInv, TypeOK, Kinds
  <1>4. /\ Cardinality(BusinessDaysAfter(base.day, due["NOTICE"].day)) > 0
        /\ Cardinality(BusinessDaysAfter(base.day, due["NOTICE"].day)) <=
             Cardinality(BusinessDaysAfter(posted, alternative))
    BY <1>1, <1>2
  <1> QED BY <1>1, <1>3, <1>4, EarlierCountIsDueFirst

-----------------------------------------------------------------------------
(* The calendar *)

\* the leap day of a year, once it is past
LeapDays(y, m) == IF m > 2 /\ IsLeap(y) THEN 1 ELSE 0

\* A year has 365 days, and one more if it is a leap year
LEMMA YearLength ==
    ASSUME NEW y \in Int
    PROVE  /\ Date(y, 1, 1) \in Int
           /\ Date(y + 1, 1, 1) = Date(y, 1, 1) + 365 + LeapDays(y, 12)
  <1>1. DaysBeforeMonth[1] = 0
    BY DEF DaysBeforeMonth
  <1>2. \A z \in Int : Date(z, 1, 1) =
          365 * (z - 1) + ((z - 1) \div 4) - ((z - 1) \div 100) + ((z - 1) \div 400) + 1
    BY <1>1 DEF Date
  <1>3. /\ y \div 4 = ((y - 1) \div 4) + (IF y % 4 = 0 THEN 1 ELSE 0)
        /\ y \div 100 = ((y - 1) \div 100) + (IF y % 100 = 0 THEN 1 ELSE 0)
        /\ y \div 400 = ((y - 1) \div 400) + (IF y % 400 = 0 THEN 1 ELSE 0)
    OBVIOUS
  <1>4. /\ y % 100 = 0 => y % 4 = 0
        /\ y % 400 = 0 => y % 100 = 0
    OBVIOUS
  <1>5. /\ Date(y, 1, 1) = 365 * (y - 1) + ((y - 1) \div 4) - ((y - 1) \div 100)
                            + ((y - 1) \div 400) + 1
        /\ Date(y + 1, 1, 1) = 365 * y + (y \div 4) - (y \div 100) + (y \div 400) + 1
    BY <1>2
  <1> QED BY <1>3, <1>4, <1>5 DEF LeapDays, IsLeap

\* Years begin one after the other
LEMMA YearsInOrder ==
    ASSUME NEW y \in Int, NEW z \in Int, y <= z
    PROVE  Date(y, 1, 1) <= Date(z, 1, 1)
  <1>1. DaysBeforeMonth[1] = 0
    BY DEF DaysBeforeMonth
  <1>2. \A x \in Int : Date(x, 1, 1) =
          365 * (x - 1) + ((x - 1) \div 4) - ((x - 1) \div 100) + ((x - 1) \div 400) + 1
    BY <1>1 DEF Date
  <1>3. /\ (y - 1) \div 4 <= (z - 1) \div 4
        /\ ((z - 1) \div 100) - ((y - 1) \div 100) <= z - y
        /\ (y - 1) \div 400 <= (z - 1) \div 400
    OBVIOUS
  <1> QED BY <1>2, <1>3

\* The table of the months
LEMMA MonthTable ==
    /\ DaysBeforeMonth[1] = 0 /\ DaysBeforeMonth[2] = 31 /\ DaysBeforeMonth[3] = 59
    /\ DaysBeforeMonth[4] = 90 /\ DaysBeforeMonth[5] = 120 /\ DaysBeforeMonth[6] = 151
    /\ DaysBeforeMonth[7] = 181 /\ DaysBeforeMonth[8] = 212 /\ DaysBeforeMonth[9] = 243
    /\ DaysBeforeMonth[10] = 273 /\ DaysBeforeMonth[11] = 304 /\ DaysBeforeMonth[12] = 334
  BY DEF DaysBeforeMonth

\* The first of a month, from the first of its year
LEMMA FirstOfMonth ==
    ASSUME NEW y \in Int
    PROVE  \A m \in 1..12 :
              /\ Date(y, m, 1) \in Int
              /\ Date(y, m, 1) = Date(y, 1, 1) + DaysBeforeMonth[m] + LeapDays(y, m)
  <1> TAKE m \in 1..12
  <1>1. /\ (y - 1) \div 4 \in Int /\ (y - 1) \div 100 \in Int /\ (y - 1) \div 400 \in Int
    OBVIOUS
  <1>2. DaysBeforeMonth[m] \in Int /\ DaysBeforeMonth[1] = 0
    BY MonthTable
  <1> QED BY <1>1, <1>2 DEF Date, LeapDays

\* A day of a month, from the first of it
LEMMA DayInMonth ==
    ASSUME NEW y \in Int, NEW m \in 1..12, NEW d \in Int
    PROVE  Date(y, m, d) = Date(y, m, 1) + d - 1
  <1>1. /\ (y - 1) \div 4 \in Int /\ (y - 1) \div 100 \in Int /\ (y - 1) \div 400 \in Int
    OBVIOUS
  <1>2. DaysBeforeMonth[m] \in Int
    BY MonthTable
  <1> QED BY <1>1, <1>2 DEF Date

\* The year of a day is the one the day lies in
LEMMA YearOfDay ==
    ASSUME NEW day \in Int, NEW y \in Int, y \in Years, InYear(day, y)
    PROVE  YearOf(day) = y
  <1>1. ASSUME NEW z \in Years, InYear(day, z), z # y
        PROVE  FALSE
    <2>1. z \in Int
      BY YearsAssumption
    <2>2. /\ Date(y, 1, 1) \in Int /\ Date(y + 1, 1, 1) \in Int
          /\ Date(z, 1, 1) \in Int /\ Date(z + 1, 1, 1) \in Int
      BY <2>1, YearLength
    <2>3. CASE y < z
      <3>1. Date(y + 1, 1, 1) <= Date(z, 1, 1)
        BY <2>1, <2>3, YearsInOrder
      <3> QED BY <1>1, <2>2, <3>1 DEF InYear
    <2>4. CASE z < y
      <3>1. Date(z + 1, 1, 1) <= Date(y, 1, 1)
        BY <2>1, <2>4, YearsInOrder
      <3> QED BY <1>1, <2>2, <3>1 DEF InYear
    <2> QED BY <1>1, <2>1, <2>3, <2>4
  <1> QED BY <1>1 DEF YearOf

\* A month ends where the next one begins, or before
LEMMA MonthsInOrder ==
    ASSUME NEW y \in Int
    PROVE  \A k, l \in 1..12 : k < l => Date(y, k + 1, 1) <= Date(y, l, 1)
  <1> SUFFICES ASSUME NEW k \in 1..12, NEW l \in 1..12, k < l
               PROVE  Date(y, k + 1, 1) <= Date(y, l, 1)
    OBVIOUS
  <1>1. DaysBeforeMonth[k + 1] <= DaysBeforeMonth[l]
    BY MonthTable, SMTT(30)
  <1>2. k + 1 \in 1..12
    OBVIOUS
  <1>3. DaysBeforeMonth[k + 1] \in Int /\ DaysBeforeMonth[l] \in Int
    BY <1>2, MonthTable
  <1>4. /\ Date(y, k + 1, 1) = Date(y, 1, 1) + DaysBeforeMonth[k + 1] + LeapDays(y, k + 1)
        /\ Date(y, k + 1, 1) \in Int
    BY <1>2, FirstOfMonth
  <1>5. Date(y, l, 1) = Date(y, 1, 1) + DaysBeforeMonth[l] + LeapDays(y, l)
    BY FirstOfMonth
  <1>6. Date(y, 1, 1) \in Int
    BY FirstOfMonth
  <1>7. LeapDays(y, k + 1) \in Int /\ LeapDays(y, l) \in Int /\ LeapDays(y, k + 1) <= LeapDays(y, l)
    BY DEF LeapDays
  <1> QED BY <1>1, <1>3, <1>4, <1>5, <1>6, <1>7

\* The month a day lies in, from the first of it to the first of the next
LEMMA MonthOfDay ==
    ASSUME NEW day \in Int, NEW y \in Int, y \in Years, InYear(day, y), NEW m \in 1..12,
           Date(y, m, 1) <= day, m < 12 => day < Date(y, m + 1, 1)
    PROVE  MonthOf(day) = m /\ DayOfMonth(day) = day + 1 - Date(y, m, 1)
  <1>1. YearOf(day) = y
    BY YearOfDay
  <1>2. ASSUME NEW k \in 1..12, NEW l \in 1..12, k < l, k < 12 => day < Date(y, k + 1, 1),
               Date(y, l, 1) <= day
        PROVE  FALSE
    <2>1. k + 1 \in 1..12
      BY <1>2
    <2>2. Date(y, k + 1, 1) <= Date(y, l, 1)
      BY <1>2, <2>1, MonthsInOrder
    <2>3. Date(y, l, 1) \in Int /\ Date(y, k + 1, 1) \in Int
      BY <2>1, FirstOfMonth
    <2> QED BY <1>2, <2>2, <2>3
  <1>3. ASSUME NEW k \in 1..12, Date(y, k, 1) <= day, k < 12 => day < Date(y, k + 1, 1)
        PROVE  k = m
    BY <1>2, <1>3
  <1>4. MonthOf(day) = m
    BY <1>1, <1>3 DEF MonthOf
  <1> QED BY <1>1, <1>4 DEF DayOfMonth

\* The months of a year, one after the other
LEMMA YearLayout ==
    ASSUME NEW y \in Int
    PROVE  /\ Date(y, 1, 1) \in Int /\ LeapDays(y, 12) \in {0, 1}
           /\ Date(y, 2, 1) = Date(y, 1, 1) + 31
           /\ Date(y, 3, 1) = Date(y, 1, 1) + 59 + LeapDays(y, 12)
           /\ Date(y, 4, 1) = Date(y, 1, 1) + 90 + LeapDays(y, 12)
           /\ Date(y, 5, 1) = Date(y, 1, 1) + 120 + LeapDays(y, 12)
           /\ Date(y, 6, 1) = Date(y, 1, 1) + 151 + LeapDays(y, 12)
           /\ Date(y, 7, 1) = Date(y, 1, 1) + 181 + LeapDays(y, 12)
           /\ Date(y, 8, 1) = Date(y, 1, 1) + 212 + LeapDays(y, 12)
           /\ Date(y, 9, 1) = Date(y, 1, 1) + 243 + LeapDays(y, 12)
           /\ Date(y, 10, 1) = Date(y, 1, 1) + 273 + LeapDays(y, 12)
           /\ Date(y, 11, 1) = Date(y, 1, 1) + 304 + LeapDays(y, 12)
           /\ Date(y, 12, 1) = Date(y, 1, 1) + 334 + LeapDays(y, 12)
           /\ Date(y + 1, 1, 1) = Date(y, 1, 1) + 365 + LeapDays(y, 12)
  <1>1. Date(y, 1, 1) \in Int /\ Date(y + 1, 1, 1) = Date(y, 1, 1) + 365 + LeapDays(y, 12)
    BY YearLength
  <1>2. /\ LeapDays(y, 12) \in {0, 1} /\ LeapDays(y, 2) = 0
        /\ \A m \in 3..12 : LeapDays(y, m) = LeapDays(y, 12)
    BY DEF LeapDays
  <1>3. \A m \in 2..12 : Date(y, m, 1) = Date(y, 1, 1) + DaysBeforeMonth[m] + LeapDays(y, m)
    <2> TAKE m \in 2..12
    <2>1. m \in 1..12
      OBVIOUS
    <2> QED BY <2>1, FirstOfMonth
  <1> QED BY <1>1, <1>2, <1>3, MonthTable

\* Every month has 28 days, and May has 31
LEMMA MonthLengths ==
    ASSUME NEW y \in Int
    PROVE  /\ \A m \in 1..11 : Date(y, m, 1) + 28 <= Date(y, m + 1, 1)
           /\ Date(y, 5, 1) + 31 <= Date(y, 6, 1)
  <1>1. ASSUME NEW m \in 1..11 PROVE Date(y, m, 1) + 28 <= Date(y, m + 1, 1)
    <2>1. DaysBeforeMonth[m] + 28 <= DaysBeforeMonth[m + 1]
      BY MonthTable
    <2>2. m \in 1..12 /\ m + 1 \in 1..12
      OBVIOUS
    <2>3. DaysBeforeMonth[m] \in Int /\ DaysBeforeMonth[m + 1] \in Int
      BY <2>2, MonthTable
    <2>4. Date(y, m, 1) = Date(y, 1, 1) + DaysBeforeMonth[m] + LeapDays(y, m)
      BY <2>2, FirstOfMonth
    <2>5. Date(y, m + 1, 1) = Date(y, 1, 1) + DaysBeforeMonth[m + 1] + LeapDays(y, m + 1)
      BY <2>2, FirstOfMonth
    <2>6. Date(y, 1, 1) \in Int
      BY YearLength
    <2>7. LeapDays(y, m) \in Int /\ LeapDays(y, m + 1) \in Int /\ LeapDays(y, m) <= LeapDays(y, m + 1)
      BY DEF LeapDays
    <2> QED BY <2>1, <2>3, <2>4, <2>5, <2>6, <2>7
  <1>2. Date(y, 5, 1) + 31 <= Date(y, 6, 1)
    <2>1. /\ Date(y, 1, 1) \in Int /\ LeapDays(y, 12) \in {0, 1}
          /\ Date(y, 5, 1) = Date(y, 1, 1) + 120 + LeapDays(y, 12)
          /\ Date(y, 6, 1) = Date(y, 1, 1) + 151 + LeapDays(y, 12)
      BY YearLayout
    <2> QED BY <2>1
  <1> QED BY <1>1, <1>2

\* The name of a day: its month, and its place in it
LEMMA NamedDays ==
    ASSUME NEW day \in Int, NEW y \in Int, y \in Years, InYear(day, y), NEW m \in 1..12,
           NEW lo \in 1..31, NEW hi \in 1..31,
           m < 12 => Date(y, m, 1) + hi <= Date(y, m + 1, 1)
    PROVE  MonthOf(day) = m /\ DayOfMonth(day) \in lo..hi
             <=> Date(y, m, 1) + lo - 1 <= day /\ day <= Date(y, m, 1) + hi - 1
  <1>1. YearOf(day) = y
    BY YearOfDay
  <1>2. Date(y, m, 1) \in Int
    BY <1>1, FirstOfMonth
  <1>3. ASSUME MonthOf(day) = m, DayOfMonth(day) \in lo..hi
        PROVE  Date(y, m, 1) + lo - 1 <= day /\ day <= Date(y, m, 1) + hi - 1
    <2>1. DayOfMonth(day) = day + 1 - Date(y, m, 1)
      BY <1>1, <1>3 DEF DayOfMonth
    <2> QED BY <1>2, <1>3, <2>1
  <1>4. ASSUME Date(y, m, 1) + lo - 1 <= day, day <= Date(y, m, 1) + hi - 1
        PROVE  MonthOf(day) = m /\ DayOfMonth(day) \in lo..hi
    <2>1. Date(y, m, 1) <= day
      BY <1>2, <1>4
    <2>2. m < 12 => day < Date(y, m + 1, 1)
      <3> SUFFICES ASSUME m < 12 PROVE day < Date(y, m + 1, 1)
        OBVIOUS
      <3>1. m + 1 \in 1..12
        OBVIOUS
      <3>2. Date(y, m + 1, 1) \in Int
        BY <1>1, <3>1, FirstOfMonth
      <3> QED BY <1>2, <1>4, <3>2
    <2>3. MonthOf(day) = m /\ DayOfMonth(day) = day + 1 - Date(y, m, 1)
      BY <2>1, <2>2, MonthOfDay
    <2> QED BY <1>2, <1>4, <2>3
  <1> QED BY <1>3, <1>4

\* The day of a week that falls on a given weekday
LEMMA WeekdayInWeek ==
    ASSUME NEW s \in Int, NEW day \in Int, NEW wd \in 0..6
    PROVE  weekday(day) = wd /\ s <= day /\ day <= s + 6
             <=> day = s + ((wd - weekday(s)) % 7)
  BY DEF weekday

\* The last such weekday up to a day
LEMMA WeekdayBefore ==
    ASSUME NEW s \in Int, NEW day \in Int, NEW wd \in 0..6
    PROVE  weekday(day) = wd /\ s - 6 <= day /\ day <= s
             <=> day = s - ((weekday(s) - wd) % 7)
  BY DEF weekday

\* A date that is a holiday by its name, in the year of the day looked at
LEMMA FixedHolidays ==
    ASSUME NEW day \in Int, NEW y \in Int, y \in Years, InYear(day, y)
    PROVE  FixedHoliday(day) <=>
              day \in {Date(y, 1, 1), Date(y, 6, 19), Date(y, 7, 4), Date(y, 11, 11), Date(y, 12, 25)}
  <1>2. ASSUME NEW m \in 1..12, NEW d \in 1..28
        PROVE  <<MonthOf(day), DayOfMonth(day)>> = <<m, d>> <=> day = Date(y, m, d)
    <2>1. Date(y, m, 1) \in Int
      BY FirstOfMonth
    <2>2. Date(y, m, d) = Date(y, m, 1) + d - 1
      BY DayInMonth
    <2>3. m < 12 => Date(y, m, 1) + d <= Date(y, m + 1, 1)
      <3> SUFFICES ASSUME m < 12 PROVE Date(y, m, 1) + d <= Date(y, m + 1, 1)
        OBVIOUS
      <3>1. m \in 1..11 /\ m + 1 \in 1..12
        OBVIOUS
      <3>2. Date(y, m + 1, 1) \in Int
        BY <3>1, FirstOfMonth
      <3> QED BY <2>1, <3>1, <3>2, MonthLengths
    <2>4. MonthOf(day) = m /\ DayOfMonth(day) \in d..d
             <=> Date(y, m, 1) + d - 1 <= day /\ day <= Date(y, m, 1) + d - 1
      <3>1. d \in 1..31
        OBVIOUS
      <3> QED BY <2>3, <3>1, NamedDays
    <2> QED BY <2>1, <2>2, <2>4
  <1> QED BY <1>2 DEF FixedHoliday

\* The occurrence-th such weekday of a month lies in the week of the month
\* that the occurrence numbers
LEMMA NthWeekday ==
    ASSUME NEW day \in Int, NEW y \in Int, y \in Years, InYear(day, y),
           NEW m \in 1..12, NEW wd \in 0..6, NEW occurrence \in 1..4
    PROVE  day = nth_weekday_of_month(y, m, wd, occurrence) <=>
              /\ MonthOf(day) = m /\ weekday(day) = wd
              /\ DayOfMonth(day) \in (7 * occurrence - 6)..(7 * occurrence)
  <1> DEFINE first == Date(y, m, 1)
             week == first + 7 * (occurrence - 1)
  <1>1. first \in Int
    BY FirstOfMonth
  <1>2. m < 12 => first + 7 * occurrence <= Date(y, m + 1, 1)
    <2> SUFFICES ASSUME m < 12 PROVE first + 7 * occurrence <= Date(y, m + 1, 1)
      OBVIOUS
    <2>1. m \in 1..11 /\ m + 1 \in 1..12
      OBVIOUS
    <2>2. Date(y, m + 1, 1) \in Int
      BY <2>1, FirstOfMonth
    <2>3. first + 28 <= Date(y, m + 1, 1)
      BY <2>1, MonthLengths
    <2> QED BY <1>1, <2>2, <2>3
  <1>3. MonthOf(day) = m /\ DayOfMonth(day) \in (7 * occurrence - 6)..(7 * occurrence)
          <=> first + (7 * occurrence - 6) - 1 <= day /\ day <= first + 7 * occurrence - 1
    <2>1. PICK lo \in 1..31, hi \in 1..31 : lo = 7 * occurrence - 6 /\ hi = 7 * occurrence
      OBVIOUS
    <2>2. m < 12 => first + hi <= Date(y, m + 1, 1)
      BY <1>2, <2>1
    <2>3. MonthOf(day) = m /\ DayOfMonth(day) \in lo..hi
            <=> first + lo - 1 <= day /\ day <= first + hi - 1
      BY <2>2, NamedDays
    <2> QED BY <2>1, <2>3
  <1>4. nth_weekday_of_month(y, m, wd, occurrence) = week + ((wd - weekday(first)) % 7)
    <2>1. (wd - weekday(first)) % 7 \in Int
      BY <1>1 DEF weekday
    <2> QED BY <1>1, <2>1 DEF nth_weekday_of_month
  <1> HIDE DEF first
  <1>5. weekday(week) = weekday(first)
    BY <1>1 DEF weekday
  <1>6. week \in Int
    BY <1>1
  <1>7. week <= day /\ day <= week + 6
          <=> first + (7 * occurrence - 6) - 1 <= day /\ day <= first + 7 * occurrence - 1
    BY <1>1
  <1> HIDE DEF week
  <1>8. weekday(day) = wd /\ week <= day /\ day <= week + 6
          <=> day = week + ((wd - weekday(week)) % 7)
    BY <1>6, WeekdayInWeek
  <1> QED BY <1>3, <1>4, <1>5, <1>7, <1>8

\* A weekday of a month that is a holiday: nth_weekday_of_month and
\* last_weekday_of_month find exactly the days the law describes.
LEMMA FloatingHolidays ==
    ASSUME NEW day \in Int, NEW y \in Int, y \in Years, InYear(day, y)
    PROVE  WeekdayHoliday(day) <=>
              day \in { nth_weekday_of_month(y, 1, 0, 3), nth_weekday_of_month(y, 2, 0, 3),
                        last_weekday_of_month(y, 5, 0), nth_weekday_of_month(y, 9, 0, 1),
                        nth_weekday_of_month(y, 10, 0, 2), nth_weekday_of_month(y, 11, 3, 4) }
  <1> DEFINE Falls(m, wd, lo) ==
                MonthOf(day) = m /\ weekday(day) = wd /\ DayOfMonth(day) \in lo..(lo + 6)
  <1>1. \A m \in 1..12, wd \in 0..6, occurrence \in 1..4 :
            day = nth_weekday_of_month(y, m, wd, occurrence) <=>
              /\ MonthOf(day) = m /\ weekday(day) = wd
              /\ DayOfMonth(day) \in (7 * occurrence - 6)..(7 * occurrence)
    BY NthWeekday
  <1>2. /\ day = nth_weekday_of_month(y, 1, 0, 3) <=> Falls(1, 0, 15)
        /\ day = nth_weekday_of_month(y, 2, 0, 3) <=> Falls(2, 0, 15)
        /\ day = nth_weekday_of_month(y, 9, 0, 1) <=> Falls(9, 0, 1)
        /\ day = nth_weekday_of_month(y, 10, 0, 2) <=> Falls(10, 0, 8)
        /\ day = nth_weekday_of_month(y, 11, 3, 4) <=> Falls(11, 3, 22)
    BY <1>1
  <1>3. day = last_weekday_of_month(y, 5, 0) <=> Falls(5, 0, 25)
    <2> DEFINE last == Date(y, 6, 1) - 1
    <2>1. Date(y, 6, 1) \in Int /\ Date(y, 5, 1) \in Int /\ Date(y, 6, 1) = Date(y, 5, 1) + 31
      <3>1. /\ Date(y, 1, 1) \in Int /\ LeapDays(y, 12) \in {0, 1}
            /\ Date(y, 5, 1) = Date(y, 1, 1) + 120 + LeapDays(y, 12)
            /\ Date(y, 6, 1) = Date(y, 1, 1) + 151 + LeapDays(y, 12)
        BY YearLayout
      <3> QED BY <3>1
    <2>2. MonthOf(day) = 5 /\ DayOfMonth(day) \in 25..31
            <=> Date(y, 5, 1) + 25 - 1 <= day /\ day <= Date(y, 5, 1) + 31 - 1
      <3>1. PICK m \in 1..12, lo \in 1..31, hi \in 1..31 : m = 5 /\ lo = 25 /\ hi = 31
        OBVIOUS
      <3>2. Date(y, m, 1) + hi <= Date(y, m + 1, 1)
        BY <2>1, <3>1
      <3>3. MonthOf(day) = m /\ DayOfMonth(day) \in lo..hi
              <=> Date(y, m, 1) + lo - 1 <= day /\ day <= Date(y, m, 1) + hi - 1
        BY <3>2, NamedDays
      <3> QED BY <3>1, <3>3
    <2>3. last_weekday_of_month(y, 5, 0) = last - ((weekday(last) - 0) % 7)
      BY DEF last_weekday_of_month
    <2>4. last \in Int
      BY <2>1
    <2>5. last - 6 <= day /\ day <= last
            <=> Date(y, 5, 1) + 25 - 1 <= day /\ day <= Date(y, 5, 1) + 31 - 1
      BY <2>1
    <2> HIDE DEF last
    <2>6. weekday(day) = 0 /\ last - 6 <= day /\ day <= last
            <=> day = last - ((weekday(last) - 0) % 7)
      BY <2>4, WeekdayBefore
    <2> QED BY <2>2, <2>3, <2>5, <2>6
  <1>4. WeekdayHoliday(day) <=>
          Falls(1, 0, 15) \/ Falls(2, 0, 15) \/ Falls(5, 0, 25)
            \/ Falls(9, 0, 1) \/ Falls(10, 0, 8) \/ Falls(11, 3, 22)
    BY DEF WeekdayHoliday
  <1> QED BY <1>2, <1>3, <1>4

FixedDates(y) == { Date(y, 1, 1), Date(y, 6, 19), Date(y, 7, 4), Date(y, 11, 11), Date(y, 12, 25) }

\* Where the fixed holidays of a year lie
LEMMA FixedDatesInYear ==
    ASSUME NEW y \in Int
    PROVE  \A d \in FixedDates(y) :
              /\ d \in Int
              /\ d = Date(y, 1, 1) \/ d > Date(y, 1, 1) + 60
              /\ d + 6 < Date(y + 1, 1, 1)
  <1>1. /\ Date(y, 1, 1) \in Int /\ LeapDays(y, 12) \in {0, 1}
        /\ Date(y, 6, 1) = Date(y, 1, 1) + 151 + LeapDays(y, 12)
        /\ Date(y, 7, 1) = Date(y, 1, 1) + 181 + LeapDays(y, 12)
        /\ Date(y, 11, 1) = Date(y, 1, 1) + 304 + LeapDays(y, 12)
        /\ Date(y, 12, 1) = Date(y, 1, 1) + 334 + LeapDays(y, 12)
        /\ Date(y + 1, 1, 1) = Date(y, 1, 1) + 365 + LeapDays(y, 12)
    BY YearLayout
  <1>2. \A m \in 1..12, d \in Int : Date(y, m, d) = Date(y, m, 1) + d - 1
    BY DayInMonth
  <1>3. /\ Date(y, 6, 19) = Date(y, 6, 1) + 18
        /\ Date(y, 7, 4) = Date(y, 7, 1) + 3
        /\ Date(y, 11, 11) = Date(y, 11, 1) + 10
        /\ Date(y, 12, 25) = Date(y, 12, 1) + 24
    BY <1>1, <1>2
  <1> QED BY <1>1, <1>3 DEF FixedDates

\* A weekday is a holiday observed when it is the date itself, the Friday
\* before it or the Monday after it
LEMMA ObservedDays ==
    ASSUME NEW day \in Int, weekday(day) < 5, NEW F \in SUBSET Int
    PROVE  day \in { observed(d) : d \in F } <=>
              \/ day \in F
              \/ weekday(day) = 4 /\ day + 1 \in F
              \/ weekday(day) = 0 /\ day - 1 \in F
  <1>1. ASSUME NEW d \in F
        PROVE  day = observed(d) <=>
                  \/ day = d
                  \/ weekday(day) = 4 /\ day + 1 = d
                  \/ weekday(day) = 0 /\ day - 1 = d
    <2>1. d \in Int
      OBVIOUS
    <2>2. CASE weekday(d) = 5
      BY <2>1, <2>2 DEF observed, weekday
    <2>3. CASE weekday(d) = 6
      BY <2>1, <2>3 DEF observed, weekday
    <2>4. CASE weekday(d) # 5 /\ weekday(d) # 6
      <3>1. observed(d) = d
        BY <2>4 DEF observed
      <3>2. ~(weekday(day) = 4 /\ day + 1 = d) /\ ~(weekday(day) = 0 /\ day - 1 = d)
        BY <2>1, <2>4 DEF weekday
      <3> QED BY <3>1, <3>2
    <2> QED BY <2>2, <2>3, <2>4
  <1> QED BY <1>1

\* is_business_day follows the law on every day of the calendar, but for the
\* Friday on which a coming New Year's Day is observed.
THEOREM CalendarIsLaw ==
    ASSUME NEW day \in Int, NEW y \in Int, y \in Years, InYear(day, y)
    PROVE  is_business_day(day) <=>
              \/ BankingDay(day)
              \/ weekday(day) = 4 /\ <<MonthOf(day), DayOfMonth(day)>> = <<12, 31>>
  <1> DEFINE F == FixedDates(y)
             Lastday == MonthOf(day) = 12 /\ DayOfMonth(day) = 31
  <1>1. /\ Date(y, 1, 1) \in Int /\ Date(y + 1, 1, 1) \in Int
        /\ Date(y, 1, 1) <= day /\ day < Date(y + 1, 1, 1)
    BY YearLength DEF InYear
  <1>2. /\ F \in SUBSET Int /\ Date(y, 1, 1) \in F
        /\ \A d \in F : (d = Date(y, 1, 1) \/ d > Date(y, 1, 1) + 60) /\ d + 6 < Date(y + 1, 1, 1)
    BY FixedDatesInYear DEF FixedDates
  <1>3. FixedHoliday(day) <=> day \in F
    BY FixedHolidays DEF FixedDates
  <1>4. ASSUME day + 1 < Date(y + 1, 1, 1)
        PROVE  FixedHoliday(day + 1) <=> day + 1 \in F
    <2>1. InYear(day + 1, y) /\ day + 1 \in Int
      BY <1>1, <1>4 DEF InYear
    <2> QED BY <2>1, FixedHolidays DEF FixedDates
  <1>5. ASSUME Date(y, 1, 1) < day
        PROVE  FixedHoliday(day - 1) <=> day - 1 \in F
    <2>1. InYear(day - 1, y) /\ day - 1 \in Int
      BY <1>1, <1>5 DEF InYear
    <2> QED BY <2>1, FixedHolidays DEF FixedDates
  <1>6. is_business_day(day) <=>
          weekday(day) < 5 /\ day \notin { observed(d) : d \in F } /\ ~WeekdayHoliday(day)
    <2>1. YearOf(day) = y
      BY YearOfDay
    <2>2. federal_holidays(y) =
            { observed(d) : d \in F }
            \cup { nth_weekday_of_month(y, 1, 0, 3), nth_weekday_of_month(y, 2, 0, 3),
                   last_weekday_of_month(y, 5, 0), nth_weekday_of_month(y, 9, 0, 1),
                   nth_weekday_of_month(y, 10, 0, 2), nth_weekday_of_month(y, 11, 3, 4) }
      BY DEF federal_holidays, FixedDates
    <2> QED BY <2>1, <2>2, FloatingHolidays DEF is_business_day
  <1>7. Lastday <=> day + 1 = Date(y + 1, 1, 1)
    <2>1. PICK m \in 1..12, d \in 1..31 : m = 12 /\ d = 31
      OBVIOUS
    <2>2. MonthOf(day) = m /\ DayOfMonth(day) \in d..d
            <=> Date(y, m, 1) + d - 1 <= day /\ day <= Date(y, m, 1) + d - 1
      <3>1. m < 12 => Date(y, m, 1) + d <= Date(y, m + 1, 1)
        BY <2>1
      <3> QED BY <3>1, NamedDays
    <2>3. /\ Date(y, 1, 1) \in Int /\ LeapDays(y, 12) \in {0, 1}
          /\ Date(y, 12, 1) = Date(y, 1, 1) + 334 + LeapDays(y, 12)
          /\ Date(y + 1, 1, 1) = Date(y, 1, 1) + 365 + LeapDays(y, 12)
      BY YearLayout
    <2> QED BY <2>1, <2>2, <2>3
  <1> HIDE DEF F
  <1>8. weekday(day) \in 0..6
    BY DEF weekday
  <1>9. ASSUME weekday(day) < 5
        PROVE  day \in { observed(d) : d \in F } <=>
                  \/ day \in F
                  \/ weekday(day) = 4 /\ day + 1 \in F
                  \/ weekday(day) = 0 /\ day - 1 \in F
    BY <1>2, <1>9, ObservedDays
  <1>10. CASE day + 1 < Date(y + 1, 1, 1)
    <2>1. ~Lastday
      BY <1>1, <1>7, <1>10
    <2>2. CASE day = Date(y, 1, 1)
      BY <1>2, <1>3, <1>6, <1>9, <2>1, <2>2 DEF BankingDay
    <2>3. CASE Date(y, 1, 1) < day
      BY <1>3, <1>4, <1>5, <1>6, <1>9, <1>10, <2>1, <2>3 DEF BankingDay
    <2> QED BY <1>1, <2>2, <2>3
  <1>11. CASE day + 1 = Date(y + 1, 1, 1)
    <2>1. day \notin F /\ day + 1 \notin F /\ day - 1 \notin F
      BY <1>1, <1>2, <1>11
    <2>2. Date(y, 1, 1) < day
      BY <1>1, <1>2, <1>11
    <2>3. Lastday
      BY <1>7, <1>11
    <2>4. ~WeekdayHoliday(day)
      BY <2>3 DEF WeekdayHoliday
    <2>5. is_business_day(day) <=> weekday(day) < 5
      BY <1>6, <1>9, <2>1, <2>4
    <2>6. BankingDay(day) <=> weekday(day) < 5 /\ ~(weekday(day) = 4 /\ FixedHoliday(day + 1))
      BY <1>3, <1>5, <2>1, <2>2, <2>4 DEF BankingDay
    <2> QED BY <2>3, <2>5, <2>6, <1>8
  <1> QED BY <1>1, <1>10, <1>11

-----------------------------------------------------------------------------
(* Six weeks have at least ten business days *)

AtMost(S, n) == IsFiniteSet(S) /\ Cardinality(S) <= n

\* Bounds on sizes: of a union, of a part, of a set given by its elements
LEMMA AtMostUnion ==
    ASSUME NEW S, NEW T, NEW m \in Nat, NEW n \in Nat, AtMost(S, m), AtMost(T, n)
    PROVE  AtMost(S \cup T, m + n)
  <1>1. /\ IsFiniteSet(S \cup T)
        /\ Cardinality(S \cup T) = Cardinality(S) + Cardinality(T) - Cardinality(S \cap T)
    BY FS_Union DEF AtMost
  <1>2. IsFiniteSet(S \cap T)
    BY FS_Subset DEF AtMost
  <1>3. Cardinality(S) \in Nat /\ Cardinality(T) \in Nat /\ Cardinality(S \cap T) \in Nat
    BY <1>2, FS_CardinalityType DEF AtMost
  <1> QED BY <1>1, <1>3 DEF AtMost

LEMMA AtMostSubset ==
    ASSUME NEW S, NEW n \in Nat, AtMost(S, n), NEW T \in SUBSET S
    PROVE  AtMost(T, n)
  <1>1. IsFiniteSet(T) /\ Cardinality(T) <= Cardinality(S)
    BY FS_Subset DEF AtMost
  <1>2. Cardinality(T) \in Nat /\ Cardinality(S) \in Nat
    BY <1>1, FS_CardinalityType DEF AtMost
  <1> QED BY <1>1, <1>2 DEF AtMost

LEMMA AtMostSingleton ==
    ASSUME NEW x
    PROVE  AtMost({x}, 1)
  BY FS_Singleton DEF AtMost

LEMMA AtMostTwo ==
    ASSUME NEW u, NEW v
    PROVE  AtMost({u, v}, 2)
  <1>1. AtMost({u}, 1) /\ AtMost({v}, 1)
    BY AtMostSingleton
  <1>2. AtMost({u} \cup {v}, 1 + 1)
    BY <1>1, AtMostUnion
  <1>3. {u, v} = {u} \cup {v}
    OBVIOUS
  <1> QED BY <1>2, <1>3

LEMMA AtMostSix ==
    ASSUME NEW p, NEW q, NEW r, NEW s, NEW t, NEW u
    PROVE  AtMost({p, q, r, s, t, u}, 6)
  <1>1. AtMost({p, q}, 2) /\ AtMost({r, s}, 2) /\ AtMost({t, u}, 2)
    BY AtMostTwo
  <1>2. AtMost({p, q, r, s}, 4)
    <2>1. AtMost({p, q} \cup {r, s}, 2 + 2)
      BY <1>1, AtMostUnion
    <2>2. {p, q, r, s} = {p, q} \cup {r, s}
      OBVIOUS
    <2> QED BY <2>1, <2>2
  <1>3. AtMost({p, q, r, s} \cup {t, u}, 4 + 2)
    BY <1>1, <1>2, AtMostUnion
  <1>4. {p, q, r, s, t, u} = {p, q, r, s} \cup {t, u}
    OBVIOUS
  <1> QED BY <1>3, <1>4

Weekend(first, last) == { d \in (first + 1)..last : weekday(d) >= 5 }

\* Any seven days have one weekend, so six weeks have twelve days of weekends
LEMMA WeekendOfWeek ==
    ASSUME NEW a \in Int
    PROVE  AtMost(Weekend(a, a + 7), 2)
  <1> DEFINE sat == (a + 1) + ((5 - weekday(a + 1)) % 7)
             sun == (a + 1) + ((6 - weekday(a + 1)) % 7)
  <1>1. AtMost({sat, sun}, 2)
    BY AtMostTwo
  <1>2. ASSUME NEW d \in (a + 1)..(a + 7), weekday(d) >= 5
        PROVE  d = sat \/ d = sun
    <2>1. weekday(d) = 5 \/ weekday(d) = 6
      BY <1>2 DEF weekday
    <2>2. a + 1 \in Int /\ d \in Int /\ a + 1 <= d /\ d <= (a + 1) + 6
      OBVIOUS
    <2> QED BY <2>1, <2>2, WeekdayInWeek
  <1>3. Weekend(a, a + 7) \in SUBSET {sat, sun}
    BY <1>2 DEF Weekend
  <1> QED BY <1>1, <1>3, AtMostSubset

LEMMA WeekendsJoin ==
    ASSUME NEW a \in Int, NEW b \in Int, NEW m \in Nat, a <= b, AtMost(Weekend(a, b), m)
    PROVE  AtMost(Weekend(a, b + 7), m + 2)
  <1>1. AtMost(Weekend(b, b + 7), 2)
    BY WeekendOfWeek
  <1>2. AtMost(Weekend(a, b) \cup Weekend(b, b + 7), m + 2)
    BY <1>1, AtMostUnion
  <1>3. Weekend(a, b + 7) \in SUBSET (Weekend(a, b) \cup Weekend(b, b + 7))
    BY DEF Weekend
  <1>4. m + 2 \in Nat
    OBVIOUS
  <1> QED BY <1>2, <1>3, <1>4, AtMostSubset

LEMMA WeekendsOfSixWeeks ==
    ASSUME NEW a \in Int
    PROVE  AtMost(Weekend(a, a + 42), 12)
  <1>1. AtMost(Weekend(a, a + 7), 2)
    BY WeekendOfWeek
  <1>2. AtMost(Weekend(a, (a + 7) + 7), 2 + 2)
    BY <1>1, WeekendsJoin
  <1>3. AtMost(Weekend(a, (a + 14) + 7), 4 + 2)
    BY <1>2, WeekendsJoin
  <1>4. AtMost(Weekend(a, (a + 21) + 7), 6 + 2)
    BY <1>3, WeekendsJoin
  <1>5. AtMost(Weekend(a, (a + 28) + 7), 8 + 2)
    BY <1>4, WeekendsJoin
  <1>6. AtMost(Weekend(a, (a + 35) + 7), 10 + 2)
    BY <1>5, WeekendsJoin
  <1> QED BY <1>6

FloatingDates(y) ==
    { nth_weekday_of_month(y, 1, 0, 3), nth_weekday_of_month(y, 2, 0, 3),
      last_weekday_of_month(y, 5, 0), nth_weekday_of_month(y, 9, 0, 1),
      nth_weekday_of_month(y, 10, 0, 2), nth_weekday_of_month(y, 11, 3, 4) }

\* A year has at most twelve holidays, and its first six weeks at most seven
LEMMA HolidayBounds ==
    ASSUME NEW y \in Int
    PROVE  /\ AtMost(federal_holidays(y), 12)
           /\ AtMost({ d \in federal_holidays(y) : d < Date(y, 1, 1) + 42 }, 7)
  <1> DEFINE Observed == { observed(d) : d \in FixedDates(y) }
             Early == { d \in federal_holidays(y) : d < Date(y, 1, 1) + 42 }
  <1>1. federal_holidays(y) = Observed \cup FloatingDates(y)
    BY DEF federal_holidays, FixedDates, FloatingDates
  <1>2. AtMost(FloatingDates(y), 6)
    BY AtMostSix DEF FloatingDates
  <1>3. AtMost(Observed, 6)
    <2> DEFINE a == observed(Date(y, 1, 1))
               b == observed(Date(y, 6, 19))
               c == observed(Date(y, 7, 4))
               d == observed(Date(y, 11, 11))
               e == observed(Date(y, 12, 25))
    <2>1. Observed = {a, b, c, d, e, e}
      BY DEF FixedDates
    <2> HIDE DEF a, b, c, d, e
    <2>2. AtMost({a, b, c, d, e, e}, 6)
      BY AtMostSix
    <2> QED BY <2>1, <2>2
  <1>4. AtMost(Observed \cup FloatingDates(y), 6 + 6)
    BY <1>2, <1>3, AtMostUnion
  <1>5. AtMost({observed(Date(y, 1, 1))}, 1)
    BY AtMostSingleton
  <1>6. AtMost(FloatingDates(y) \cup {observed(Date(y, 1, 1))}, 6 + 1)
    BY <1>2, <1>5, AtMostUnion
  <1>7. Early \in SUBSET (FloatingDates(y) \cup {observed(Date(y, 1, 1))})
    <2> SUFFICES ASSUME NEW d \in FixedDates(y), observed(d) < Date(y, 1, 1) + 42
                 PROVE  d = Date(y, 1, 1)
      BY <1>1
    <2>1. d \in Int /\ (d = Date(y, 1, 1) \/ d > Date(y, 1, 1) + 60) /\ Date(y, 1, 1) \in Int
      BY FixedDatesInYear, YearLength
    <2>2. observed(d) \in Int /\ observed(d) >= d - 1
      BY <2>1 DEF observed
    <2> QED BY <2>1, <2>2
  <1>8. AtMost(Early, 7)
    BY <1>6, <1>7, AtMostSubset
  <1> QED BY <1>1, <1>4, <1>8

\* Every day from first to last lies in a year the calendar knows
Reaches(first, last) == \A d \in first..last : \E y \in Years : InYear(d, y)

\* Six weeks have at least ten business days: twelve days of weekends, and the
\* holidays of one year and of the first weeks of the next
LEMMA SixWeeks ==
    ASSUME NEW a \in Int, Reaches(a + 1, a + 42)
    PROVE  Cardinality(BusinessDaysAfter(a, a + 42)) >= 10
  <1> DEFINE W == (a + 1)..(a + 42)
             Biz == BusinessDaysAfter(a, a + 42)
  <1>1. PICK y \in Years : InYear(a + 1, y)
    BY DEF Reaches
  <1>2. y \in Int /\ y + 1 \in Int
    BY YearsAssumption
  <1> DEFINE Off == federal_holidays(y)
             Early == { d \in federal_holidays(y + 1) : d < Date(y + 1, 1, 1) + 42 }
  <1>3. /\ Date(y, 1, 1) \in Int /\ Date(y + 1, 1, 1) \in Int /\ Date(y + 2, 1, 1) \in Int
        /\ Date(y, 1, 1) <= a + 1 /\ a + 1 < Date(y + 1, 1, 1)
        /\ Date(y + 1, 1, 1) + 365 <= Date(y + 2, 1, 1)
    <2>1. /\ Date(y, 1, 1) \in Int
          /\ Date(y, 1, 1) <= a + 1 /\ a + 1 < Date(y + 1, 1, 1)
      BY <1>1, <1>2, YearLength DEF InYear
    <2>2. PICK z \in Int : z = y + 1
      BY <1>2
    <2>3. Date(z, 1, 1) \in Int /\ Date(z + 1, 1, 1) = Date(z, 1, 1) + 365 + LeapDays(z, 12)
      BY YearLength
    <2>4. LeapDays(z, 12) \in {0, 1}
      BY DEF LeapDays
    <2>5. z + 1 = y + 2
      BY <1>2, <2>2
    <2> QED BY <2>1, <2>2, <2>3, <2>4, <2>5
  <1>4. ASSUME NEW d \in W, weekday(d) < 5, ~is_business_day(d)
        PROVE  d \in Off \cup Early
    <2>1. d \in Int /\ a + 1 <= d /\ d <= a + 42
      OBVIOUS
    <2>2. CASE d < Date(y + 1, 1, 1)
      <3>1. InYear(d, y)
        BY <1>3, <2>1, <2>2 DEF InYear
      <3>2. YearOf(d) = y
        BY <1>2, <2>1, <3>1, YearOfDay
      <3> QED BY <1>4, <3>2 DEF is_business_day
    <2>3. CASE d >= Date(y + 1, 1, 1)
      <3>1. PICK z \in Years : InYear(d, z)
        BY DEF Reaches
      <3>2. z \in Int /\ z + 1 \in Int
        BY YearsAssumption
      <3>3. YearOf(d) = z
        BY <2>1, <3>1, <3>2, YearOfDay
      <3>4. /\ Date(z, 1, 1) \in Int /\ Date(z + 1, 1, 1) \in Int
            /\ Date(z, 1, 1) <= d /\ d < Date(z + 1, 1, 1)
        BY <3>1, <3>2, YearLength DEF InYear
      <3>5. CASE z <= y
        <4>1. z + 1 <= y + 1
          BY <1>2, <3>2, <3>5
        <4>2. Date(z + 1, 1, 1) <= Date(y + 1, 1, 1)
          BY <1>2, <3>2, <4>1, YearsInOrder
        <4> QED BY <1>3, <2>1, <2>3, <3>4, <4>2
      <3>6. CASE z >= y + 2
        <4>1. y + 2 \in Int
          BY <1>2
        <4>2. Date(y + 2, 1, 1) <= Date(z, 1, 1)
          BY <3>2, <3>6, <4>1, YearsInOrder
        <4> QED BY <1>3, <2>1, <3>4, <4>2
      <3>7. CASE z = y + 1
        <4>1. d \in federal_holidays(y + 1)
          BY <1>4, <3>3, <3>7 DEF is_business_day
        <4> QED BY <1>3, <2>1, <4>1
      <3> QED BY <1>2, <3>2, <3>5, <3>6, <3>7
    <2> QED BY <1>3, <2>1, <2>2, <2>3
  <1>5. AtMost(Off, 12) /\ AtMost(Early, 7)
    BY <1>2, HolidayBounds
  <1>6. AtMost(Weekend(a, a + 42), 12)
    BY WeekendsOfSixWeeks
  <1> HIDE DEF Off, Early
  <1>7. AtMost(Off \cup Early, 12 + 7)
    BY <1>5, AtMostUnion
  <1>8. AtMost(Weekend(a, a + 42) \cup (Off \cup Early), 31)
    <2> DEFINE Holidays == Off \cup Early
    <2>1. AtMost(Holidays, 19)
      BY <1>7
    <2> HIDE DEF Holidays
    <2>2. AtMost(Weekend(a, a + 42) \cup Holidays, 12 + 19)
      BY <1>6, <2>1, AtMostUnion
    <2> QED BY <2>2 DEF Holidays
  <1>9. W \in SUBSET (Biz \cup (Weekend(a, a + 42) \cup (Off \cup Early)))
    <2> SUFFICES ASSUME NEW d \in W, d \notin Biz, d \notin Weekend(a, a + 42)
                 PROVE  d \in Off \cup Early
      OBVIOUS
    <2>1. weekday(d) < 5
      BY DEF Weekend, weekday
    <2>2. ~is_business_day(d)
      BY DEF BusinessDaysAfter
    <2> QED BY <1>4, <2>1, <2>2
  <1>10. IsFiniteSet(W) /\ Cardinality(W) = 42
    BY FS_Interval
  <1>11. IsFiniteSet(Biz) /\ Cardinality(Biz) \in Nat
    <2>1. Biz \in SUBSET W
      BY DEF BusinessDaysAfter
    <2>2. IsFiniteSet(Biz)
      BY <1>10, <2>1, FS_Subset
    <2> QED BY <2>2, FS_CardinalityType
  <1>12. AtMost(Biz, Cardinality(Biz))
    BY <1>11 DEF AtMost
  <1>13. AtMost(Biz \cup (Weekend(a, a + 42) \cup (Off \cup Early)), Cardinality(Biz) + 31)
    BY <1>8, <1>11, <1>12, AtMostUnion
  <1>14. AtMost(W, Cardinality(Biz) + 31)
    BY <1>9, <1>11, <1>13, AtMostSubset
  <1> QED BY <1>10, <1>11, <1>14 DEF AtMost

-----------------------------------------------------------------------------
(* The order of the deadlines, and the law *)

\* The case was opened at one of the openings; the loop variables rest when
\* nothing is counted; the final resolution is counted in calendar days.
Placed ==
    /\ base \in { localize(opened) : opened \in Openings }
    /\ counting \notin {"NOTICE", "INVESTIGATION"} => cursor = base.day
    /\ counting = "none" =>
          due["FINAL_RESOLUTION"] = [base EXCEPT !.day = @ + (IF extended THEN 90 ELSE 45)]

CalendarInv == RulesInv /\ Placed

LEMMA PlacedInductive == Spec => []CalendarInv
  <1>1. Init => Placed
    BY DEF Init, Placed
  <1>2. RulesInv /\ Placed /\ [Next]_vars => Placed'
    <2> SUFFICES ASSUME RulesInv, Placed, [Next]_vars PROVE Placed'
      OBVIOUS
    <2>1. CASE AddDay
      BY <2>1 DEF AddDay, Placed
    <2>2. CASE BusinessDeadline
      BY <2>2 DEF BusinessDeadline, Placed
    <2>3. CASE CalendarDeadline
      BY <2>3 DEF CalendarDeadline, Placed, RulesInv, TypeOK, Kinds
    <2>4. ASSUME NEW reference, NEW reloaded, MarkOverdue(reference, reloaded)
          PROVE  Placed'
      BY <2>4 DEF MarkOverdue, Placed
    <2>5. CASE UNCHANGED vars
      BY <2>5 DEF vars, Placed
    <2> QED BY <2>1, <2>2, <2>3, <2>4, <2>5 DEF Next
  <1> QED BY <1>1, <1>2, RulesInductive, PTL DEF Spec, CalendarInv

\* The calendar knows the days from the opening to the last due day
LEMMA OpeningReaches ==
    ASSUME Placed
    PROVE  /\ base.day \in Int /\ base.hour \in 0..23
           /\ Reaches(base.day, base.day + 85)
  <1>1. PICK opened \in Openings : base = localize(opened)
    BY DEF Placed
  <1>2. opened \in Int /\ UtcOffset(opened - 5) \in {4, 5}
    BY OpeningsAssumption, OffsetRange
  <1> DEFINE wall == opened - UtcOffset(opened - 5)
  <1>3. wall \in Int /\ (wall = opened - 4 \/ wall = opened - 5)
    BY <1>2
  <1>4. base = [day |-> wall \div 24, hour |-> wall % 24]
    BY <1>1 DEF localize
  <1> HIDE DEF wall
  <1>5. /\ wall \div 24 \in Int /\ wall % 24 \in 0..23 /\ opened \div 24 \in Int
        /\ (opened \div 24) - 1 <= wall \div 24 /\ wall \div 24 <= opened \div 24
    BY <1>2, <1>3
  <1>6. base.day \in Int /\ base.hour \in 0..23
    BY <1>4, <1>5
  <1>7. ASSUME NEW d \in base.day..(base.day + 85)
        PROVE  \E y \in Years : InYear(d, y)
    <2>1. base.day = wall \div 24
      BY <1>4
    <2>2. d - (opened \div 24) \in -1..91 /\ d = (opened \div 24) + (d - (opened \div 24))
      BY <1>5, <2>1
    <2>3. \E n \in -1..91 : d = (opened \div 24) + n
      BY <2>2
    <2> QED BY <2>3, YearsAssumption
  <1> QED BY <1>6, <1>7 DEF Reaches

\* Ten business days in six weeks, twenty in twelve
LEMMA BusinessDaysAhead ==
    ASSUME NEW a \in Int, Reaches(a, a + 85)
    PROVE  /\ Cardinality(BusinessDaysAfter(a, a + 42)) >= 10
           /\ Cardinality(BusinessDaysAfter(a, a + 84)) >= 20
  <1> DEFINE P == BusinessDaysAfter(a, a + 42)
             Q == BusinessDaysAfter(a + 42, (a + 42) + 42)
  <1>1. Cardinality(P) >= 10
    <2>1. Reaches(a + 1, a + 42)
      BY DEF Reaches
    <2> QED BY <2>1, SixWeeks
  <1>2. Cardinality(Q) >= 10
    <2>1. PICK b \in Int : b = a + 42
      OBVIOUS
    <2>2. Reaches(b + 1, b + 42)
      BY <2>1 DEF Reaches
    <2>3. Cardinality(BusinessDaysAfter(b, b + 42)) >= 10
      BY <2>2, SixWeeks
    <2> QED BY <2>1, <2>3
  <1>3. /\ IsFiniteSet(P) /\ Cardinality(P) \in Nat
        /\ IsFiniteSet(Q) /\ Cardinality(Q) \in Nat
    <2>1. \A b, c \in Int : /\ IsFiniteSet(BusinessDaysAfter(b, c))
                           /\ Cardinality(BusinessDaysAfter(b, c)) \in Nat
      BY CountedDays
    <2>2. a + 42 \in Int /\ (a + 42) + 42 \in Int
      OBVIOUS
    <2> QED BY <2>1, <2>2
  <1>4. BusinessDaysAfter(a, a + 84) = P \cup Q /\ P \cap Q = {}
    BY DEF BusinessDaysAfter
  <1> HIDE DEF P, Q
  <1>5. Cardinality(P \cup Q) = Cardinality(P) + Cardinality(Q)
    <2>1. Cardinality(P \cup Q) = Cardinality(P) + Cardinality(Q) - Cardinality(P \cap Q)
      BY <1>3, FS_Union
    <2>2. Cardinality(P \cap Q) = 0
      BY <1>4, FS_EmptySet
    <2> QED BY <1>3, <2>1, <2>2
  <1> QED BY <1>1, <1>2, <1>3, <1>4, <1>5 DEF P

\* The three clocks of a case run out in order, for every opening on a calendar
\* that knows the years it asks about: calculate counts ten or twenty business
\* days, which are over before forty-five or ninety calendar days, whatever
\* weekends and holidays lie between.
THEOREM DeadlinesOrderedHolds == Spec => []DeadlinesOrdered
  <1> DEFINE NoticeFirst == counting = "none" => due["NOTICE"].day < due["INVESTIGATION"].day
  <1>1. JudgeInv /\ Placed /\ NoticeFirst => DeadlinesOrdered
    <2> SUFFICES ASSUME JudgeInv, Placed, NoticeFirst, counting = "none"
                 PROVE  /\ WallHours(due["NOTICE"]) < WallHours(due["INVESTIGATION"])
                        /\ WallHours(due["INVESTIGATION"]) < WallHours(due["FINAL_RESOLUTION"])
      BY DEF DeadlinesOrdered
    <2> DEFINE p == due["NOTICE"].day
               q == due["INVESTIGATION"].day
               most == IF extended THEN 84 ELSE 42
    <2>1. /\ p \in Int /\ q \in Int /\ p < q
          /\ due["NOTICE"].hour = 17 /\ due["INVESTIGATION"].hour = 17
      BY DEF JudgeInv, RulesInv, TypeOK, Kinds, Computed, cutoff_hour
    <2>2. base.day \in Int /\ base.hour \in 0..23 /\ Reaches(base.day, base.day + 85)
      BY OpeningReaches
    <2>3. base \in [day : Int, hour : Int] /\ extended \in BOOLEAN
      BY DEF JudgeInv, RulesInv, TypeOK
    <2>4. due["INVESTIGATION"] # NoMoment
      BY <2>1 DEF NoMoment
    <2>5. /\ is_business_day(q)
          /\ Cardinality(BusinessDaysAfter(base.day, q)) = (IF extended THEN 20 ELSE 10)
      BY <2>3, <2>4 DEF JudgeInv, RulesInv, DueExact, BusinessDays
    <2>6. q <= base.day + most
      <3>1. PICK last \in Int : last = base.day + most
        BY <2>2
      <3>2. Cardinality(BusinessDaysAfter(base.day, last)) >= (IF extended THEN 20 ELSE 10)
        <4>1. CASE extended
          BY <2>2, <3>1, <4>1, BusinessDaysAhead
        <4>2. CASE ~extended
          BY <2>2, <3>1, <4>2, BusinessDaysAhead
        <4> QED BY <4>1, <4>2
      <3>3. Cardinality(BusinessDaysAfter(base.day, last)) \in Nat
        BY <2>2, <3>1, CountedDays
      <3>4. /\ Cardinality(BusinessDaysAfter(base.day, q)) > 0
            /\ Cardinality(BusinessDaysAfter(base.day, q)) <=
                 Cardinality(BusinessDaysAfter(base.day, last))
        BY <2>5, <3>2, <3>3
      <3> HIDE DEF q, most
      <3>5. q \in Int /\ base.day <= base.day
        BY <2>1, <2>2
      <3> QED BY <2>2, <2>5, <3>1, <3>4, <3>5, EarlierCountIsDueFirst
    <2>7. /\ due["FINAL_RESOLUTION"].day = base.day + (IF extended THEN 90 ELSE 45)
          /\ due["FINAL_RESOLUTION"].hour = base.hour
      BY <2>3 DEF Placed
    <2> QED BY <2>1, <2>2, <2>6, <2>7 DEF WallHours
  <1>2. CalendarInv => Placed
    BY DEF CalendarInv
  <1> QED BY <1>1, <1>2, NoticeDueFirst, JudgeInductive, PlacedInductive, PTL

\* Every day add_business_days looks at is counted exactly when the law makes it
\* a business day, for every opening on a calendar that knows the years it asks
\* about, with the one exception the property names.
THEOREM CalendarFollowsLawHolds == Spec => []CalendarFollowsLaw
  <1>1. CalendarInv => CalendarFollowsLaw
    <2> SUFFICES ASSUME RulesInv, Placed PROVE CalendarFollowsLaw
      BY DEF CalendarInv
    <2>1. base.day \in Int /\ Reaches(base.day, base.day + 85)
      BY OpeningReaches
    <2>2. cursor \in Int /\ base.day <= cursor /\ added = Cardinality(BusinessDaysAfter(base.day, cursor))
      BY <2>1 DEF RulesInv, TypeOK, LoopCounts
    <2>3. cursor <= base.day + 84
      <3>1. CASE counting \notin {"NOTICE", "INVESTIGATION"}
        BY <2>1, <3>1 DEF Placed
      <3>2. CASE counting \in {"NOTICE", "INVESTIGATION"}
        <4> SUFFICES ASSUME base.day + 84 < cursor PROVE FALSE
          BY <2>1, <2>2
        <4>1. /\ BusinessDays(counting) \in {2, 10, 20}
              /\ added \in Nat /\ added <= BusinessDays(counting)
              /\ added = BusinessDays(counting) => is_business_day(cursor)
          BY <3>2 DEF RulesInv, TypeOK, LoopCounts, BusinessDays
        <4>2. PICK last \in Int : last = base.day + 84
          BY <2>1
        <4>3. /\ Cardinality(BusinessDaysAfter(base.day, last)) >= 20
              /\ Cardinality(BusinessDaysAfter(base.day, last)) \in Nat
          BY <2>1, <4>2, BusinessDaysAhead, CountedDays
        <4>4. CASE added = BusinessDays(counting)
          <5>1. /\ is_business_day(cursor) /\ base.day <= base.day
                /\ Cardinality(BusinessDaysAfter(base.day, cursor)) > 0
                /\ Cardinality(BusinessDaysAfter(base.day, cursor)) <=
                     Cardinality(BusinessDaysAfter(base.day, last))
            BY <2>1, <2>2, <4>1, <4>3, <4>4
          <5>2. cursor <= last
            BY <2>1, <2>2, <5>1, EarlierCountIsDueFirst
          <5> QED BY <2>1, <2>2, <4>2, <5>2
        <4>5. CASE added # BusinessDays(counting)
          <5>1. IsFiniteSet(BusinessDaysAfter(base.day, cursor))
            BY <2>1, <2>2, CountedDays
          <5>2. BusinessDaysAfter(base.day, last) \in SUBSET BusinessDaysAfter(base.day, cursor)
            BY <2>1, <2>2, <4>2 DEF BusinessDaysAfter
          <5>3. Cardinality(BusinessDaysAfter(base.day, last)) <= added
            BY <2>2, <5>1, <5>2, FS_Subset
          <5> QED BY <4>1, <4>3, <4>5, <5>3
        <4> QED BY <4>4, <4>5
      <3> QED BY <3>1, <3>2
    <2>4. PICK y \in Years : InYear(cursor, y)
      BY <2>1, <2>2, <2>3 DEF Reaches
    <2>5. y \in Int
      BY YearsAssumption
    <2> QED BY <2>2, <2>4, <2>5, CalendarIsLaw DEF CalendarFollowsLaw
  <1> QED BY <1>1, PlacedInductive, PTL
=============================================================================
