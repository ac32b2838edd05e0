----------------------------- MODULE Recurrence -----------------------------
(***************************************************************************)
(* computeNextRecurringDueDate: the dates of a recurring series, one after  *)
(* the other, for every kind of rule a series can have.                    *)
(*                                                                         *)
(* A date is the number of a day.  The calendar is a constant: month m of   *)
(* the calendar starts on day MonthStart[m], months 0, 12, 24... are        *)
(* Januaries, and weekday 0 is Sunday.  Local midnights are 24 hours apart: *)
(* the server runs in a time zone without daylight saving.                 *)
(***************************************************************************)
EXTENDS Integers, FiniteSets

CONSTANTS
    Months,       \* number of months of the calendar
    MonthStart,   \* first day of each month, and of the one after the last
    FirstWeekday, \* weekday of day 0
    Rules,        \* rules under study
    Starts,       \* start dates under study
    MaxRuns       \* bound: runs of one series

Days == MonthStart[0] .. MonthStart[Months] - 1

\* "NONE" is also a repeat that is not given: an update of the series stores
\* the rule it is sent without a look at it.
Repeats == {"NONE", "DAILY", "WEEKLY", "MONTHLY", "YEARLY", "CUSTOM"}
Modes   == {"DAY_OF_MONTH", "LAST_DAY", "NTH_WEEKDAY"}
Units   == {"DAY", "WEEK", "MONTH", "YEAR"}

\* TaskRecurrenceDto within its validators; 0 (7 for a weekday) when not given.
RuleType ==
    [repeat : Repeats, interval : 1..365, days : SUBSET (0..6), mode : Modes,
     dayOfMonth : 0..31, nthWeek : -1..4, weekday : 0..7,
     month : 0..12, dayOfYear : 0..31, unit : Units, skipWeekends : BOOLEAN]

CalendarAssumption ==
    /\ Months \in Nat \ {0} /\ FirstWeekday \in 0..6
    /\ \A m \in 0..Months : MonthStart[m] \in Nat
    /\ \A m \in 0..Months - 1 : MonthStart[m + 1] - MonthStart[m] \in 28..31
    /\ \A m, n \in 0..Months : m < n => MonthStart[m] < MonthStart[n]
    /\ \A d \in Days : \E m \in 0..Months - 1 : MonthStart[m] <= d /\ d < MonthStart[m + 1]

ASSUME RecurrenceAssumption ==
    /\ CalendarAssumption
    /\ Rules \subseteq RuleType /\ Starts \subseteq Days /\ MaxRuns \in Nat

VARIABLES
    rule,         \* ruleConfig of the series
    start,        \* startDueDate
    due,          \* due date of the latest run
    seq           \* its sequence number

vars == <<rule, start, due, seq>>

-----------------------------------------------------------------------------
(* The calendar *)

MonthOf(d)  == CHOOSE m \in 0..Months - 1 : MonthStart[m] <= d /\ d < MonthStart[m + 1]
DayOf(d)    == d - MonthStart[MonthOf(d)] + 1
Length(m)   == MonthStart[m + 1] - MonthStart[m]
Date(m, k)  == MonthStart[m] + k - 1
Weekday(d)  == (d + FirstWeekday) % 7
Least(a, b) == IF a < b THEN a ELSE b

\* Day k of month m, or the last day of a month that has no day k.
Clamped(m, k) == Date(m, Least(k, Length(m)))

Given(x, default) == IF x = 0 THEN default ELSE x

\* A mistake: "if" for "while" moves a Saturday to Sunday only.
SkipOneDay(d) == IF Weekday(d) \in {0, 6} THEN d + 1 ELSE d

\* skipWeekendsFrom: Saturday and Sunday move to Monday.
SkipWeekendsFrom(d) ==
    IF Weekday(d) = 6 THEN d + 2 ELSE IF Weekday(d) = 0 THEN d + 1 ELSE d

Finish(r, d) == IF r.skipWeekends THEN SkipWeekendsFrom(d) ELSE d

-----------------------------------------------------------------------------
(* The date of a rule after d, before weekends are skipped *)

Chosen(r, s) == IF r.days = {} THEN {Weekday(s)} ELSE r.days

\* A mistake: weeks counted from day 0 instead of the start date.
FitsCalendarWeek(r, s, d) ==
    /\ Weekday(d) \in Chosen(r, s)
    /\ (d \div 7 - s \div 7) % r.interval = 0

\* Day d is on a chosen weekday of an active week, weeks counted from s.
Fits(r, s, d) ==
    /\ Weekday(d) \in Chosen(r, s)
    /\ ((d - s) \div 7) % r.interval = 0

WeeklyReach == 3700

Weekly(r, s, d) ==
    IF \E i \in 1..WeeklyReach : Fits(r, s, d + i)
      THEN d + (CHOOSE i \in 1..WeeklyReach :
                   Fits(r, s, d + i) /\ \A j \in 1..i - 1 : ~Fits(r, s, d + j))
      ELSE d + 7 * r.interval

\* nthWeekdayOfMonth: the n-th such weekday falls in the n-th seven days, the
\* last (n = -1) in the last seven.  Without one: the last day of the month.
NthWeekday(m, n, w) ==
    LET found == {k \in 1..Length(m) :
                    /\ Weekday(Date(m, k)) = w
                    /\ IF n = -1 THEN k > Length(m) - 7 ELSE (k - 1) \div 7 = n - 1}
    IN  IF found = {} THEN Length(m) ELSE CHOOSE k \in found : TRUE

\* A mistake: the month of the latest run counts as the first of the interval.
TargetMonthEarly(r, d) == MonthOf(d) + r.interval - 1

TargetMonth(r, d) == MonthOf(d) + r.interval

\* A mistake: the day is the latest run's, which a short month has clamped.
MonthlyFromLatest(r, s, d) ==
    LET m == TargetMonth(r, d) IN
    CASE r.mode = "LAST_DAY"     -> Date(m, Length(m))
      [] r.mode = "NTH_WEEKDAY"  ->
           Date(m, NthWeekday(m, r.nthWeek, IF r.weekday = 7 THEN Weekday(s) ELSE r.weekday))
      [] r.mode = "DAY_OF_MONTH" -> Clamped(m, Given(r.dayOfMonth, DayOf(d)))

Monthly(r, s, d) ==
    LET m == TargetMonth(r, d) IN
    CASE r.mode = "LAST_DAY"     -> Date(m, Length(m))
      [] r.mode = "NTH_WEEKDAY"  ->
           Date(m, NthWeekday(m, r.nthWeek, IF r.weekday = 7 THEN Weekday(s) ELSE r.weekday))
      [] r.mode = "DAY_OF_MONTH" -> Clamped(m, Given(r.dayOfMonth, DayOf(s)))

\* A mistake: the day is the latest run's, which a short February has clamped.
YearlyFromLatest(r, s, d) ==
    LET year == MonthOf(d) \div 12 + r.interval
        m    == 12 * year + Given(r.month, (MonthOf(s) % 12) + 1) - 1
    IN  Clamped(m, Given(r.dayOfYear, DayOf(d)))

Yearly(r, s, d) ==
    LET year == MonthOf(d) \div 12 + r.interval
        m    == 12 * year + Given(r.month, (MonthOf(s) % 12) + 1) - 1
    IN  Clamped(m, Given(r.dayOfYear, DayOf(s)))

\* A mistake: subtractDays for addDays.
CustomBack(r, d) == d - r.interval

\* addYears lets 29 February run into 1 March, addMonths does not overflow.
Custom(r, d) ==
    CASE r.unit = "DAY"   -> d + r.interval
      [] r.unit = "WEEK"  -> d + 7 * r.interval
      [] r.unit = "MONTH" -> Clamped(MonthOf(d) + r.interval, DayOf(d))
      [] r.unit = "YEAR"  -> Date(MonthOf(d) + 12 * r.interval, DayOf(d))

DateAfter(r, s, d) ==
    CASE r.repeat = "DAILY"   -> d + r.interval
      [] r.repeat = "WEEKLY"  -> Weekly(r, s, d)
      [] r.repeat = "MONTHLY" -> Monthly(r, s, d)
      [] r.repeat = "YEARLY"  -> Yearly(r, s, d)
      [] r.repeat = "CUSTOM"  -> Custom(r, d)

\* A rule that does not repeat gives the same date again, weekend or not.
NextDue(r, s, d) == IF r.repeat = "NONE" THEN d ELSE Finish(r, DateAfter(r, s, d))

-----------------------------------------------------------------------------
(* A series: the first run falls on the start date as it is, every other on *)
(* the date after the latest one.  Its rule is the one it was created with, *)
(* or one an update has put in its place before the second run.            *)

InYears(r)  == r.repeat = "YEARLY" \/ (r.repeat = "CUSTOM" /\ r.unit = "YEAR")
InMonths(r) == r.repeat = "MONTHLY" \/ (r.repeat = "CUSTOM" /\ r.unit = "MONTH")

\* Bound: the next date lies in the calendar.
Room(r, d) ==
    /\ InYears(r) => MonthOf(d) + 12 * r.interval + 12 < Months
    /\ InMonths(r) => MonthOf(d) + r.interval + 1 < Months
    /\ InYears(r) \/ InMonths(r) \/ d + 7 * r.interval + 8 \in Days

Init ==
    /\ rule \in Rules /\ start \in Starts
    /\ due = start /\ seq = 1

Following ==
    /\ seq < MaxRuns /\ Room(rule, due)
    /\ due' = NextDue(rule, start, due)
    /\ seq' = seq + 1
    /\ UNCHANGED <<rule, start>>

Next == Following

Spec == Init /\ [][Next]_vars
-----------------------------------------------------------------------------
(* What the dates of a series satisfy *)

\* A series stays in the calendar, its rule and its start date are its own.
TypeOK == rule \in Rules /\ start \in Starts /\ due \in Days /\ seq \in Nat \ {0}

\* Whatever the rule, the next run is after the latest and no date gets two: only
\* under a rule that does not repeat does the series stay where it is, for ever.
AlwaysForward == [][due' > due \/ (rule.repeat = "NONE" /\ due' = due)]_vars

Steady(repeat) == rule.repeat = repeat /\ ~rule.skipWeekends

NthByCount(m, n, w) ==
    LET falls == {k \in 1..Length(m) : Weekday(Date(m, k)) = w}
        rank  == IF n = -1 THEN Cardinality(falls) ELSE n
    IN  {k \in falls : Cardinality({j \in falls : j <= k}) = rank}

\* A monthly series never drifts: run n + 1 is n intervals after the start
\* month, on the preferred day (the 31st again after a 28 February), on the
\* last day, or on the n-th weekday as one counts them.
MonthlyNoDrift ==
    Steady("MONTHLY") /\ seq > 1 =>
        LET m == MonthOf(start) + (seq - 1) * rule.interval
            w == IF rule.weekday = 7 THEN Weekday(start) ELSE rule.weekday
        IN  /\ MonthOf(due) = m
            /\ \/ /\ rule.mode = "DAY_OF_MONTH"
                  /\ \/ DayOf(due) = Given(rule.dayOfMonth, DayOf(start))
                     \/ /\ due + 1 = MonthStart[m + 1]
                        /\ DayOf(due) < Given(rule.dayOfMonth, DayOf(start))
               \/ rule.mode = "LAST_DAY" /\ due + 1 = MonthStart[m + 1]
               \/ rule.mode = "NTH_WEEKDAY" /\ DayOf(due) \in NthByCount(m, rule.nthWeek, w)
               \/ rule.mode = "NTH_WEEKDAY" /\ rule.nthWeek = 0

\* Nor does a yearly one: run n + 1 is n intervals after the year of the start,
\* in the chosen month, on the chosen day or the last before it (a series of
\* 29 February is on the 28th in between and on the 29th in a leap year).
YearlyNoDrift ==
    Steady("YEARLY") /\ seq > 1 =>
        LET year == MonthOf(start) \div 12 + (seq - 1) * rule.interval
            m    == 12 * year + Given(rule.month, (MonthOf(start) % 12) + 1) - 1
            k    == Given(rule.dayOfYear, DayOf(start))
        IN  /\ MonthOf(due) = m
            /\ DayOf(due) = k \/ (due + 1 = MonthStart[m + 1] /\ DayOf(due) < k)

\* A weekly series has a run on every chosen weekday of every active week
\* since its start and on no other: as many as a calendar has of them.
WeeklyComplete ==
    Steady("WEEKLY") =>
        LET active == {start + 7 * (k * rule.interval) + j :
                         k \in 0..(due - start) \div 7, j \in 0..6}
            on     == {d \in active : d > start /\ d <= due /\ Weekday(d) \in Chosen(rule, start)}
        IN  Cardinality(on) = seq - 1 /\ (seq > 1 => due \in on)

\* "Working days only - runs land on the next weekday when a date falls on
\* Sat/Sun": no generated run is on a weekend, if the rule repeats.
WorkingDays == rule.skipWeekends /\ rule.repeat # "NONE" /\ seq > 1 => Weekday(due) \in 1..5
=============================================================================
