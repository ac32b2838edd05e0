---------------------------- MODULE MCRecurrence ----------------------------
(* The calendar of 2026 to 2029 (2028 is a leap year) and sets of rules for *)
(* TLC.  Day 0 is Thursday, 1 January 2026.                                 *)
EXTENDS Recurrence

CONSTANTS Kinds, Intervals, Weekends

MonthLengths == <<31, 28, 31, 30, 31, 30, 31, 31, 30, 31, 30, 31>>

LengthOf(m) == IF m % 12 = 1 /\ (2026 + m \div 12) % 4 = 0 THEN 29 ELSE MonthLengths[(m % 12) + 1]

MCMonthStart ==
    LET first[m \in 0..Months] == IF m = 0 THEN 0 ELSE first[m - 1] + LengthOf(m - 1)
    IN  first

Plain(kind, n, skip) ==
    [repeat |-> kind, interval |-> n, days |-> {}, mode |-> "DAY_OF_MONTH", dayOfMonth |-> 0,
     nthWeek |-> 1, weekday |-> 7, month |-> 0, dayOfYear |-> 0, unit |-> "DAY",
     skipWeekends |-> skip]

Variants(r) ==
    CASE r.repeat \in {"NONE", "DAILY"} -> {r}
      [] r.repeat = "WEEKLY"  -> {[r EXCEPT !.days = ds] : ds \in {{}, {1}, {0, 6}, {1, 3, 5}}}
      [] r.repeat = "MONTHLY" ->
           {[r EXCEPT !.dayOfMonth = k] : k \in {0, 15, 30, 31}}
           \cup {[r EXCEPT !.mode = "LAST_DAY"]}
           \cup {[r EXCEPT !.mode = "NTH_WEEKDAY", !.nthWeek = n, !.weekday = w] :
                    n \in {-1, 1, 4}, w \in {0, 5, 7}}
      [] r.repeat = "YEARLY"  ->
           {[r EXCEPT !.month = m, !.dayOfYear = k] : m \in {0, 2, 12}, k \in {0, 31}}
      [] r.repeat = "CUSTOM"  -> {[r EXCEPT !.unit = u] : u \in Units}

MCRules == UNION {Variants(Plain(k, n, w)) : k \in Kinds, n \in Intervals, w \in Weekends}

\* From 26 January to 4 March 2026: every day of the month and of the week.
MCStarts == 25..62
=============================================================================
