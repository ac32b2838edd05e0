-------------------------- MODULE RecurrenceProofs --------------------------
(***************************************************************************)
(* Every rule, on every calendar: a series that repeats moves forward, its  *)
(* weekly search never falls back, skipWeekends keeps its runs off          *)
(* weekends, monthly runs never drift and weekly runs are complete.        *)
(***************************************************************************)
EXTENDS Recurrence, WellFoundedInduction, FiniteSetTheorems, TLAPS

-----------------------------------------------------------------------------
(* The calendar *)

\* Months are at least 28 and at most 31 days long and follow one another.
LEMMA MonthLengths28To31 ==
    ASSUME NEW m \in 0..Months - 1
    PROVE  /\ MonthStart[m] \in Nat /\ MonthStart[m + 1] \in Nat
           /\ Length(m) \in 28..31
           /\ MonthStart[0] <= MonthStart[m] /\ MonthStart[m + 1] <= MonthStart[Months]
           /\ Months \in Nat /\ m + 1 \in 0..Months
  <1>1. m \in 0..Months /\ m + 1 \in 0..Months /\ 0 \in 0..Months /\ Months \in 0..Months
    BY RecurrenceAssumption DEF CalendarAssumption
  <1>2. MonthStart[0] <= MonthStart[m]
    BY <1>1, RecurrenceAssumption DEF CalendarAssumption
  <1>3. MonthStart[m + 1] <= MonthStart[Months]
    BY <1>1, RecurrenceAssumption DEF CalendarAssumption
  <1>q. QED  BY <1>1, <1>2, <1>3, RecurrenceAssumption DEF CalendarAssumption, Length

\* Every day has a month, and lies between its month's first and last day.
LEMMA MonthOfDay ==
    ASSUME NEW d \in Days
    PROVE  /\ MonthOf(d) \in 0..Months - 1
           /\ MonthStart[MonthOf(d)] <= d /\ d < MonthStart[MonthOf(d) + 1]
           /\ d \in Nat /\ DayOf(d) \in 1..Length(MonthOf(d))
  <1>1. \E m \in 0..Months - 1 : MonthStart[m] <= d /\ d < MonthStart[m + 1]
    BY RecurrenceAssumption DEF CalendarAssumption
  <1>2. /\ MonthOf(d) \in 0..Months - 1
        /\ MonthStart[MonthOf(d)] <= d /\ d < MonthStart[MonthOf(d) + 1]
    BY <1>1 DEF MonthOf
  <1>3. MonthStart[0] \in Nat /\ MonthStart[Months] \in Nat
    BY RecurrenceAssumption DEF CalendarAssumption
  <1>4. d \in Nat
    BY <1>3 DEF Days
  <1>5. DayOf(d) \in 1..Length(MonthOf(d))
    BY <1>2, <1>4, MonthLengths28To31 DEF DayOf, Length
  <1>q. QED  BY <1>2, <1>4, <1>5

\* A day between a month's first and last day is of that month.
LEMMA DayInMonth ==
    ASSUME NEW m \in 0..Months - 1, NEW d \in Int, MonthStart[m] <= d, d < MonthStart[m + 1]
    PROVE  d \in Days /\ MonthOf(d) = m
  <1>1. d \in Days
    <2>1. MonthStart[0] \in Nat /\ MonthStart[Months] \in Nat
      BY RecurrenceAssumption DEF CalendarAssumption
    <2>q. QED  BY <2>1, MonthLengths28To31 DEF Days
  <1>2. ASSUME NEW n \in 0..Months - 1, MonthStart[n] <= d, d < MonthStart[n + 1]
        PROVE  n = m
    <2>1. m \in 0..Months /\ n \in 0..Months /\ m + 1 \in 0..Months /\ n + 1 \in 0..Months
      BY RecurrenceAssumption DEF CalendarAssumption
    <2>2. \A i, j \in 0..Months : i <= j => MonthStart[i] <= MonthStart[j]
      BY RecurrenceAssumption DEF CalendarAssumption
    <2>3. \A i \in 0..Months : MonthStart[i] \in Nat
      BY RecurrenceAssumption DEF CalendarAssumption
    <2>4. ~(n < m)
      <3>1. SUFFICES ASSUME n < m PROVE FALSE  OBVIOUS
      <3>2. MonthStart[n + 1] <= MonthStart[m]  BY <3>1, <2>1, <2>2
      <3>q. QED  BY <3>2, <1>2, <2>1, <2>3
    <2>5. ~(m < n)
      <3>1. SUFFICES ASSUME m < n PROVE FALSE  OBVIOUS
      <3>2. MonthStart[m + 1] <= MonthStart[n]  BY <3>1, <2>1, <2>2
      <3>q. QED  BY <3>2, <1>2, <2>1, <2>3
    <2>q. QED  BY <2>4, <2>5
  <1>3. MonthOf(d) \in 0..Months - 1 /\ MonthStart[MonthOf(d)] <= d /\ d < MonthStart[MonthOf(d) + 1]
    BY <1>1, MonthOfDay
  <1>q. QED  BY <1>1, <1>2, <1>3

\* A day of a later month is a later day; with two days to spare it stays in
\* the calendar when another month follows.
LEMMA LaterMonth ==
    ASSUME NEW d \in Days, NEW m \in Nat, MonthOf(d) < m, m + 1 < Months,
           NEW k \in 1..31
    PROVE  /\ Date(m, k) \in Int /\ Date(m, k) > d
           /\ Date(m, k) \in Days /\ Date(m, k) + 2 \in Days
  <1>1. m \in 0..Months - 1 /\ m + 1 \in 0..Months - 1
    BY RecurrenceAssumption DEF CalendarAssumption
  <1>2. MonthOf(d) \in 0..Months - 1 /\ d < MonthStart[MonthOf(d) + 1] /\ d \in Nat
    BY MonthOfDay
  <1>3. MonthOf(d) + 1 \in 0..Months
    BY <1>2, MonthLengths28To31
  <1>4. MonthStart[MonthOf(d) + 1] <= MonthStart[m] /\ MonthStart[MonthOf(d) + 1] \in Nat
    BY <1>1, <1>2, <1>3, RecurrenceAssumption DEF CalendarAssumption
  <1>5. /\ MonthStart[m] \in Nat /\ MonthStart[m + 1] \in Nat /\ MonthStart[m + 1 + 1] \in Nat
        /\ MonthStart[m + 1] - MonthStart[m] \in 28..31
        /\ MonthStart[m + 1 + 1] - MonthStart[m + 1] \in 28..31
        /\ MonthStart[0] <= MonthStart[m] /\ MonthStart[m + 1 + 1] <= MonthStart[Months]
    BY <1>1, MonthLengths28To31 DEF Length
  <1>6. MonthStart[0] \in Nat /\ MonthStart[Months] \in Nat
    BY RecurrenceAssumption DEF CalendarAssumption
  <1>7. Date(m, k) \in Int /\ Date(m, k) > d
    BY <1>2, <1>4, <1>5 DEF Date
  <1>q. QED  BY <1>5, <1>6, <1>7 DEF Date, Days

\* So is the clamped day of a later month, and it is of that month.
LEMMA LaterClamped ==
    ASSUME NEW d \in Days, NEW m \in Nat, MonthOf(d) < m, m + 1 < Months,
           NEW k \in 1..31
    PROVE  /\ Clamped(m, k) > d /\ Clamped(m, k) \in Days /\ Clamped(m, k) + 2 \in Days
           /\ MonthOf(Clamped(m, k)) = m /\ DayOf(Clamped(m, k)) = Least(k, Length(m))
  <1>1. m \in 0..Months - 1
    BY RecurrenceAssumption DEF CalendarAssumption
  <1>2. MonthStart[m] \in Nat /\ MonthStart[m + 1] \in Nat /\ Length(m) \in 28..31
    BY <1>1, MonthLengths28To31
  <1>3. Least(k, Length(m)) \in 1..31 /\ Least(k, Length(m)) <= Length(m)
    BY <1>2 DEF Least
  <1>4. Clamped(m, k) = Date(m, Least(k, Length(m)))
    BY DEF Clamped
  <1>5. Clamped(m, k) > d /\ Clamped(m, k) \in Days /\ Clamped(m, k) + 2 \in Days
    BY <1>3, <1>4, LaterMonth
  <1>6. Clamped(m, k) \in Int /\ MonthStart[m] <= Clamped(m, k) /\ Clamped(m, k) < MonthStart[m + 1]
    BY <1>2, <1>3, <1>4 DEF Date, Length
  <1>7. MonthOf(Clamped(m, k)) = m
    BY <1>1, <1>6, DayInMonth
  <1>q. QED  BY <1>2, <1>3, <1>4, <1>5, <1>7 DEF DayOf, Date

-----------------------------------------------------------------------------
(* Weekends *)

\* skipWeekendsFrom gives a working day, at most two days later.
LEMMA SkipWeekendsSound ==
    ASSUME NEW d \in Int
    PROVE  /\ SkipWeekendsFrom(d) \in d..d + 2
           /\ Weekday(SkipWeekendsFrom(d)) \in 1..5
  <1>1. FirstWeekday \in 0..6
    BY RecurrenceAssumption DEF CalendarAssumption
  <1>q. QED  BY <1>1 DEF SkipWeekendsFrom, Weekday

-----------------------------------------------------------------------------
(* The weekly search *)

\* Division by a positive number, and a multiple of it.
LEMMA Division ==
    ASSUME NEW n \in Nat, n > 0, NEW q \in Nat
    PROVE  /\ q \div n \in Nat /\ q % n \in 0..n - 1
           /\ q = n * (q \div n) + (q % n)
           /\ (n * q) % n = 0
  <1>1. q \div n \in Nat  BY SMTT(30)
  <1>2. q % n \in 0..n - 1  BY SMTT(30)
  <1>3. q = n * (q \div n) + (q % n)  BY SMTT(30)
  <1>4. (n * q) % n = 0  BY SMTT(30)
  <1>q. QED  BY <1>1, <1>2, <1>3, <1>4

\* Every weekday is at most six days ahead.
LEMMA SomeDayOfWeek ==
    ASSUME NEW a \in Nat, NEW w \in 0..6
    PROVE  \E j \in 0..6 : (a + j) % 7 = w
  <1>1. (w - a) % 7 \in 0..6 /\ (a + ((w - a) % 7)) % 7 = w
    OBVIOUS
  <1>q. QED  BY <1>1

\* Between 1 and 7 * interval + 6 days after d some day is on a chosen weekday
\* of an active week.
LEMMA ActiveWeekAhead ==
    ASSUME NEW r \in RuleType, NEW s \in Nat, NEW d \in Nat, s <= d
    PROVE  \E i \in 1..7 * r.interval + 6 : Fits(r, s, d + i)
  <1> DEFINE n == r.interval
             q == (d - s) \div 7
             k == q + n - (q % n)
  <1>1. n \in 1..365 /\ r.days \subseteq 0..6
    BY DEF RuleType
  <1>2. q \in Nat /\ d - s - 7 * q \in 0..6
    OBVIOUS
  <1> HIDE DEF q
  <1>3. q % n \in 0..n - 1 /\ q = n * (q \div n) + (q % n) /\ q \div n \in Nat
    <2>1. n \in Nat /\ n > 0 /\ q \in Nat
      BY <1>1, <1>2
    <2> HIDE DEF n
    <2>q. QED  BY <2>1, Division
  <1>4. k \in q + 1..q + n /\ k = n * (q \div n + 1)
    <2> DEFINE h == q \div n
               a == n * h
               e == q % n
    <2> HIDE DEF n, h, a, e
    <2>1. n * (h + 1) = a + n
      BY <1>1, <1>3 DEF a, h
    <2>2. q = a + e /\ e \in 0..n - 1
      BY <1>3 DEF a, h, e
    <2>3. k = q + n - e
      BY DEF e
    <2>4. k \in q + 1..q + n
      BY <1>1, <1>2, <2>2, <2>3
    <2>5. a \in Int
      BY <1>1, <1>3 DEF a, h
    <2>6. k = a + n
      BY <1>1, <1>2, <2>2, <2>3, <2>5
    <2>q. QED  BY <2>1, <2>4, <2>6 DEF h
  <1>5. k % n = 0
    <2>1. q \div n + 1 \in Nat
      BY <1>3
    <2>2. (n * (q \div n + 1)) % n = 0
      BY <1>1, <2>1, Division
    <2>q. QED  BY <1>4, <2>2
  <1>6. FirstWeekday \in 0..6
    BY RecurrenceAssumption DEF CalendarAssumption
  <1>7. PICK w \in 0..6 : w \in Chosen(r, s)
    <2>1. Weekday(s) \in 0..6
      BY <1>6 DEF Weekday
    <2>q. QED  BY <1>1, <2>1 DEF Chosen
  <1> HIDE DEF k
  <1>8. PICK j \in 0..6 : Weekday(s + 7 * k + j) = w
    <2>1. s + 7 * k + FirstWeekday \in Nat
      BY <1>1, <1>2, <1>4, <1>6
    <2>2. PICK j \in 0..6 : (s + 7 * k + FirstWeekday + j) % 7 = w
      BY <2>1, SomeDayOfWeek
    <2>3. s + 7 * k + FirstWeekday + j = s + 7 * k + j + FirstWeekday
      BY <1>1, <1>2, <1>4, <1>6
    <2>q. QED  BY <2>2, <2>3 DEF Weekday
  <1> DEFINE i == s + 7 * k + j - d
  <1>9. i \in 1..7 * n + 6 /\ d + i = s + 7 * k + j
    BY <1>1, <1>2, <1>4
  <1>10. (d + i - s) \div 7 = k
    <2>1. d + i - s = 7 * k + j /\ k \in Nat
      BY <1>1, <1>2, <1>4, <1>9, SMTT(30)
    <2> HIDE DEF i
    <2>q. QED  BY <2>1
  <1>11. Fits(r, s, d + i)
    BY <1>5, <1>7, <1>8, <1>9, <1>10 DEF Fits
  <1>q. QED  BY <1>9, <1>11

\* A set of naturals that is not empty has a least element.
LEMMA LeastNatural ==
    ASSUME NEW T, T \subseteq Nat, T # {}
    PROVE  \E x \in T : \A y \in T : ~(y < x)
  <1> DEFINE R == OpToRel(<, Nat)
  <1>1. \A a, b \in Nat : a < b => <<a, b>> \in R
    BY Zenon DEF OpToRel
  <1>2. IsWellFoundedOn(R, Nat)
    BY NatLessThanWellFounded, Zenon
  <1> HIDE DEF R
  <1>3. \E x \in T : \A y \in T : <<y, x>> \notin R
    BY <1>2, WFMin, Zenon
  <1>q. QED  BY <1>1, <1>3, Zenon

\* The search over ten years always finds a day, within interval weeks and six
\* days: the line after the loop is dead code for every interval up to 365.
THEOREM WeeklyNeverFallsBack ==
    ASSUME NEW r \in RuleType, NEW s \in Nat, NEW d \in Nat, s <= d
    PROVE  /\ \E i \in 1..WeeklyReach : Fits(r, s, d + i)
           /\ Weekly(r, s, d) \in d + 1..d + 7 * r.interval + 6
           /\ Fits(r, s, Weekly(r, s, d))
           /\ \A j \in d + 1..Weekly(r, s, d) - 1 : ~Fits(r, s, j)
  <1> DEFINE T == {i \in 1..WeeklyReach : Fits(r, s, d + i)}
  <1>1. r.interval \in 1..365
    BY DEF RuleType
  <1>2. PICK i0 \in 1..7 * r.interval + 6 : Fits(r, s, d + i0)
    BY ActiveWeekAhead
  <1>3. i0 \in 1..WeeklyReach /\ i0 \in T
    BY <1>1, <1>2 DEF WeeklyReach
  <1>4. PICK x \in T : \A y \in T : ~(y < x)
    <2>1. \A t \in T : t \in Nat
      BY DEF WeeklyReach
    <2>2. T # {}
      BY <1>3
    <2> HIDE DEF T
    <2>3. T \subseteq Nat
      BY <2>1, Zenon
    <2>q. QED  BY <2>2, <2>3, LeastNatural, Zenon
  <1> DEFINE First(i) == Fits(r, s, d + i) /\ \A j \in 1..i - 1 : ~Fits(r, s, d + j)
             c == CHOOSE i \in 1..WeeklyReach : First(i)
  <1>5. x \in 1..WeeklyReach /\ First(x)
    <2>1. x \in 1..3700 /\ Fits(r, s, d + x)
      BY <1>4 DEF WeeklyReach
    <2>2. ASSUME NEW j \in 1..x - 1
          PROVE  ~Fits(r, s, d + j)
      <3>1. j \in 1..3700 /\ j < x
        BY <2>1
      <3>2. SUFFICES ASSUME Fits(r, s, d + j) PROVE FALSE
        OBVIOUS
      <3>3. j \in T
        BY <3>1, <3>2 DEF WeeklyReach
      <3> HIDE DEF T
      <3>q. QED  BY <1>4, <3>1, <3>3
    <2>q. QED  BY <2>1, <2>2 DEF WeeklyReach
  <1>6. c \in 1..WeeklyReach /\ First(c)
    <2> HIDE DEF First
    <2>q. QED  BY <1>5
  <1>7. c <= i0
    <2> HIDE DEF c
    <2>q. QED  BY <1>2, <1>6 DEF WeeklyReach
  <1>8. Weekly(r, s, d) = d + c
    BY <1>3 DEF Weekly
  <1> HIDE DEF c
  <1>9. ASSUME NEW j \in d + 1..d + c - 1
        PROVE  ~Fits(r, s, j)
    <2>1. j - d \in 1..c - 1 /\ d + (j - d) = j
      BY <1>6 DEF WeeklyReach
    <2>q. QED  BY <1>6, <2>1
  <1>10. \E i \in 1..WeeklyReach : Fits(r, s, d + i)
    BY <1>2, <1>3
  <1>11. d + c \in d + 1..d + 7 * r.interval + 6
    <2>1. c \in Nat /\ 1 <= c
      BY <1>6 DEF WeeklyReach
    <2>2. r.interval \in Nat /\ i0 \in Nat /\ i0 <= 7 * r.interval + 6
      BY <1>1
    <2> HIDE DEF T, First
    <2>q. QED  BY <1>7, <2>1, <2>2
  <1>q. QED  BY <1>6, <1>8, <1>9, <1>10, <1>11

-----------------------------------------------------------------------------
(* The next date of each kind of rule *)

\* What a rule of the DTO allows, and a start day, are in their ranges.
LEMMA RuleRanges ==
    ASSUME NEW r \in RuleType, NEW s \in Days
    PROVE  /\ r.interval \in 1..365 /\ r.repeat \in Repeats /\ r.mode \in Modes
           /\ r.unit \in Units /\ r.skipWeekends \in BOOLEAN
           /\ Given(r.dayOfMonth, DayOf(s)) \in 1..31
           /\ Given(r.dayOfYear, DayOf(s)) \in 1..31
           /\ Given(r.month, (MonthOf(s) % 12) + 1) \in 1..12
  <1>1. /\ r.interval \in 1..365 /\ r.repeat \in Repeats /\ r.mode \in Modes
        /\ r.unit \in Units /\ r.skipWeekends \in BOOLEAN
        /\ r.dayOfMonth \in 0..31 /\ r.dayOfYear \in 0..31 /\ r.month \in 0..12
    BY DEF RuleType
  <1>2. MonthOf(s) \in 0..Months - 1 /\ DayOf(s) \in 1..Length(MonthOf(s))
    BY MonthOfDay
  <1>3. Length(MonthOf(s)) \in 28..31
    BY <1>2, MonthLengths28To31
  <1>4. DayOf(s) \in 1..31
    BY <1>2, <1>3
  <1>5. (MonthOf(s) % 12) + 1 \in 1..12
    BY <1>2, RecurrenceAssumption DEF CalendarAssumption
  <1>q. QED  BY <1>1, <1>4, <1>5 DEF Given

\* The n-th weekday of a month is one of its days.
LEMMA NthWeekdayInMonth ==
    ASSUME NEW m \in 0..Months - 1, NEW n, NEW w
    PROVE  NthWeekday(m, n, w) \in 1..Length(m)
  <1> DEFINE found == {k \in 1..Length(m) :
                         /\ Weekday(Date(m, k)) = w
                         /\ IF n = -1 THEN k > Length(m) - 7 ELSE (k - 1) \div 7 = n - 1}
  <1>1. Length(m) \in 28..31
    BY MonthLengths28To31
  <1>2. NthWeekday(m, n, w) = IF found = {} THEN Length(m) ELSE CHOOSE k \in found : TRUE
    BY DEF NthWeekday
  <1>3. \A k \in found : k \in 1..Length(m)
    OBVIOUS
  <1> HIDE DEF found
  <1>4. CASE found = {}
    BY <1>1, <1>2, <1>4
  <1>5. CASE found # {}
    <2>1. (CHOOSE k \in found : TRUE) \in found
      BY <1>5
    <2>q. QED  BY <1>2, <1>3, <1>5, <2>1
  <1>q. QED  BY <1>4, <1>5

\* A monthly rule: a day of the month interval months on.
LEMMA MonthlyAhead ==
    ASSUME NEW r \in RuleType, NEW s \in Days, NEW d \in Days,
           MonthOf(d) + r.interval + 1 < Months
    PROVE  /\ Monthly(r, s, d) \in Int /\ Monthly(r, s, d) > d
           /\ Monthly(r, s, d) \in Days /\ Monthly(r, s, d) + 2 \in Days
           /\ MonthOf(Monthly(r, s, d)) = MonthOf(d) + r.interval
  <1> DEFINE m == MonthOf(d) + r.interval
  <1>1. /\ r.interval \in 1..365 /\ r.mode \in Modes
        /\ Given(r.dayOfMonth, DayOf(s)) \in 1..31
    BY RuleRanges
  <1>2. MonthOf(d) \in 0..Months - 1 /\ d \in Nat
    BY MonthOfDay
  <1>3. m \in Nat /\ MonthOf(d) < m /\ m + 1 < Months /\ m \in 0..Months - 1
    <2>1. Months \in Nat \ {0} /\ m + 1 < Months
      BY RecurrenceAssumption DEF CalendarAssumption
    <2>q. QED  BY <1>1, <1>2, <2>1
  <1>4. /\ MonthStart[m] \in Nat /\ MonthStart[m + 1] \in Nat /\ Length(m) \in 28..31
    BY <1>3, MonthLengths28To31
  <1>5. ASSUME NEW k \in 1..Length(m)
        PROVE  /\ Date(m, k) \in Int /\ Date(m, k) > d
               /\ Date(m, k) \in Days /\ Date(m, k) + 2 \in Days /\ MonthOf(Date(m, k)) = m
    <2>1. k \in 1..31
      BY <1>4
    <2>2. MonthStart[m] <= Date(m, k) /\ Date(m, k) < MonthStart[m + 1] /\ Date(m, k) \in Int
      BY <1>4 DEF Date, Length
    <2> HIDE DEF m
    <2>3. MonthOf(Date(m, k)) = m
      BY <1>3, <2>2, DayInMonth
    <2>q. QED  BY <1>3, <2>1, <2>2, <2>3, LaterMonth
  <1>6. TargetMonth(r, d) = m
    BY DEF TargetMonth
  <1> HIDE DEF m
  <1>7. CASE r.mode = "LAST_DAY"
    <2>1. Monthly(r, s, d) = Date(m, Length(m))
      BY <1>6, <1>7 DEF Monthly
    <2>2. Length(m) \in 1..Length(m)
      BY <1>4
    <2>q. QED  BY <1>5, <2>1, <2>2 DEF m
  <1>8. CASE r.mode = "NTH_WEEKDAY"
    <2> DEFINE k == NthWeekday(m, r.nthWeek, IF r.weekday = 7 THEN Weekday(s) ELSE r.weekday)
    <2>1. Monthly(r, s, d) = Date(m, k)
      BY <1>6, <1>8 DEF Monthly
    <2>2. k \in 1..Length(m)
      BY <1>3, NthWeekdayInMonth
    <2> HIDE DEF k
    <2>q. QED  BY <1>5, <2>1, <2>2 DEF m
  <1>9. CASE r.mode = "DAY_OF_MONTH"
    <2> DEFINE k == Given(r.dayOfMonth, DayOf(s))
    <2>1. Monthly(r, s, d) = Clamped(m, k)
      BY <1>6, <1>9 DEF Monthly
    <2>2. k \in 1..31
      BY <1>1
    <2> HIDE DEF k
    <2>3. /\ Clamped(m, k) > d /\ Clamped(m, k) \in Days /\ Clamped(m, k) + 2 \in Days
          /\ MonthOf(Clamped(m, k)) = m
      BY <1>3, <2>2, LaterClamped
    <2>4. Clamped(m, k) \in Int
      BY <2>3, MonthOfDay
    <2>q. QED  BY <2>1, <2>3, <2>4 DEF m
  <1>q. QED  BY <1>1, <1>7, <1>8, <1>9 DEF Modes

\* A yearly rule: interval years on.
LEMMA YearlyAhead ==
    ASSUME NEW r \in RuleType, NEW s \in Days, NEW d \in Days,
           MonthOf(d) + 12 * r.interval + 12 < Months
    PROVE  /\ Yearly(r, s, d) \in Int /\ Yearly(r, s, d) > d
           /\ Yearly(r, s, d) \in Days /\ Yearly(r, s, d) + 2 \in Days
  <1> DEFINE g == Given(r.month, (MonthOf(s) % 12) + 1)
             m == 12 * (MonthOf(d) \div 12 + r.interval) + g - 1
             k == Given(r.dayOfYear, DayOf(s))
  <1>1. r.interval \in 1..365 /\ k \in 1..31 /\ g \in 1..12
    BY RuleRanges
  <1>2. MonthOf(d) \in Nat
    BY MonthOfDay
  <1>3. m \in Nat /\ MonthOf(d) < m /\ m <= MonthOf(d) + 12 * r.interval + 11
    <2> DEFINE y == MonthOf(d) \div 12
    <2>1. y \in Nat /\ 12 * y <= MonthOf(d) /\ MonthOf(d) < 12 * y + 12
      BY <1>2
    <2> HIDE DEF y, g
    <2>2. m = 12 * y + 12 * r.interval + g - 1
      BY <1>1, <2>1 DEF y
    <2> HIDE DEF m
    <2>q. QED  BY <1>1, <1>2, <2>1, <2>2, SMTT(30)
  <1>4. m + 1 < Months
    <2>1. Months \in Nat
      BY RecurrenceAssumption DEF CalendarAssumption
    <2> HIDE DEF m
    <2>q. QED  BY <1>1, <1>2, <1>3, <2>1
  <1>5. Yearly(r, s, d) = Clamped(m, k)
    BY DEF Yearly
  <1> HIDE DEF m, k
  <1>6. Clamped(m, k) > d /\ Clamped(m, k) \in Days /\ Clamped(m, k) + 2 \in Days
    BY <1>1, <1>3, <1>4, LaterClamped
  <1>7. Clamped(m, k) \in Int
    BY <1>6, MonthOfDay
  <1>q. QED  BY <1>5, <1>6, <1>7

\* Days between two days of the calendar are days of the calendar.
LEMMA DaysBetween ==
    ASSUME NEW d \in Days, NEW e \in Days, NEW x \in Int, d <= x, x <= e
    PROVE  x \in Days
  <1>1. MonthStart[0] \in Nat /\ MonthStart[Months] \in Nat
    BY RecurrenceAssumption DEF CalendarAssumption
  <1>q. QED  BY <1>1 DEF Days

\* So are the days up to n weeks and six days ahead, two days to spare.
LEMMA WeeksAhead ==
    ASSUME NEW d \in Days, NEW n \in Nat, n > 0, d + 7 * n + 8 \in Days,
           NEW x \in d + 1..d + 7 * n + 6
    PROVE  x \in Int /\ x > d /\ x \in Days /\ x + 2 \in Days
  <1>1. d \in Nat
    BY MonthOfDay
  <1>2. x \in Int /\ x > d /\ x + 2 \in Int /\ x <= d + 7 * n + 8 /\ x + 2 <= d + 7 * n + 8
    BY <1>1
  <1>3. x \in Days
    BY <1>1, <1>2, DaysBetween
  <1>4. x + 2 \in Days
    BY <1>1, <1>2, DaysBetween
  <1>q. QED  BY <1>2, <1>3, <1>4

\* A custom rule: interval days, weeks, months or years on.
LEMMA CustomAhead ==
    ASSUME NEW r \in RuleType, NEW d \in Days, r.repeat = "CUSTOM", Room(r, d)
    PROVE  /\ Custom(r, d) \in Int /\ Custom(r, d) > d
           /\ Custom(r, d) \in Days /\ Custom(r, d) + 2 \in Days
  <1>1. r.interval \in 1..365 /\ r.unit \in Units
    BY DEF RuleType
  <1>2. MonthOf(d) \in 0..Months - 1 /\ d \in Nat /\ DayOf(d) \in 1..31 /\ Months \in Nat
    <2>1. MonthOf(d) \in 0..Months - 1 /\ d \in Nat /\ DayOf(d) \in 1..Length(MonthOf(d))
      BY MonthOfDay
    <2>2. Length(MonthOf(d)) \in 28..31 /\ Months \in Nat
      BY <2>1, MonthLengths28To31
    <2>q. QED  BY <2>1, <2>2
  <1>3. CASE r.unit \in {"DAY", "WEEK"}
    <2>1. d + 7 * r.interval + 8 \in Days
      BY <1>3 DEF Room, InYears, InMonths
    <2>2. Custom(r, d) \in d + 1..d + 7 * r.interval + 6
      BY <1>1, <1>2, <1>3, SMTT(30) DEF Custom
    <2>3. r.interval \in Nat /\ r.interval > 0
      BY <1>1
    <2>q. QED  BY <2>1, <2>2, <2>3, WeeksAhead
  <1>4. CASE r.unit = "MONTH"
    <2> DEFINE m == MonthOf(d) + r.interval
    <2>1. m + 1 < Months /\ m \in Nat /\ MonthOf(d) < m
      BY <1>1, <1>2, <1>4 DEF Room, InMonths
    <2>2. Custom(r, d) = Clamped(m, DayOf(d))
      BY <1>4 DEF Custom
    <2> HIDE DEF m
    <2>3. /\ Clamped(m, DayOf(d)) > d /\ Clamped(m, DayOf(d)) \in Days
          /\ Clamped(m, DayOf(d)) + 2 \in Days
      BY <1>2, <2>1, LaterClamped
    <2>4. Clamped(m, DayOf(d)) \in Int
      BY <2>3, MonthOfDay
    <2>q. QED  BY <2>2, <2>3, <2>4
  <1>5. CASE r.unit = "YEAR"
    <2> DEFINE m == MonthOf(d) + 12 * r.interval
    <2>1. m + 1 < Months /\ m \in Nat /\ MonthOf(d) < m
      BY <1>1, <1>2, <1>5 DEF Room, InYears
    <2>2. Custom(r, d) = Date(m, DayOf(d))
      BY <1>5 DEF Custom
    <2> HIDE DEF m
    <2>q. QED  BY <1>2, <2>1, <2>2, LaterMonth
  <1>q. QED  BY <1>1, <1>3, <1>4, <1>5 DEF Units

\* Whatever the rule that repeats, the next date is later, in the calendar, and a
\* working day when the rule skips weekends.
LEMMA NextDueAhead ==
    ASSUME NEW r \in RuleType, NEW s \in Days, NEW d \in Days, s <= d, Room(r, d),
           r.repeat # "NONE"
    PROVE  /\ NextDue(r, s, d) \in Days /\ NextDue(r, s, d) > d
           /\ r.skipWeekends => Weekday(NextDue(r, s, d)) \in 1..5
  <1> DEFINE base == DateAfter(r, s, d)
  <1>1. r.interval \in 1..365 /\ r.repeat \in Repeats /\ r.skipWeekends \in BOOLEAN
    BY RuleRanges
  <1>2. d \in Nat /\ s \in Nat
    BY MonthOfDay
  <1>3. base \in Int /\ base > d /\ base \in Days /\ base + 2 \in Days
    <2>1. CASE r.repeat \in {"DAILY", "WEEKLY"}
      <3>1. d + 7 * r.interval + 8 \in Days
        BY <2>1 DEF Room, InYears, InMonths
      <3>2. base \in d + 1..d + 7 * r.interval + 6
        <4>1. CASE r.repeat = "DAILY"
          BY <1>1, <1>2, <4>1 DEF DateAfter
        <4>2. CASE r.repeat = "WEEKLY"
          <5>1. base = Weekly(r, s, d)
            BY <4>2 DEF DateAfter
          <5> HIDE DEF base
          <5>q. QED  BY <1>2, <5>1, WeeklyNeverFallsBack
        <4>q. QED  BY <2>1, <4>1, <4>2
      <3>3. r.interval \in Nat /\ r.interval > 0
        BY <1>1
      <3> HIDE DEF base
      <3>q. QED  BY <3>1, <3>2, <3>3, WeeksAhead
    <2>2. CASE r.repeat = "MONTHLY"
      <3>1. MonthOf(d) + r.interval + 1 < Months /\ base = Monthly(r, s, d)
        BY <2>2 DEF Room, InMonths, DateAfter
      <3> HIDE DEF base
      <3>q. QED  BY <3>1, MonthlyAhead
    <2>3. CASE r.repeat = "YEARLY"
      <3>1. MonthOf(d) + 12 * r.interval + 12 < Months /\ base = Yearly(r, s, d)
        BY <2>3 DEF Room, InYears, DateAfter
      <3> HIDE DEF base
      <3>q. QED  BY <3>1, YearlyAhead
    <2>4. CASE r.repeat = "CUSTOM"
      <3>1. base = Custom(r, d)
        BY <2>4 DEF DateAfter
      <3> HIDE DEF base
      <3>q. QED  BY <2>4, <3>1, CustomAhead
    <2>q. QED  BY <1>1, <2>1, <2>2, <2>3, <2>4 DEF Repeats
  <1>4. NextDue(r, s, d) = Finish(r, base)
    BY DEF NextDue
  <1> HIDE DEF base
  <1>5. CASE r.skipWeekends
    <2>1. NextDue(r, s, d) = SkipWeekendsFrom(base)
      BY <1>4, <1>5 DEF Finish
    <2>2. SkipWeekendsFrom(base) \in base..base + 2 /\ Weekday(SkipWeekendsFrom(base)) \in 1..5
      BY <1>3, SkipWeekendsSound
    <2>q. QED  BY <1>2, <1>3, <2>1, <2>2, DaysBetween
  <1>6. CASE ~r.skipWeekends
    BY <1>3, <1>4, <1>6 DEF Finish
  <1>q. QED  BY <1>5, <1>6

-----------------------------------------------------------------------------
(* The series *)

\* The strengthening: a series never falls before its start, which is what
\* makes its weeks count from 0.
IInv == TypeOK /\ start <= due /\ WorkingDays

\* A series starts on its start date.
THEOREM InitIInv == Init => IInv
  <1> SUFFICES ASSUME Init PROVE IInv
    OBVIOUS
  <1>1. Rules \subseteq RuleType /\ Starts \subseteq Days
    BY RecurrenceAssumption
  <1>2. due \in Days /\ due \in Int
    BY <1>1, MonthOfDay DEF Init
  <1>q. QED  BY <1>1, <1>2 DEF Init, IInv, TypeOK, WorkingDays

\* The next run is in the calendar, and later, on a working day if it must be; a
\* series whose rule does not repeat stays where it is.
THEOREM StepIInv ==
    IInv /\ [Next]_vars => /\ IInv'
                           /\ \/ due' > due \/ UNCHANGED vars
                              \/ rule.repeat = "NONE" /\ due' = due
  <1> SUFFICES ASSUME IInv, [Next]_vars
               PROVE  /\ IInv'
                      /\ \/ due' > due \/ UNCHANGED vars
                         \/ rule.repeat = "NONE" /\ due' = due
    OBVIOUS
  <1> USE DEF IInv, TypeOK
  <1>1. rule \in RuleType /\ start \in Days /\ start \in Nat /\ due \in Nat
    BY RecurrenceAssumption, MonthOfDay
  <1>2. CASE Following
    <2>1. /\ due' = NextDue(rule, start, due) /\ seq' = seq + 1
          /\ rule' = rule /\ start' = start /\ Room(rule, due)
      BY <1>2 DEF Following
    <2>2. /\ due' \in Days
          /\ due' > due \/ (rule.repeat = "NONE" /\ due' = due)
          /\ rule.skipWeekends /\ rule.repeat # "NONE" => Weekday(due') \in 1..5
      <3>1. CASE rule.repeat = "NONE"
        BY <2>1, <3>1 DEF NextDue
      <3>2. CASE rule.repeat # "NONE"
        BY <1>1, <2>1, <3>2, NextDueAhead
      <3>q. QED  BY <3>1, <3>2
    <2>3. due' \in Nat
      BY <2>2, MonthOfDay
    <2>4. WorkingDays'
      BY <2>1, <2>2 DEF WorkingDays, Weekday
    <2>q. QED  BY <1>1, <2>1, <2>2, <2>3, <2>4
  <1>3. CASE UNCHANGED vars
    BY <1>3 DEF vars, WorkingDays, Weekday
  <1>q. QED  BY <1>2, <1>3 DEF Next

\* Every series the planner generates keeps the invariant.
THEOREM Invariance == Spec => []IInv
  BY InitIInv, StepIInv, PTL DEF Spec

\* Whatever the rule, a series stays in the calendar.
THEOREM TypeCorrect == Spec => []TypeOK
  BY Invariance, PTL DEF IInv

\* Whatever the rule that repeats, the next run is after the latest; under one that
\* does not, the series stays on its date.
THEOREM SeriesMoveForward == Spec => AlwaysForward
  <1>1. IInv /\ [Next]_vars => [due' > due \/ (rule.repeat = "NONE" /\ due' = due)]_vars
    BY StepIInv
  <1>q. QED  BY <1>1, Invariance, PTL DEF Spec, AlwaysForward

\* A series that skips weekends has its generated runs on working days.
THEOREM SkippedWeekends == Spec => []WorkingDays
  BY Invariance, PTL DEF IInv

-----------------------------------------------------------------------------
(* Monthly series: the n-th weekday *)

\* The days of a month that fall on weekday w are seven days apart, from one of
\* the first seven on.
LEMMA WeekdaysOfMonth ==
    ASSUME NEW m \in 0..Months - 1, NEW w \in 0..6
    PROVE  \E a \in 1..7 : \A k \in 1..Length(m) :
              Weekday(Date(m, k)) = w <=> k \in {a, a + 7, a + 14, a + 21, a + 28}
  <1> DEFINE b == MonthStart[m] - 1 + FirstWeekday + 1
  <1>1. /\ MonthStart[m] \in Nat /\ Length(m) \in 28..31 /\ FirstWeekday \in 0..6
    BY MonthLengths28To31, RecurrenceAssumption DEF CalendarAssumption
  <1>2. b \in Nat /\ \A k \in Int : Date(m, k) + FirstWeekday = b + (k - 1)
    BY <1>1 DEF Date
  <1> HIDE DEF b
  <1>3. PICK j \in 0..6 : (b + j) % 7 = w
    BY <1>2, SomeDayOfWeek
  <1>4. SUFFICES ASSUME NEW k \in 1..Length(m)
                 PROVE  Weekday(Date(m, k)) = w
                          <=> k \in {j + 1, j + 8, j + 15, j + 22, j + 29}
    <2>1. /\ j + 1 \in 1..7 /\ j + 1 + 7 = j + 8 /\ j + 1 + 14 = j + 15
          /\ j + 1 + 21 = j + 22 /\ j + 1 + 28 = j + 29
      BY <1>3
    <2>q. QED  BY <2>1
  <1>5. k \in 1..31 /\ Weekday(Date(m, k)) = (b + (k - 1)) % 7
    BY <1>1, <1>2 DEF Weekday
  <1>6. (b + (k - 1)) % 7 = (b + j) % 7 <=> k \in {j + 1, j + 8, j + 15, j + 22, j + 29}
    BY <1>2, <1>3, <1>5, SMTT(30)
  <1>q. QED  BY <1>3, <1>5, <1>6

\* nthWeekdayOfMonth finds the day one finds by counting the weekdays of the
\* month: the n-th of them, the last for n = -1.
THEOREM NthWeekdayCounts ==
    ASSUME NEW m \in 0..Months - 1, NEW n \in {-1, 1, 2, 3, 4}, NEW w \in 0..6
    PROVE  NthWeekday(m, n, w) \in NthByCount(m, n, w)
  <1> DEFINE falls == {k \in 1..Length(m) : Weekday(Date(m, k)) = w}
             rank  == IF n = -1 THEN Cardinality(falls) ELSE n
             found == {k \in 1..Length(m) :
                         /\ Weekday(Date(m, k)) = w
                         /\ IF n = -1 THEN k > Length(m) - 7 ELSE (k - 1) \div 7 = n - 1}
             K == NthWeekday(m, n, w)
             upTo == {j \in falls : j <= K}
  <1>1. Length(m) \in 28..31
    BY MonthLengths28To31
  <1>2. PICK a \in 1..7 : \A k \in 1..Length(m) :
          Weekday(Date(m, k)) = w <=> k \in {a, a + 7, a + 14, a + 21, a + 28}
    BY WeekdaysOfMonth
  <1>3. \A k \in found : k \in falls
    OBVIOUS
  <1>4. found # {}
    <2>1. CASE n = -1
      <3>1. \E k \in {a, a + 7, a + 14, a + 21, a + 28} : k \in 1..Length(m) /\ k > Length(m) - 7
        BY <1>1
      <3>q. QED  BY <2>1, <3>1, <1>2
    <2>2. CASE n # -1
      <3>1. a + 7 * (n - 1) \in {a, a + 7, a + 14, a + 21, a + 28}
        BY <2>2
      <3>2. a + 7 * (n - 1) \in 1..Length(m) /\ (a + 7 * (n - 1) - 1) \div 7 = n - 1
        BY <1>1, <2>2
      <3>q. QED  BY <2>2, <3>1, <3>2, <1>2
    <2>q. QED  BY <2>1, <2>2
  <1>5. K \in found
    <2>1. NthWeekday(m, n, w) = IF found = {} THEN Length(m) ELSE CHOOSE k \in found : TRUE
      BY DEF NthWeekday
    <2> HIDE DEF found
    <2>q. QED  BY <1>4, <2>1
  <1>6. /\ K \in 1..Length(m) /\ Weekday(Date(m, K)) = w /\ K \in falls
        /\ IF n = -1 THEN K > Length(m) - 7 ELSE (K - 1) \div 7 = n - 1
    BY <1>5
  <1> HIDE DEF K, found
  <1>7. Cardinality(upTo) = rank
    <2>1. CASE n = -1
      <3>1. ASSUME NEW j \in falls
            PROVE  j <= K
        <4>1. j \in 1..Length(m) /\ j \in {a, a + 7, a + 14, a + 21, a + 28}
          BY <1>2
        <4>2. K \in {a, a + 7, a + 14, a + 21, a + 28}
          BY <1>2, <1>6
        <4>q. QED  BY <1>1, <1>6, <2>1, <4>1, <4>2
      <3>2. upTo = falls
        BY <3>1
      <3>q. QED  BY <2>1, <3>2
    <2>2. CASE n # -1
      <3>1. K = a + 7 * (n - 1)
        <4>1. K \in {a, a + 7, a + 14, a + 21, a + 28} /\ (K - 1) \div 7 = n - 1
          BY <1>2, <1>6, <2>2
        <4>q. QED  BY <2>2, <4>1
      <3>2. \A j : j \in upTo <=> j \in {a, a + 7, a + 14, a + 21, a + 28} /\ j <= K
        <4>1. \A j \in {a, a + 7, a + 14, a + 21, a + 28} : j <= K => j \in 1..Length(m)
          BY <1>1, <1>6
        <4>q. QED  BY <1>2, <4>1
      <3> HIDE DEF upTo, falls
      <3>3. IsFiniteSet({a}) /\ Cardinality({a}) = 1
        BY FS_Singleton
      <3>4. /\ IsFiniteSet({a} \cup {a + 7}) /\ Cardinality({a} \cup {a + 7}) = 2
        BY <3>3, FS_AddElement
      <3>5. /\ IsFiniteSet({a} \cup {a + 7} \cup {a + 14})
            /\ Cardinality({a} \cup {a + 7} \cup {a + 14}) = 3
        <4>1. a + 14 \notin {a} \cup {a + 7}
          OBVIOUS
        <4>q. QED  BY <3>4, <4>1, FS_AddElement
      <3>6. Cardinality({a} \cup {a + 7} \cup {a + 14} \cup {a + 21}) = 4
        <4>1. a + 21 \notin {a} \cup {a + 7} \cup {a + 14}
          OBVIOUS
        <4>q. QED  BY <3>5, <4>1, FS_AddElement
      <3>7. CASE n = 1
        <4>1. upTo = {a}
          BY <3>1, <3>2, <3>7
        <4>q. QED  BY <3>3, <3>7, <4>1
      <3>8. CASE n = 2
        <4>1. upTo = {a} \cup {a + 7}
          BY <3>1, <3>2, <3>8
        <4>q. QED  BY <3>4, <3>8, <4>1
      <3>9. CASE n = 3
        <4>1. upTo = {a} \cup {a + 7} \cup {a + 14}
          BY <3>1, <3>2, <3>9
        <4>q. QED  BY <3>5, <3>9, <4>1
      <3>10. CASE n = 4
        <4>1. upTo = {a} \cup {a + 7} \cup {a + 14} \cup {a + 21}
          BY <3>1, <3>2, <3>10
        <4>q. QED  BY <3>6, <3>10, <4>1
      <3>q. QED  BY <2>2, <3>7, <3>8, <3>9, <3>10
    <2>q. QED  BY <2>1, <2>2
  <1>q. QED  BY <1>6, <1>7 DEF NthByCount, K

\* One step more is one interval more.
LEMMA OneIntervalMore ==
    ASSUME NEW a \in Nat, NEW n \in Nat, NEW k \in Nat
    PROVE  a + (n - 1) * k + k = a + n * k
  <1>1. (n - 1) * k + k = n * k
    OBVIOUS
  <1>2. (n - 1) * k \in Int /\ n * k \in Int
    OBVIOUS
  <1>q. QED  BY <1>1, <1>2

\* The strengthening for a monthly series: run n + 1 is n intervals after the
\* start month, the first run included.
InMonth == Steady("MONTHLY") => MonthOf(due) = MonthOf(start) + (seq - 1) * rule.interval

\* A monthly run lands where MonthlyNoDrift says.
LEMMA MonthlyDay ==
    ASSUME NEW r \in RuleType, NEW s \in Days, NEW d \in Days, s <= d,
           r.repeat = "MONTHLY", ~r.skipWeekends, Room(r, d)
    PROVE  LET m == MonthOf(d) + r.interval
               w == IF r.weekday = 7 THEN Weekday(s) ELSE r.weekday
               e == NextDue(r, s, d)
           IN  /\ MonthOf(e) = m
               /\ \/ /\ r.mode = "DAY_OF_MONTH"
                     /\ \/ DayOf(e) = Given(r.dayOfMonth, DayOf(s))
                        \/ /\ e + 1 = MonthStart[m + 1]
                           /\ DayOf(e) < Given(r.dayOfMonth, DayOf(s))
                  \/ r.mode = "LAST_DAY" /\ e + 1 = MonthStart[m + 1]
                  \/ r.mode = "NTH_WEEKDAY" /\ DayOf(e) \in NthByCount(m, r.nthWeek, w)
                  \/ r.mode = "NTH_WEEKDAY" /\ r.nthWeek = 0
  <1> DEFINE m == MonthOf(d) + r.interval
             w == IF r.weekday = 7 THEN Weekday(s) ELSE r.weekday
             e == NextDue(r, s, d)
  <1>1. /\ r.interval \in 1..365 /\ r.mode \in Modes
        /\ Given(r.dayOfMonth, DayOf(s)) \in 1..31
        /\ r.nthWeek \in -1..4 /\ r.weekday \in 0..7
    BY RuleRanges DEF RuleType
  <1>2. m + 1 < Months
    BY DEF Room, InMonths
  <1>3. e = Monthly(r, s, d) /\ TargetMonth(r, d) = m
    BY DEF NextDue, DateAfter, Finish, TargetMonth
  <1>4. MonthOf(e) = m /\ e \in Days
    BY <1>2, <1>3, MonthlyAhead
  <1>5. m \in 0..Months - 1 /\ m \in Nat /\ MonthOf(d) < m
    <2>1. MonthOf(d) \in Nat
      BY MonthOfDay
    <2>2. Months \in Nat
      BY RecurrenceAssumption DEF CalendarAssumption
    <2>q. QED  BY <1>1, <1>2, <2>1, <2>2
  <1>6. /\ MonthStart[m] \in Nat /\ MonthStart[m + 1] \in Nat /\ Length(m) \in 28..31
        /\ Length(m) = MonthStart[m + 1] - MonthStart[m]
    BY <1>5, MonthLengths28To31 DEF Length
  <1>7. w \in 0..6
    <2>1. FirstWeekday \in 0..6 /\ s \in Nat
      BY MonthOfDay, RecurrenceAssumption DEF CalendarAssumption
    <2>q. QED  BY <1>1, <2>1 DEF Weekday
  <1> HIDE DEF m, e, w
  <1>8. CASE r.mode = "DAY_OF_MONTH"
    <2> DEFINE k == Given(r.dayOfMonth, DayOf(s))
    <2>1. e = Clamped(m, k) /\ k \in 1..31
      BY <1>1, <1>3, <1>8 DEF Monthly
    <2> HIDE DEF k
    <2>2. DayOf(e) = Least(k, Length(m))
      BY <1>2, <1>5, <2>1, LaterClamped DEF m
    <2>3. k <= Length(m) => DayOf(e) = k
      BY <1>6, <2>1, <2>2 DEF Least
    <2>4. k > Length(m) => e + 1 = MonthStart[m + 1] /\ DayOf(e) < k
      BY <1>6, <2>1, <2>2 DEF Least, Clamped, Date
    <2>q. QED  BY <1>4, <1>6, <1>8, <2>1, <2>3, <2>4 DEF k, m, e, w
  <1>9. CASE r.mode = "LAST_DAY"
    <2>1. e = Date(m, Length(m))
      BY <1>3, <1>9 DEF Monthly
    <2>2. e + 1 = MonthStart[m + 1]
      BY <1>6, <2>1 DEF Date
    <2>q. QED  BY <1>4, <1>9, <2>2 DEF m, e, w
  <1>10. CASE r.mode = "NTH_WEEKDAY"
    <2>1. e = Date(m, NthWeekday(m, r.nthWeek, w))
      BY <1>3, <1>10 DEF Monthly, w
    <2>2. NthWeekday(m, r.nthWeek, w) \in 1..Length(m)
      BY <1>5, NthWeekdayInMonth
    <2>3. DayOf(e) = NthWeekday(m, r.nthWeek, w)
      BY <1>4, <1>6, <2>1, <2>2 DEF DayOf, Date
    <2>4. CASE r.nthWeek = 0
      BY <1>4, <1>10, <2>4 DEF m, e, w
    <2>5. CASE r.nthWeek # 0
      <3>1. r.nthWeek \in {-1, 1, 2, 3, 4}
        BY <1>1, <2>5
      <3>2. DayOf(e) \in NthByCount(m, r.nthWeek, w)
        BY <1>5, <1>7, <2>3, <3>1, NthWeekdayCounts
      <3>q. QED  BY <1>4, <1>10, <3>2 DEF m, e, w
    <2>q. QED  BY <2>4, <2>5
  <1>q. QED  BY <1>1, <1>8, <1>9, <1>10 DEF Modes

\* Every monthly series, at every length: no drift.
THEOREM MonthsDoNotDrift == Spec => [](InMonth /\ MonthlyNoDrift)
  <1>1. Init => InMonth /\ MonthlyNoDrift
    <2> SUFFICES ASSUME Init PROVE InMonth /\ MonthlyNoDrift
      OBVIOUS
    <2>1. start \in Days /\ rule \in RuleType /\ due = start /\ seq = 1
      BY RecurrenceAssumption DEF Init
    <2>2. MonthOf(start) \in Nat /\ rule.interval \in Nat
      BY <2>1, MonthOfDay DEF RuleType
    <2>q. QED  BY <2>1, <2>2 DEF InMonth, MonthlyNoDrift
  <1>2. IInv /\ InMonth /\ MonthlyNoDrift /\ [Next]_vars => InMonth' /\ MonthlyNoDrift'
    <2> SUFFICES ASSUME IInv, InMonth, MonthlyNoDrift, [Next]_vars
                 PROVE  InMonth' /\ MonthlyNoDrift'
      OBVIOUS
    <2>1. CASE Following
      <3>1. /\ due' = NextDue(rule, start, due) /\ seq' = seq + 1
            /\ rule' = rule /\ start' = start /\ Room(rule, due)
        BY <2>1 DEF Following
      <3>2. /\ rule \in RuleType /\ start \in Days /\ due \in Days /\ start <= due
            /\ seq \in Nat \ {0}
        BY RecurrenceAssumption DEF IInv, TypeOK
      <3>3. SUFFICES ASSUME Steady("MONTHLY")
                     PROVE  InMonth' /\ MonthlyNoDrift'
        BY <3>1 DEF InMonth, MonthlyNoDrift, Steady
      <3>4. rule.repeat = "MONTHLY" /\ ~rule.skipWeekends
        BY <3>3 DEF Steady
      <3> DEFINE m == MonthOf(start) + seq * rule.interval
      <3>5. MonthOf(due) + rule.interval = m
        <4>1. MonthOf(start) \in Nat /\ rule.interval \in Nat /\ seq \in Nat
          BY <3>2, MonthOfDay DEF RuleType
        <4>2. MonthOf(due) = MonthOf(start) + (seq - 1) * rule.interval
          BY <3>3 DEF InMonth
        <4>3. MonthOf(start) + (seq - 1) * rule.interval + rule.interval = m
          BY <4>1, OneIntervalMore
        <4>q. QED  BY <4>2, <4>3
      <3>6. seq' - 1 = seq
        BY <3>1, <3>2
      <3> HIDE DEF m
      <3>7. LET w == IF rule.weekday = 7 THEN Weekday(start) ELSE rule.weekday
            IN  /\ MonthOf(due') = m
                /\ \/ /\ rule.mode = "DAY_OF_MONTH"
                      /\ \/ DayOf(due') = Given(rule.dayOfMonth, DayOf(start))
                         \/ /\ due' + 1 = MonthStart[m + 1]
                            /\ DayOf(due') < Given(rule.dayOfMonth, DayOf(start))
                   \/ rule.mode = "LAST_DAY" /\ due' + 1 = MonthStart[m + 1]
                   \/ rule.mode = "NTH_WEEKDAY" /\ DayOf(due') \in NthByCount(m, rule.nthWeek, w)
                   \/ rule.mode = "NTH_WEEKDAY" /\ rule.nthWeek = 0
        <4>1. due' = NextDue(rule, start, due)
          BY <3>1
        <4>q. QED  BY <3>1, <3>2, <3>4, <3>5, <4>1, MonthlyDay, Zenon
      <3>8. InMonth'
        BY <3>1, <3>6, <3>7 DEF InMonth, m
      <3>9. MonthlyNoDrift'
        BY <3>1, <3>6, <3>7, Zenon DEF MonthlyNoDrift, m
      <3>q. QED  BY <3>8, <3>9
    <2>2. CASE UNCHANGED vars
      BY <2>2 DEF vars, InMonth, MonthlyNoDrift, Steady
    <2>q. QED  BY <2>1, <2>2 DEF Next
  <1>q. QED  BY <1>1, <1>2, Invariance, PTL DEF Spec

-----------------------------------------------------------------------------
(* Yearly series: no drift *)

\* The strengthening for a yearly series: run n + 1 is n intervals after the
\* year of the start, the first run included.
InYear ==
    Steady("YEARLY") =>
        MonthOf(due) \div 12 = MonthOf(start) \div 12 + (seq - 1) * rule.interval

\* A month of a year is of that year.
LEMMA YearOfMonth ==
    ASSUME NEW y \in Nat, NEW g \in 1..12
    PROVE  12 * y + g - 1 \in Nat /\ (12 * y + g - 1) \div 12 = y
  <1>1. 12 * y + g - 1 \in Nat /\ 12 * y <= 12 * y + g - 1 /\ 12 * y + g - 1 < 12 * y + 12
    OBVIOUS
  <1>q. QED  BY <1>1

\* A yearly run lands where YearlyNoDrift says.
LEMMA YearlyDay ==
    ASSUME NEW r \in RuleType, NEW s \in Days, NEW d \in Days,
           r.repeat = "YEARLY", ~r.skipWeekends, Room(r, d)
    PROVE  LET year == MonthOf(d) \div 12 + r.interval
               m    == 12 * year + Given(r.month, (MonthOf(s) % 12) + 1) - 1
               k    == Given(r.dayOfYear, DayOf(s))
               e    == NextDue(r, s, d)
           IN  /\ MonthOf(e) = m /\ MonthOf(e) \div 12 = year
               /\ DayOf(e) = k \/ (e + 1 = MonthStart[m + 1] /\ DayOf(e) < k)
  <1> DEFINE y == MonthOf(d) \div 12
             g == Given(r.month, (MonthOf(s) % 12) + 1)
             m == 12 * (y + r.interval) + g - 1
             k == Given(r.dayOfYear, DayOf(s))
             e == NextDue(r, s, d)
  <1>1. r.interval \in 1..365 /\ k \in 1..31 /\ g \in 1..12
    BY RuleRanges
  <1>2. e = Clamped(m, k)
    BY DEF NextDue, DateAfter, Finish, Yearly
  <1>3. MonthOf(d) \in Nat /\ Months \in Nat
    BY MonthOfDay, RecurrenceAssumption DEF CalendarAssumption
  <1>4. y \in Nat /\ 12 * y <= MonthOf(d) /\ MonthOf(d) < 12 * y + 12
    BY <1>3
  <1>5. MonthOf(d) + 12 * r.interval + 12 < Months
    BY DEF Room, InYears
  <1> HIDE DEF y, g, k, e
  <1>6. m \in Nat /\ m \div 12 = y + r.interval
    <2>1. y + r.interval \in Nat
      BY <1>1, <1>4
    <2>q. QED  BY <1>1, <2>1, YearOfMonth
  <1>7. m = 12 * y + 12 * r.interval + g - 1
    BY <1>1, <1>4
  <1> HIDE DEF m
  <1>8. MonthOf(d) < m /\ m + 1 < Months
    BY <1>1, <1>3, <1>4, <1>5, <1>6, <1>7, SMTT(30)
  <1>9. MonthOf(e) = m /\ DayOf(e) = Least(k, Length(m))
    BY <1>1, <1>2, <1>6, <1>8, LaterClamped
  <1>10. /\ MonthStart[m] \in Nat /\ MonthStart[m + 1] \in Nat /\ Length(m) \in 28..31
         /\ Length(m) = MonthStart[m + 1] - MonthStart[m]
    <2>1. m \in 0..Months - 1
      BY <1>3, <1>6, <1>8
    <2>q. QED  BY <2>1, MonthLengths28To31 DEF Length
  <1>11. k <= Length(m) => DayOf(e) = k
    BY <1>1, <1>9, <1>10 DEF Least
  <1>12. k > Length(m) => e + 1 = MonthStart[m + 1] /\ DayOf(e) < k
    BY <1>1, <1>2, <1>9, <1>10 DEF Least, Clamped, Date
  <1>13. DayOf(e) = k \/ (e + 1 = MonthStart[m + 1] /\ DayOf(e) < k)
    BY <1>1, <1>10, <1>11, <1>12
  <1>q. QED  BY <1>6, <1>9, <1>13 DEF m, k, e, y, g

\* Every yearly series, at every length: no drift.
THEOREM YearsDoNotDrift == Spec => [](InYear /\ YearlyNoDrift)
  <1>1. Init => InYear /\ YearlyNoDrift
    <2> SUFFICES ASSUME Init PROVE InYear /\ YearlyNoDrift
      OBVIOUS
    <2>1. start \in Days /\ rule \in RuleType /\ due = start /\ seq = 1
      BY RecurrenceAssumption DEF Init
    <2>2. MonthOf(start) \in Nat /\ rule.interval \in Nat
      BY <2>1, MonthOfDay DEF RuleType
    <2>3. MonthOf(start) \div 12 \in Nat
      BY <2>2
    <2>q. QED  BY <2>1, <2>2, <2>3 DEF InYear, YearlyNoDrift
  <1>2. IInv /\ InYear /\ YearlyNoDrift /\ [Next]_vars => InYear' /\ YearlyNoDrift'
    <2> SUFFICES ASSUME IInv, InYear, YearlyNoDrift, [Next]_vars
                 PROVE  InYear' /\ YearlyNoDrift'
      OBVIOUS
    <2>1. CASE Following
      <3>1. /\ due' = NextDue(rule, start, due) /\ seq' = seq + 1
            /\ rule' = rule /\ start' = start /\ Room(rule, due)
        BY <2>1 DEF Following
      <3>2. rule \in RuleType /\ start \in Days /\ due \in Days /\ seq \in Nat \ {0}
        BY RecurrenceAssumption DEF IInv, TypeOK
      <3>3. SUFFICES ASSUME Steady("YEARLY")
                     PROVE  InYear' /\ YearlyNoDrift'
        BY <3>1 DEF InYear, YearlyNoDrift, Steady
      <3>4. rule.repeat = "YEARLY" /\ ~rule.skipWeekends
        BY <3>3 DEF Steady
      <3> DEFINE y == MonthOf(start) \div 12 + seq * rule.interval
      <3>5. MonthOf(due) \div 12 + rule.interval = y
        <4>1. MonthOf(start) \in Nat /\ rule.interval \in Nat /\ seq \in Nat
          BY <3>2, MonthOfDay DEF RuleType
        <4>2. MonthOf(start) \div 12 \in Nat
          BY <4>1
        <4>3. MonthOf(due) \div 12 = MonthOf(start) \div 12 + (seq - 1) * rule.interval
          BY <3>3 DEF InYear
        <4>4. MonthOf(start) \div 12 + (seq - 1) * rule.interval + rule.interval = y
          BY <4>1, <4>2, OneIntervalMore
        <4>q. QED  BY <4>3, <4>4
      <3>6. seq' - 1 = seq
        BY <3>1, <3>2
      <3> HIDE DEF y
      <3>7. LET m == 12 * y + Given(rule.month, (MonthOf(start) % 12) + 1) - 1
                k == Given(rule.dayOfYear, DayOf(start))
            IN  /\ MonthOf(due') = m /\ MonthOf(due') \div 12 = y
                /\ DayOf(due') = k \/ (due' + 1 = MonthStart[m + 1] /\ DayOf(due') < k)
        BY <3>1, <3>2, <3>4, <3>5, YearlyDay, Zenon
      <3>8. InYear'
        BY <3>1, <3>6, <3>7 DEF InYear, y
      <3>9. YearlyNoDrift'
        BY <3>1, <3>6, <3>7, Zenon DEF YearlyNoDrift, y
      <3>q. QED  BY <3>8, <3>9
    <2>2. CASE UNCHANGED vars
      BY <2>2 DEF vars, InYear, YearlyNoDrift, Steady
    <2>q. QED  BY <2>1, <2>2 DEF Next
  <1>q. QED  BY <1>1, <1>2, Invariance, PTL DEF Spec

-----------------------------------------------------------------------------
(* Weekly series: complete *)

\* The days after s, up to d, on a chosen weekday of an active week.
FittingUpTo(r, s, d) == {x \in s + 1..d : Fits(r, s, x)}

\* The days WeeklyComplete counts, enumerated week by week, are these.
LEMMA ActiveDaysFit ==
    ASSUME NEW r \in RuleType, NEW s \in Nat, NEW d \in Nat, s <= d
    PROVE  LET active == {s + 7 * (k * r.interval) + j : k \in 0..(d - s) \div 7, j \in 0..6}
           IN  {x \in active : x > s /\ x <= d /\ Weekday(x) \in Chosen(r, s)} = FittingUpTo(r, s, d)
  <1> DEFINE n == r.interval
             active == {s + 7 * (k * n) + j : k \in 0..(d - s) \div 7, j \in 0..6}
  <1>1. n \in 1..365 /\ n \in Nat /\ n > 0
    BY DEF RuleType
  <1> HIDE DEF n
  <1>2. ASSUME NEW x \in active, x > s, x <= d, Weekday(x) \in Chosen(r, s)
        PROVE  x \in FittingUpTo(r, s, d)
    <2>1. PICK k \in 0..(d - s) \div 7, j \in 0..6 : x = s + 7 * (k * n) + j
      OBVIOUS
    <2> DEFINE q == k * n
    <2>2. k \in Nat
      OBVIOUS
    <2>3. q \in Nat /\ q = n * k
      BY <1>1, <2>2
    <2>4. x = s + 7 * q + j
      BY <2>1
    <2> HIDE DEF q
    <2>5. x \in Int /\ (x - s) \div 7 = q
      <3>1. j \in 0..6
        OBVIOUS
      <3> HIDE DEF active
      <3>2. x - s = 7 * q + j /\ x \in Int
        BY <2>3, <2>4, <3>1
      <3>3. (7 * q + j) \div 7 = q
        BY <2>3, <3>1
      <3>q. QED  BY <3>2, <3>3
    <2>6. q % n = 0
      BY <1>1, <2>2, <2>3, Division
    <2>7. x \in s + 1..d
      BY <1>2, <2>5
    <2>q. QED  BY <1>2, <2>5, <2>6, <2>7 DEF FittingUpTo, Fits, n
  <1>3. ASSUME NEW x \in FittingUpTo(r, s, d)
        PROVE  x \in active /\ x > s /\ x <= d /\ Weekday(x) \in Chosen(r, s)
    <2> DEFINE q == (x - s) \div 7
               k == q \div n
               j == x - s - 7 * q
    <2>1. /\ x \in Int /\ x > s /\ x <= d
          /\ Weekday(x) \in Chosen(r, s) /\ q % n = 0
      BY DEF FittingUpTo, Fits, n
    <2>2. q \in Nat /\ q <= (d - s) \div 7 /\ j \in 0..6 /\ x = s + 7 * q + j
      BY <2>1
    <2> HIDE DEF q, j
    <2>3. k \in Nat /\ q = n * k
      BY <1>1, <2>1, <2>2, Division
    <2> HIDE DEF k
    <2>4. k <= q
      <3>1. n * k >= k
        BY <1>1, <2>3
      <3>q. QED  BY <2>3, <3>1
    <2>5. k \in 0..(d - s) \div 7
      BY <2>2, <2>3, <2>4
    <2>6. x = s + 7 * (k * n) + j
      BY <1>1, <2>2, <2>3
    <2>q. QED  BY <2>1, <2>2, <2>5, <2>6
  <1> DEFINE on == {x \in active : x > s /\ x <= d /\ Weekday(x) \in Chosen(r, s)}
  <1>4. on = FittingUpTo(r, s, d)
    <2> HIDE DEF active
    <2>1. \A x \in on : x \in FittingUpTo(r, s, d)
      BY <1>2
    <2>2. \A x \in FittingUpTo(r, s, d) : x \in on
      BY <1>3
    <2>q. QED  BY <2>1, <2>2
  <1>q. QED  BY <1>4 DEF n

\* The strengthening for a weekly series: as many days fit as runs followed the
\* first, and the latest run is one of them.
WeeksCounted ==
    Steady("WEEKLY") =>
        /\ Cardinality(FittingUpTo(rule, start, due)) = seq - 1
        /\ seq > 1 => due \in FittingUpTo(rule, start, due)

\* The next run adds one fitting day, and no fitting day is passed over.
LEMMA OneMoreFits ==
    ASSUME NEW r \in RuleType, NEW s \in Nat, NEW d \in Nat, s <= d,
           NEW e \in Nat, e > d, Fits(r, s, e), \A x \in d + 1..e - 1 : ~Fits(r, s, x)
    PROVE  /\ e \in FittingUpTo(r, s, e)
           /\ Cardinality(FittingUpTo(r, s, e)) = Cardinality(FittingUpTo(r, s, d)) + 1
  <1>1. e \in FittingUpTo(r, s, e)
    BY DEF FittingUpTo
  <1>2. FittingUpTo(r, s, e) = FittingUpTo(r, s, d) \cup {e}
    <2>1. \A x \in FittingUpTo(r, s, e) : x \in FittingUpTo(r, s, d) \/ x = e
      BY DEF FittingUpTo
    <2>2. \A x \in FittingUpTo(r, s, d) : x \in FittingUpTo(r, s, e)
      BY DEF FittingUpTo
    <2>q. QED  BY <1>1, <2>1, <2>2
  <1>3. e \notin FittingUpTo(r, s, d)
    BY DEF FittingUpTo
  <1>4. IsFiniteSet(FittingUpTo(r, s, d))
    <2>1. IsFiniteSet(s + 1..d)
      BY FS_Interval
    <2>2. FittingUpTo(r, s, d) \in SUBSET (s + 1..d)
      BY DEF FittingUpTo
    <2>q. QED  BY <2>1, <2>2, FS_Subset
  <1>q. QED  BY <1>1, <1>2, <1>3, <1>4, FS_AddElement

\* Every weekly series, at every length: complete.
THEOREM WeeksAreComplete == Spec => [](WeeksCounted /\ WeeklyComplete)
  <1>1. Init => WeeksCounted
    <2> SUFFICES ASSUME Init PROVE WeeksCounted
      OBVIOUS
    <2>1. start \in Days /\ due = start /\ seq = 1
      BY RecurrenceAssumption DEF Init
    <2>2. start \in Nat
      BY <2>1, MonthOfDay
    <2>3. FittingUpTo(rule, start, due) = {}
      BY <2>1, <2>2 DEF FittingUpTo
    <2>q. QED  BY <2>1, <2>3, FS_EmptySet DEF WeeksCounted
  <1>2. IInv /\ WeeksCounted /\ [Next]_vars => WeeksCounted'
    <2> SUFFICES ASSUME IInv, WeeksCounted, [Next]_vars PROVE WeeksCounted'
      OBVIOUS
    <2>1. CASE Following
      <3>1. /\ due' = NextDue(rule, start, due) /\ seq' = seq + 1
            /\ rule' = rule /\ start' = start /\ Room(rule, due)
        BY <2>1 DEF Following
      <3>2. /\ rule \in RuleType /\ start \in Days /\ due \in Days /\ start <= due
            /\ seq \in Nat \ {0}
        BY RecurrenceAssumption DEF IInv, TypeOK
      <3>3. start \in Nat /\ due \in Nat
        BY <3>2, MonthOfDay
      <3>4. SUFFICES ASSUME Steady("WEEKLY")
                     PROVE  WeeksCounted'
        BY <3>1 DEF WeeksCounted, Steady
      <3>5. due' = Weekly(rule, start, due)
        BY <3>1, <3>4 DEF Steady, NextDue, DateAfter, Finish
      <3>6. /\ due' \in Nat /\ due' > due /\ Fits(rule, start, due')
            /\ \A x \in due + 1..due' - 1 : ~Fits(rule, start, x)
        <4>1. /\ Weekly(rule, start, due) \in due + 1..due + 7 * rule.interval + 6
              /\ Fits(rule, start, Weekly(rule, start, due))
              /\ \A x \in due + 1..Weekly(rule, start, due) - 1 : ~Fits(rule, start, x)
          BY <3>2, <3>3, WeeklyNeverFallsBack
        <4>2. due' \in due + 1..due + 7 * rule.interval + 6
          BY <3>5, <4>1
        <4>3. rule.interval \in Nat
          BY <3>2 DEF RuleType
        <4>q. QED  BY <3>3, <3>5, <4>1, <4>2, <4>3
      <3> DEFINE e == due'
      <3>7. /\ e \in FittingUpTo(rule, start, e)
            /\ Cardinality(FittingUpTo(rule, start, e))
                 = Cardinality(FittingUpTo(rule, start, due)) + 1
        <4>1. e \in Nat /\ e > due /\ Fits(rule, start, e)
              /\ \A x \in due + 1..e - 1 : ~Fits(rule, start, x)
          BY <3>6
        <4> HIDE DEF e
        <4>q. QED  BY <3>2, <3>3, <4>1, OneMoreFits
      <3>8. Cardinality(FittingUpTo(rule, start, e)) = seq'- 1
        <4>1. Cardinality(FittingUpTo(rule, start, due)) = seq - 1
          BY <3>4 DEF WeeksCounted
        <4>q. QED  BY <3>1, <3>2, <3>7, <4>1
      <3>q. QED  BY <3>1, <3>7, <3>8 DEF WeeksCounted
    <2>2. CASE UNCHANGED vars
      BY <2>2 DEF vars, WeeksCounted, Steady
    <2>q. QED  BY <2>1, <2>2 DEF Next
  <1>3. IInv /\ WeeksCounted => WeeklyComplete
    <2> SUFFICES ASSUME IInv, WeeksCounted, Steady("WEEKLY") PROVE WeeklyComplete
      BY DEF WeeklyComplete
    <2>1. rule \in RuleType /\ start \in Days /\ due \in Days /\ start <= due
      BY RecurrenceAssumption DEF IInv, TypeOK
    <2>2. start \in Nat /\ due \in Nat
      BY <2>1, MonthOfDay
    <2> DEFINE active == {start + 7 * (k * rule.interval) + j : k \in 0..(due - start) \div 7, j \in 0..6}
               on == {d \in active : d > start /\ d <= due /\ Weekday(d) \in Chosen(rule, start)}
    <2>3. on = FittingUpTo(rule, start, due)
      BY <2>1, <2>2, ActiveDaysFit
    <2> HIDE DEF on
    <2>4. Cardinality(on) = seq - 1 /\ (seq > 1 => due \in on)
      BY <2>3 DEF WeeksCounted
    <2>q. QED  BY <2>4 DEF WeeklyComplete, on
  <1>q. QED  BY <1>1, <1>2, <1>3, Invariance, PTL DEF Spec
=============================================================================
