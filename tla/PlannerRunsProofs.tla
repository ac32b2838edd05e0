------------------------- MODULE PlannerRunsProofs -------------------------
(* Proofs about PlannerRuns: what the planner keeps for any number of       *)
(* series, processes, days and rows.                                        *)
EXTENDS PlannerRuns, Integers, TLAPS

USE DEF Victim, DelLabels

-----------------------------------------------------------------------------
(* What every step keeps *)

StartKept == \A s \in Series : start[s] # None => start'[s] = start[s]

CoveredKept == \A s \in Series, n \in Nat : Covered(s, n) => Covered(s, n)'

\* A sequence number that got its row stays covered: a row that goes is
\* remembered in dropped, and a conversion ends with its run or a fault.
LEMMA CoveredStays ==
    ASSUME TypeOK, faults' \in Nat, faults' >= faults, dropped \subseteq dropped',
           \A o \in occ : \/ \E q \in occ' : q.tpl = o.tpl /\ q.seq = o.seq
                          \/ <<o.tpl, o.seq>> \in dropped',
           \A s \in Series : Attaching(s) => Attaching(s)' \/ Taken(s, 1)' \/ faults' > 0
    PROVE  CoveredKept
<1>1. SUFFICES ASSUME NEW s \in Series, NEW n \in Nat, Covered(s, n)
               PROVE  Covered(s, n)'
  BY DEF CoveredKept
<1>2. CASE Taken(s, n)
  BY <1>2 DEF Taken, Covered
<1>3. CASE <<s, n>> \in dropped
  BY <1>3 DEF Covered
<1>4. CASE n = 1 /\ (faults > 0 \/ Attaching(s))
  BY <1>4 DEF Covered, TypeOK
<1> QED BY <1>1, <1>2, <1>3, <1>4 DEF Covered

\* A copy of a series stays sound while starts and coverage are kept.
LEMMA SoundStays ==
    ASSUME StartKept, CoveredKept, NEW r \in TplRow, Sound(r)
    PROVE  Sound(r)'
<1>1. r.id \in Series /\ r.last \in Nat
  BY DEF TplRow
<1>2. Aligned(r)'
  BY <1>1 DEF Sound, Aligned, StartKept
<1>3. \A n \in 1..r.last : Covered(r.id, n)'
  BY <1>1 DEF Sound, CoveredKept
<1> QED BY <1>2, <1>3 DEF Sound

\* What a process remembers stays good.
LEMMA GoodStays ==
    ASSUME StartKept, CoveredKept, NEW l \in LocalRow, NEW label, Good(l, label)
    PROVE  Good(l, label)'
<1> DEFINE r == l.cur
<1>1. l.tpls \subseteq TplRow /\ r \in TplRow \cup {None}
  BY DEF LocalRow
<1>2. \A x \in l.tpls : Sound(x)'
  BY <1>1, SoundStays DEF Good
<1>3. ASSUME r # None PROVE Aligned(r)'
  BY <1>1, <1>3 DEF Good, Aligned, StartKept, TplRow
<1>4. ASSUME r # None, label # "atpl" PROVE \A n \in 1..r.last : Covered(r.id, n)'
  BY <1>1, <1>4 DEF Good, CoveredKept, TplRow
<1>5. ASSUME label = "advance" PROVE Covered(r.id, r.last + 1)'
  BY <1>1, <1>5 DEF Good, CoveredKept, TplRow, HoldsSeries
<1> QED BY <1>1, <1>2, <1>3, <1>4, <1>5 DEF Good

\* The tables stay sound when the rows of the series and runs are untouched.
LEMMA TablesStay ==
    ASSUME TypeOK, TablesOK, StartKept, CoveredKept, tpl' = tpl, occ' = occ
    PROVE  TablesOK'
<1>1. \A r \in tpl : r \in TplRow /\ Sound(r)'
  BY SoundStays DEF TypeOK, TablesOK
<1>2. \A o \in occ : start'[o.tpl] = start[o.tpl]
  BY DEF TypeOK, TablesOK, StartKept, OccRow
<1> QED BY <1>1, <1>2 DEF TablesOK, OnSchedule, UniqueKey

\* The empty database with nothing in progress satisfies the invariant.
THEOREM InitIInv == Init => IInv
<1> SUFFICES ASSUME Init PROVE IInv
  OBVIOUS
<1>1. TypeOK
  BY PlannerAssumption DEF Init, TypeOK, LocalRow, Fresh, Labels, BoundAssumption
<1>2. TablesOK
  BY DEF Init, TablesOK, OnSchedule, UniqueKey
<1>3. \A p \in Procs : Good(loc[p], pc[p])
  BY DEF Init, Good, Fresh, HoldsSeries
<1> QED BY <1>1, <1>2, <1>3 DEF IInv

-----------------------------------------------------------------------------
(* The shape of a step *)

\* A step of p that keeps starts and coverage, leaves sound tables and gives p
\* something good to remember keeps the invariant.
LEMMA ProcessStep ==
    ASSUME IInv, StartKept, CoveredKept, TablesOK',
           today' \in Nat, fresh' \in Nat, faults' \in Nat,
           tpl' \subseteq TplRow, occ' \subseteq OccRow, task' \subseteq TaskRow,
           start' \in [Series -> Days \cup {None}],
           NEW p \in Procs, NEW l \in LocalRow, NEW label \in Labels,
           pc' = [pc EXCEPT ![p] = label], loc' = [loc EXCEPT ![p] = l], Good(l, label)'
    PROVE  IInv'
<1>1. TypeOK'
  BY DEF IInv, TypeOK
<1>2. ASSUME NEW q \in Procs PROVE Good(loc[q], pc[q])'
  <2>1. CASE q = p
    <3> pc'[q] = label /\ loc'[q] = l
      BY <2>1 DEF IInv, TypeOK
    <3> QED BY SMTT(30) DEF Good, Sound, Aligned, Covered, Taken, Attaching
  <2>2. CASE q # p
    <3> pc'[q] = pc[q] /\ loc'[q] = loc[q] /\ loc[q] \in LocalRow /\ Good(loc[q], pc[q])
      BY <2>2 DEF IInv, TypeOK
    <3> Good(loc[q], pc[q])
      OBVIOUS
    <3> QED BY GoodStays, ZenonT(40) DEF Good
  <2> QED BY <2>1, <2>2
<1> QED BY <1>1, <1>2 DEF IInv

\* A step of p that leaves the series and the runs alone.
LEMMA LocalStep ==
    ASSUME IInv, NEW p \in Procs, NEW l \in LocalRow, NEW label \in Labels,
           pc' = [pc EXCEPT ![p] = label], loc' = [loc EXCEPT ![p] = l],
           tpl' = tpl, occ' = occ, start' = start, dropped' = dropped,
           today' \in Nat, fresh' \in Nat, task' \subseteq TaskRow,
           faults' \in Nat, faults' >= faults, pc[p] = "arun" => faults' > 0,
           Good(l, label)
    PROVE  IInv'
<1>1. StartKept
  BY DEF StartKept
<1>2. \A s \in Series : Attaching(s) => Attaching(s)' \/ faults' > 0
  BY DEF Attaching, IInv, TypeOK
<1>3. CoveredKept
  BY <1>2, CoveredStays DEF IInv
<1>4. TablesOK'
  BY <1>1, <1>3, TablesStay DEF IInv
<1>5. Good(l, label)'
  BY <1>1, <1>3, GoodStays
<1> QED BY <1>1, <1>3, <1>4, <1>5, ProcessStep DEF IInv, TypeOK

\* What the invariant says of one process and of the tables.
LEMMA LocalFacts ==
    ASSUME IInv, NEW p \in Procs
    PROVE  /\ loc[p] \in LocalRow /\ pc[p] \in Labels /\ Good(loc[p], pc[p])
           /\ loc = [loc EXCEPT ![p] = loc[p]] /\ pc = [pc EXCEPT ![p] = pc[p]]
           /\ tpl \subseteq TplRow /\ occ \subseteq OccRow /\ task \subseteq TaskRow
           /\ today \in Nat /\ fresh \in Nat /\ faults \in Nat
           /\ start \in [Series -> Days \cup {None}]
BY DEF IInv, TypeOK

\* Pausing or resuming a series leaves its cursor as sound as it was.
LEMMA PausedSound ==
    ASSUME IInv, NEW s, NEW b \in BOOLEAN, SetPaused(s, b)
    PROVE  tpl' \subseteq TplRow /\ \A r \in tpl' : Sound(r)
<1>1. ASSUME NEW q \in tpl PROVE q \in TplRow /\ Sound(q)
  BY DEF IInv, TypeOK, TablesOK
<1>2. ASSUME NEW q \in TplRow, Sound(q), NEW x, x = [q EXCEPT !.paused = b]
      PROVE  x \in TplRow /\ Sound(x)
  <2>1. x \in TplRow /\ x.id = q.id /\ x.last = q.last /\ x.next = q.next
    BY <1>2 DEF TplRow
  <2> QED BY <1>2, <2>1 DEF Sound, Aligned
<1>3. ASSUME NEW r \in tpl' PROVE r \in TplRow /\ Sound(r)
  <2>1. PICK q \in tpl : r = IF q.id = s THEN [q EXCEPT !.paused = b] ELSE q
    BY DEF SetPaused
  <2> QED BY <1>1, <1>2, <2>1
<1> QED BY <1>3

\* A schedule gives two runs two dates.
LEMMA DatesAreDistinct ==
    ASSUME NEW d \in Days, NEW j \in 1..MaxSeq + 1, NEW k \in 1..MaxSeq + 1,
           DueOf[d][j] = DueOf[d][k]
    PROVE  j = k
<1>1. MaxSeq \in Nat
  BY PlannerAssumption DEF BoundAssumption
<1>2. DueOf[d][j] \in Nat /\ DueOf[d][k] \in Nat
  BY PlannerAssumption DEF ScheduleAssumption
<1>3. j < k => DueOf[d][j] < DueOf[d][k]
  BY PlannerAssumption DEF ScheduleAssumption
<1>4. k < j => DueOf[d][k] < DueOf[d][j]
  BY PlannerAssumption DEF ScheduleAssumption
<1> QED BY <1>1, <1>2, <1>3, <1>4

\* A process that remembers nothing remembers something good.
LEMMA FreshGood ==
    /\ Fresh \in LocalRow
    /\ \A label : label \notin HoldsSeries => Good(Fresh, label)
BY DEF Fresh, LocalRow, Good, HoldsSeries

TablesKept == UNCHANGED <<today, tpl, occ, task, fresh, start, dropped, faults>>

\* A step that only moves p.
LEMMA PureStep ==
    ASSUME IInv, NEW p \in Procs, NEW l \in LocalRow, NEW label \in Labels,
           pc' = [pc EXCEPT ![p] = label], loc' = [loc EXCEPT ![p] = l],
           TablesKept, pc[p] # "arun", Good(l, label)
    PROVE  IInv'
<1>1. /\ tpl' = tpl /\ occ' = occ /\ start' = start /\ dropped' = dropped
      /\ today' \in Nat /\ fresh' \in Nat /\ task' \subseteq TaskRow
      /\ faults' \in Nat /\ faults' >= faults /\ (pc[p] = "arun" => faults' > 0)
  BY LocalFacts DEF TablesKept
<1> QED BY <1>1, LocalStep

\* A step of p on the rows of the series; every row left is sound.
LEMMA SeriesStep ==
    ASSUME IInv, NEW p \in Procs, NEW l \in LocalRow, NEW label \in Labels,
           pc' = [pc EXCEPT ![p] = label], loc' = [loc EXCEPT ![p] = l], pc[p] # "arun",
           UNCHANGED <<today, occ, task, fresh, start, dropped, faults>>,
           tpl' \subseteq TplRow, \A r \in tpl' : Sound(r), Good(l, label)
    PROVE  IInv'
<1>1. StartKept
  BY DEF StartKept
<1>2. \A s \in Series : Attaching(s) => Attaching(s)'
  BY DEF Attaching, IInv, TypeOK
<1>3. CoveredKept
  BY <1>2, LocalFacts, CoveredStays DEF IInv
<1>4. Good(l, label)'
  BY <1>1, <1>3, GoodStays
<1>5. \A r \in tpl' : Sound(r)'
  BY <1>1, <1>3, SoundStays
<1>6. TablesOK'
  BY <1>5 DEF IInv, TablesOK, OnSchedule, UniqueKey
<1> QED BY <1>1, <1>3, <1>4, <1>6, LocalFacts, ProcessStep

\* What the runs of a set have to satisfy.
RunsOK(rows) ==
    /\ \A o \in rows : /\ start[o.tpl] # None /\ o.seq \in 1..MaxSeq
                       /\ o.due = DueOf[start[o.tpl]][o.seq]
    /\ \A o, q \in rows : o.tpl = q.tpl /\ o.seq = q.seq => o = q

\* A step of p on the rows of the runs.
LEMMA RunsStep ==
    ASSUME IInv, NEW p \in Procs, \A q \in Procs \ {p} : pc'[q] = pc[q] /\ loc'[q] = loc[q],
           UNCHANGED <<tpl, start, faults>>, dropped \subseteq dropped',
           \A o \in occ : \/ \E q \in occ' : q.tpl = o.tpl /\ q.seq = o.seq
                          \/ <<o.tpl, o.seq>> \in dropped',
           pc[p] = "arun" => \E q \in occ' : q.tpl = loc[p].cur.id /\ q.seq = 1,
           RunsOK(occ')
    PROVE  StartKept /\ CoveredKept /\ TablesOK'
<1>1. StartKept
  BY DEF StartKept
<1>2. \A s \in Series : Attaching(s) => Attaching(s)' \/ Taken(s, 1)'
  <2>1. SUFFICES ASSUME NEW s \in Series, NEW q \in Procs, pc[q] = "arun", loc[q].cur.id = s
                 PROVE  Attaching(s)' \/ Taken(s, 1)'
    BY DEF Attaching
  <2>2. CASE q = p
    BY <2>1, <2>2 DEF Taken
  <2>3. CASE q # p
    BY <2>1, <2>3 DEF Attaching
  <2> QED BY <2>2, <2>3
<1>3. CoveredKept
  BY <1>2, LocalFacts, CoveredStays DEF IInv
<1>4. \A r \in tpl : r \in TplRow /\ Sound(r)'
  BY <1>1, <1>3, SoundStays, LocalFacts DEF IInv, TablesOK
<1>5. TablesOK'
  BY <1>4 DEF TablesOK, OnSchedule, UniqueKey, RunsOK
<1> QED BY <1>1, <1>3, <1>5

\* A step of p that writes cards only.
LEMMA CardStep ==
    ASSUME IInv, NEW p \in Procs, NEW l \in LocalRow, NEW label \in Labels,
           pc' = [pc EXCEPT ![p] = label], loc' = [loc EXCEPT ![p] = l], pc[p] # "arun",
           UNCHANGED <<today, tpl, occ, start, dropped, faults>>,
           fresh' \in Nat, task' \subseteq TaskRow, Good(l, label)
    PROVE  IInv'
<1>1. /\ tpl' = tpl /\ occ' = occ /\ start' = start /\ dropped' = dropped /\ today' \in Nat
      /\ faults' \in Nat /\ faults' >= faults /\ (pc[p] = "arun" => faults' > 0)
  BY LocalFacts
<1> QED BY <1>1, LocalStep

\* InsertCard and LinkCard leave cards in the table of cards.
LEMMA CardsTyped ==
    ASSUME IInv, NEW p \in Procs, NEW id, NEW s \in Series \cup {None}, NEW n \in Nat,
           s = None <=> n = 0
    PROVE  /\ LinkCard(id, s, n) => task' \subseteq TaskRow
           /\ InsertCard(p) => task' \subseteq TaskRow /\ fresh' \in Nat
<1>1. task \subseteq TaskRow /\ fresh \in Nat
  BY DEF IInv, TypeOK
<1>2. ASSUME NEW t \in task PROVE (IF t.id = id THEN [t EXCEPT !.tpl = s, !.seq = n] ELSE t) \in TaskRow
  BY <1>1 DEF TaskRow
<1>3. [id |-> fresh, tpl |-> None, seq |-> 0] \in TaskRow
  BY <1>1 DEF TaskRow
<1>4. LinkCard(id, s, n) => task' \subseteq TaskRow
  BY <1>2 DEF LinkCard
<1>5. InsertCard(p) => task' \subseteq TaskRow /\ fresh' \in Nat
  BY <1>1, <1>3 DEF InsertCard
<1> QED BY <1>4, <1>5

-----------------------------------------------------------------------------
(* Starting and generating *)

\* A generator starts with copies of rows of the table, which are sound.
LEMMA StartGenerationKeeps ==
    ASSUME IInv, NEW p \in Procs, StartCron(p) \/ StartSync(p)
    PROVE  IInv'
<1>1. PICK ret \in {"idle", "map"} : StartGeneration(p, ret)
  BY DEF StartCron, StartSync
<1> DEFINE l == [loc[p] EXCEPT !.day = today, !.tpls = DueTemplates, !.ret = ret]
<1>2. l \in LocalRow
  BY LocalFacts, ZenonT(40) DEF LocalRow, DueTemplates
<1>3. Good(l, "pick")
  <2>1. \A r \in DueTemplates : Sound(r)
    BY DEF IInv, TablesOK, DueTemplates
  <2>2. l.tpls = DueTemplates /\ l.cur = loc[p].cur
    BY LocalFacts DEF LocalRow
  <2> QED BY <1>1, <2>1, <2>2, LocalFacts DEF Good, HoldsSeries, StartGeneration
<1>4. /\ "pick" \in Labels /\ pc' = [pc EXCEPT ![p] = "pick"] /\ loc' = [loc EXCEPT ![p] = l]
      /\ TablesKept /\ pc[p] # "arun"
  BY <1>1 DEF StartGeneration, Goto, Remember, db, Labels, TablesKept
<1> HIDE DEF l
<1> QED BY <1>2, <1>3, <1>4, PureStep

\* The steps of a generator that only read keep what it knows of its series.
LEMMA GenerateLocalKeeps ==
    ASSUME IInv, NEW p \in Procs,
           \/ PickTemplate(p) \/ EndGeneration(p) \/ GenDone(p) \/ GenFindSeq(p)
           \/ GenFindDate(p) \/ GenRecordRefused(p)
    PROVE  IInv'
<1> USE LocalFacts
<1>1. ASSUME PickTemplate(p) PROVE IInv'
  <2>1. PICK r \in loc[p].tpls :
           loc' = [loc EXCEPT ![p] = [loc[p] EXCEPT !.tpls = loc[p].tpls \ {r}, !.cur = r]]
    BY <1>1 DEF PickTemplate, Remember
  <2> DEFINE l == [loc[p] EXCEPT !.tpls = loc[p].tpls \ {r}, !.cur = r]
  <2>2. l \in LocalRow /\ l.tpls \subseteq loc[p].tpls /\ l.cur = r /\ r # None
    <3>1. r \in TplRow /\ r # None
      BY RowAssumption DEF LocalRow
    <3>2. loc[p].tpls \ {r} \in SUBSET TplRow
      BY DEF LocalRow
    <3>3. PICK c \in LocalRow, ts \in SUBSET TplRow : c = loc[p] /\ ts = loc[p].tpls \ {r}
      BY <3>2
    <3>4. l = [c EXCEPT !.tpls = ts, !.cur = r]
      BY <3>3
    <3>5. l \in LocalRow /\ l.tpls = ts /\ l.cur = r
      BY ONLY <3>1, <3>4 DEF LocalRow
    <3> QED BY <3>1, <3>3, <3>5
  <2>3. Good(l, "check")
    BY <2>2 DEF Good, Sound, HoldsSeries
  <2>4. /\ "check" \in Labels /\ pc' = [pc EXCEPT ![p] = "check"] /\ TablesKept /\ pc[p] # "arun"
    BY <1>1 DEF PickTemplate, Goto, db, Labels, GenLabels, TablesKept
  <2> HIDE DEF l
  <2> QED BY <2>1, <2>2, <2>3, <2>4, PureStep DEF l
<1>2. ASSUME EndGeneration(p) PROVE IInv'
  <2>1. PICK label \in {"idle", "map", "cards", "pending", "dstpl"} :
           pc' = [pc EXCEPT ![p] = label] /\ loc' = [loc EXCEPT ![p] = Fresh]
    BY <1>2 DEF EndGeneration, Goto, Finish, Remember, LocalRow
  <2>2. label \in Labels /\ Good(Fresh, label)
    BY FreshGood DEF Labels, HoldsSeries
  <2>3. TablesKept /\ pc[p] # "arun"
    BY <1>2 DEF EndGeneration, db, TablesKept
  <2> QED BY <2>1, <2>2, <2>3, FreshGood, PureStep
<1>3. ASSUME GenDone(p) \/ GenRecordRefused(p) PROVE IInv'
  <2>1. PICK l \in {[loc[p] EXCEPT !.cur = None], [loc[p] EXCEPT !.cur = None, !.card = None]} :
           /\ "pick" \in Labels /\ pc' = [pc EXCEPT ![p] = "pick"] /\ loc' = [loc EXCEPT ![p] = l]
           /\ TablesKept /\ pc[p] # "arun"
    BY <1>3 DEF GenDone, GenRecordRefused, Goto, Remember, db, Labels, TablesKept
  <2>2. l \in LocalRow /\ l.tpls = loc[p].tpls /\ l.cur = None
    BY DEF LocalRow
  <2>3. Good(l, "pick")
    BY <2>2 DEF Good, HoldsSeries
  <2> QED BY <2>1, <2>2, <2>3, PureStep
<1>4. ASSUME GenFindSeq(p) PROVE IInv'
  <2> DEFINE label == IF Taken(loc[p].cur.id, loc[p].cur.last + 1) THEN "advance" ELSE "date"
  <2>1. /\ label \in Labels /\ pc' = [pc EXCEPT ![p] = label] /\ loc' = loc
        /\ TablesKept /\ pc[p] = "check"
    BY <1>4 DEF GenFindSeq, Goto, db, Labels, GenLabels, TablesKept
  <2>2. loc[p].cur.last < MaxSeq
    BY <1>4, PlannerAssumption DEF GenFindSeq, UpToDate, Good, HoldsSeries, LocalRow, TplRow, BoundAssumption
  <2>3. Good(loc[p], label)
    BY <2>1, <2>2 DEF Good, HoldsSeries, Covered
  <2> HIDE DEF label
  <2> QED BY <2>1, <2>3, PureStep
<1>5. ASSUME GenFindDate(p) PROVE IInv'
  <2> DEFINE r == loc[p].cur
             held == \E o \in occ : o.tpl = r.id /\ o.due = r.next /\ o.state # "SKIPPED"
             label == IF held THEN "advance" ELSE "create"
  <2>1. /\ label \in Labels /\ pc' = [pc EXCEPT ![p] = label] /\ loc' = loc
        /\ TablesKept /\ pc[p] = "date"
    BY <1>5 DEF GenFindDate, Goto, db, Labels, GenLabels, TablesKept
  <2>2. r \in TplRow /\ Aligned(r) /\ r.last < MaxSeq
    BY <2>1 DEF Good, HoldsSeries, LocalRow
  \* The schedule never repeats a date, so the run that holds it is run last + 1.
  <2>3. ASSUME held PROVE Taken(r.id, r.last + 1)
    <3>1. PICK o \in occ : o.tpl = r.id /\ o.due = r.next
      BY <2>3
    <3>2. /\ o \in OccRow /\ o.seq \in 1..MaxSeq /\ start[r.id] \in Days
          /\ DueOf[start[r.id]][o.seq] = DueOf[start[r.id]][r.last + 1]
      BY <2>2, <3>1 DEF IInv, TablesOK, OnSchedule, Aligned, TplRow
    <3>3. o.seq = r.last + 1
      <4>1. r.last + 1 \in 1..MaxSeq + 1 /\ o.seq \in 1..MaxSeq + 1
        BY <2>2, <3>2, PlannerAssumption DEF TplRow, BoundAssumption
      <4> QED BY <3>2, <4>1, DatesAreDistinct, Zenon
    <3> QED BY <3>1, <3>3 DEF Taken
  <2>4. Good(loc[p], label)
    BY <2>1, <2>2, <2>3 DEF Good, HoldsSeries, Covered
  <2> HIDE DEF label
  <2> QED BY <2>1, <2>4, PureStep
<1> QED BY <1>1, <1>2, <1>3, <1>4, <1>5

\* A generator that inserts or links a card touches no run and no series.
LEMMA GenerateCardKeeps ==
    ASSUME IInv, NEW p \in Procs, GenCreateCard(p) \/ GenLinkCard(p)
    PROVE  IInv'
<1> USE LocalFacts
<1>1. ASSUME GenCreateCard(p) PROVE IInv'
  <2> DEFINE l == [loc[p] EXCEPT !.card = fresh]
  <2>1. l \in LocalRow /\ l.tpls = loc[p].tpls /\ l.cur = loc[p].cur
    BY DEF LocalRow
  <2>2. /\ "link" \in Labels /\ pc' = [pc EXCEPT ![p] = "link"] /\ loc' = [loc EXCEPT ![p] = l]
        /\ UNCHANGED <<today, tpl, occ, start, dropped, faults>> /\ pc[p] = "create"
        /\ InsertCard(p)
    BY <1>1 DEF GenCreateCard, Goto, Remember, Labels, GenLabels
  <2>3. Good(l, "link")
    BY <2>1, <2>2 DEF Good, HoldsSeries
  <2> HIDE DEF l
  <2> QED BY <2>1, <2>2, <2>3, CardsTyped, CardStep
<1>2. ASSUME GenLinkCard(p) PROVE IInv'
  <2>1. /\ "record" \in Labels /\ pc' = [pc EXCEPT ![p] = "record"] /\ loc' = loc
        /\ UNCHANGED <<today, tpl, occ, fresh, start, dropped, faults>> /\ pc[p] = "link"
    BY <1>2 DEF GenLinkCard, Goto, Labels, GenLabels
  <2>2. Good(loc[p], "record")
    BY <2>1 DEF Good, HoldsSeries
  <2>3. loc[p].cur.id \in Series /\ loc[p].cur.last + 1 \in Nat \ {0} /\ None \notin Series
    BY <2>1, PlannerAssumption DEF Good, HoldsSeries, LocalRow, TplRow, SeriesAssumption
  <2>4. task' \subseteq TaskRow
    BY <1>2, <2>3, CardsTyped DEF GenLinkCard
  <2> QED BY <2>1, <2>2, <2>4, CardStep
<1> QED BY <1>1, <1>2

\* From the date of run last + 1 the rule leads to the date of run last + 2.
LEMMA NextOnSchedule ==
    ASSUME start \in [Series -> Days \cup {None}], NEW s \in Series, NEW k \in Nat,
           start[s] # None, k < MaxSeq
    PROVE  /\ DueOf[start[s]][k + 2] = NextDue[DueOf[start[s]][k + 1]]
           /\ DueOf[start[s]][k + 1] \in Nat /\ DueOf[start[s]][k + 2] \in Nat
<1>1. start[s] \in Days /\ k + 1 \in 1..MaxSeq /\ k + 2 \in 1..MaxSeq + 1 /\ (k + 1) + 1 = k + 2
      /\ k + 1 \in 1..MaxSeq + 1
  BY PlannerAssumption DEF BoundAssumption
<1>2. DueOf[start[s]][(k + 1) + 1] = NextDue[DueOf[start[s]][k + 1]]
  BY <1>1, PlannerAssumption DEF ScheduleAssumption
<1>3. DueOf[start[s]][k + 1] \in Nat /\ DueOf[start[s]][k + 2] \in Nat
  BY <1>1, PlannerAssumption DEF ScheduleAssumption
<1> QED BY <1>1, <1>2, <1>3

\* The cursor moves along the schedule; the run it passes is covered.
LEMMA AdvancedSound ==
    ASSUME start \in [Series -> Days \cup {None}], NEW c \in TplRow, NEW r, r = Advanced(c),
           Aligned(c), c.last < MaxSeq, \A n \in 1..c.last : Covered(c.id, n), Covered(c.id, c.last + 1)
    PROVE  r \in TplRow /\ r.id = c.id /\ Sound(r)
<1>1. c.last \in Nat /\ c.gc \in Nat /\ c.id \in Series /\ MaxSeq \in Nat
  BY PlannerAssumption DEF TplRow, BoundAssumption
<1>2. DueOf[start[c.id]][c.last + 2] = NextDue[c.next] /\ NextDue[c.next] \in Nat
  BY <1>1, NextOnSchedule DEF Aligned
<1>3. r \in TplRow /\ r.id = c.id /\ r.last = c.last + 1 /\ r.next = NextDue[c.next]
  <2>1. PICK a \in Nat, b \in Nat, d \in Nat : a = c.last + 1 /\ b = c.gc + 1 /\ d = NextDue[c.next]
    BY <1>1, <1>2
  <2>2. r = [c EXCEPT !.last = a, !.gc = b, !.next = d]
    BY <2>1 DEF Advanced
  <2>3. r \in TplRow /\ r.id = c.id /\ r.last = a /\ r.next = d
    BY <2>2 DEF TplRow
  <2> QED BY <2>1, <2>3
<1>4. r.last + 1 = c.last + 2 /\ r.last <= MaxSeq
  BY <1>1, <1>3
<1>5. Aligned(r)
  BY <1>2, <1>3, <1>4 DEF Aligned
<1>6. \A n \in 1..r.last : n \in 1..c.last \/ n = c.last + 1
  BY <1>1, <1>3
<1>7. Sound(r)
  BY <1>3, <1>5, <1>6 DEF Sound
<1> QED BY <1>3, <1>7

\* Pausing a series, or writing a copy of its cursor back, leaves sound rows.
LEMMA GenerateSeriesKeeps ==
    ASSUME IInv, NEW p \in Procs, GenStop(p) \/ GenAdvance(p)
    PROVE  IInv'
<1> USE LocalFacts
<1>1. ASSUME GenStop(p) PROVE IInv'
  <2> DEFINE l == [loc[p] EXCEPT !.cur = None]
  <2>1. l \in LocalRow /\ l.tpls = loc[p].tpls /\ l.cur = None
    BY DEF LocalRow
  <2>2. /\ "pick" \in Labels /\ pc' = [pc EXCEPT ![p] = "pick"] /\ loc' = [loc EXCEPT ![p] = l]
        /\ UNCHANGED <<today, occ, task, fresh, start, dropped, faults>> /\ pc[p] # "arun"
    BY <1>1 DEF GenStop, Goto, Remember, Labels
  <2>3. Good(l, "pick")
    BY <2>1 DEF Good, HoldsSeries
  <2>4. tpl' \subseteq TplRow /\ \A r \in tpl' : Sound(r)
    BY <1>1, PausedSound DEF GenStop
  <2> HIDE DEF l
  <2> QED BY <2>1, <2>2, <2>3, <2>4, SeriesStep
<1>2. ASSUME GenAdvance(p) PROVE IInv'
  <2>1. PICK c \in {loc[p].cur}, r \in {Advanced(loc[p].cur)} : c = loc[p].cur /\ r = Advanced(c)
    OBVIOUS
  <2> DEFINE l == [loc[p] EXCEPT !.cur = r, !.card = None]
  <2>2. /\ "check" \in Labels /\ pc' = [pc EXCEPT ![p] = "check"] /\ loc' = [loc EXCEPT ![p] = l]
        /\ UNCHANGED <<today, occ, task, fresh, start, dropped, faults>> /\ pc[p] = "advance"
        /\ tpl' = {IF q.id = r.id THEN [q EXCEPT !.last = r.last, !.gc = r.gc, !.next = r.next]
                   ELSE q : q \in tpl}
    <3> HIDE LocalFacts
    <3> QED BY <1>2, <2>1 DEF GenAdvance, Goto, Remember, Labels, GenLabels
  <2>3. loc[p] \in LocalRow /\ Good(loc[p], "advance") /\ start \in [Series -> Days \cup {None}]
    BY <2>2
  <2>4. /\ c \in TplRow /\ Aligned(c) /\ c.last < MaxSeq
        /\ \A n \in 1..c.last : Covered(c.id, n)
        /\ Covered(c.id, c.last + 1)
    BY <2>1, <2>3 DEF Good, HoldsSeries, LocalRow
  <2> HIDE LocalFacts
  <2>5. r \in TplRow /\ r.id = c.id /\ Sound(r) /\ r # None
    BY <2>1, <2>3, <2>4, AdvancedSound, RowAssumption
  <2>6. l \in LocalRow /\ l.tpls = loc[p].tpls /\ l.cur = r
    BY <2>3, <2>5 DEF LocalRow
  <2>7. Good(l, "check")
    BY <2>3, <2>5, <2>6 DEF Good, HoldsSeries, Sound
  <2>8. ASSUME NEW q \in TplRow, Sound(q) PROVE
           LET x == IF q.id = r.id THEN [q EXCEPT !.last = r.last, !.gc = r.gc, !.next = r.next] ELSE q
           IN  x \in TplRow /\ Sound(x)
    <3>1. PICK a \in Nat, b \in Nat, d \in Nat : a = r.last /\ b = r.gc /\ d = r.next
      BY <2>5 DEF TplRow
    <3>2. PICK x \in {[q EXCEPT !.last = a, !.gc = b, !.next = d]} :
             x = [q EXCEPT !.last = a, !.gc = b, !.next = d]
      OBVIOUS
    <3>3. x \in TplRow /\ x.id = q.id /\ x.last = a /\ x.next = d
      BY <3>2 DEF TplRow
    <3>4. q.id = r.id => Sound(x)
      BY <2>5, <3>1, <3>3 DEF Sound, Aligned
    <3> QED BY <2>8, <3>1, <3>2, <3>3, <3>4
  <2>9. tpl' \subseteq TplRow /\ \A x \in tpl' : Sound(x)
    BY <2>2, <2>8, LocalFacts DEF IInv, TablesOK
  <2> HIDE DEF l
  <2> QED BY <2>2, <2>6, <2>7, <2>9, SeriesStep
<1> QED BY <1>1, <1>2

\* The new run has the date of its sequence number, and the number is free.
LEMMA InsertedRun ==
    ASSUME IInv, NEW o \in OccRow, ~Taken(o.tpl, o.seq), start[o.tpl] # None,
           o.seq \in 1..MaxSeq, o.due = DueOf[start[o.tpl]][o.seq]
    PROVE  RunsOK(occ \cup {o})
BY DEF IInv, TablesOK, OnSchedule, UniqueKey, RunsOK, Taken

\* A run that the unique key lets through is on the schedule, and then covered.
LEMMA GenRecordRunKeeps ==
    ASSUME IInv, NEW p \in Procs, GenRecordRun(p)
    PROVE  IInv'
<1>1. PICK l \in {loc[p]}, r \in {loc[p].cur} : l = loc[p] /\ r = l.cur
  OBVIOUS
<1> DEFINE o == [id |-> fresh, tpl |-> r.id, seq |-> r.last + 1, due |-> r.next,
                 state |-> "PENDING", task |-> l.card]
<1>2. /\ "advance" \in Labels /\ pc' = [pc EXCEPT ![p] = "advance"] /\ loc' = loc
      /\ UNCHANGED <<today, tpl, task, start, dropped, faults>> /\ pc[p] = "record"
      /\ occ' = occ \cup {o} /\ fresh' = fresh + 1 /\ ~Taken(r.id, r.last + 1)
  BY <1>1 DEF GenRecordRun, InsertRun, Goto, Labels, GenLabels
<1>3. l \in LocalRow /\ Good(l, "record") /\ loc' = [loc EXCEPT ![p] = l]
  BY <1>1, <1>2, LocalFacts
<1>4. r \in TplRow /\ Aligned(r) /\ r.last < MaxSeq /\ start[r.id] # None
  BY <1>1, <1>3 DEF Good, HoldsSeries, LocalRow, Aligned
<1>5. /\ tpl \subseteq TplRow /\ occ \subseteq OccRow /\ task \subseteq TaskRow
      /\ today \in Nat /\ fresh \in Nat /\ faults \in Nat /\ start \in [Series -> Days \cup {None}]
  BY LocalFacts
<1>6. o \in OccRow /\ o.tpl = r.id /\ o.seq = r.last + 1 /\ o.due = r.next
  BY <1>3, <1>4, <1>5 DEF OccRow, TplRow, LocalRow, RunStates
<1>7. o.seq \in 1..MaxSeq /\ o.due = DueOf[start[o.tpl]][o.seq]
  BY <1>4, <1>6, PlannerAssumption DEF Aligned, TplRow, BoundAssumption
<1> HIDE DEF o
<1>8. RunsOK(occ')
  BY <1>2, <1>4, <1>6, <1>7, InsertedRun
<1>9. \A q \in Procs \ {p} : pc'[q] = pc[q] /\ loc'[q] = loc[q]
  BY <1>2 DEF IInv, TypeOK
<1>10. StartKept /\ CoveredKept /\ TablesOK'
  BY <1>2, <1>8, <1>9, RunsStep
<1>11. Good(l, "record")'
  BY <1>3, <1>10, GoodStays
<1>12. o \in occ'
  BY <1>2
<1>13. Good(l, "advance")'
  BY <1>1, <1>6, <1>11, <1>12 DEF Good, HoldsSeries, Covered, Taken
<1>14. /\ today' \in Nat /\ fresh' \in Nat /\ faults' \in Nat /\ tpl' \subseteq TplRow
       /\ occ' \subseteq OccRow /\ task' \subseteq TaskRow /\ start' \in [Series -> Days \cup {None}]
  BY <1>2, <1>5, <1>6
<1> QED BY <1>2, <1>3, <1>10, <1>13, <1>14, ProcessStep

-----------------------------------------------------------------------------
(* Steps that only read, and steps on the runs *)

\* A process that holds no series, or a copy it has just read, remembers
\* something good at any label that needs no series.
LEMMA ReaderGood ==
    ASSUME IInv, NEW p \in Procs, NEW l \in LocalRow, NEW label, label \notin HoldsSeries,
           l.tpls \subseteq loc[p].tpls \cup tpl,
           \/ l.cur = None
           \/ l.cur \in tpl
           \/ l.cur = loc[p].cur /\ pc[p] # "atpl"
    PROVE  Good(l, label)
<1>1. \A r \in tpl : Sound(r)
  BY DEF IInv, TablesOK
<1>2. Good(loc[p], pc[p])
  BY LocalFacts
<1>3. \A r \in l.tpls : Sound(r)
  BY <1>1, <1>2 DEF Good
<1>4. l.cur # None => Aligned(l.cur) /\ \A n \in 1..l.cur.last : Covered(l.cur.id, n)
  BY <1>1, <1>2 DEF Good, Sound
<1> QED BY <1>3, <1>4 DEF Good, HoldsSeries

\* A step of p that ends its request and writes nothing.
LEMMA FinishKeeps ==
    ASSUME IInv, NEW p \in Procs, Finish(p), TablesKept, pc[p] # "arun"
    PROVE  IInv'
<1>1. "idle" \in Labels /\ Good(Fresh, "idle")
  BY FreshGood DEF Labels, HoldsSeries
<1>2. pc' = [pc EXCEPT ![p] = "idle"] /\ loc' = [loc EXCEPT ![p] = Fresh]
  BY DEF Finish, Goto, Remember
<1> QED BY <1>1, <1>2, FreshGood, PureStep

\* A step of p that changes or deletes runs and keeps them on the schedule.
LEMMA RunsKeep ==
    ASSUME IInv, NEW p \in Procs, NEW l \in LocalRow, NEW label \in Labels,
           pc' = [pc EXCEPT ![p] = label], loc' = [loc EXCEPT ![p] = l], pc[p] # "arun",
           UNCHANGED <<today, tpl, task, fresh, start, faults>>, dropped \subseteq dropped',
           \A o \in occ : \/ \E q \in occ' : q.tpl = o.tpl /\ q.seq = o.seq
                          \/ <<o.tpl, o.seq>> \in dropped',
           occ' \subseteq OccRow, RunsOK(occ'), Good(l, label)
    PROVE  IInv'
<1>1. \A q \in Procs \ {p} : pc'[q] = pc[q] /\ loc'[q] = loc[q]
  BY DEF IInv, TypeOK
<1>2. StartKept /\ CoveredKept /\ TablesOK'
  BY <1>1, RunsStep
<1>3. Good(l, label)'
  BY <1>2, GoodStays
<1>4. /\ today' \in Nat /\ fresh' \in Nat /\ faults' \in Nat /\ tpl' \subseteq TplRow
      /\ task' \subseteq TaskRow /\ start' \in [Series -> Days \cup {None}]
  BY LocalFacts
<1> QED BY <1>2, <1>3, <1>4, ProcessStep

\* The invariant says of the table of runs what RunsOK says.
LEMMA RunsOKNow == IInv => RunsOK(occ) /\ occ \subseteq OccRow
BY DEF IInv, TypeOK, TablesOK, OnSchedule, UniqueKey, RunsOK

\* Deleting runs leaves each one in the table or in the history.
LEMMA DeletedRuns ==
    ASSUME IInv, NEW rows, DeleteRuns(rows)
    PROVE  /\ RunsOK(occ') /\ occ' \subseteq OccRow /\ dropped \subseteq dropped'
           /\ \A o \in occ : \/ \E q \in occ' : q.tpl = o.tpl /\ q.seq = o.seq
                             \/ <<o.tpl, o.seq>> \in dropped'
<1>1. occ' = occ \ rows /\ dropped' = dropped \cup {<<o.tpl, o.seq>> : o \in rows}
  BY DEF DeleteRuns
<1>2. RunsOK(occ') /\ occ' \subseteq OccRow
  BY <1>1, RunsOKNow DEF RunsOK
<1> QED BY <1>1, <1>2

\* Relinking a run keeps its place on the schedule.
LEMMA RelinkedRuns ==
    ASSUME IInv, NEW id, NEW card \in Nat \cup {None}, SetRunTask(id, card)
    PROVE  /\ RunsOK(occ') /\ occ' \subseteq OccRow
           /\ \A o \in occ : \E q \in occ' : q.tpl = o.tpl /\ q.seq = o.seq
<1> DEFINE f(o) == IF o.id = id THEN [o EXCEPT !.task = card] ELSE o
<1>1. occ' = {f(o) : o \in occ}
  BY DEF SetRunTask
<1>2. ASSUME NEW o \in occ
      PROVE  f(o) \in OccRow /\ f(o).tpl = o.tpl /\ f(o).seq = o.seq /\ f(o).due = o.due
  BY RunsOKNow DEF OccRow
<1> HIDE DEF f
<1>3. RunsOK(occ')
  BY <1>1, <1>2, RunsOKNow DEF RunsOK
<1> QED BY <1>1, <1>2, <1>3

-----------------------------------------------------------------------------
(* The board sync *)

\* The reads of a sync leave it with sound copies.
LEMMA SyncReadKeeps ==
    ASSUME IInv, NEW p \in Procs,
           \/ SyncReadTemplates(p) \/ SyncReadOrphanRuns(p) \/ SyncReadOrphanCards(p)
           \/ SyncReadPending(p) \/ SyncReadCards(p)
    PROVE  IInv'
<1> DEFINE runs  == {[task |-> o.task, occ |-> o.id] : o \in {q \in occ : Unknown(p, q.tpl)}}
           cards == {[task |-> t.id, occ |-> None] : t \in {q \in task : Unknown(p, q.tpl)}}
           moved(l, label) ==
              /\ l \in LocalRow /\ l.tpls \subseteq loc[p].tpls \cup tpl /\ l.cur = loc[p].cur
              /\ label \in Labels \ HoldsSeries
              /\ pc' = [pc EXCEPT ![p] = label] /\ loc' = [loc EXCEPT ![p] = l]
<1>1. loc[p] \in LocalRow /\ tpl \subseteq TplRow /\ occ \subseteq OccRow /\ task \subseteq TaskRow
  BY LocalFacts
<1>2. runs \subseteq Victim /\ cards \subseteq Victim
  BY <1>1 DEF OccRow, TaskRow
<1>3. \E l, label : moved(l, label)
  <2>1. CASE SyncReadTemplates(p)
    <3>1. moved([loc[p] EXCEPT !.tpls = tpl], "orphans")
      BY <1>1, <2>1 DEF SyncReadTemplates, Goto, Remember, Labels, HoldsSeries, LocalRow
    <3> QED BY <3>1
  <2>2. CASE SyncReadOrphanRuns(p)
    <3>1. moved([loc[p] EXCEPT !.ret = "cards", !.doomed = runs], "purge")
      BY <1>1, <1>2, <2>2 DEF SyncReadOrphanRuns, Goto, Remember, Labels, HoldsSeries, LocalRow
    <3> QED BY <3>1
  <2>3. CASE SyncReadOrphanCards(p)
    <3>1. moved([loc[p] EXCEPT !.ret = "pending", !.doomed = cards], "purge")
      BY <1>1, <1>2, <2>3 DEF SyncReadOrphanCards, Goto, Remember, Labels, HoldsSeries, LocalRow
    <3> QED BY <3>1
  <2>4. CASE SyncReadPending(p)
    <3>1. moved([loc[p] EXCEPT !.rows = {o \in occ : o.state = "PENDING"}], "tasks")
      BY <1>1, <2>4 DEF SyncReadPending, Goto, Remember, Labels, HoldsSeries, LocalRow
    <3> QED BY <3>1
  <2>5. CASE SyncReadCards(p)
    <3>1. {t.id : t \in {q \in task : q.tpl # None}} \subseteq Nat
      BY <1>1 DEF TaskRow
    <3>2. moved([loc[p] EXCEPT !.seen = {t.id : t \in {q \in task : q.tpl # None}}], "each")
      BY <1>1, <2>5, <3>1 DEF SyncReadCards, Goto, Remember, Labels, HoldsSeries, LocalRow
    <3> QED BY <3>2
  <2> QED BY <2>1, <2>2, <2>3, <2>4, <2>5
<1>4. PICK l, label : moved(l, label)
  BY <1>3
<1>5. TablesKept /\ pc[p] # "arun" /\ pc[p] # "atpl"
  BY DEF SyncReadTemplates, SyncReadOrphanRuns, SyncReadOrphanCards, SyncReadPending,
         SyncReadCards, db, TablesKept
<1>6. Good(l, label)
  BY <1>4, <1>5, ReaderGood
<1> QED BY <1>4, <1>5, <1>6, PureStep

\* The series a repair may use are copies of this process or rows of now.
LEMMA ResolvedCopies ==
    ASSUME NEW p, NEW o
    PROVE  /\ Resolved(p, o) \subseteq loc[p].tpls \cup tpl
           /\ Active(Known(p, o)) \subseteq loc[p].tpls \cup tpl
BY DEF Resolved, Known, Active

\* Passing over a pending run, or starting its repair, keeps the runs in place.
LEMMA SyncEachKeeps ==
    ASSUME IInv, NEW p \in Procs, SyncSkipRun(p) \/ SyncRepairRun(p) \/ SyncEnd(p)
    PROVE  IInv'
<1>1. CASE SyncEnd(p)
  BY <1>1, FinishKeeps DEF SyncEnd, TablesKept, db
<1>2. CASE SyncSkipRun(p)
  <2>1. PICK o, l :
           /\ o \in NextRow(p)
           /\ l = [loc[p] EXCEPT !.rows = loc[p].rows \ {o},
                                 !.tpls = loc[p].tpls \cup Active(Known(p, o))]
           /\ loc' = [loc EXCEPT ![p] = l]
    BY <1>2 DEF SyncSkipRun, Remember
  <2>2. loc[p] \in LocalRow /\ tpl \subseteq TplRow
    BY LocalFacts
  <2>3. PICK more \in SUBSET TplRow : more = loc[p].tpls \cup Active(Known(p, o))
    BY <2>2, ResolvedCopies DEF LocalRow
  <2>4. l \in LocalRow /\ l.tpls = more /\ l.cur = loc[p].cur
    BY <2>1, <2>2, <2>3 DEF LocalRow
  <2>5. /\ pc[p] = "each" /\ "each" \in Labels \ HoldsSeries /\ pc' = [pc EXCEPT ![p] = "each"]
        /\ TablesKept
    BY <1>2, LocalFacts DEF SyncSkipRun, TablesKept, db, Labels, HoldsSeries
  <2>6. Good(l, "each")
    BY <2>3, <2>4, <2>5, ResolvedCopies, ReaderGood
  <2> QED BY <2>1, <2>4, <2>5, <2>6, PureStep
<1>3. CASE SyncRepairRun(p)
  <2>1. PICK o, r, l :
           /\ o \in NextRow(p)
           /\ r \in Resolved(p, o)
           /\ l = [loc[p] EXCEPT !.rows = loc[p].rows \ {o},
                                 !.tpls = loc[p].tpls \cup Active(Known(p, o)),
                                 !.cur = r, !.row = o]
           /\ loc' = [loc EXCEPT ![p] = l]
           /\ IF o.task = None THEN occ' = occ ELSE SetRunTask(o.id, None)
    BY <1>3 DEF SyncRepairRun, Remember
  <2>2. loc[p] \in LocalRow /\ tpl \subseteq TplRow /\ Good(loc[p], pc[p])
    BY LocalFacts
  <2>3. PICK more \in SUBSET TplRow : more = loc[p].tpls \cup Active(Known(p, o))
    BY <2>2, ResolvedCopies DEF LocalRow
  <2>4. r \in TplRow /\ o \in OccRow
    BY <2>1, <2>2, ResolvedCopies DEF LocalRow, NextRow
  <2>5. l \in LocalRow /\ l.tpls = more /\ l.cur = r /\ l.row = o
    BY <2>1, <2>2, <2>3, <2>4 DEF LocalRow
  <2>6. /\ "mcreate" \in Labels /\ pc[p] # "arun" /\ pc' = [pc EXCEPT ![p] = "mcreate"]
        /\ UNCHANGED <<today, tpl, task, fresh, start, dropped, faults>>
    BY <1>3 DEF SyncRepairRun, Goto, Labels, MatLabels
  <2>7. \A x \in loc[p].tpls \cup tpl : Sound(x)
    BY <2>2 DEF Good, IInv, TablesOK
  <2>8. r # None /\ o # None /\ Sound(r) /\ \A x \in more : Sound(x)
    BY <2>1, <2>3, <2>4, <2>7, ResolvedCopies, RowAssumption
  <2>9. Good(l, "mcreate")
    BY <2>5, <2>8 DEF Good, Sound
  <2>10. /\ RunsOK(occ') /\ occ' \subseteq OccRow
         /\ \A x \in occ : \E y \in occ' : y.tpl = x.tpl /\ y.seq = x.seq
    BY <2>1, RunsOKNow, RelinkedRuns
  <2> QED BY <2>1, <2>5, <2>6, <2>9, <2>10, RunsKeep
<1> QED BY <1>1, <1>2, <1>3

\* The card made for a pending run changes only the link of that run.
LEMMA MaterializeKeeps ==
    ASSUME IInv, NEW p \in Procs, MatCreateCard(p) \/ MatLinkCard(p) \/ MatRecord(p)
    PROVE  IInv'
<1>1. PICK c \in {loc[p]} : c = loc[p] /\ c \in LocalRow /\ Good(c, pc[p])
  BY LocalFacts
<1>2. fresh \in Nat
  BY LocalFacts
<1>3. CASE MatCreateCard(p)
  <2>1. PICK l \in {[c EXCEPT !.card = fresh]} : l = [c EXCEPT !.card = fresh]
    OBVIOUS
  <2>2. l \in LocalRow /\ l.tpls = c.tpls /\ l.cur = c.cur /\ l.row = c.row
    BY <1>1, <1>2, <2>1 DEF LocalRow
  <2>3. /\ "mlink" \in Labels /\ pc' = [pc EXCEPT ![p] = "mlink"] /\ loc' = [loc EXCEPT ![p] = l]
        /\ UNCHANGED <<today, tpl, occ, start, dropped, faults>> /\ pc[p] = "mcreate"
        /\ InsertCard(p)
    BY <1>1, <1>3, <2>1 DEF MatCreateCard, Goto, Remember, Labels, MatLabels
  <2>4. Good(l, "mlink")
    BY <1>1, <2>2, <2>3 DEF Good, HoldsSeries
  <2>5. fresh' \in Nat /\ task' \subseteq TaskRow
    BY <2>3, CardsTyped
  <2> QED BY <2>2, <2>3, <2>4, <2>5, CardStep
<1>4. CASE MatLinkCard(p)
  <2>1. /\ "mrecord" \in Labels /\ pc' = [pc EXCEPT ![p] = "mrecord"] /\ loc' = [loc EXCEPT ![p] = c]
        /\ UNCHANGED <<today, tpl, occ, fresh, start, dropped, faults>> /\ pc[p] = "mlink"
        /\ LinkCard(c.card, c.cur.id, c.row.seq)
    BY <1>1, <1>4, LocalFacts DEF MatLinkCard, Goto, Labels, MatLabels
  <2>2. Good(c, "mrecord")
    BY <1>1, <2>1 DEF Good, HoldsSeries
  <2>3. c.cur.id \in Series /\ c.row.seq \in Nat \ {0} /\ None \notin Series
    BY <1>1, <2>1, PlannerAssumption
    DEF Good, HoldsSeries, LocalRow, TplRow, OccRow, SeriesAssumption
  <2>4. task' \subseteq TaskRow
    BY <2>1, <2>3, CardsTyped
  <2> QED BY <1>1, <1>2, <2>1, <2>2, <2>4, CardStep
<1>5. CASE MatRecord(p)
  <2>1. PICK l \in {[c EXCEPT !.cur = None, !.row = None, !.card = None]} :
           l = [c EXCEPT !.cur = None, !.row = None, !.card = None]
    OBVIOUS
  <2>2. l \in LocalRow /\ l.tpls = c.tpls /\ l.cur = None
    BY <1>1, <2>1 DEF LocalRow
  <2>3. /\ "each" \in Labels \ HoldsSeries /\ pc' = [pc EXCEPT ![p] = "each"]
        /\ loc' = [loc EXCEPT ![p] = l] /\ pc[p] # "arun"
        /\ UNCHANGED <<today, tpl, task, fresh, start, dropped, faults>>
        /\ SetRunTask(c.row.id, c.card)
    BY <1>1, <1>5, <2>1 DEF MatRecord, Goto, Remember, Labels, HoldsSeries
  <2>4. Good(l, "each")
    BY <1>1, <2>2, <2>3, ReaderGood
  <2>5. c.card \in Nat \cup {None}
    BY <1>1 DEF LocalRow
  <2>6. /\ RunsOK(occ') /\ occ' \subseteq OccRow
        /\ \A x \in occ : \E y \in occ' : y.tpl = x.tpl /\ y.seq = x.seq
    BY <2>3, <2>5, RelinkedRuns
  <2> QED BY <2>2, <2>3, <2>4, <2>6, RunsKeep
<1> QED BY <1>3, <1>4, <1>5

-----------------------------------------------------------------------------
(* Deletions *)

\* A step of p that reads, moves on and keeps its copies of series.
LEMMA ReadKeeps ==
    ASSUME IInv, NEW p \in Procs, NEW l \in LocalRow, NEW label \in Labels \ HoldsSeries,
           l.tpls = loc[p].tpls, l.cur = loc[p].cur \/ l.cur \in tpl,
           pc' = [pc EXCEPT ![p] = label], loc' = [loc EXCEPT ![p] = l], TablesKept,
           pc[p] # "arun", pc[p] # "atpl"
    PROVE  IInv'
<1>1. Good(l, label)
  BY ReaderGood
<1> QED BY <1>1, PureStep

\* A deletion starts by reading what it will delete.
LEMMA StartDeletionKeeps ==
    ASSUME IInv, NEW p \in Procs, StartDeleteCard(p) \/ StartDeleteSeries(p) \/ SeriesReadCards(p)
    PROVE  IInv'
<1>1. /\ loc[p] \in LocalRow /\ tpl \subseteq TplRow /\ occ \subseteq OccRow
      /\ task \subseteq TaskRow
  BY LocalFacts
<1>2. CASE StartDeleteCard(p)
  <2>1. PICK t, l :
           /\ t \in task
           /\ l = [loc[p] EXCEPT !.victim = [task |-> t.id, occ |-> None]]
           /\ loc' = [loc EXCEPT ![p] = l]
           /\ pc' = [pc EXCEPT ![p] = IF t.tpl = None THEN "erase" ELSE "unhook"]
    BY <1>2 DEF StartDeleteCard, Goto, Remember
  <2>2. l \in LocalRow /\ l.tpls = loc[p].tpls /\ l.cur = loc[p].cur
    BY <1>1, <2>1 DEF LocalRow, TaskRow
  <2>3. /\ {"erase", "unhook"} \subseteq Labels \ HoldsSeries /\ TablesKept
        /\ pc[p] # "arun" /\ pc[p] # "atpl"
    BY <1>2 DEF StartDeleteCard, Labels, HoldsSeries, TablesKept, db
  <2> QED BY <2>1, <2>2, <2>3, ReadKeeps
<1>3. CASE StartDeleteSeries(p)
  <2>0. PICK r \in tpl :
           loc' = [loc EXCEPT ![p] = [loc[p] EXCEPT !.cur = r, !.ret = "dstpl",
                      !.doomed = {[task |-> o.task, occ |-> None] :
                                        o \in {q \in occ : q.tpl = r.id /\ q.task # None}}]]
    BY <1>3 DEF StartDeleteSeries, Remember
  <2>1. PICK l : /\ l = [loc[p] EXCEPT !.cur = r, !.ret = "dstpl",
                      !.doomed = {[task |-> o.task, occ |-> None] :
                                        o \in {q \in occ : q.tpl = r.id /\ q.task # None}}]
                 /\ loc' = [loc EXCEPT ![p] = l]
    BY <2>0
  <2>2. {[task |-> o.task, occ |-> None] : o \in {q \in occ : q.tpl = r.id /\ q.task # None}}
           \subseteq Victim
    BY <1>1 DEF OccRow
  <2>3. l \in LocalRow /\ l.tpls = loc[p].tpls /\ l.cur = r
    BY <1>1, <2>1, <2>2 DEF LocalRow
  <2>4. /\ "dscards" \in Labels \ HoldsSeries /\ TablesKept /\ pc' = [pc EXCEPT ![p] = "dscards"]
        /\ pc[p] # "arun" /\ pc[p] # "atpl"
    BY <1>3 DEF StartDeleteSeries, Goto, Labels, HoldsSeries, TablesKept, db
  <2> QED BY <2>1, <2>3, <2>4, ReadKeeps
<1>4. CASE SeriesReadCards(p)
  <2>1. PICK l : /\ l = [loc[p] EXCEPT !.doomed = loc[p].doomed \cup
                    {[task |-> t.id, occ |-> None] : t \in {q \in task : q.tpl = loc[p].cur.id}}]
                 /\ loc' = [loc EXCEPT ![p] = l]
    BY <1>4 DEF SeriesReadCards, Remember
  <2>2. loc[p].doomed \cup {[task |-> t.id, occ |-> None] : t \in {q \in task : q.tpl = loc[p].cur.id}}
           \subseteq Victim
    BY <1>1 DEF TaskRow, LocalRow
  <2>3. l \in LocalRow /\ l.tpls = loc[p].tpls /\ l.cur = loc[p].cur
    BY <1>1, <2>1, <2>2 DEF LocalRow
  <2>4. /\ "dsruns" \in Labels \ HoldsSeries /\ TablesKept /\ pc' = [pc EXCEPT ![p] = "dsruns"]
        /\ pc[p] # "arun" /\ pc[p] # "atpl"
    BY <1>4 DEF SeriesReadCards, Goto, Labels, HoldsSeries, TablesKept, db
  <2> QED BY <2>1, <2>3, <2>4, ReadKeeps
<1> QED BY <1>2, <1>3, <1>4

\* Taking the next victim, or ending a deletion, writes nothing.
LEMMA PurgeKeeps ==
    ASSUME IInv, NEW p \in Procs, PurgeNext(p) \/ PurgeEnd(p)
    PROVE  IInv'
<1>1. loc[p] \in LocalRow /\ loc = [loc EXCEPT ![p] = loc[p]]
  BY LocalFacts
<1>2. TablesKept /\ pc[p] # "arun" /\ pc[p] # "atpl"
  BY DEF PurgeNext, PurgeEnd, TablesKept, db
<1>3. CASE PurgeNext(p)
  <2> DEFINE card(v) == {t \in task : t.id = v.task}
             next(v) == IF \E t \in card(v) : t.tpl # None THEN "unhook"
                        ELSE IF card(v) # {} THEN "erase" ELSE "forget"
  <2>0. PICK v \in loc[p].doomed :
           /\ loc' = [loc EXCEPT ![p] = [loc[p] EXCEPT !.doomed = loc[p].doomed \ {v}, !.victim = v]]
           /\ pc' = [pc EXCEPT ![p] = next(v)]
    BY <1>3 DEF PurgeNext, Goto, Remember
  <2>1. PICK l, label : /\ l = [loc[p] EXCEPT !.doomed = loc[p].doomed \ {v}, !.victim = v]
                        /\ label = next(v)
                        /\ loc' = [loc EXCEPT ![p] = l] /\ pc' = [pc EXCEPT ![p] = label]
    BY <2>0
  <2>2. l \in LocalRow /\ l.tpls = loc[p].tpls /\ l.cur = loc[p].cur
    BY <1>1, <2>1 DEF LocalRow
  <2>3. label \in Labels \ HoldsSeries
    BY <2>1 DEF Labels, HoldsSeries
  <2> QED BY <1>2, <2>1, <2>2, <2>3, ReadKeeps
<1>4. CASE PurgeEnd(p)
  <2>1. PICK label \in {"idle", "map", "cards", "pending", "dstpl"} :
           pc' = [pc EXCEPT ![p] = label] /\ loc' = loc
    BY <1>1, <1>4 DEF PurgeEnd, Goto, LocalRow
  <2>2. label \in Labels \ HoldsSeries
    BY DEF Labels, HoldsSeries
  <2> QED BY <1>1, <1>2, <2>1, <2>2, ReadKeeps
<1> QED BY <1>3, <1>4

\* A request that looks up a run, a card or a series writes nothing.
LEMMA LookupKeeps ==
    ASSUME IInv, NEW p \in Procs,
           Unhook(p) \/ StartDetach(p) \/ StartDuplicate(p) \/ StartStatus(p)
    PROVE  IInv'
<1>1. /\ loc[p] \in LocalRow /\ loc = [loc EXCEPT ![p] = loc[p]]
      /\ tpl \subseteq TplRow /\ occ \subseteq OccRow /\ task \subseteq TaskRow
  BY LocalFacts
<1>2. TablesKept /\ pc[p] # "arun" /\ pc[p] # "atpl"
  BY DEF Unhook, StartDetach, StartDuplicate, StartStatus, TablesKept, db
<1>3. PICK l, label :
         /\ l \in LocalRow /\ label \in Labels \ HoldsSeries
         /\ l.tpls = loc[p].tpls /\ (l.cur = loc[p].cur \/ l.cur \in tpl)
         /\ pc' = [pc EXCEPT ![p] = label] /\ loc' = [loc EXCEPT ![p] = l]
  <2>1. CASE Unhook(p)
    <3>1. CASE loc' = loc /\ Goto(p, "erase")
      BY <1>1, <3>1 DEF Goto, Labels, HoldsSeries
    <3>2. CASE Goto(p, "drop") /\ \E o \in occ : Remember(p, [loc[p] EXCEPT !.row = o])
      BY <1>1, <3>2 DEF Goto, Remember, Labels, HoldsSeries, LocalRow
    <3> QED BY <2>1, <3>1, <3>2 DEF Unhook
  <2>2. CASE StartDetach(p)
    <3>1. PICK t \in task :
             \/ Remember(p, [loc[p] EXCEPT !.card = t.id]) /\ Goto(p, "dunlink")
             \/ /\ \E r \in tpl : Remember(p, [loc[p] EXCEPT !.card = t.id, !.cur = r])
                /\ Goto(p, "dpause")
      BY <2>2 DEF StartDetach
    <3>2. t.id \in Nat
      BY <1>1 DEF TaskRow
    <3>3. CASE Remember(p, [loc[p] EXCEPT !.card = t.id]) /\ Goto(p, "dunlink")
      BY <1>1, <3>2, <3>3 DEF Goto, Remember, Labels, HoldsSeries, LocalRow
    <3>4. CASE /\ \E r \in tpl : Remember(p, [loc[p] EXCEPT !.card = t.id, !.cur = r])
               /\ Goto(p, "dpause")
      BY <1>1, <3>2, <3>4 DEF Goto, Remember, Labels, HoldsSeries, LocalRow
    <3> QED BY <3>1, <3>3, <3>4
  <2>3. CASE StartDuplicate(p)
    BY <1>1, <2>3 DEF StartDuplicate, Goto, Remember, Labels, HoldsSeries, LocalRow
  <2>4. CASE StartStatus(p)
    BY <1>1, <2>4 DEF StartStatus, Goto, Remember, Labels, HoldsSeries, LocalRow
  <2> QED BY <2>1, <2>2, <2>3, <2>4
<1> QED BY <1>2, <1>3, ReadKeeps

\* A run that is deleted stays remembered as dropped.
LEMMA DeleteRunsKeeps ==
    ASSUME IInv, NEW p \in Procs, Drop(p) \/ Forget(p) \/ SeriesDropRuns(p)
    PROVE  IInv'
<1>1. loc[p] \in LocalRow /\ loc = [loc EXCEPT ![p] = loc[p]]
  BY LocalFacts
<1>2. /\ pc[p] # "arun" /\ pc[p] # "atpl"
      /\ UNCHANGED <<today, tpl, task, fresh, start, faults>>
  BY DEF Drop, Forget, SeriesDropRuns
<1>3. PICK rows : DeleteRuns(rows) \/ UNCHANGED <<occ, dropped>>
  BY DEF Drop, Forget, SeriesDropRuns
<1>4. /\ RunsOK(occ') /\ occ' \subseteq OccRow /\ dropped \subseteq dropped'
      /\ \A o \in occ : \/ \E q \in occ' : q.tpl = o.tpl /\ q.seq = o.seq
                        \/ <<o.tpl, o.seq>> \in dropped'
  BY <1>3, DeletedRuns, RunsOKNow
<1>5. PICK l, label :
         /\ l \in LocalRow /\ l.tpls = loc[p].tpls /\ l.cur = loc[p].cur
         /\ label \in Labels \ HoldsSeries
         /\ pc' = [pc EXCEPT ![p] = label] /\ loc' = [loc EXCEPT ![p] = l]
  <2>1. CASE Drop(p)
    BY <1>1, <2>1 DEF Drop, Goto, Remember, Labels, HoldsSeries, LocalRow
  <2>2. CASE Forget(p)
    BY <1>1, <2>2 DEF Forget, Goto, Remember, Labels, HoldsSeries, LocalRow
  <2>3. CASE SeriesDropRuns(p)
    BY <1>1, <2>3 DEF SeriesDropRuns, Goto, Labels, HoldsSeries
  <2> QED BY <2>1, <2>2, <2>3
<1>6. Good(l, label)
  BY <1>2, <1>5, ReaderGood
<1> QED BY <1>2, <1>4, <1>5, <1>6, RunsKeep

\* Deleting cards touches no run and no series.
LEMMA EraseKeeps ==
    ASSUME IInv, NEW p \in Procs, Erase(p)
    PROVE  IInv'
<1>1. /\ pc[p] = "erase" /\ UNCHANGED <<today, tpl, occ, fresh, start, dropped, faults>>
      /\ task' \subseteq task
  BY DEF Erase
<1>2. PICK l, label : /\ l \in {loc[p], Fresh} /\ label \in {"forget", "idle"}
                      /\ pc' = [pc EXCEPT ![p] = label] /\ loc' = [loc EXCEPT ![p] = l]
  BY LocalFacts DEF Erase, Finish, Goto, Remember
<1>3. label \in Labels \ HoldsSeries
  BY <1>2 DEF Labels, HoldsSeries
<1>4. l \in LocalRow /\ Good(l, label)
  BY <1>1, <1>2, <1>3, FreshGood, LocalFacts, ReaderGood
<1>5. fresh' \in Nat /\ task' \subseteq TaskRow
  BY <1>1, LocalFacts
<1> QED BY <1>1, <1>2, <1>3, <1>4, <1>5, CardStep

\* A table of series with a row less is sound.
LEMMA SeriesDropTemplateKeeps ==
    ASSUME IInv, NEW p \in Procs, SeriesDropTemplate(p)
    PROVE  IInv'
<1>1. /\ pc' = [pc EXCEPT ![p] = "idle"] /\ loc' = [loc EXCEPT ![p] = Fresh] /\ pc[p] # "arun"
      /\ UNCHANGED <<today, occ, task, fresh, start, dropped, faults>> /\ tpl' \subseteq tpl
  BY DEF SeriesDropTemplate, Finish, Goto, Remember
<1>2. tpl' \subseteq TplRow /\ \A r \in tpl' : Sound(r)
  BY <1>1, LocalFacts DEF IInv, TablesOK
<1>3. "idle" \in Labels /\ Good(Fresh, "idle") /\ Fresh \in LocalRow
  BY FreshGood DEF Labels, HoldsSeries
<1> QED BY <1>1, <1>2, <1>3, SeriesStep

-----------------------------------------------------------------------------
(* Skipping dates *)

\* A skip starts on a copy of a sound row.
LEMMA StartSkipKeeps ==
    ASSUME IInv, NEW p \in Procs, StartSkip(p)
    PROVE  IInv'
<1>1. PICK r, n, l :
         /\ r \in tpl /\ n \in 1..MaxSkip
         /\ l = [loc[p] EXCEPT !.cur = r, !.left = n] /\ r.last + n <= MaxSeq
         /\ loc' = [loc EXCEPT ![p] = l]
  BY DEF StartSkip, Remember
<1>2. /\ loc[p] \in LocalRow /\ Good(loc[p], pc[p]) /\ r \in TplRow /\ Sound(r) /\ r # None
      /\ n \in Nat \ {0}
  BY <1>1, LocalFacts, RowAssumption, PlannerAssumption DEF IInv, TablesOK, BoundAssumption
<1>3. l \in LocalRow /\ l.tpls = loc[p].tpls /\ l.cur = r /\ l.left = n
  BY <1>1, <1>2 DEF LocalRow
<1>4. Good(l, "skip")
  BY <1>1, <1>2, <1>3 DEF Good, Sound
<1>5. /\ "skip" \in Labels /\ pc' = [pc EXCEPT ![p] = "skip"] /\ TablesKept /\ pc[p] # "arun"
  BY DEF StartSkip, Goto, Labels, TablesKept, db
<1> QED BY <1>1, <1>3, <1>4, <1>5, PureStep

\* A date that is skipped gets a row, so the copy of the cursor that passes it is sound.
LEMMA SkipInsertKeeps ==
    ASSUME IInv, NEW p \in Procs, SkipInsert(p)
    PROVE  IInv'
<1>1. PICK c \in {loc[p]}, r \in {loc[p].cur} : c = loc[p] /\ r = c.cur
  OBVIOUS
<1>2. /\ tpl \subseteq TplRow /\ occ \subseteq OccRow /\ task \subseteq TaskRow
      /\ today \in Nat /\ fresh \in Nat /\ faults \in Nat /\ start \in [Series -> Days \cup {None}]
  BY LocalFacts
<1>3. PICK o, x, l, label :
         /\ o = [id |-> fresh, tpl |-> r.id, seq |-> r.last + 1, due |-> r.next,
                 state |-> "SKIPPED", task |-> None]
         /\ x = [r EXCEPT !.last = r.last + 1, !.next = NextDue[r.next]]
         /\ l = [c EXCEPT !.left = c.left - 1, !.cur = x]
         /\ label = IF c.left = 1 THEN "skipsave" ELSE "skip"
         /\ occ' = occ \cup {o} /\ loc' = [loc EXCEPT ![p] = l] /\ pc' = [pc EXCEPT ![p] = label]
  BY <1>1 DEF SkipInsert, InsertRun, Goto, Remember
<1>4. /\ UNCHANGED <<today, tpl, task, start, dropped, faults>> /\ pc[p] = "skip"
      /\ fresh' = fresh + 1 /\ ~Taken(r.id, r.last + 1)
  BY <1>1 DEF SkipInsert, InsertRun
<1>5. c \in LocalRow /\ Good(c, "skip")
  BY <1>1, <1>4, LocalFacts
<1>6. /\ r \in TplRow /\ Aligned(r) /\ start[r.id] # None /\ r.id \in Series /\ r.last \in Nat
      /\ c.left \in Nat \ {0} /\ r.last + c.left <= MaxSeq /\ MaxSeq \in Nat
  BY <1>1, <1>5, PlannerAssumption DEF Good, HoldsSeries, LocalRow, TplRow, Aligned, BoundAssumption
<1>7. /\ r.last < MaxSeq /\ DueOf[start[r.id]][r.last + 2] = NextDue[r.next]
      /\ NextDue[r.next] \in Nat /\ r.next \in Nat
  BY <1>2, <1>6, NextOnSchedule DEF Aligned
<1>8. /\ o \in OccRow /\ o.tpl = r.id /\ o.seq = r.last + 1 /\ o.due = r.next /\ o.seq \in 1..MaxSeq
      /\ o.due = DueOf[start[o.tpl]][o.seq]
  <2>1. PICK n \in Nat : n = r.last + 1
    BY <1>6
  <2>2. n \in 1..MaxSeq /\ r.next = DueOf[start[r.id]][n]
    BY <1>6, <1>7, <2>1 DEF Aligned
  <2>3. PICK d \in Nat, k \in Nat : d = r.next /\ k = fresh
    BY <1>2, <1>7
  <2>7. n \in Nat \ {0}
    BY <1>6, <2>1
  <2>4. o = [id |-> k, tpl |-> r.id, seq |-> n, due |-> d, state |-> "SKIPPED", task |-> None]
    BY <1>3, <2>1, <2>3
  <2>5. o \in OccRow
    BY <1>6, <2>4, <2>7 DEF OccRow, RunStates
  <2>6. o.tpl = r.id /\ o.seq = n /\ o.due = d
    BY <2>4
  <2> QED BY <2>1, <2>2, <2>3, <2>5, <2>6
<1>9. x \in TplRow /\ x.id = r.id /\ x.last = r.last + 1 /\ x.next = NextDue[r.next]
  <2>1. PICK a \in Nat, d \in Nat : a = r.last + 1 /\ d = NextDue[r.next]
    BY <1>6, <1>7
  <2>2. x = [r EXCEPT !.last = a, !.next = d]
    BY <1>3, <2>1
  <2>3. x \in TplRow /\ x.id = r.id /\ x.last = a /\ x.next = d
    BY <1>6, <2>2 DEF TplRow
  <2> QED BY <2>1, <2>3
<1>10. l \in LocalRow /\ l.tpls = c.tpls /\ l.cur = x /\ l.left = c.left - 1
  <2>1. PICK k \in Nat : k = c.left - 1
    BY <1>6
  <2>2. l = [c EXCEPT !.left = k, !.cur = x]
    BY <1>3, <2>1
  <2> QED BY <1>5, <1>9, <2>1, <2>2 DEF LocalRow
<1>11. RunsOK(occ')
  BY <1>3, <1>4, <1>6, <1>8, InsertedRun
<1>12. \A q \in Procs \ {p} : pc'[q] = pc[q] /\ loc'[q] = loc[q]
  BY <1>3 DEF IInv, TypeOK
<1>13. StartKept /\ CoveredKept /\ TablesOK'
  BY <1>3, <1>4, <1>11, <1>12, RunsStep
<1>14. Good(c, "skip")'
  BY <1>5, <1>13, GoodStays
<1>15. Aligned(x)' /\ x # None
  <2>1. x.last <= MaxSeq /\ x.last + 1 = r.last + 2
    BY <1>6, <1>7, <1>9
  <2> QED BY <1>4, <1>6, <1>7, <1>9, <2>1, RowAssumption DEF Aligned
<1>16. \A n \in 1..x.last : Covered(x.id, n)'
  <2>1. \A n \in 1..r.last : Covered(r.id, n)'
    BY <1>1, <1>6, <1>14, RowAssumption DEF Good
  <2>2. Covered(r.id, r.last + 1)'
    BY <1>3, <1>8 DEF Covered, Taken
  <2>3. \A n \in 1..x.last : n \in 1..r.last \/ n = r.last + 1
    BY <1>6, <1>9
  <2> QED BY <1>9, <2>1, <2>2, <2>3
<1>17. label \in {"skip", "skipsave"} /\ label \in Labels
  BY <1>3 DEF Labels
<1>18. label = "skip" => l.left \in Nat \ {0} /\ l.cur.last + l.left <= MaxSeq
  <2>1. label = "skip" => c.left # 1
    BY <1>3
  <2> QED BY <1>6, <1>9, <1>10, <2>1
<1>19. Good(l, label)'
  BY <1>10, <1>14, <1>15, <1>16, <1>17, <1>18 DEF Good
<1>20. /\ today' \in Nat /\ fresh' \in Nat /\ faults' \in Nat /\ tpl' \subseteq TplRow
       /\ occ' \subseteq OccRow /\ task' \subseteq TaskRow /\ start' \in [Series -> Days \cup {None}]
  <2>1. fresh' \in Nat
    BY <1>2, <1>4
  <2>2. occ' \subseteq OccRow
    BY <1>2, <1>3, <1>8
  <2> QED BY <1>2, <1>4, <2>1, <2>2
<1> QED BY <1>3, <1>10, <1>13, <1>17, <1>19, <1>20, ProcessStep

\* The cursor that a skip writes back stands where its rows end.
LEMMA SkipEndKeeps ==
    ASSUME IInv, NEW p \in Procs, SkipRefused(p) \/ SkipSave(p)
    PROVE  IInv'
<1>1. CASE SkipRefused(p)
  BY <1>1, FinishKeeps DEF SkipRefused, TablesKept, db
<1>2. CASE SkipSave(p)
  <2>1. PICK r \in {loc[p].cur} : r = loc[p].cur
    OBVIOUS
  <2>2. /\ pc' = [pc EXCEPT ![p] = "idle"] /\ loc' = [loc EXCEPT ![p] = Fresh]
        /\ pc[p] = "skipsave" /\ UNCHANGED <<today, occ, task, fresh, start, dropped, faults>>
        /\ tpl' = {IF q.id = r.id THEN [q EXCEPT !.last = r.last, !.next = r.next] ELSE q : q \in tpl}
    BY <1>2, <2>1, ZenonT(40) DEF SkipSave, Finish, Goto, Remember
  <2>3. r \in TplRow /\ Sound(r)
    BY <2>1, <2>2, LocalFacts DEF Good, HoldsSeries, LocalRow, Sound
  <2>4. ASSUME NEW q \in TplRow, Sound(q) PROVE
           LET x == IF q.id = r.id THEN [q EXCEPT !.last = r.last, !.next = r.next] ELSE q
           IN  x \in TplRow /\ Sound(x)
    <3>1. PICK a \in Nat, d \in Nat : a = r.last /\ d = r.next
      BY <2>3 DEF TplRow
    <3>2. PICK x \in {[q EXCEPT !.last = a, !.next = d]} : x = [q EXCEPT !.last = a, !.next = d]
      OBVIOUS
    <3>3. x \in TplRow /\ x.id = q.id /\ x.last = a /\ x.next = d
      BY <3>2 DEF TplRow
    <3>4. q.id = r.id => Sound(x)
      BY <2>3, <3>1, <3>3 DEF Sound, Aligned
    <3> QED BY <2>4, <3>1, <3>2, <3>3, <3>4
  <2>5. tpl' \subseteq TplRow /\ \A x \in tpl' : Sound(x)
    BY <2>2, <2>4, LocalFacts DEF IInv, TablesOK
  <2>6. "idle" \in Labels /\ Good(Fresh, "idle") /\ Fresh \in LocalRow
    BY FreshGood DEF Labels, HoldsSeries
  <2> QED BY <2>2, <2>5, <2>6, SeriesStep
<1> QED BY <1>1, <1>2

-----------------------------------------------------------------------------
(* Cards and series *)

\* What a conversion reads and remembers when it starts.
LEMMA StartAttachPicks ==
    ASSUME NEW p \in Procs, StartAttach(p)
    PROVE  \E s \in Unborn, d \in Days : \E r, l :
           /\ r = NewSeries(s, 1, NextDue[d]) /\ start' = [start EXCEPT ![s] = d]
           /\ loc' = [loc EXCEPT ![p] = l]
           /\ \/ l = [loc[p] EXCEPT !.cur = r, !.card = fresh] /\ InsertCard(p)
              \/ /\ \E t \in task : l = [loc[p] EXCEPT !.cur = r, !.card = t.id]
                 /\ UNCHANGED <<task, fresh>>
<1> DEFINE made(s, d, card) == [loc[p] EXCEPT !.cur = NewSeries(s, 1, NextDue[d]), !.card = card]
<1>1. PICK s \in Unborn, d \in Days :
         /\ start' = [start EXCEPT ![s] = d]
         /\ \/ InsertCard(p) /\ loc' = [loc EXCEPT ![p] = made(s, d, fresh)]
            \/ /\ \E t \in task : loc' = [loc EXCEPT ![p] = made(s, d, t.id)]
               /\ UNCHANGED <<task, fresh>>
  <2>1. PICK s \in Unborn, d \in Days :
           LET r == NewSeries(s, 1, NextDue[d]) IN
           /\ start' = [start EXCEPT ![s] = d]
           /\ \/ /\ InsertCard(p)
                 /\ Remember(p, [loc[p] EXCEPT !.cur = r, !.card = fresh])
              \/ /\ \E t \in task :
                       t.tpl = None /\ Remember(p, [loc[p] EXCEPT !.cur = r, !.card = t.id])
                 /\ UNCHANGED <<task, fresh>>
    BY Zenon DEF StartAttach
  <2>2. CASE InsertCard(p) /\ Remember(p, made(s, d, fresh))
    BY <2>1, <2>2, Zenon DEF Remember
  <2>3. CASE /\ \E t \in task : Remember(p, made(s, d, t.id))
             /\ UNCHANGED <<task, fresh>>
    BY <2>1, <2>3, Zenon DEF Remember
  <2> QED BY <2>1, <2>2, <2>3, Zenon
<1>2. PICK card : /\ loc' = [loc EXCEPT ![p] = made(s, d, card)]
                  /\ \/ card = fresh /\ InsertCard(p)
                     \/ (\E t \in task : card = t.id) /\ UNCHANGED <<task, fresh>>
  BY <1>1, Zenon
<1>3. PICK r : r = NewSeries(s, 1, NextDue[d])
  BY Zenon
<1>4. PICK l : l = made(s, d, card)
  BY Zenon
<1>5. l = [loc[p] EXCEPT !.cur = r, !.card = card]
  BY <1>3, <1>4, Zenon
<1>6. CASE card = fresh /\ InsertCard(p)
  BY <1>1, <1>2, <1>3, <1>4, <1>5, <1>6, Zenon
<1>7. CASE (\E t \in task : card = t.id) /\ UNCHANGED <<task, fresh>>
  <2>1. PICK t \in task : card = t.id
    BY <1>7, Zenon
  <2>2. l = [loc[p] EXCEPT !.cur = r, !.card = t.id]
    BY <1>5, <2>1, Zenon
  <2>3. \E u \in task : l = [loc[p] EXCEPT !.cur = r, !.card = u.id]
    BY <2>2, Zenon
  <2>4. loc' = [loc EXCEPT ![p] = l] /\ start' = [start EXCEPT ![s] = d]
    BY <1>1, <1>2, <1>4, Zenon
  <2>5. UNCHANGED <<task, fresh>>
    BY <1>7
  <2> QED BY <1>3, <2>3, <2>4, <2>5, Zenon
<1> QED BY <1>2, <1>6, <1>7, Zenon

\* A new series starts on the schedule of its own start date.
LEMMA StartAttachKeeps ==
    ASSUME IInv, NEW p \in Procs, StartAttach(p)
    PROVE  IInv'
<1>1. /\ loc[p] \in LocalRow /\ Good(loc[p], pc[p]) /\ task \subseteq TaskRow /\ tpl \subseteq TplRow
      /\ occ \subseteq OccRow /\ today \in Nat /\ fresh \in Nat /\ faults \in Nat
      /\ start \in [Series -> Days \cup {None}]
  BY LocalFacts
<1>0. PICK s \in Unborn, d \in Days : \E r, l :
         /\ r = NewSeries(s, 1, NextDue[d]) /\ start' = [start EXCEPT ![s] = d]
         /\ loc' = [loc EXCEPT ![p] = l]
         /\ \/ l = [loc[p] EXCEPT !.cur = r, !.card = fresh] /\ InsertCard(p)
            \/ /\ \E t \in task : l = [loc[p] EXCEPT !.cur = r, !.card = t.id]
               /\ UNCHANGED <<task, fresh>>
  BY StartAttachPicks
<1>2. PICK r, l :
         /\ r = NewSeries(s, 1, NextDue[d]) /\ start' = [start EXCEPT ![s] = d]
         /\ loc' = [loc EXCEPT ![p] = l]
         /\ \/ l = [loc[p] EXCEPT !.cur = r, !.card = fresh] /\ InsertCard(p)
            \/ /\ \E t \in task : l = [loc[p] EXCEPT !.cur = r, !.card = t.id]
               /\ UNCHANGED <<task, fresh>>
  BY <1>0, Zenon
<1>3. /\ pc[p] = "idle" /\ "atpl" \in Labels /\ pc' = [pc EXCEPT ![p] = "atpl"]
      /\ UNCHANGED <<today, tpl, occ, dropped, faults>>
  BY DEF StartAttach, Goto, Labels
<1>4. s \in Series /\ start[s] = None /\ d # None /\ d \in Nat
  BY PlannerAssumption DEF Unborn, SeriesAssumption, BoundAssumption
<1>5. start'[s] = d /\ start' \in [Series -> Days \cup {None}] /\ StartKept
  BY <1>1, <1>2, <1>4 DEF StartKept
<1>6. 1 \in Nat /\ 1 <= MaxSeq /\ NextDue[d] \in Nat /\ DueOf[d][2] = NextDue[d]
  <2>1. 1 \in 1..MaxSeq /\ 1 + 1 = 2
    BY PlannerAssumption DEF BoundAssumption
  <2>2. DueOf[d][1 + 1] = NextDue[DueOf[d][1]] /\ DueOf[d][1] = d /\ NextDue[d] \in Nat
    BY <2>1, PlannerAssumption DEF ScheduleAssumption
  <2> QED BY <2>1, <2>2
<1>7. r \in TplRow /\ r.id = s /\ r.last = 1 /\ r.next = NextDue[d] /\ r # None
  <2>1. r \in TplRow /\ r.id = s /\ r.last = 1 /\ r.next = NextDue[d]
    BY <1>2, <1>4, <1>6 DEF NewSeries, TplRow
  <2> QED BY <2>1, RowAssumption
<1>8. l \in LocalRow /\ l.tpls = loc[p].tpls /\ l.cur = r
  BY <1>1, <1>2, <1>7 DEF LocalRow, TaskRow
<1>9. task' \subseteq TaskRow /\ fresh' \in Nat
  BY <1>1, <1>2, CardsTyped
<1>10. \A q \in Series : Attaching(q) => Attaching(q)'
  BY <1>2, <1>3 DEF Attaching, IInv, TypeOK
<1>11. CoveredKept
  BY <1>1, <1>3, <1>10, CoveredStays DEF IInv
<1>12. TablesOK'
  BY <1>3, <1>5, <1>11, TablesStay DEF IInv
<1>13. Aligned(r)'
  <2>1. r.last + 1 = 2 /\ r.last <= MaxSeq
    BY <1>6, <1>7
  <2> QED BY <1>4, <1>5, <1>6, <1>7, <2>1 DEF Aligned
<1>14. Good(loc[p], pc[p]) /\ \A x \in loc[p].tpls : x \in TplRow /\ Sound(x)'
  BY <1>1, <1>5, <1>11, SoundStays DEF Good, LocalRow
<1>15. PICK c \in {loc[p].tpls} : c = loc[p].tpls
  OBVIOUS
<1>16. Good(l, "atpl")'
  BY <1>7, <1>8, <1>13, <1>14, <1>15 DEF Good
<1>17. today' \in Nat /\ faults' \in Nat /\ tpl' \subseteq TplRow /\ occ' \subseteq OccRow
  BY <1>1, <1>3
<1> QED BY <1>2, <1>3, <1>5, <1>8, <1>9, <1>11, <1>12, <1>16, <1>17, ProcessStep

\* The new row is sound: its first run is the next statement of the request.
LEMMA AttachTemplateKeeps ==
    ASSUME IInv, NEW p \in Procs, AttachTemplate(p)
    PROVE  IInv'
<1>1. PICK l \in {loc[p]}, r \in {loc[p].cur} : l = loc[p] /\ r = l.cur
  OBVIOUS
<1>2. /\ pc[p] = "atpl" /\ "arun" \in Labels /\ pc' = [pc EXCEPT ![p] = "arun"]
      /\ loc' = [loc EXCEPT ![p] = l] /\ tpl' = tpl \cup {r}
      /\ UNCHANGED <<today, occ, task, fresh, start, dropped, faults>>
  BY <1>1, LocalFacts DEF AttachTemplate, Goto, Labels
<1>3. l \in LocalRow /\ Good(l, "atpl")
  BY <1>1, <1>2, LocalFacts
<1>4. r \in TplRow /\ Aligned(r) /\ r.last = 1 /\ r # None
  BY <1>1, <1>3 DEF Good, HoldsSeries, LocalRow
<1>5. StartKept
  BY <1>2 DEF StartKept
<1>6. pc'[p] = "arun" /\ loc'[p] = l
  BY <1>2 DEF IInv, TypeOK
<1>7. \A s \in Series : Attaching(s) => Attaching(s)'
  BY <1>2 DEF Attaching, IInv, TypeOK
<1>8. CoveredKept
  BY <1>2, <1>7, LocalFacts, CoveredStays DEF IInv
<1>9. Aligned(r)' /\ Covered(r.id, 1)' /\ Sound(r)'
  <2>1. Aligned(r)'
    BY <1>2, <1>4 DEF Aligned
  <2>2. Covered(r.id, 1)'
    BY <1>1, <1>6 DEF Covered, Attaching
  <2> QED BY <1>4, <2>1, <2>2 DEF Sound
<1>10. \A x \in tpl : Sound(x)'
  BY <1>5, <1>8, LocalFacts, SoundStays DEF IInv, TablesOK
<1>11. TablesOK'
  BY <1>2, <1>9, <1>10 DEF IInv, TablesOK, OnSchedule, UniqueKey
<1>12. Good(l, "atpl")'
  BY <1>3, <1>5, <1>8, GoodStays
<1>13. Good(l, "arun")'
  BY <1>1, <1>4, <1>9, <1>12 DEF Good, HoldsSeries
<1>14. /\ today' \in Nat /\ fresh' \in Nat /\ faults' \in Nat /\ tpl' \subseteq TplRow
       /\ occ' \subseteq OccRow /\ task' \subseteq TaskRow /\ start' \in [Series -> Days \cup {None}]
  BY <1>2, <1>4, LocalFacts
<1> QED BY <1>2, <1>3, <1>5, <1>8, <1>11, <1>13, <1>14, ProcessStep

\* The first run of a series falls on its start date.
LEMMA AttachRunKeeps ==
    ASSUME IInv, NEW p \in Procs, AttachRun(p)
    PROVE  IInv'
<1>1. PICK l \in {loc[p]}, r \in {loc[p].cur} : l = loc[p] /\ r = l.cur
  OBVIOUS
<1>2. PICK o : /\ o = [id |-> fresh, tpl |-> r.id, seq |-> 1, due |-> start[r.id],
                       state |-> "PENDING", task |-> l.card]
               /\ occ' = occ \cup {o}
  BY <1>1 DEF AttachRun, InsertRun
<1>3. /\ pc[p] = "arun" /\ "alink" \in Labels /\ pc' = [pc EXCEPT ![p] = "alink"]
      /\ loc' = [loc EXCEPT ![p] = l] /\ ~Taken(r.id, 1) /\ fresh' = fresh + 1
      /\ UNCHANGED <<today, tpl, task, start, dropped, faults>>
  BY <1>1, LocalFacts DEF AttachRun, InsertRun, Goto, Labels
<1>4. l \in LocalRow /\ Good(l, "arun")
  BY <1>1, <1>3, LocalFacts
<1>5. r \in TplRow /\ Aligned(r) /\ r.last = 1 /\ r.id \in Series
  BY <1>1, <1>4 DEF Good, HoldsSeries, LocalRow, TplRow
<1>6. /\ tpl \subseteq TplRow /\ occ \subseteq OccRow /\ task \subseteq TaskRow
      /\ today \in Nat /\ fresh \in Nat /\ faults \in Nat /\ start \in [Series -> Days \cup {None}]
  BY LocalFacts
<1>7. start[r.id] \in Days /\ start[r.id] # None /\ start[r.id] \in Nat /\ 1 \in 1..MaxSeq
  <2>1. start[r.id] \in Days /\ start[r.id] # None
    BY <1>5, <1>6 DEF Aligned
  <2>2. 1 \in 1..MaxSeq
    BY PlannerAssumption DEF BoundAssumption
  <2>3. Days \subseteq Nat
    BY PlannerAssumption DEF BoundAssumption
  <2> QED BY <2>1, <2>2, <2>3
<1>8. /\ o \in OccRow /\ o.tpl = r.id /\ o.seq = 1 /\ o.due = start[r.id]
      /\ o.due = DueOf[start[o.tpl]][o.seq]
  BY <1>2, <1>4, <1>5, <1>6, <1>7, PlannerAssumption
  DEF OccRow, RunStates, LocalRow, ScheduleAssumption
<1>9. RunsOK(occ')
  BY <1>2, <1>3, <1>7, <1>8, InsertedRun
<1>10. \A q \in Procs \ {p} : pc'[q] = pc[q] /\ loc'[q] = loc[q]
  BY <1>3 DEF IInv, TypeOK
<1>11. StartKept /\ CoveredKept /\ TablesOK'
  BY <1>1, <1>2, <1>3, <1>8, <1>9, <1>10, RunsStep, ZenonT(40)
<1>12. Good(l, "arun")'
  BY <1>4, <1>11, GoodStays
<1>13. Good(l, "alink")'
  BY <1>12 DEF Good, HoldsSeries
<1>14. /\ today' \in Nat /\ fresh' \in Nat /\ faults' \in Nat /\ tpl' \subseteq TplRow
       /\ occ' \subseteq OccRow /\ task' \subseteq TaskRow /\ start' \in [Series -> Days \cup {None}]
  BY <1>2, <1>3, <1>6, <1>8
<1> QED BY <1>3, <1>4, <1>11, <1>13, <1>14, ProcessStep

\* Linking or freeing the card of a conversion touches no run and no series.
LEMMA LinkEndKeeps ==
    ASSUME IInv, NEW p \in Procs, AttachLink(p) \/ DetachCard(p)
    PROVE  IInv'
<1>1. /\ pc' = [pc EXCEPT ![p] = "idle"] /\ loc' = [loc EXCEPT ![p] = Fresh]
      /\ UNCHANGED <<today, tpl, occ, fresh, start, dropped, faults>> /\ pc[p] # "arun"
  BY DEF AttachLink, DetachCard, Finish, Goto, Remember
<1>2. task' \subseteq TaskRow
  <2>1. CASE AttachLink(p)
    <3>1. loc[p].cur.id \in Series /\ None \notin Series
      BY <2>1, LocalFacts, PlannerAssumption
      DEF AttachLink, Good, HoldsSeries, LocalRow, TplRow, SeriesAssumption
    <3> QED BY <2>1, <3>1, CardsTyped DEF AttachLink
  <2>2. CASE DetachCard(p)
    BY <2>2, CardsTyped DEF DetachCard
  <2> QED BY <2>1, <2>2
<1>3. "idle" \in Labels /\ Good(Fresh, "idle") /\ Fresh \in LocalRow /\ fresh' \in Nat
  BY <1>1, FreshGood, LocalFacts DEF Labels, HoldsSeries
<1> QED BY <1>1, <1>2, <1>3, CardStep

\* Pausing the series of a card leaves its cursor where it is.
LEMMA DetachPauseKeeps ==
    ASSUME IInv, NEW p \in Procs, DetachPause(p)
    PROVE  IInv'
<1>1. SetPaused(loc[p].cur.id, TRUE) /\ loc[p] \in LocalRow
  BY LocalFacts DEF DetachPause
<1>2. /\ pc' = [pc EXCEPT ![p] = "dunlink"] /\ loc' = [loc EXCEPT ![p] = loc[p]]
      /\ "dunlink" \in Labels \ HoldsSeries /\ pc[p] = "dpause"
      /\ UNCHANGED <<today, occ, task, fresh, start, dropped, faults>>
  BY LocalFacts DEF DetachPause, Goto, Labels, HoldsSeries
<1>3. Good(loc[p], "dunlink")
  BY <1>1, <1>2, ReaderGood
<1>4. tpl' \subseteq TplRow /\ \A r \in tpl' : Sound(r)
  BY <1>1, PausedSound
<1> QED BY <1>1, <1>2, <1>3, <1>4, SeriesStep

\* What a duplication reads and remembers when it starts.
LEMMA DuplicatePicks ==
    ASSUME NEW p \in Procs, Duplicate(p)
    PROVE  \E s \in Unborn, d \in Days : \E r, l :
           /\ r = NewSeries(s, 0, d) /\ start' = [start EXCEPT ![s] = d]
           /\ tpl' = tpl \cup {r}
           /\ l = [loc[p] EXCEPT !.day = today, !.cur = r] /\ loc' = [loc EXCEPT ![p] = l]
<1>1. PICK s \in Unborn, d \in Days :
         /\ start' = [start EXCEPT ![s] = d]
         /\ tpl' = tpl \cup {NewSeries(s, 0, d)}
         /\ loc' = [loc EXCEPT ![p] = [loc[p] EXCEPT !.day = today, !.cur = NewSeries(s, 0, d)]]
  BY Zenon DEF Duplicate, Remember
<1>2. PICK r : r = NewSeries(s, 0, d)
  BY Zenon
<1>3. PICK l : l = [loc[p] EXCEPT !.day = today, !.cur = r]
  BY Zenon
<1> QED BY <1>1, <1>2, <1>3, Zenon

\* A copy of a series starts a schedule of its own with no run to account for.
LEMMA DuplicateKeeps ==
    ASSUME IInv, NEW p \in Procs, Duplicate(p)
    PROVE  IInv'
<1>1. /\ loc[p] \in LocalRow /\ Good(loc[p], pc[p]) /\ task \subseteq TaskRow /\ tpl \subseteq TplRow
      /\ occ \subseteq OccRow /\ today \in Nat /\ fresh \in Nat /\ faults \in Nat
      /\ start \in [Series -> Days \cup {None}]
  BY LocalFacts
<1>0. PICK s \in Unborn, d \in Days : \E r, l :
         /\ r = NewSeries(s, 0, d) /\ start' = [start EXCEPT ![s] = d]
         /\ tpl' = tpl \cup {r}
         /\ l = [loc[p] EXCEPT !.day = today, !.cur = r] /\ loc' = [loc EXCEPT ![p] = l]
  BY DuplicatePicks
<1>2. PICK r, l :
         /\ r = NewSeries(s, 0, d) /\ start' = [start EXCEPT ![s] = d]
         /\ tpl' = tpl \cup {r}
         /\ l = [loc[p] EXCEPT !.day = today, !.cur = r] /\ loc' = [loc EXCEPT ![p] = l]
  BY <1>0, Zenon
<1>3. /\ pc[p] = "copy" /\ "check" \in Labels /\ pc' = [pc EXCEPT ![p] = "check"]
      /\ UNCHANGED <<today, occ, task, fresh, dropped, faults>>
  BY DEF Duplicate, Goto, Labels, GenLabels
<1>4. s \in Series /\ start[s] = None /\ d # None /\ d \in Nat
  BY PlannerAssumption DEF Unborn, SeriesAssumption, BoundAssumption
<1>5. start'[s] = d /\ start' \in [Series -> Days \cup {None}] /\ StartKept
  BY <1>1, <1>2, <1>4 DEF StartKept
<1>6. r \in TplRow /\ r.id = s /\ r.last = 0 /\ r.next = d /\ r # None
  <2>1. r \in TplRow /\ r.id = s /\ r.last = 0 /\ r.next = d
    BY <1>2, <1>4 DEF NewSeries, TplRow
  <2> QED BY <2>1, RowAssumption
<1>7. l \in LocalRow /\ l.tpls = loc[p].tpls /\ l.cur = r
  BY <1>1, <1>2, <1>6 DEF LocalRow
<1>8. \A q \in Series : Attaching(q) => Attaching(q)'
  BY <1>2, <1>3 DEF Attaching, IInv, TypeOK
<1>9. CoveredKept
  BY <1>1, <1>3, <1>8, CoveredStays DEF IInv
<1>10. Aligned(r)' /\ Sound(r)'
  <2>1. 0 <= MaxSeq /\ 0 + 1 = 1 /\ DueOf[d][1] = d
    BY <1>2, PlannerAssumption DEF BoundAssumption, ScheduleAssumption
  <2>2. Aligned(r)'
    BY <1>4, <1>5, <1>6, <2>1 DEF Aligned
  <2>3. 1..r.last = {}
    BY <1>6
  <2> QED BY <2>2, <2>3 DEF Sound
<1>11. TablesOK'
  <2>1. \A x \in tpl : Sound(x)'
    BY <1>1, <1>5, <1>9, SoundStays DEF IInv, TablesOK
  <2>2. \A o \in occ : start'[o.tpl] = start[o.tpl]
    BY <1>1, <1>5 DEF IInv, TablesOK, StartKept, OccRow
  <2> QED BY <1>2, <1>3, <1>10, <2>1, <2>2 DEF IInv, TablesOK, OnSchedule, UniqueKey
<1>12. \A x \in loc[p].tpls : Sound(x)'
  BY <1>1, <1>5, <1>9, SoundStays DEF Good, LocalRow
<1>13. PICK c \in {loc[p].tpls} : c = loc[p].tpls
  OBVIOUS
<1>14. Good(l, "check")'
  BY <1>6, <1>7, <1>10, <1>12, <1>13 DEF Good, Sound
<1>15. /\ today' \in Nat /\ fresh' \in Nat /\ faults' \in Nat /\ tpl' \subseteq TplRow
       /\ occ' \subseteq OccRow /\ task' \subseteq TaskRow
  BY <1>1, <1>2, <1>3, <1>6
<1> QED BY <1>2, <1>3, <1>5, <1>7, <1>9, <1>11, <1>14, <1>15, ProcessStep

-----------------------------------------------------------------------------
(* The state of a run, pausing, time and failures *)

\* A step that leaves the processes and the runs that are recorded in place.
LEMMA BystanderStep ==
    ASSUME IInv, UNCHANGED <<start, pc, loc, dropped, faults>>, TypeOK',
           \A o \in occ : \E q \in occ' : q.tpl = o.tpl /\ q.seq = o.seq,
           RunsOK(occ'), \A r \in tpl' : Sound(r)
    PROVE  IInv'
<1>1. StartKept
  BY DEF StartKept
<1>2. \A s \in Series : Attaching(s) => Attaching(s)'
  BY DEF Attaching
<1>3. CoveredKept
  BY <1>2, CoveredStays DEF IInv, TypeOK
<1>4. \A r \in tpl' : Sound(r)'
  BY <1>1, <1>3, SoundStays DEF TypeOK
<1>5. TablesOK'
  BY <1>4 DEF TablesOK, OnSchedule, UniqueKey, RunsOK
<1>6. ASSUME NEW p \in Procs PROVE Good(loc[p], pc[p])'
  <2>1. PICK l, label : l \in LocalRow /\ l = loc[p] /\ label = pc[p] /\ Good(l, label)
    BY LocalFacts
  <2>2. Good(l, label)'
    BY <1>1, <1>3, <2>1, GoodStays
  <2> QED BY <2>1, <2>2
<1> QED BY <1>5, <1>6 DEF IInv

\* The state of a run is no part of its place on the schedule.
LEMMA SetRunStateKeeps ==
    ASSUME IInv, NEW p \in Procs, SetRunState(p)
    PROVE  IInv'
<1>1. PICK v \in RunStates :
         occ' = {IF o.id = loc[p].row.id THEN [o EXCEPT !.state = v] ELSE o : o \in occ}
  BY DEF SetRunState, RunStates
<1> DEFINE f(o) == IF o.id = loc[p].row.id THEN [o EXCEPT !.state = v] ELSE o
<1>2. occ' = {f(o) : o \in occ}
  BY <1>1
<1>3. ASSUME NEW o \in occ
      PROVE  f(o) \in OccRow /\ f(o).tpl = o.tpl /\ f(o).seq = o.seq /\ f(o).due = o.due
  BY RunsOKNow DEF OccRow
<1> HIDE DEF f
<1>4. /\ RunsOK(occ') /\ occ' \subseteq OccRow
      /\ \A o \in occ : \E q \in occ' : q.tpl = o.tpl /\ q.seq = o.seq
  BY <1>2, <1>3, RunsOKNow DEF RunsOK
<1>5. /\ pc[p] = "state" /\ dropped \subseteq dropped'
      /\ UNCHANGED <<today, tpl, task, fresh, start, faults>>
      /\ pc' = [pc EXCEPT ![p] = "idle"] /\ loc' = [loc EXCEPT ![p] = Fresh]
  BY DEF SetRunState, Finish, Goto, Remember
<1>6. "idle" \in Labels /\ Fresh \in LocalRow /\ Good(Fresh, "idle")
  BY FreshGood DEF Labels, HoldsSeries
<1> QED BY <1>4, <1>5, <1>6, RunsKeep

\* Pausing and the passing of a day keep the invariant.
LEMMA BystanderKeeps ==
    ASSUME IInv, PauseOrResume \/ NextDay \/ UNCHANGED vars
    PROVE  IInv'
<1>1. TypeOK /\ RunsOK(occ) /\ occ \subseteq OccRow /\ \A r \in tpl : r \in TplRow /\ Sound(r)
  BY RunsOKNow DEF IInv, TypeOK, TablesOK
<1>2. CASE PauseOrResume
  <2>1. /\ UNCHANGED <<today, occ, task, fresh, start, pc, loc, dropped, faults>>
        /\ \E r \in tpl : SetPaused(r.id, ~r.paused)
    BY <1>2 DEF PauseOrResume
  <2>2. tpl' \subseteq TplRow /\ \A r \in tpl' : Sound(r)
    BY <1>1, <2>1 DEF SetPaused, TplRow, Sound, Aligned
  <2>3. TypeOK'
    BY <1>1, <2>1, <2>2 DEF TypeOK
  <2> QED BY <1>1, <2>1, <2>2, <2>3, BystanderStep
<1>3. CASE NextDay
  <2>1. today' \in Nat /\ UNCHANGED <<tpl, occ, task, fresh, start, pc, loc, dropped, faults>>
    BY <1>1, <1>3 DEF NextDay, db, TypeOK
  <2>2. TypeOK'
    BY <1>1, <2>1 DEF TypeOK
  <2> QED BY <1>1, <2>1, <2>2, BystanderStep
<1>4. CASE UNCHANGED vars
  <2>1. UNCHANGED <<today, tpl, occ, task, fresh, start, pc, loc, dropped, faults>>
    BY <1>4 DEF vars
  <2>2. TypeOK'
    BY <1>1, <2>1 DEF TypeOK
  <2> QED BY <1>1, <2>1, <2>2, BystanderStep
<1> QED BY <1>2, <1>3, <1>4

\* A failed statement writes nothing; what the process still remembers is good.
LEMMA FailKeeps ==
    ASSUME IInv, NEW p \in Procs, Fail(p)
    PROVE  IInv'
<1>1. /\ faults' = faults + 1 /\ UNCHANGED <<today, tpl, occ, task, fresh, start, dropped>>
  BY DEF Fail, db
<1>2. loc[p] \in LocalRow /\ loc = [loc EXCEPT ![p] = loc[p]] /\ faults \in Nat
  BY LocalFacts
<1>3. PICK l, label :
         /\ l \in LocalRow /\ label \in Labels \ HoldsSeries
         /\ l.tpls = loc[p].tpls \/ l.tpls = {}
         /\ l.cur = None \/ (l.cur = loc[p].cur /\ pc[p] # "atpl")
         /\ pc' = [pc EXCEPT ![p] = label] /\ loc' = [loc EXCEPT ![p] = l]
  <2>1. CASE /\ Remember(p, [loc[p] EXCEPT !.cur = None, !.card = None]) /\ Goto(p, "pick")
    BY <1>2, <2>1 DEF Remember, Goto, Labels, HoldsSeries, LocalRow
  <2>2. CASE /\ Remember(p, [loc[p] EXCEPT !.cur = None, !.row = None, !.card = None])
             /\ Goto(p, "each")
    BY <1>2, <2>2 DEF Remember, Goto, Labels, HoldsSeries, LocalRow
  <2>3. CASE /\ pc[p] \in DelLabels /\ Remember(p, [loc[p] EXCEPT !.row = None])
             /\ Goto(p, IF pc[p] = "erase" THEN "forget" ELSE "erase")
    <3>1. PICK b \in {"erase", "forget"} : pc' = [pc EXCEPT ![p] = b]
      BY <2>3 DEF Goto
    <3>2. PICK k : k = [loc[p] EXCEPT !.row = None]
      OBVIOUS
    <3>3. k \in LocalRow /\ k.tpls = loc[p].tpls /\ k.cur = loc[p].cur
      BY <1>2, <3>2 DEF LocalRow
    <3>4. b \in Labels \ HoldsSeries /\ loc' = [loc EXCEPT ![p] = k] /\ pc[p] # "atpl"
      BY <2>3, <3>1, <3>2 DEF Remember, Labels, HoldsSeries
    <3> QED BY <3>1, <3>3, <3>4
  <2>4. CASE Finish(p)
    BY <2>4, FreshGood DEF Finish, Remember, Goto, Labels, HoldsSeries, Fresh
  <2> QED BY <2>1, <2>2, <2>3, <2>4 DEF Fail
<1>4. Good(l, label)
  BY <1>3, ReaderGood
<1>5. /\ today' \in Nat /\ fresh' \in Nat /\ task' \subseteq TaskRow
      /\ faults' \in Nat /\ faults' >= faults /\ faults' > 0
  BY <1>1, LocalFacts
<1> QED BY <1>1, <1>3, <1>4, <1>5, LocalStep

\* A crash forgets what was in progress and keeps the tables.
LEMMA CrashKeeps == IInv /\ Crash => IInv'
<1> SUFFICES ASSUME IInv, Crash PROVE IInv'
  OBVIOUS
<1>1. /\ faults' = faults + 1 /\ UNCHANGED <<today, tpl, occ, task, fresh, start, dropped>>
      /\ pc' = [p \in Procs |-> "idle"] /\ loc' = [p \in Procs |-> Fresh]
  BY DEF Crash, db
<1>2. TypeOK /\ faults' \in Nat /\ faults' > 0 /\ faults' >= faults
  BY <1>1 DEF IInv, TypeOK
<1>3. StartKept
  BY <1>1 DEF StartKept
<1>4. CoveredKept
  BY <1>1, <1>2, CoveredStays
<1>5. TablesOK'
  BY <1>1, <1>2, <1>3, <1>4, TablesStay DEF IInv
<1>6. TypeOK'
  BY <1>1, <1>2, FreshGood DEF TypeOK, Labels
<1>7. \A p \in Procs : Good(loc[p], pc[p])'
  BY <1>1 DEF Good, Fresh, HoldsSeries
<1> QED BY <1>5, <1>6, <1>7 DEF IInv

-----------------------------------------------------------------------------
(* The theorems *)

\* Every step of every process, every request and every failure keeps IInv.
THEOREM StepIInv == IInv /\ [Next]_vars => IInv'
<1> SUFFICES ASSUME IInv, [Next]_vars PROVE IInv'
  OBVIOUS
<1>1. ASSUME NEW p \in Procs, Start(p) PROVE IInv'
  BY <1>1, StartGenerationKeeps, StartDeletionKeeps, StartSkipKeeps, StartAttachKeeps,
     LookupKeeps DEF Start
<1>2. ASSUME NEW p \in Procs, Continue(p) PROVE IInv'
  <2>1. CASE Generate(p)
    BY <2>1, GenerateLocalKeeps, GenerateCardKeeps, GenerateSeriesKeeps, GenRecordRunKeeps
    DEF Generate
  <2>2. CASE Sync(p)
    BY <2>2, SyncReadKeeps, SyncEachKeeps, MaterializeKeeps DEF Sync
  <2>3. CASE Delete(p)
    BY <2>3, PurgeKeeps, LookupKeeps, DeleteRunsKeeps, EraseKeeps DEF Delete
  <2>4. CASE DeleteSeries(p)
    BY <2>4, StartDeletionKeeps, DeleteRunsKeeps, SeriesDropTemplateKeeps DEF DeleteSeries
  <2>5. CASE Skip(p)
    BY <2>5, SkipInsertKeeps, SkipEndKeeps DEF Skip
  <2>6. CASE Convert(p)
    BY <2>6, AttachTemplateKeeps, AttachRunKeeps, LinkEndKeeps, DetachPauseKeeps,
       DuplicateKeeps DEF Convert
  <2>7. CASE SetRunState(p)
    BY <2>7, SetRunStateKeeps
  <2> QED BY <1>2, <2>1, <2>2, <2>3, <2>4, <2>5, <2>6, <2>7 DEF Continue
<1>3. ASSUME NEW p \in Procs, Fail(p) PROVE IInv'
  BY <1>3, FailKeeps
<1>4. CASE Crash
  BY <1>4, CrashKeeps
<1>5. CASE PauseOrResume \/ NextDay \/ AtBound \/ UNCHANGED vars
  BY <1>5, BystanderKeeps DEF AtBound
<1> QED BY <1>1, <1>2, <1>3, <1>4, <1>5 DEF Next

\* The inductive invariant holds in every behaviour.
THEOREM Invariance == Spec => []IInv
<1> QED BY InitIInv, StepIInv, PTL DEF Spec

\* The rows of the tables keep their columns and the processes their labels.
THEOREM TypeCorrect == Spec => []TypeOK
<1>1. IInv => TypeOK
  BY DEF IInv
<1> QED BY <1>1, Invariance, PTL

\* Whatever interleaves and fails, run k of a series has date k of its rule.
THEOREM RunsStayOnSchedule == Spec => []OnSchedule
<1>1. IInv => OnSchedule
  BY DEF IInv, TablesOK
<1> QED BY <1>1, Invariance, PTL

\* A series has one row that counts for each date: the unique key on the
\* sequence number is enough, because the dates never leave the schedule.
THEOREM RunsAreUniquePerDate == Spec => []OneRunPerDate
<1>1. IInv => OneRunPerDate
  <2> SUFFICES ASSUME IInv, NEW o \in occ, NEW q \in occ, o.tpl = q.tpl, o.due = q.due
               PROVE  o = q
    BY DEF OneRunPerDate
  <2>1. /\ start \in [Series -> Days \cup {None}] /\ o.tpl \in Series /\ start[o.tpl] # None
        /\ o.seq \in 1..MaxSeq /\ q.seq \in 1..MaxSeq
        /\ DueOf[start[o.tpl]][o.seq] = DueOf[start[o.tpl]][q.seq]
    BY DEF IInv, TypeOK, TablesOK, OnSchedule, OccRow
  <2>2. start[o.tpl] \in Days /\ o.seq \in 1..MaxSeq + 1 /\ q.seq \in 1..MaxSeq + 1
    BY <2>1, PlannerAssumption DEF BoundAssumption
  <2>3. /\ \A k \in 1..MaxSeq + 1 : DueOf[start[o.tpl]][k] \in Nat
        /\ \A j, k \in 1..MaxSeq + 1 : j < k => DueOf[start[o.tpl]][j] < DueOf[start[o.tpl]][k]
    BY <2>2, PlannerAssumption DEF ScheduleAssumption
  <2>4. o.seq = q.seq
    BY <2>1, <2>2, <2>3
  <2> QED BY <2>4 DEF IInv, TablesOK, UniqueKey
<1> QED BY <1>1, Invariance, PTL

\* The cursor of a series never passes a date that got no row.
THEOREM CursorLosesNoDate == Spec => []NoDateLost
<1>1. IInv => NoDateLost
  BY DEF IInv, TablesOK, Sound, NoDateLost
<1> QED BY <1>1, Invariance, PTL
=============================================================================
