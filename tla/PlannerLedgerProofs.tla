------------------------ MODULE PlannerLedgerProofs ------------------------
(* The planner implements SeriesLedger: every step of every request and job *)
(* begins a series, records one run, removes rows or leaves the ledger as   *)
(* it is.                                                                   *)
EXTENDS PlannerRunsProofs

Rows == {RunRow(o) : o \in occ}

\* What the ledger sees of a table of runs.
SameRuns ==
    /\ UNCHANGED <<start, dropped>>
    /\ \A o \in occ : \E q \in occ' : RunRow(q) = RunRow(o)
    /\ \A q \in occ' : \E o \in occ : RunRow(q) = RunRow(o)

LEMMA SameRunsStutter == ASSUME SameRuns PROVE UNCHANGED Ledger!lvars
<1>1. Rows' = Rows
  BY DEF SameRuns, Rows
<1>2. Recorded' = Recorded
  <2>1. \A o, q : RunRow(o) = RunRow(q) => o.tpl = q.tpl /\ o.seq = q.seq
    BY DEF RunRow
  <2>2. {<<o.tpl, o.seq>> : o \in occ'} = {<<o.tpl, o.seq>> : o \in occ}
    BY <2>1 DEF SameRuns
  <2> QED BY <2>2 DEF Recorded, SameRuns
<1> QED BY <1>1, <1>2 DEF Ledger!lvars, Rows, SameRuns

\* A step that leaves the table of runs alone.
LEMMA UntouchedStutter ==
    ASSUME UNCHANGED <<occ, start, dropped>> PROVE UNCHANGED Ledger!lvars
BY SameRunsStutter DEF SameRuns

\* A link or a state is not part of the ledger.
LEMMA RelinkStutter ==
    ASSUME IInv, NEW id, NEW card, SetRunTask(id, card), UNCHANGED <<start, dropped>>
    PROVE  UNCHANGED Ledger!lvars
<1> DEFINE f(o) == IF o.id = id THEN [o EXCEPT !.task = card] ELSE o
<1>1. occ' = {f(o) : o \in occ}
  BY DEF SetRunTask
<1>2. ASSUME NEW o \in occ PROVE RunRow(f(o)) = RunRow(o)
  BY RunsOKNow DEF OccRow, RunRow
<1> HIDE DEF f
<1> QED BY <1>1, <1>2, SameRunsStutter DEF SameRuns

LEMMA RunStateStutter ==
    ASSUME IInv, NEW p \in Procs, SetRunState(p)
    PROVE  UNCHANGED Ledger!lvars
<1>1. PICK v \in {"PENDING", "COMPLETED"} :
         occ' = {IF o.id = loc[p].row.id THEN [o EXCEPT !.state = v] ELSE o : o \in occ}
  BY DEF SetRunState
<1> DEFINE f(o) == IF o.id = loc[p].row.id THEN [o EXCEPT !.state = v] ELSE o
<1>2. occ' = {f(o) : o \in occ}
  BY <1>1
<1>3. ASSUME NEW o \in occ PROVE RunRow(f(o)) = RunRow(o)
  BY RunsOKNow DEF OccRow, RunRow
<1>4. UNCHANGED <<start, dropped>>
  BY DEF SetRunState
<1> HIDE DEF f
<1> QED BY <1>2, <1>3, <1>4, SameRunsStutter DEF SameRuns

\* A run that is deleted stays in the ledger.
LEMMA DeletionRemoves ==
    ASSUME NEW rows \in SUBSET occ, DeleteRuns(rows), UNCHANGED start
    PROVE  Ledger!Remove
<1>1. occ' = occ \ rows /\ dropped' = dropped \cup {<<o.tpl, o.seq>> : o \in rows}
  BY DEF DeleteRuns
<1>2. Rows' \subseteq Rows
  BY <1>1 DEF Rows
<1>3. Recorded' = Recorded
  <2>1. {<<o.tpl, o.seq>> : o \in occ} =
          {<<o.tpl, o.seq>> : o \in occ'} \cup {<<o.tpl, o.seq>> : o \in rows}
    BY <1>1
  <2> QED BY <1>1, <2>1 DEF Recorded
<1> QED BY <1>2, <1>3 DEF Ledger!Remove, Rows

\* A row that the unique key lets through, on its date and with the runs
\* before it made, is the next entry of the ledger.
LEMMA InsertionRecords ==
    ASSUME IInv, NEW s \in Series, NEW n \in 1..MaxSeq, NEW due, NEW state, NEW card,
           InsertRun(s, n, due, state, card), ~Taken(s, n), start[s] # None,
           due = DueOf[start[s]][n], \A k \in 1..n - 1 : Covered(s, k),
           UNCHANGED <<start, dropped>>
    PROVE  Ledger!Next
<1>1. PICK o : /\ o = [id |-> fresh, tpl |-> s, seq |-> n, due |-> due,
                       state |-> state, task |-> card]
               /\ occ' = occ \cup {o}
  BY DEF InsertRun
<1>2. fresh \in 0..MaxRows
  BY PlannerAssumption, LocalFacts DEF InsertRun, IInv, TypeOK, BoundAssumption
<1>3. RunRow(o) = [id |-> fresh, tpl |-> s, seq |-> n, due |-> DueOf[start[s]][n]]
  BY <1>1 DEF RunRow
<1>4. Rows' = Rows \cup {[id |-> fresh, tpl |-> s, seq |-> n, due |-> DueOf[start[s]][n]]}
  BY <1>1, <1>3 DEF Rows
<1>5. Recorded' = Recorded \cup {<<s, n>>}
  <2>1. o.tpl = s /\ o.seq = n
    BY <1>1
  <2> QED BY <1>1, <2>1 DEF Recorded
<1>6. \A r \in Rows : r.tpl = s => r.seq # n
  BY DEF Rows, RunRow, Taken
<1>7. \A k \in 2..n - 1 : <<s, k>> \in Recorded
  <2> SUFFICES ASSUME NEW k \in 2..n - 1 PROVE <<s, k>> \in Recorded
    OBVIOUS
  <2>1. k \in 1..n - 1 /\ k # 1
    BY PlannerAssumption DEF BoundAssumption
  <2> QED BY <2>1 DEF Covered, Taken, Recorded
<1>8. Ledger!Record(s, n)
  BY <1>2, <1>4, <1>5, <1>6, <1>7 DEF Ledger!Record, Rows
<1> QED BY <1>8 DEF Ledger!Next

\* The three places where a run gets its row.
LEMMA GenerationRecords ==
    ASSUME IInv, NEW p \in Procs, GenRecordRun(p)
    PROVE  Ledger!Next
<1>1. PICK l \in {loc[p]}, r \in {loc[p].cur} : l = loc[p] /\ r = l.cur
  OBVIOUS
<1>2. /\ pc[p] = "record" /\ ~Taken(r.id, r.last + 1) /\ UNCHANGED <<start, dropped>>
      /\ InsertRun(r.id, r.last + 1, r.next, "PENDING", l.card)
  BY <1>1 DEF GenRecordRun
<1>3. l \in LocalRow /\ Good(l, "record")
  BY <1>1, <1>2, LocalFacts
<1>4. /\ r \in TplRow /\ Aligned(r) /\ r.last < MaxSeq
      /\ \A n \in 1..r.last : Covered(r.id, n)
  BY <1>1, <1>3, RowAssumption DEF Good, HoldsSeries, LocalRow
<1>5. /\ r.id \in Series /\ r.last + 1 \in 1..MaxSeq /\ start[r.id] # None
      /\ r.next = DueOf[start[r.id]][r.last + 1] /\ 1..(r.last + 1) - 1 = 1..r.last
  BY <1>4, PlannerAssumption DEF TplRow, Aligned, BoundAssumption
<1>6. PICK n : n = r.last + 1
  OBVIOUS
<1> QED BY <1>2, <1>4, <1>5, <1>6, InsertionRecords

LEMMA SkipRecords ==
    ASSUME IInv, NEW p \in Procs, SkipInsert(p)
    PROVE  Ledger!Next
<1>1. PICK l \in {loc[p]}, r \in {loc[p].cur} : l = loc[p] /\ r = l.cur
  OBVIOUS
<1>2. /\ pc[p] = "skip" /\ ~Taken(r.id, r.last + 1) /\ UNCHANGED <<start, dropped>>
      /\ InsertRun(r.id, r.last + 1, r.next, "SKIPPED", None)
  BY <1>1 DEF SkipInsert
<1>3. l \in LocalRow /\ Good(l, "skip")
  BY <1>1, <1>2, LocalFacts
<1>4. /\ r \in TplRow /\ Aligned(r) /\ l.left \in Nat \ {0} /\ r.last + l.left <= MaxSeq
      /\ \A n \in 1..r.last : Covered(r.id, n)
  BY <1>1, <1>3, RowAssumption DEF Good, HoldsSeries, LocalRow
<1>5. /\ r.id \in Series /\ r.last + 1 \in 1..MaxSeq /\ start[r.id] # None
      /\ r.next = DueOf[start[r.id]][r.last + 1] /\ 1..(r.last + 1) - 1 = 1..r.last
  BY <1>4, PlannerAssumption DEF TplRow, Aligned, BoundAssumption
<1>6. PICK n : n = r.last + 1
  OBVIOUS
<1> QED BY <1>2, <1>4, <1>5, <1>6, InsertionRecords

LEMMA AttachRecords ==
    ASSUME IInv, NEW p \in Procs, AttachRun(p)
    PROVE  Ledger!Next
<1>1. PICK l \in {loc[p]}, r \in {loc[p].cur} : l = loc[p] /\ r = l.cur
  OBVIOUS
<1>2. /\ pc[p] = "arun" /\ ~Taken(r.id, 1) /\ UNCHANGED <<start, dropped>>
      /\ InsertRun(r.id, 1, start[r.id], "PENDING", l.card)
  BY <1>1 DEF AttachRun
<1>3. r \in TplRow /\ Aligned(r)
  BY <1>1, <1>2, LocalFacts DEF Good, HoldsSeries, LocalRow
<1>4. /\ r.id \in Series /\ start[r.id] # None /\ start[r.id] \in Days
      /\ 1 \in 1..MaxSeq /\ 1..1 - 1 = {}
  BY <1>3, LocalFacts, PlannerAssumption DEF TplRow, Aligned, BoundAssumption
<1>5. start[r.id] = DueOf[start[r.id]][1]
  BY <1>4, PlannerAssumption DEF ScheduleAssumption
<1> QED BY <1>2, <1>4, <1>5, InsertionRecords

\* A conversion and a copy begin a series that was never there.
LEMMA BirthBegins ==
    ASSUME NEW p \in Procs, StartAttach(p) \/ Duplicate(p)
    PROVE  Ledger!Begin
<1>1. UNCHANGED <<occ, dropped>>
  BY DEF StartAttach, Duplicate
<1>2. \E s \in Series, d \in Days : start[s] = None /\ start' = [start EXCEPT ![s] = d]
  BY Zenon DEF StartAttach, Duplicate, Unborn
<1>3. Rows' = Rows /\ Recorded' = Recorded
  BY <1>1 DEF Rows, Recorded
<1> QED BY <1>2, <1>3 DEF Ledger!Begin, Rows

\* The steps on the table of runs that make no run.
LEMMA RunTableSteps ==
    ASSUME IInv, NEW p \in Procs,
           \/ SyncRepairRun(p) \/ MatRecord(p)
           \/ Drop(p) \/ Forget(p) \/ SeriesDropRuns(p)
    PROVE  [Ledger!Next]_Ledger!lvars
<1>1. CASE SyncRepairRun(p) \/ MatRecord(p)
  <2>1. UNCHANGED <<start, dropped>> /\ (occ' = occ \/ \E id, card : SetRunTask(id, card))
    BY <1>1 DEF SyncRepairRun, MatRecord
  <2> QED BY <2>1, UntouchedStutter, RelinkStutter
<1>2. CASE Drop(p) \/ Forget(p) \/ SeriesDropRuns(p)
  <2>1. UNCHANGED start /\ (UNCHANGED <<occ, dropped>> \/ \E rows \in SUBSET occ : DeleteRuns(rows))
    BY <1>2 DEF Drop, Forget, SeriesDropRuns
  <2> QED BY <2>1, UntouchedStutter, DeletionRemoves DEF Ledger!Next
<1> QED BY <1>1, <1>2

\* Every step of the planner is a step of the ledger or leaves it alone.
THEOREM LedgerStep == IInv /\ [Next]_vars => [Ledger!Next]_Ledger!lvars
<1> SUFFICES ASSUME IInv, [Next]_vars PROVE [Ledger!Next]_Ledger!lvars
  OBVIOUS
<1>1. ASSUME NEW p \in Procs, Start(p) PROVE [Ledger!Next]_Ledger!lvars
  <2>1. CASE StartAttach(p)
    BY <2>1, BirthBegins DEF Ledger!Next
  <2>2. CASE \/ StartCron(p) \/ StartSync(p) \/ StartDeleteCard(p) \/ StartDeleteSeries(p)
             \/ StartSkip(p) \/ StartDetach(p) \/ StartDuplicate(p) \/ StartStatus(p)
    <3>1. UNCHANGED <<occ, start, dropped>>
      BY <2>2 DEF StartCron, StartSync, StartGeneration, StartDeleteCard, StartDeleteSeries,
                  StartSkip, StartDetach, StartDuplicate, StartStatus, db
    <3> QED BY <3>1, UntouchedStutter
  <2> QED BY <1>1, <2>1, <2>2 DEF Start
<1>2. ASSUME NEW p \in Procs, Generate(p) PROVE [Ledger!Next]_Ledger!lvars
  <2>1. CASE GenRecordRun(p)
    BY <2>1, GenerationRecords
  <2>2. CASE ~GenRecordRun(p)
    <3>1. UNCHANGED <<occ, start, dropped>>
      BY <1>2, <2>2
      DEF Generate, PickTemplate, EndGeneration, GenDone, GenStop, GenFindSeq, GenFindDate,
          GenCreateCard, GenLinkCard, GenRecordRefused, GenAdvance, db
    <3> QED BY <3>1, UntouchedStutter
  <2> QED BY <2>1, <2>2
<1>3. ASSUME NEW p \in Procs, Sync(p) PROVE [Ledger!Next]_Ledger!lvars
  <2>1. CASE SyncRepairRun(p) \/ MatRecord(p)
    BY <2>1, RunTableSteps
  <2>2. CASE ~(SyncRepairRun(p) \/ MatRecord(p))
    <3>1. UNCHANGED <<occ, start, dropped>>
      BY <1>3, <2>2
      DEF Sync, SyncReadTemplates, SyncReadOrphanRuns, SyncReadOrphanCards, SyncReadPending,
          SyncReadCards, SyncSkipRun, MatCreateCard, MatLinkCard, SyncEnd, db
    <3> QED BY <3>1, UntouchedStutter
  <2> QED BY <2>1, <2>2
<1>4. ASSUME NEW p \in Procs, Delete(p) \/ DeleteSeries(p) PROVE [Ledger!Next]_Ledger!lvars
  <2>1. CASE Drop(p) \/ Forget(p) \/ SeriesDropRuns(p)
    BY <2>1, RunTableSteps
  <2>2. CASE \/ PurgeNext(p) \/ PurgeEnd(p) \/ Unhook(p) \/ Erase(p)
             \/ SeriesReadCards(p) \/ SeriesDropTemplate(p)
    <3>1. UNCHANGED <<occ, start, dropped>>
      BY <2>2 DEF PurgeNext, PurgeEnd, Unhook, Erase, SeriesReadCards, SeriesDropTemplate, db
    <3> QED BY <3>1, UntouchedStutter
  <2> QED BY <1>4, <2>1, <2>2 DEF Delete, DeleteSeries
<1>5. ASSUME NEW p \in Procs, Skip(p) \/ Convert(p) PROVE [Ledger!Next]_Ledger!lvars
  <2>1. CASE SkipInsert(p) \/ AttachRun(p)
    BY <2>1, SkipRecords, AttachRecords
  <2>2. CASE \/ SkipRefused(p) \/ SkipSave(p) \/ AttachTemplate(p) \/ AttachLink(p)
             \/ DetachPause(p) \/ DetachCard(p)
    <3>1. UNCHANGED <<occ, start, dropped>>
      BY <2>2 DEF SkipRefused, SkipSave, AttachTemplate, AttachLink, DetachPause, DetachCard, db
    <3> QED BY <3>1, UntouchedStutter
  <2>3. CASE Duplicate(p)
    BY <2>3, BirthBegins DEF Ledger!Next
  <2> QED BY <1>5, <2>1, <2>2, <2>3 DEF Skip, Convert
<1>6. ASSUME NEW p \in Procs, Fail(p) PROVE [Ledger!Next]_Ledger!lvars
  BY <1>6, UntouchedStutter DEF Fail, db
<1>7. ASSUME NEW p \in Procs, SetRunState(p) PROVE [Ledger!Next]_Ledger!lvars
  BY <1>7, RunStateStutter
<1>8. CASE PauseOrResume \/ NextDay \/ Crash \/ AtBound \/ UNCHANGED vars
  <2>1. UNCHANGED <<occ, start, dropped>>
    BY <1>8 DEF PauseOrResume, NextDay, Crash, AtBound, vars, db
  <2> QED BY <2>1, UntouchedStutter
<1> QED BY <1>1, <1>2, <1>3, <1>4, <1>5, <1>6, <1>7, <1>8 DEF Next, Continue

\* The planner starts with an empty ledger.
LEMMA LedgerInit == Init => Ledger!Init
BY DEF Init, Ledger!Init, Recorded

\* The planner, with its jobs, requests, stale copies, failures and crashes,
\* implements the ledger: runs are recorded one by one, in order, on their dates.
THEOREM PlannerKeepsLedger == Spec => KeepsLedger
<1> QED BY LedgerInit, LedgerStep, Invariance, PTL DEF Spec, KeepsLedger, Ledger!Spec
=============================================================================
