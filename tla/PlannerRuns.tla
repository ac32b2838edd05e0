---------------------------- MODULE PlannerRuns ----------------------------
(***************************************************************************)
(* The planner: recurring series (rows of recurring_task_templates), their *)
(* runs (rows of recurring_task_occurrences) and the cards of the runs     *)
(* (rows of tasks).  The tables are sets of rows and every step of a       *)
(* process is one statement of the service between two awaits, so that the *)
(* cron jobs, the board sync and the requests of the users interleave here *)
(* where they interleave in the Node process.  No code path opens a        *)
(* transaction.                                                            *)
(*                                                                         *)
(* Dates are day numbers.  A series has one rule: NextDue gives the date   *)
(* after a date, and DueOf[d][k] is the date of run k of the series that   *)
(* starts on d, that is NextDue applied k-1 times.                         *)
(***************************************************************************)
EXTENDS Naturals, FiniteSets

CONSTANTS
    Series,       \* ids of series
    Procs,        \* requests and jobs that may be in progress at once
    Days,         \* the days of the calendar of the model
    NextDue,      \* computeNextRecurringDueDate for the rule of the series
    DueOf,        \* the schedule the rule yields, by start date and sequence
    CreateDays,   \* createDaysBeforeDue
    EndAfter,     \* endAfterOccurrences, 0 when the series has no such end
    Ops,          \* the entry points each process may call
    MaxSeq,       \* bound: sequence numbers
    MaxRows,      \* bound: rows ever inserted (tasks and occurrences)
    MaxSkip,      \* bound: steps of one skip-next request
    MaxFaults,    \* bound: failed statements and crashes
    None

SeriesAssumption == None \notin Series /\ None \notin Nat

BoundAssumption ==
    /\ Days \subseteq Nat
    /\ CreateDays \in Nat /\ EndAfter \in Nat
    /\ MaxSeq \in Nat \ {0} /\ MaxRows \in Nat /\ MaxSkip \in Nat /\ MaxFaults \in Nat

\* The rule repeats (it is not NONE), so that it always moves the date forward
\* and a schedule never repeats a date.
ScheduleAssumption ==
    /\ \A d \in Days : NextDue[d] \in Nat /\ NextDue[d] > d
    /\ \A d \in Days : DueOf[d][1] = d
    /\ \A d \in Days, k \in 1..MaxSeq + 1 : DueOf[d][k] \in Nat
    /\ \A d \in Days, k \in 1..MaxSeq : DueOf[d][k + 1] = NextDue[DueOf[d][k]]
    /\ \A d \in Days, j, k \in 1..MaxSeq + 1 : j < k => DueOf[d][j] < DueOf[d][k]

ASSUME PlannerAssumption == SeriesAssumption /\ BoundAssumption /\ ScheduleAssumption

VARIABLES
    today,        \* nowYmd()
    tpl,          \* recurring_task_templates
    occ,          \* recurring_task_occurrences
    task,         \* tasks
    fresh,        \* the next row id (generateUuid: an id is never used twice)
    start,        \* startDueDate of every series created so far, None before
    pc,           \* where each process is
    loc,          \* what each process remembers across its awaits
    dropped,      \* history: runs <<series, sequence>> whose row was deleted
    faults        \* failed statements and crashes so far

db   == <<tpl, occ, task>>
vars == <<today, tpl, occ, task, fresh, start, pc, loc, dropped, faults>>

\* COMPLETED stands for SUBMITTED too (done, waiting for a review): the planner
\* asks of a state only whether it is PENDING and whether it is SKIPPED.
RunStates == {"PENDING", "COMPLETED", "SKIPPED"}

TplRow  == [id : Series, last : Nat, gc : Nat, next : Nat, paused : BOOLEAN]
OccRow  == [id : Nat, tpl : Series, seq : Nat \ {0}, due : Nat, state : RunStates,
            task : Nat \cup {None}]

\* A card has a sequence exactly if it is linked to a series.
TaskRow == {t \in [id : Nat, tpl : Series \cup {None}, seq : Nat] : t.tpl = None <=> t.seq = 0}

Victim  == [task : Nat \cup {None}, occ : Nat \cup {None}]

\* null is no row.
ASSUME RowAssumption == None \notin TplRow /\ None \notin OccRow

(***************************************************************************)
(* What a process remembers: the date it started on, the templates it has  *)
(* read, the one it works on, the card it has created, the pending runs    *)
(* left to repair and the one looked up, the cards the board shows,   *)
(* what is left to delete and what is being deleted, the skips left, and   *)
(* where to go on when a shared part ends.                                 *)
(***************************************************************************)
Fresh == [day |-> 0, tpls |-> {}, cur |-> None, card |-> None, rows |-> {}, row |-> None,
          seen |-> {}, doomed |-> {}, victim |-> None, left |-> 0, ret |-> "idle"]

Init ==
    /\ today \in Days /\ (\A d \in Days : today <= d)
    /\ tpl = {} /\ occ = {} /\ task = {}
    /\ fresh = 1 /\ start = [s \in Series |-> None]
    /\ pc = [p \in Procs |-> "idle"]
    /\ loc = [p \in Procs |-> Fresh]
    /\ dropped = {} /\ faults = 0

-----------------------------------------------------------------------------
(* Statements on the tables, and moves of a process *)

Goto(p, label) == pc' = [pc EXCEPT ![p] = label]

Remember(p, l) == loc' = [loc EXCEPT ![p] = l]

Finish(p) == Goto(p, "idle") /\ Remember(p, Fresh)

\* INSERT INTO tasks: a card that is not linked to a series yet, its sequence
\* null (0 here).
InsertCard(p) ==
    /\ fresh < MaxRows
    /\ task' = task \cup {[id |-> fresh, tpl |-> None, seq |-> 0]}
    /\ fresh' = fresh + 1

\* Mutant: the card is linked to the series without its sequence.
LinkSeriesOnly(id, s, n) ==
    task' = {IF t.id = id THEN [t EXCEPT !.tpl = s] ELSE t : t \in task}

\* UPDATE tasks SET recurring_template_id, recurrence_sequence WHERE id.
LinkCard(id, s, n) ==
    task' = {IF t.id = id THEN [t EXCEPT !.tpl = s, !.seq = n] ELSE t : t \in task}

\* UNIQUE KEY uq_recurring_occ_template_sequence (template_id, sequence_number).
Taken(s, n) == \E o \in occ : o.tpl = s /\ o.seq = n

InsertRun(s, n, due, state, card) ==
    /\ fresh < MaxRows
    /\ occ' = occ \cup {[id |-> fresh, tpl |-> s, seq |-> n, due |-> due,
                         state |-> state, task |-> card]}
    /\ fresh' = fresh + 1

SetRunTask(id, card) ==
    occ' = {IF o.id = id THEN [o EXCEPT !.task = card] ELSE o : o \in occ}

\* DELETE FROM recurring_task_occurrences, remembering which runs had a row.
DeleteRuns(rows) ==
    /\ occ' = occ \ rows
    /\ dropped' = dropped \cup {<<o.tpl, o.seq>> : o \in rows}

SetPaused(s, b) == tpl' = {IF r.id = s THEN [r EXCEPT !.paused = b] ELSE r : r \in tpl}

\* Mutant: off by one.
StopsLate(r) == EndAfter > 0 /\ r.gc > EndAfter

\* shouldStopRecurrence: AFTER_OCCURRENCES counts the cycles gone through.
ShouldStop(r) == EndAfter > 0 /\ r.gc >= EndAfter

\* The row after the cursor has moved to the following date.
Advanced(r) == [r EXCEPT !.last = r.last + 1, !.gc = r.gc + 1, !.next = NextDue[r.next]]

-----------------------------------------------------------------------------
(* generateDueOccurrences and generateOccurrencesForTemplate: the cron     *)
(* jobs and the first half of a board sync.                                *)

\* Mutant: a run is not due on its own day.
DueYesterday == {r \in tpl : ~r.paused /\ r.next < today}

DueTemplates == {r \in tpl : ~r.paused /\ r.next <= today}

StartGeneration(p, ret) ==
    /\ pc[p] = "idle"
    /\ Remember(p, [loc[p] EXCEPT !.day = today, !.tpls = DueTemplates, !.ret = ret])
    /\ Goto(p, "pick")
    /\ UNCHANGED <<today, db, fresh, start, dropped, faults>>

StartCron(p) == "cron" \in Ops[p] /\ StartGeneration(p, "idle")

StartSync(p) == "sync" \in Ops[p] /\ StartGeneration(p, "map")

\* The templates read at the start are processed one after the other.
PickTemplate(p) ==
    /\ pc[p] = "pick"
    /\ \E r \in loc[p].tpls :
          Remember(p, [loc[p] EXCEPT !.tpls = loc[p].tpls \ {r}, !.cur = r])
    /\ Goto(p, "check")
    /\ UNCHANGED <<today, db, fresh, start, dropped, faults>>

EndGeneration(p) ==
    /\ pc[p] = "pick"
    /\ loc[p].tpls = {}
    /\ IF loc[p].ret = "idle"
         THEN Finish(p)
         ELSE Goto(p, loc[p].ret) /\ Remember(p, Fresh)
    /\ UNCHANGED <<today, db, fresh, start, dropped, faults>>

\* createOn > today: the series is up to date (or at the bound of the model).
UpToDate(p) ==
    LET r == loc[p].cur IN
    r.next > loc[p].day + CreateDays \/ r.last >= MaxSeq \/ r.next \notin Days

GenDone(p) ==
    /\ pc[p] = "check" /\ UpToDate(p)
    /\ Remember(p, [loc[p] EXCEPT !.cur = None])
    /\ Goto(p, "pick")
    /\ UNCHANGED <<today, db, fresh, start, dropped, faults>>

GenStop(p) ==
    /\ pc[p] = "check" /\ ~UpToDate(p) /\ ShouldStop(loc[p].cur)
    /\ SetPaused(loc[p].cur.id, TRUE)
    /\ Remember(p, [loc[p] EXCEPT !.cur = None])
    /\ Goto(p, "pick")
    /\ UNCHANGED <<today, occ, task, fresh, start, dropped, faults>>

\* findByTemplateAndSequence, the first of the two idempotency reads.
GenFindSeq(p) ==
    LET r == loc[p].cur IN
    /\ pc[p] = "check" /\ ~UpToDate(p) /\ ~ShouldStop(r)
    /\ Goto(p, IF Taken(r.id, r.last + 1) THEN "advance" ELSE "date")
    /\ UNCHANGED <<today, db, fresh, start, loc, dropped, faults>>

\* Mutant: the read forgets the date.
FindAnyDate(p) ==
    LET r == loc[p].cur IN
    /\ pc[p] = "date"
    /\ Goto(p, IF \E o \in occ : o.tpl = r.id /\ o.state # "SKIPPED" THEN "advance" ELSE "create")
    /\ UNCHANGED <<today, db, fresh, start, loc, dropped, faults>>

\* findByTemplateAndDueDate: a run that is not SKIPPED holds the date.
GenFindDate(p) ==
    LET r == loc[p].cur IN
    /\ pc[p] = "date"
    /\ Goto(p, IF \E o \in occ : o.tpl = r.id /\ o.due = r.next /\ o.state # "SKIPPED"
                 THEN "advance" ELSE "create")
    /\ UNCHANGED <<today, db, fresh, start, loc, dropped, faults>>

GenCreateCard(p) ==
    /\ pc[p] = "create"
    /\ InsertCard(p)
    /\ Remember(p, [loc[p] EXCEPT !.card = fresh])
    /\ Goto(p, "link")
    /\ UNCHANGED <<today, tpl, occ, start, dropped, faults>>

\* Mutant: the card gets the sequence of the run before.
LinkLastSequence(p) ==
    /\ pc[p] = "link"
    /\ LinkCard(loc[p].card, loc[p].cur.id, loc[p].cur.last)
    /\ Goto(p, "record")
    /\ UNCHANGED <<today, tpl, occ, fresh, start, loc, dropped, faults>>

GenLinkCard(p) ==
    /\ pc[p] = "link"
    /\ LinkCard(loc[p].card, loc[p].cur.id, loc[p].cur.last + 1)
    /\ Goto(p, "record")
    /\ UNCHANGED <<today, tpl, occ, fresh, start, loc, dropped, faults>>

\* Mutant: the table has no unique key.
RecordUnkeyed(p) ==
    LET r == loc[p].cur IN
    /\ pc[p] = "record"
    /\ InsertRun(r.id, r.last + 1, r.next, "PENDING", loc[p].card)
    /\ Goto(p, "advance")
    /\ UNCHANGED <<today, tpl, task, start, loc, dropped, faults>>

GenRecordRun(p) ==
    LET r == loc[p].cur IN
    /\ pc[p] = "record"
    /\ ~Taken(r.id, r.last + 1)
    /\ InsertRun(r.id, r.last + 1, r.next, "PENDING", loc[p].card)
    /\ Goto(p, "advance")
    /\ UNCHANGED <<today, tpl, task, start, loc, dropped, faults>>

\* The unique key refuses the row: the error is caught, the template is left.
GenRecordRefused(p) ==
    /\ pc[p] = "record"
    /\ Taken(loc[p].cur.id, loc[p].cur.last + 1)
    /\ Remember(p, [loc[p] EXCEPT !.cur = None, !.card = None])
    /\ Goto(p, "pick")
    /\ UNCHANGED <<today, db, fresh, start, dropped, faults>>

\* The cursor is written from the process's own copy of the template.
GenAdvance(p) ==
    LET r == Advanced(loc[p].cur) IN
    /\ pc[p] = "advance"
    /\ tpl' = {IF q.id = r.id
                 THEN [q EXCEPT !.last = r.last, !.gc = r.gc, !.next = r.next]
                 ELSE q : q \in tpl}
    /\ Remember(p, [loc[p] EXCEPT !.cur = r, !.card = None])
    /\ Goto(p, "check")
    /\ UNCHANGED <<today, occ, task, fresh, start, dropped, faults>>

Generate(p) ==
    \/ PickTemplate(p) \/ EndGeneration(p) \/ GenDone(p) \/ GenStop(p)
    \/ GenFindSeq(p) \/ GenFindDate(p) \/ GenCreateCard(p) \/ GenLinkCard(p)
    \/ GenRecordRun(p) \/ GenRecordRefused(p) \/ GenAdvance(p)

-----------------------------------------------------------------------------
(* syncBoardTasks after its generation: purgeOrphanRecurringRuns, then a   *)
(* card for every pending run that has none.                               *)

SyncReadTemplates(p) ==
    /\ pc[p] = "map"
    /\ Remember(p, [loc[p] EXCEPT !.tpls = tpl])
    /\ Goto(p, "orphans")
    /\ UNCHANGED <<today, db, fresh, start, dropped, faults>>

\* The process takes a series for deleted when its own copy of the table lacks it.
Unknown(p, s) == s # None /\ \A r \in loc[p].tpls : r.id # s

SyncReadOrphanRuns(p) ==
    /\ pc[p] = "orphans"
    /\ Remember(p, [loc[p] EXCEPT !.ret = "cards",
          !.doomed = {[task |-> o.task, occ |-> o.id] : o \in {q \in occ : Unknown(p, q.tpl)}}])
    /\ Goto(p, "purge")
    /\ UNCHANGED <<today, db, fresh, start, dropped, faults>>

\* Mutant: the purge stops after the runs.
ReadNoCards(p) ==
    /\ pc[p] = "cards"
    /\ Goto(p, "pending")
    /\ UNCHANGED <<today, db, fresh, start, loc, dropped, faults>>

SyncReadOrphanCards(p) ==
    /\ pc[p] = "cards"
    /\ Remember(p, [loc[p] EXCEPT !.ret = "pending",
          !.doomed = {[task |-> t.id, occ |-> None] : t \in {q \in task : Unknown(p, q.tpl)}}])
    /\ Goto(p, "purge")
    /\ UNCHANGED <<today, db, fresh, start, dropped, faults>>

SyncReadPending(p) ==
    /\ pc[p] = "pending"
    /\ Remember(p, [loc[p] EXCEPT !.rows = {o \in occ : o.state = "PENDING"}])
    /\ Goto(p, "tasks")
    /\ UNCHANGED <<today, db, fresh, start, dropped, faults>>

SyncReadCards(p) ==
    /\ pc[p] = "tasks"
    /\ Remember(p, [loc[p] EXCEPT !.seen = {t.id : t \in {q \in task : q.tpl # None}}])
    /\ Goto(p, "each")
    /\ UNCHANGED <<today, db, fresh, start, dropped, faults>>

\* resolveTemplateForOccurrence: the copy of the run's own series, or its row
\* now; else the only series of the copy that is not paused.
Known(p, o) ==
    LET copy == {r \in loc[p].tpls : r.id = o.tpl}
    IN  IF copy # {} THEN copy ELSE {r \in tpl : r.id = o.tpl}

Active(rows) == {r \in rows : ~r.paused}

Resolved(p, o) ==
    IF Active(Known(p, o)) # {} THEN Active(Known(p, o))
    ELSE IF Cardinality(Active(loc[p].tpls)) = 1 THEN Active(loc[p].tpls)
    ELSE {}

\* The pending runs are taken in the order of their dates.
NextRow(p) == {o \in loc[p].rows : \A q \in loc[p].rows : o.due <= q.due}

\* Mutant: a run with a link is left alone, even if the card is gone.
SkipLinkedRun(p) ==
    /\ pc[p] = "each"
    /\ \E o \in NextRow(p) :
          /\ Resolved(p, o) = {} \/ o.task # None
          /\ Remember(p, [loc[p] EXCEPT !.rows = loc[p].rows \ {o},
                                !.tpls = loc[p].tpls \cup Active(Known(p, o))])
    /\ UNCHANGED <<today, db, fresh, start, pc, dropped, faults>>

SyncSkipRun(p) ==
    /\ pc[p] = "each"
    /\ \E o \in NextRow(p) :
          /\ Resolved(p, o) = {} \/ o.task \in loc[p].seen
          /\ Remember(p, [loc[p] EXCEPT !.rows = loc[p].rows \ {o},
                                !.tpls = loc[p].tpls \cup Active(Known(p, o))])
    /\ UNCHANGED <<today, db, fresh, start, pc, dropped, faults>>

\* A run whose card is not on the board loses its link and gets a new card.
SyncRepairRun(p) ==
    /\ pc[p] = "each"
    /\ \E o \in NextRow(p) :
          /\ o.task \notin loc[p].seen
          /\ \E r \in Resolved(p, o) :
                Remember(p, [loc[p] EXCEPT !.rows = loc[p].rows \ {o},
                                   !.tpls = loc[p].tpls \cup Active(Known(p, o)),
                                   !.cur = r, !.row = o])
          /\ IF o.task = None THEN occ' = occ ELSE SetRunTask(o.id, None)
    /\ Goto(p, "mcreate")
    /\ UNCHANGED <<today, tpl, task, fresh, start, dropped, faults>>

MatCreateCard(p) ==
    /\ pc[p] = "mcreate"
    /\ InsertCard(p)
    /\ Remember(p, [loc[p] EXCEPT !.card = fresh])
    /\ Goto(p, "mlink")
    /\ UNCHANGED <<today, tpl, occ, start, dropped, faults>>

MatLinkCard(p) ==
    /\ pc[p] = "mlink"
    /\ LinkCard(loc[p].card, loc[p].cur.id, loc[p].row.seq)
    /\ Goto(p, "mrecord")
    /\ UNCHANGED <<today, tpl, occ, fresh, start, loc, dropped, faults>>

MatRecord(p) ==
    /\ pc[p] = "mrecord"
    /\ SetRunTask(loc[p].row.id, loc[p].card)
    /\ Remember(p, [loc[p] EXCEPT !.cur = None, !.row = None, !.card = None])
    /\ Goto(p, "each")
    /\ UNCHANGED <<today, tpl, task, fresh, start, dropped, faults>>

SyncEnd(p) ==
    /\ pc[p] = "each" /\ loc[p].rows = {}
    /\ Finish(p)
    /\ UNCHANGED <<today, db, fresh, start, dropped, faults>>

Sync(p) ==
    \/ SyncReadTemplates(p) \/ SyncReadOrphanRuns(p) \/ SyncReadOrphanCards(p)
    \/ SyncReadPending(p) \/ SyncReadCards(p) \/ SyncSkipRun(p) \/ SyncRepairRun(p)
    \/ MatCreateCard(p) \/ MatLinkCard(p) \/ MatRecord(p) \/ SyncEnd(p)

-----------------------------------------------------------------------------
(* TasksService.delete, for one card (a user) or for a set of cards and    *)
(* runs (the purge of a sync, deleteSeries).                               *)

Background(p) == loc[p].ret # "idle"

StartDeleteCard(p) ==
    /\ "deleteCard" \in Ops[p] /\ pc[p] = "idle"
    /\ \E t \in task :
          /\ Remember(p, [loc[p] EXCEPT !.victim = [task |-> t.id, occ |-> None]])
          /\ Goto(p, IF t.tpl = None THEN "erase" ELSE "unhook")
    /\ UNCHANGED <<today, db, fresh, start, dropped, faults>>

\* The next of the set: its card is looked up first.
PurgeNext(p) ==
    /\ pc[p] = "purge"
    /\ \E v \in loc[p].doomed :
          LET card == {t \in task : t.id = v.task} IN
          /\ Remember(p, [loc[p] EXCEPT !.doomed = loc[p].doomed \ {v}, !.victim = v])
          /\ Goto(p, IF \E t \in card : t.tpl # None THEN "unhook"
                     ELSE IF card # {} THEN "erase" ELSE "forget")
    /\ UNCHANGED <<today, db, fresh, start, dropped, faults>>

PurgeEnd(p) ==
    /\ pc[p] = "purge" /\ loc[p].doomed = {}
    /\ Goto(p, loc[p].ret)
    /\ UNCHANGED <<today, db, fresh, start, loc, dropped, faults>>

\* removeOccurrenceForTask: one run that points to the card is looked up ...
Unhook(p) ==
    LET runs == {o \in occ : o.task # None /\ o.task = loc[p].victim.task} IN
    /\ pc[p] = "unhook"
    /\ \/ runs = {} /\ Goto(p, "erase") /\ loc' = loc
       \/ /\ \E o \in runs : Remember(p, [loc[p] EXCEPT !.row = o])
          /\ Goto(p, "drop")
    /\ UNCHANGED <<today, db, fresh, start, dropped, faults>>

\* ... and deleted by its id, whatever it points to by then.
Drop(p) ==
    /\ pc[p] = "drop"
    /\ DeleteRuns({o \in occ : o.id = loc[p].row.id})
    /\ Remember(p, [loc[p] EXCEPT !.row = None])
    /\ Goto(p, "erase")
    /\ UNCHANGED <<today, tpl, task, fresh, start, faults>>

Erase(p) ==
    LET card == {t \in task : t.id = loc[p].victim.task} IN
    /\ pc[p] = "erase"
    /\ task' = task \ card
    /\ IF Background(p)
         THEN Goto(p, "forget") /\ UNCHANGED loc
         ELSE Finish(p)
    /\ UNCHANGED <<today, tpl, occ, fresh, start, dropped, faults>>

\* The purge deletes the run by its id too, in case no card led to it.
Forget(p) ==
    /\ pc[p] = "forget"
    /\ DeleteRuns({o \in occ : o.id = loc[p].victim.occ})
    /\ Remember(p, [loc[p] EXCEPT !.victim = None])
    /\ Goto(p, "purge")
    /\ UNCHANGED <<today, tpl, task, fresh, start, faults>>

Delete(p) ==
    PurgeNext(p) \/ PurgeEnd(p) \/ Unhook(p) \/ Drop(p) \/ Erase(p) \/ Forget(p)

-----------------------------------------------------------------------------
(* deleteSeries *)

StartDeleteSeries(p) ==
    /\ "deleteSeries" \in Ops[p] /\ pc[p] = "idle"
    /\ \E r \in tpl :
          Remember(p, [loc[p] EXCEPT !.cur = r, !.ret = "dstpl",
             !.doomed = {[task |-> o.task, occ |-> None] :
                               o \in {q \in occ : q.tpl = r.id /\ q.task # None}}])
    /\ Goto(p, "dscards")
    /\ UNCHANGED <<today, db, fresh, start, dropped, faults>>

SeriesReadCards(p) ==
    /\ pc[p] = "dscards"
    /\ Remember(p, [loc[p] EXCEPT !.doomed = loc[p].doomed \cup
                  {[task |-> t.id, occ |-> None] : t \in {q \in task : q.tpl = loc[p].cur.id}}])
    /\ Goto(p, "dsruns")
    /\ UNCHANGED <<today, db, fresh, start, dropped, faults>>

SeriesDropRuns(p) ==
    /\ pc[p] = "dsruns"
    /\ DeleteRuns({o \in occ : o.tpl = loc[p].cur.id})
    /\ Goto(p, "purge")
    /\ UNCHANGED <<today, tpl, task, fresh, start, loc, faults>>

SeriesDropTemplate(p) ==
    /\ pc[p] = "dstpl"
    /\ tpl' = {r \in tpl : r.id # loc[p].cur.id}
    /\ Finish(p)
    /\ UNCHANGED <<today, occ, task, fresh, start, dropped, faults>>

DeleteSeries(p) == SeriesReadCards(p) \/ SeriesDropRuns(p) \/ SeriesDropTemplate(p)

-----------------------------------------------------------------------------
(* skipNextOccurrence: the dates skipped get rows of their own, the cursor *)
(* moves, the count of cycles does not.                                    *)

StartSkip(p) ==
    /\ "skip" \in Ops[p] /\ pc[p] = "idle"
    /\ \E r \in tpl, n \in 1..MaxSkip :
          /\ r.last + n <= MaxSeq /\ DueOf[start[r.id]][r.last + n] \in Days
          /\ Remember(p, [loc[p] EXCEPT !.cur = r, !.left = n])
    /\ Goto(p, "skip")
    /\ UNCHANGED <<today, db, fresh, start, dropped, faults>>

\* Mutant: the cursor passes the date and no row is written.
SkipWithoutRow(p) ==
    LET r == loc[p].cur IN
    /\ pc[p] = "skip"
    /\ ~Taken(r.id, r.last + 1)
    /\ Remember(p, [loc[p] EXCEPT !.left = loc[p].left - 1,
          !.cur = [r EXCEPT !.last = r.last + 1, !.next = NextDue[r.next]]])
    /\ Goto(p, IF loc[p].left = 1 THEN "skipsave" ELSE "skip")
    /\ UNCHANGED <<today, db, fresh, start, dropped, faults>>

SkipInsert(p) ==
    LET r == loc[p].cur IN
    /\ pc[p] = "skip"
    /\ ~Taken(r.id, r.last + 1)
    /\ InsertRun(r.id, r.last + 1, r.next, "SKIPPED", None)
    /\ Remember(p, [loc[p] EXCEPT !.left = loc[p].left - 1,
          !.cur = [r EXCEPT !.last = r.last + 1, !.next = NextDue[r.next]]])
    /\ Goto(p, IF loc[p].left = 1 THEN "skipsave" ELSE "skip")
    /\ UNCHANGED <<today, tpl, task, start, dropped, faults>>

\* The unique key refuses a row: the request ends with what it has inserted.
SkipRefused(p) ==
    /\ pc[p] = "skip"
    /\ Taken(loc[p].cur.id, loc[p].cur.last + 1)
    /\ Finish(p)
    /\ UNCHANGED <<today, db, fresh, start, dropped, faults>>

\* Mutant: the sequence is saved without the date that goes with it.
SaveSequenceOnly(p) ==
    LET r == loc[p].cur IN
    /\ pc[p] = "skipsave"
    /\ tpl' = {IF q.id = r.id THEN [q EXCEPT !.last = r.last] ELSE q : q \in tpl}
    /\ Finish(p)
    /\ UNCHANGED <<today, occ, task, fresh, start, dropped, faults>>

SkipSave(p) ==
    LET r == loc[p].cur IN
    /\ pc[p] = "skipsave"
    /\ tpl' = {IF q.id = r.id THEN [q EXCEPT !.last = r.last, !.next = r.next] ELSE q : q \in tpl}
    /\ Finish(p)
    /\ UNCHANGED <<today, occ, task, fresh, start, dropped, faults>>

Skip(p) == SkipInsert(p) \/ SkipRefused(p) \/ SkipSave(p)

-----------------------------------------------------------------------------
(* A card becomes a series (create, update with a recurrence), stops being *)
(* one (repeat NONE), or a series is copied.                               *)

Unborn == {s \in Series : start[s] = None}

\* The row of a new series, its cursor on sequence n and the date after it.
NewSeries(s, n, next) ==
    [id |-> s, last |-> n, gc |-> n, next |-> next, paused |-> FALSE]

\* tasks.service create inserts the card before the series exists; an update
\* converts a card that is there.
StartAttach(p) ==
    /\ "attach" \in Ops[p] /\ pc[p] = "idle"
    /\ \E s \in Unborn, d \in Days :
          LET r == NewSeries(s, 1, NextDue[d]) IN
          /\ start' = [start EXCEPT ![s] = d]
          /\ \/ /\ InsertCard(p)
                /\ Remember(p, [loc[p] EXCEPT !.cur = r, !.card = fresh])
             \/ /\ \E t \in task :
                      t.tpl = None /\ Remember(p, [loc[p] EXCEPT !.cur = r, !.card = t.id])
                /\ UNCHANGED <<task, fresh>>
    /\ Goto(p, "atpl")
    /\ UNCHANGED <<today, tpl, occ, dropped, faults>>

\* The due date of the card is the first run; the cursor stands after it.
AttachTemplate(p) ==
    /\ pc[p] = "atpl"
    /\ tpl' = tpl \cup {loc[p].cur}
    /\ Goto(p, "arun")
    /\ UNCHANGED <<today, occ, task, fresh, start, loc, dropped, faults>>

AttachRun(p) ==
    LET r == loc[p].cur IN
    /\ pc[p] = "arun"
    /\ ~Taken(r.id, 1)
    /\ InsertRun(r.id, 1, start[r.id], "PENDING", loc[p].card)
    /\ Goto(p, "alink")
    /\ UNCHANGED <<today, tpl, task, start, loc, dropped, faults>>

AttachLink(p) ==
    /\ pc[p] = "alink"
    /\ LinkCard(loc[p].card, loc[p].cur.id, 1)
    /\ Finish(p)
    /\ UNCHANGED <<today, tpl, occ, fresh, start, dropped, faults>>

\* updateRecurrenceFromTask with NONE reads the card, pauses its series (if
\* the series is still there) and frees the card; the run of the card keeps its
\* row and its link.
StartDetach(p) ==
    /\ "detach" \in Ops[p] /\ pc[p] = "idle"
    /\ \E t \in task :
          /\ t.tpl # None
          /\ \/ /\ \A r \in tpl : r.id # t.tpl
                /\ Remember(p, [loc[p] EXCEPT !.card = t.id])
                /\ Goto(p, "dunlink")
             \/ /\ \E r \in tpl :
                      r.id = t.tpl /\ Remember(p, [loc[p] EXCEPT !.card = t.id, !.cur = r])
                /\ Goto(p, "dpause")
    /\ UNCHANGED <<today, db, fresh, start, dropped, faults>>

DetachPause(p) ==
    /\ pc[p] = "dpause"
    /\ SetPaused(loc[p].cur.id, TRUE)
    /\ Goto(p, "dunlink")
    /\ UNCHANGED <<today, occ, task, fresh, start, loc, dropped, faults>>

DetachCard(p) ==
    /\ pc[p] = "dunlink"
    /\ LinkCard(loc[p].card, None, 0)
    /\ Finish(p)
    /\ UNCHANGED <<today, tpl, occ, fresh, start, dropped, faults>>

\* duplicateTemplate reads the series to copy ...
StartDuplicate(p) ==
    /\ "duplicate" \in Ops[p] /\ pc[p] = "idle"
    /\ \E q \in tpl : Remember(p, [loc[p] EXCEPT !.cur = q])
    /\ Goto(p, "copy")
    /\ UNCHANGED <<today, db, fresh, start, dropped, faults>>

\* The first date of the copy: the next date of the original, at the earliest today.
CopyDate(q) == IF q.next >= today THEN q.next ELSE today

\* Mutant: the copy keeps the sequence of the original.
DuplicateCursor(p) ==
    LET q == loc[p].cur IN
    /\ pc[p] = "copy"
    /\ \E s \in Unborn, d \in Days :
          /\ d = CopyDate(q)
          /\ tpl' = tpl \cup {NewSeries(s, q.last, d)}
          /\ start' = [start EXCEPT ![s] = d]
          /\ Remember(p, [loc[p] EXCEPT !.day = today, !.cur = NewSeries(s, q.last, d)])
    /\ Goto(p, "check")
    /\ UNCHANGED <<today, occ, task, fresh, dropped, faults>>

\* ... inserts a series that starts afresh, and generates at once.
Duplicate(p) ==
    /\ pc[p] = "copy"
    /\ \E s \in Unborn, d \in Days :
          /\ d = CopyDate(loc[p].cur)
          /\ tpl' = tpl \cup {NewSeries(s, 0, d)}
          /\ start' = [start EXCEPT ![s] = d]
          /\ Remember(p, [loc[p] EXCEPT !.day = today, !.cur = NewSeries(s, 0, d)])
    /\ Goto(p, "check")
    /\ UNCHANGED <<today, occ, task, fresh, dropped, faults>>

Convert(p) ==
    \/ AttachTemplate(p) \/ AttachRun(p) \/ AttachLink(p)
    \/ DetachPause(p) \/ DetachCard(p) \/ Duplicate(p)

-----------------------------------------------------------------------------
(* Pausing a series, the state of a run, time, failures *)

\* pauseTemplate, archiveTemplate and resumeTemplate.
PauseOrResume ==
    /\ \E p \in Procs : "pause" \in Ops[p] /\ pc[p] = "idle"
    /\ \E r \in tpl : SetPaused(r.id, ~r.paused)
    /\ UNCHANGED <<today, occ, task, fresh, start, pc, loc, dropped, faults>>

\* The card moves into or out of Done, or its run is completed, submitted or
\* sent back by a reviewer: the run is looked up by its card ...
StartStatus(p) ==
    /\ "status" \in Ops[p] /\ pc[p] = "idle"
    /\ \E o \in occ :
          /\ \E t \in task : t.id = o.task /\ t.tpl # None
          /\ Remember(p, [loc[p] EXCEPT !.row = o])
    /\ Goto(p, "state")
    /\ UNCHANGED <<today, db, fresh, start, dropped, faults>>

\* ... and written by its id.
SetRunState(p) ==
    /\ pc[p] = "state"
    /\ \E s \in {"PENDING", "COMPLETED"} :
          occ' = {IF o.id = loc[p].row.id THEN [o EXCEPT !.state = s] ELSE o : o \in occ}
    /\ Finish(p)
    /\ UNCHANGED <<today, tpl, task, fresh, start, dropped, faults>>

NextDay ==
    /\ today + 1 \in Days
    /\ today' = today + 1
    /\ UNCHANGED <<db, fresh, start, pc, loc, dropped, faults>>

GenLabels == {"check", "date", "create", "link", "record", "advance"}
MatLabels == {"mcreate", "mlink", "mrecord"}
DelLabels == {"unhook", "drop", "erase"}

\* A statement of p fails.  Generation goes on with the next template, repair
\* with the next run, a deletion in the background with a plain delete of the
\* card and then without it; any other request ends.
Fail(p) ==
    /\ faults < MaxFaults /\ pc[p] # "idle"
    /\ faults' = faults + 1
    /\ \/ /\ pc[p] \in GenLabels
          /\ Remember(p, [loc[p] EXCEPT !.cur = None, !.card = None])
          /\ Goto(p, "pick")
       \/ /\ pc[p] \in MatLabels
          /\ Remember(p, [loc[p] EXCEPT !.cur = None, !.row = None, !.card = None])
          /\ Goto(p, "each")
       \/ /\ pc[p] \in DelLabels /\ Background(p)
          /\ Remember(p, [loc[p] EXCEPT !.row = None])
          /\ Goto(p, IF pc[p] = "erase" THEN "forget" ELSE "erase")
       \/ /\ pc[p] \notin GenLabels \cup MatLabels
          /\ ~(pc[p] \in DelLabels /\ Background(p))
          /\ Finish(p)
    /\ UNCHANGED <<today, db, fresh, start, dropped>>

\* The Node process dies: what its requests and jobs remembered is lost.
Crash ==
    /\ faults < MaxFaults
    /\ \E p \in Procs : pc[p] # "idle"
    /\ faults' = faults + 1
    /\ pc' = [p \in Procs |-> "idle"]
    /\ loc' = [p \in Procs |-> Fresh]
    /\ UNCHANGED <<today, db, fresh, start, dropped>>

\* The bound of the model on rows, where an insert would block.
AtBound == fresh = MaxRows /\ UNCHANGED vars

-----------------------------------------------------------------------------
Start(p) ==
    \/ StartCron(p) \/ StartSync(p) \/ StartDeleteCard(p) \/ StartDeleteSeries(p)
    \/ StartSkip(p) \/ StartAttach(p) \/ StartDetach(p) \/ StartDuplicate(p) \/ StartStatus(p)

Continue(p) ==
    \/ Generate(p) \/ Sync(p) \/ Delete(p) \/ DeleteSeries(p) \/ Skip(p) \/ Convert(p)
    \/ SetRunState(p)

Next ==
    \/ \E p \in Procs : Start(p) \/ Continue(p) \/ Fail(p)
    \/ PauseOrResume \/ NextDay \/ Crash \/ AtBound

Spec == Init /\ [][Next]_vars

\* A request that has begun goes on; the cron jobs fire and the board page
\* polls for ever.  Strong fairness of the two starts only says that Procs is
\* a bound of the model: in the server a job never waits for another to end.
Fairness ==
    /\ \A p \in Procs : WF_vars(pc[p] # "idle" /\ Continue(p))
    /\ SF_vars(\E p \in Procs : StartCron(p))
    /\ SF_vars(\E p \in Procs : StartSync(p))

FairSpec == Spec /\ Fairness
-----------------------------------------------------------------------------
(* What the planner promises *)

LocalRow ==
    [day : Nat, tpls : SUBSET TplRow, cur : TplRow \cup {None}, card : Nat \cup {None},
     rows : SUBSET OccRow, row : OccRow \cup {None}, seen : SUBSET Nat,
     doomed : SUBSET Victim, victim : Victim \cup {None}, left : Nat,
     ret : {"idle", "map", "cards", "pending", "dstpl"}]

Labels ==
    {"idle", "pick", "map", "orphans", "cards", "pending", "tasks", "each"} \cup
    GenLabels \cup MatLabels \cup DelLabels \cup {"purge", "forget"} \cup
    {"dscards", "dsruns", "dstpl", "skip", "skipsave", "atpl", "arun", "alink"} \cup
    {"dpause", "dunlink", "copy", "state"}

\* Every table holds rows of its own columns, every process is at a known await.
TypeOK ==
    /\ today \in Nat /\ fresh \in Nat /\ faults \in Nat
    /\ tpl \in SUBSET TplRow /\ occ \in SUBSET OccRow /\ task \in SUBSET TaskRow
    /\ start \in [Series -> Days \cup {None}]
    /\ pc \in [Procs -> Labels] /\ loc \in [Procs -> LocalRow]

Live(s)   == \E r \in tpl : r.id = s
Unpaused(s) == \E r \in tpl : r.id = s /\ ~r.paused

\* The k-th run of a series falls on the k-th date of its rule, whichever
\* process recorded or skipped it and however stale its copy of the cursor was.
OnSchedule == \A o \in occ : o.due = DueOf[start[o.tpl]][o.seq]

\* recurring-tasks.service.ts: "never create a second non-skipped run for the
\* same date, even if the scheduler runs concurrently".  The cursor can move
\* back (a stale copy is written over a newer one) and runs can be deleted and
\* generated again, and still a series has one run that counts for each date.
OneRunPerDate ==
    \A o, q \in occ :
        /\ o.tpl = q.tpl /\ o.due = q.due
        /\ o.state # "SKIPPED" /\ q.state # "SKIPPED"
        => o = q

Attaching(s) == \E p \in Procs : pc[p] = "arun" /\ loc[p].cur.id = s

\* Sequence n of series s got its row.  The first run of a converted card is
\* recorded after the series, so a failure in between loses that one.
Covered(s, n) ==
    \/ Taken(s, n) \/ <<s, n>> \in dropped
    \/ n = 1 /\ (faults > 0 \/ Attaching(s))

\* The cursor of a series never passes a date that got no row: whatever the
\* interleaving or the failure, each sequence number up to it was recorded,
\* as a run or as a skip, even if its row was deleted later.
NoDateLost == \A r \in tpl : \A n \in 1..r.last : Covered(r.id, n)

\* A run and the card it points to agree on the sequence: completing the card
\* completes that run and no other of its series.  (They may differ on the
\* series: a detached card made into another series still has its first run,
\* and a sync gives a run whose series is paused to the only active one.)
RunAgreesWithCard ==
    \A o \in occ, t \in task : o.task = t.id /\ t.tpl = o.tpl => t.seq = o.seq

\* Sequence n of series s was skipped, or its row was deleted.
Passed(s, n) ==
    \/ \E o \in occ : o.tpl = s /\ o.seq = n /\ o.state = "SKIPPED"
    \/ <<s, n>> \in dropped

PassedBefore(s, k) == \E n \in 1..k : Passed(s, n)

\* AFTER_OCCURRENCES: overlapping generators, whose copies of the count go
\* stale, record a run past the end of the series only if an earlier date was
\* skipped or deleted.  (Runs may then exceed the end: a skip saves the cursor
\* without the count, over whatever count a stale generator wrote before.)
EndsAfterOccurrences ==
    \A o \in occ :
        EndAfter > 0 /\ o.state # "SKIPPED" /\ o.seq > EndAfter
        => PassedBefore(o.tpl, o.seq - 1)

\* Every date of a series that has come gets its run, unless the series is
\* paused or deleted first.  (The first run is the card the series was made
\* from; no generator makes up for it.)
DueRunsGenerated ==
    \A s \in Series, n \in 2..MaxSeq :
        []<>(\A r \in tpl : r.id = s /\ ~r.paused /\ DueOf[start[s]][n] \in Days
                            /\ DueOf[start[s]][n] <= today
                => Taken(s, n) \/ <<s, n>> \in dropped)

OnBoard(o) == \E t \in task : t.id = o.task /\ t.tpl # None

\* A pending run whose card is missing (a crash, a lost link) gets a card back.
PendingRunsGetCards ==
    \A s \in Series :
        []<>(Unpaused(s) =>
                \A o \in occ : o.tpl = s /\ o.state = "PENDING" => OnBoard(o))

\* Whatever was in progress when a series was deleted, none of its runs and
\* cards is left in the end.
DeletedSeriesLeavesNothing ==
    \A s \in Series :
        []<>(start[s] # None /\ ~Live(s) =>
                (\A o \in occ : o.tpl # s) /\ (\A t \in task : t.tpl # s))

-----------------------------------------------------------------------------
(* The planner implements the ledger of SeriesLedger: a row is its id, its  *)
(* run and its date, and the ledger holds the runs that have or had a row.  *)

RunRow(o) == [id |-> o.id, tpl |-> o.tpl, seq |-> o.seq, due |-> o.due]

Recorded == {<<o.tpl, o.seq>> : o \in occ} \cup dropped

Ledger == INSTANCE SeriesLedger
              WITH Ids <- 0..MaxRows, runs <- {RunRow(o) : o \in occ}, ledger <- Recorded

\* Six kinds of requests and two jobs insert, skip, repair and delete runs
\* from stale copies; seen from the tables they record them one by one, in
\* order, each on its date, and never again while the row is there.
KeepsLedger == Ledger!Spec

-----------------------------------------------------------------------------
(* The inductive invariant behind OnSchedule, OneRunPerDate and NoDateLost: *)
(* not only the rows of the tables but every copy of a series that a        *)
(* process still holds lies on the schedule, with all runs before it made.  *)

Aligned(r) ==
    /\ start[r.id] # None
    /\ r.last <= MaxSeq
    /\ r.next = DueOf[start[r.id]][r.last + 1]

Sound(r) == Aligned(r) /\ \A n \in 1..r.last : Covered(r.id, n)

UniqueKey == \A o, q \in occ : o.tpl = q.tpl /\ o.seq = q.seq => o = q

TablesOK ==
    /\ \A r \in tpl : Sound(r)
    /\ \A o \in occ : start[o.tpl] # None /\ o.seq \in 1..MaxSeq
    /\ OnSchedule
    /\ UniqueKey

HoldsSeries == {"check", "date", "create", "link", "record", "advance", "skip",
                "skipsave", "atpl", "arun", "alink", "mcreate", "mlink"}

\* What a process at an await remembers.
Good(l, label) ==
    /\ \A r \in l.tpls : Sound(r)
    /\ label \in HoldsSeries => l.cur # None
    /\ l.cur # None => Aligned(l.cur)
    /\ l.cur # None /\ label # "atpl" => \A n \in 1..l.cur.last : Covered(l.cur.id, n)
    /\ label \in {"mcreate", "mlink"} => l.row # None
    /\ label \in {"date", "create", "link", "record", "advance"} => l.cur.last < MaxSeq
    /\ label = "advance" => Covered(l.cur.id, l.cur.last + 1)
    /\ label = "skip" => l.left \in Nat \ {0} /\ l.cur.last + l.left <= MaxSeq
    /\ label \in {"atpl", "arun"} => l.cur.last = 1

IInv == TypeOK /\ TablesOK /\ \A p \in Procs : Good(loc[p], pc[p])

-----------------------------------------------------------------------------
(* The inductive invariant behind RunAgreesWithCard and EndsAfterOccurrences: *)
(* a card is claimed by one run of a series at most, also by the processes   *)
(* that are about to write the claim down, and no copy of a series has moved *)
(* further than it has counted unless an earlier date was passed over.       *)

\* A process at an await is about to make card c the card of run n of s.
WillClaim(l, label, c, s, n) ==
    /\ l.card = c
    /\ \/ label \in {"link", "record"} /\ s = l.cur.id /\ n = l.cur.last + 1
       \/ label \in {"atpl", "arun", "alink"} /\ s = l.cur.id /\ n = 1
       \/ label \in {"mlink", "mrecord"} /\ (s = l.cur.id \/ s = l.row.tpl) /\ n = l.row.seq

Claimed(c, s, n) ==
    \/ \E o \in occ : o.task = c /\ o.tpl = s /\ o.seq = n
    \/ \E t \in task : t.id = c /\ t.tpl = s /\ t.seq = n
    \/ \E p \in Procs : WillClaim(loc[p], pc[p], c, s, n)

ClaimsOK ==
    /\ \A c \in Nat, s \in Series, n \in Nat : Claimed(c, s, n) => c < fresh /\ start[s] # None
    /\ \A c \in Nat, s \in Series, m, n \in Nat : Claimed(c, s, m) /\ Claimed(c, s, n) => m = n

IdsOK ==
    /\ \A o \in occ : o.id < fresh /\ (o.state = "SKIPPED" => o.task = None)
    /\ \A o, q \in occ : o.id = q.id => o = q
    /\ \A t \in task : t.id < fresh

\* The cursor is ahead of the count only after a date that was passed over.
Counted(r) == r.gc >= r.last \/ PassedBefore(r.id, r.last)

\* The row a copy was read from is still that run, or it is gone.
SameRun(r) ==
    /\ r.id < fresh /\ start[r.tpl] # None
    /\ \A o \in occ : o.id = r.id => o.tpl = r.tpl /\ o.seq = r.seq /\ o.state # "SKIPPED"

\* What a process at an await remembers.
Keeps(l, label) ==
    /\ \A r \in l.tpls : Counted(r)
    /\ l.cur # None => Counted(l.cur)
    /\ \A r \in l.rows : SameRun(r)
    /\ l.row # None => SameRun(l.row)
    /\ label = "mrecord" => l.cur # None /\ l.row # None
    /\ label \in {"drop", "state"} => l.row # None
    /\ label \in {"date", "create", "link", "record"} => EndAfter = 0 \/ l.cur.gc < EndAfter
    /\ label = "skipsave" => PassedBefore(l.cur.id, l.cur.last)

CardsOK ==
    /\ IdsOK
    /\ ClaimsOK
    /\ \A r \in tpl : Counted(r)
    /\ EndsAfterOccurrences
    /\ \A p \in Procs : Keeps(loc[p], pc[p])

-----------------------------------------------------------------------------
(* What comments of the code say and the interleavings refute *)

Quiet == \A p \in Procs : pc[p] = "idle"

\* The same comment: a second run for a date never appears.  On the board a
\* run is its card: two linked cards of one run are two runs to the user.
OneCardPerRun ==
    Quiet => \A t, u \in task : t.tpl # None /\ t.tpl = u.tpl /\ t.seq = u.seq => t = u

\* purgeOrphanRecurringRuns: "Remove generated runs left behind when a series
\* template was deleted".  A sync deletes no run of a series that exists.
PurgesOnlyOrphans ==
    [][\A p \in Procs, o \in occ \ occ' :
          pc[p] \in {"drop", "forget"} /\ pc'[p] # pc[p] /\ loc[p].ret \in {"cards", "pending"}
          => ~Live(o.tpl)]_vars
=============================================================================
