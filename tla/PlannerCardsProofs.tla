------------------------- MODULE PlannerCardsProofs -------------------------
(* Proofs about the runs and the cards of PlannerRuns: a run agrees with    *)
(* its card, and a series that ends after n runs ends.                      *)
EXTENDS PlannerRunsProofs, FiniteSetTheorems

-----------------------------------------------------------------------------
(* What every step keeps *)

PassedKept == \A s \in Series, n \in Nat : Passed(s, n) => Passed(s, n)'

\* A row that was there is the same run as before, skipped only if it was.
SameRuns ==
    \A o \in occ' : o.id < fresh =>
        \E q \in occ : /\ q.id = o.id /\ q.tpl = o.tpl /\ q.seq = o.seq
                       /\ o.state = "SKIPPED" => q.state = "SKIPPED"

\* A date that was passed over stays so: a skipped run keeps its state, and a
\* row that goes is remembered in dropped.
LEMMA PassedStays ==
    ASSUME dropped \subseteq dropped',
           \A o \in occ : o.state = "SKIPPED" =>
              \/ \E q \in occ' : q.tpl = o.tpl /\ q.seq = o.seq /\ q.state = "SKIPPED"
              \/ <<o.tpl, o.seq>> \in dropped'
    PROVE  PassedKept
<1>1. SUFFICES ASSUME NEW s \in Series, NEW n \in Nat, Passed(s, n)
               PROVE  Passed(s, n)'
  BY DEF PassedKept
<1>2. CASE <<s, n>> \in dropped
  BY <1>2 DEF Passed
<1>3. CASE \E o \in occ : o.tpl = s /\ o.seq = n /\ o.state = "SKIPPED"
  BY <1>3 DEF Passed
<1> QED BY <1>1, <1>2, <1>3 DEF Passed

LEMMA CountedStays ==
    ASSUME PassedKept, NEW r \in TplRow, Counted(r)
    PROVE  Counted(r)'
<1>1. r.id \in Series /\ r.last \in Nat
  BY DEF TplRow
<1>2. PassedBefore(r.id, r.last) => PassedBefore(r.id, r.last)'
  BY <1>1 DEF PassedBefore, PassedKept
<1> QED BY <1>2 DEF Counted

LEMMA SameRunStays ==
    ASSUME TypeOK, fresh' \in Nat, fresh' >= fresh, StartKept, SameRuns,
           occ' \subseteq OccRow, NEW r \in OccRow, SameRun(r)
    PROVE  SameRun(r)'
<1>1. r.id \in Nat /\ r.tpl \in Series
  BY DEF OccRow
<1>2. r.id < fresh' /\ start'[r.tpl] # None
  BY <1>1 DEF SameRun, StartKept, TypeOK
<1>3. ASSUME NEW o \in occ', o.id = r.id
      PROVE  o.tpl = r.tpl /\ o.seq = r.seq /\ o.state # "SKIPPED"
  BY <1>3 DEF SameRun, SameRuns
<1> QED BY <1>2, <1>3 DEF SameRun

\* What a process remembers stays true.
LEMMA KeepsStays ==
    ASSUME TypeOK, fresh' \in Nat, fresh' >= fresh, StartKept, PassedKept, SameRuns,
           occ' \subseteq OccRow, NEW l \in LocalRow, NEW label, Keeps(l, label),
           label = "skipsave" => l.cur # None
    PROVE  Keeps(l, label)'
<1>1. l.tpls \subseteq TplRow /\ l.cur \in TplRow \cup {None} /\ l.rows \subseteq OccRow
      /\ l.row \in OccRow \cup {None}
  BY DEF LocalRow
<1>2. \A r \in l.tpls : Counted(r)'
  BY <1>1, CountedStays DEF Keeps
<1>3. l.cur # None => Counted(l.cur)'
  BY <1>1, CountedStays DEF Keeps
<1>4. \A r \in l.rows : SameRun(r)'
  BY <1>1, SameRunStays DEF Keeps
<1>5. l.row # None => SameRun(l.row)'
  BY <1>1, SameRunStays DEF Keeps
<1>6. ASSUME label = "skipsave" PROVE PassedBefore(l.cur.id, l.cur.last)'
  <2>1. l.cur.id \in Series /\ l.cur.last \in Nat
    BY <1>1, <1>6 DEF TplRow
  <2> QED BY <1>6, <2>1 DEF Keeps, PassedBefore, PassedKept
<1> QED BY <1>2, <1>3, <1>4, <1>5, <1>6 DEF Keeps

\* A process claims a card only where it is about to write the claim down.
Writing == {"link", "record", "atpl", "arun", "alink", "mlink", "mrecord"}

LEMMA NotWriting ==
    \A l, c, s, n : \A label : label \notin Writing => ~WillClaim(l, label, c, s, n)
BY DEF WillClaim, Writing

\* What p may claim after a step: what was claimed, or run N for a new card or
\* a new series.
Adds(l, label, N) ==
    \A c \in Nat, s \in Series, n \in Nat :
        WillClaim(l, label, c, s, n) =>
           \/ Claimed(c, s, n)
           \/ n = N /\ c < fresh' /\ start'[s] # None /\ (c >= fresh \/ start[s] = None)

\* A step of p adds no claim, or adds claims to the same sequence on a new
\* card, or for a new series.
LEMMA ClaimsStep ==
    ASSUME TypeOK, ClaimsOK, fresh' \in Nat, fresh' >= fresh, StartKept,
           NEW p \in Procs, NEW l, NEW label,
           pc' = [pc EXCEPT ![p] = label], loc' = [loc EXCEPT ![p] = l], NEW N,
           \A o \in occ' : o.task \in Nat => Claimed(o.task, o.tpl, o.seq),
           \A t \in task' : t.tpl \in Series => Claimed(t.id, t.tpl, t.seq),
           Adds(l, label, N)
    PROVE  ClaimsOK'
<1> DEFINE New(c, s, n) == n = N /\ c < fresh' /\ start'[s] # None
                           /\ (c >= fresh \/ start[s] = None)
<1>1. ASSUME NEW c \in Nat, NEW s \in Series, NEW n \in Nat, Claimed(c, s, n)'
      PROVE  Claimed(c, s, n) \/ New(c, s, n)
  <2>1. CASE \E o \in occ' : o.task = c /\ o.tpl = s /\ o.seq = n
    BY <2>1
  <2>2. CASE \E t \in task' : t.id = c /\ t.tpl = s /\ t.seq = n
    BY <2>2
  <2>3. ASSUME NEW q \in Procs, WillClaim(loc'[q], pc'[q], c, s, n)
        PROVE  Claimed(c, s, n) \/ New(c, s, n)
    <3>1. CASE q = p
      <4>1. loc'[q] = l /\ pc'[q] = label
        BY <3>1 DEF TypeOK
      <4> QED BY <2>3, <4>1 DEF Adds
    <3>2. CASE q # p
      <4>1. loc'[q] = loc[q] /\ pc'[q] = pc[q]
        BY <3>2 DEF TypeOK
      <4>2. WillClaim(loc[q], pc[q], c, s, n)
        BY <2>3, <4>1
      <4> QED BY <4>2 DEF Claimed
    <3> QED BY <3>1, <3>2
  <2>4. \/ \E o \in occ' : o.task = c /\ o.tpl = s /\ o.seq = n
        \/ \E t \in task' : t.id = c /\ t.tpl = s /\ t.seq = n
        \/ \E q \in Procs : WillClaim(loc'[q], pc'[q], c, s, n)
    BY <1>1 DEF Claimed, WillClaim
  <2> HIDE DEF New
  <2> QED BY <2>1, <2>2, <2>3, <2>4
<1>2. fresh \in Nat /\ \A s \in Series : start[s] # None => start'[s] # None
  BY DEF TypeOK, StartKept
<1>3. \A c \in Nat, s \in Series, n \in Nat : Claimed(c, s, n) => c < fresh /\ start[s] # None
  BY DEF ClaimsOK
<1>4. ASSUME NEW c \in Nat, NEW s \in Series, NEW n \in Nat, Claimed(c, s, n)'
      PROVE  c < fresh' /\ start'[s] # None
  BY <1>1, <1>2, <1>3, <1>4
<1>5. ASSUME NEW c \in Nat, NEW s \in Series, NEW m \in Nat, NEW n \in Nat,
             Claimed(c, s, m)', Claimed(c, s, n)'
      PROVE  m = n
  <2>1. (Claimed(c, s, m) \/ New(c, s, m)) /\ (Claimed(c, s, n) \/ New(c, s, n))
    BY <1>1, <1>5
  <2>2. CASE Claimed(c, s, m) /\ Claimed(c, s, n)
    BY <2>2 DEF ClaimsOK
  <2>3. CASE New(c, s, m) /\ New(c, s, n)
    BY <2>3
  <2>4. ~(Claimed(c, s, m) /\ New(c, s, n)) /\ ~(Claimed(c, s, n) /\ New(c, s, m))
    BY <1>2, <1>3
  <2> HIDE DEF New
  <2> QED BY <2>1, <2>2, <2>3, <2>4
<1> HIDE DEF New
<1> QED BY <1>4, <1>5 DEF ClaimsOK

-----------------------------------------------------------------------------
(* The shape of a step *)

LEMMA CardsFacts ==
    ASSUME CardsOK, NEW p \in Procs
    PROVE  /\ IdsOK /\ ClaimsOK /\ EndsAfterOccurrences /\ Keeps(loc[p], pc[p])
           /\ \A r \in tpl : Counted(r)
BY DEF CardsOK

LEMMA KeepsNext ==
    ASSUME NEW p, NEW l, NEW label, pc'[p] = label, loc'[p] = l, Keeps(l, label)'
    PROVE  Keeps(loc[p], pc[p])'
BY SMTT(30) DEF Keeps, Counted, PassedBefore, Passed, SameRun

LEMMA CardsStep ==
    ASSUME IInv, IInv', CardsOK, NEW p \in Procs, NEW l, NEW label,
           pc' = [pc EXCEPT ![p] = label], loc' = [loc EXCEPT ![p] = l],
           fresh' >= fresh, StartKept, PassedKept, SameRuns,
           IdsOK', EndsAfterOccurrences', ClaimsOK',
           \A r \in tpl' : Counted(r)', Keeps(l, label)'
    PROVE  CardsOK'
<1>0. TypeOK /\ fresh' \in Nat /\ occ' \subseteq OccRow
  BY DEF IInv, TypeOK
<1>1. ASSUME NEW q \in Procs PROVE Keeps(loc[q], pc[q])'
  <2>1. CASE q = p
    <3> pc'[q] = label /\ loc'[q] = l
      BY <2>1 DEF IInv, TypeOK
    <3> QED BY KeepsNext
  <2>2. CASE q # p
    <3>1. pc'[q] = pc[q] /\ loc'[q] = loc[q]
      BY <2>2 DEF IInv, TypeOK
    <3>2. loc[q] \in LocalRow /\ Keeps(loc[q], pc[q]) /\ (pc[q] = "skipsave" => loc[q].cur # None)
      BY LocalFacts DEF CardsOK, Good, HoldsSeries
    <3>3. ASSUME NEW k, NEW b, k = loc[q], b = pc[q] PROVE Keeps(k, b)'
      BY <1>0, <3>2, <3>3, KeepsStays
    <3> QED BY <3>1, <3>3, KeepsNext
  <2> QED BY <2>1, <2>2
<1> QED BY <1>1 DEF CardsOK

LEMMA NewLocal ==
    ASSUME IInv, IInv', NEW p \in Procs, NEW l, NEW label,
           pc' = [pc EXCEPT ![p] = label], loc' = [loc EXCEPT ![p] = l]
    PROVE  /\ pc'[p] = label /\ loc'[p] = l /\ l \in LocalRow /\ label \in Labels
           /\ Good(l, label)'
<1>1. pc'[p] = label /\ loc'[p] = l
  BY DEF IInv, TypeOK
<1>2. loc'[p] \in LocalRow /\ pc'[p] \in Labels
  BY DEF IInv, TypeOK
<1>3. Good(loc[p], pc[p])'
  BY DEF IInv
<1>4. Good(l, label)'
  BY <1>1, <1>3, SMTT(30) DEF Good, Sound, Aligned, Covered, Taken, Attaching
<1> QED BY <1>1, <1>2, <1>4

\* A step of p that writes neither runs nor cards.
LEMMA ReadStep ==
    ASSUME IInv, IInv', CardsOK, NEW p \in Procs, NEW l, NEW label,
           pc' = [pc EXCEPT ![p] = label], loc' = [loc EXCEPT ![p] = l],
           UNCHANGED <<occ, task, fresh, start, dropped>>, \A r \in tpl' : Counted(r),
           Keeps(l, label),
           \A c \in Nat, s \in Series, n \in Nat :
              WillClaim(l, label, c, s, n) => WillClaim(loc[p], pc[p], c, s, n)
    PROVE  CardsOK'
<1> USE LocalFacts, CardsFacts
<1>1. StartKept /\ PassedKept /\ SameRuns
  BY DEF StartKept, PassedKept, Passed, SameRuns
<1>2. IdsOK' /\ EndsAfterOccurrences'
  BY DEF IdsOK, EndsAfterOccurrences, PassedBefore, Passed
<1>3. ClaimsOK'
  <2>1. \A c \in Nat, s \in Series, n \in Nat : WillClaim(l, label, c, s, n) => Claimed(c, s, n)
    BY DEF Claimed
  <2>0. Adds(l, label, 0)
    BY <2>1 DEF Adds
  <2>2. \A o \in occ' : o.task \in Nat => Claimed(o.task, o.tpl, o.seq)
    BY DEF Claimed
  <2>3. \A t \in task' : t.tpl \in Series => Claimed(t.id, t.tpl, t.seq)
    BY DEF Claimed
  <2>4. TypeOK /\ fresh' \in Nat /\ fresh' >= fresh
    BY DEF IInv
  <2> QED BY <1>1, <2>0, <2>2, <2>3, <2>4, ClaimsStep
<1>4. \A r \in tpl' : Counted(r)'
  BY DEF Counted, PassedBefore, Passed
<1>5. fresh' \in Nat /\ fresh' >= fresh /\ occ' \subseteq OccRow /\ TypeOK
  BY DEF IInv
<1>6. l \in LocalRow /\ (label = "skipsave" => l.cur # None)
  BY NewLocal DEF Good, HoldsSeries
<1>7. Keeps(l, label)'
  BY <1>1, <1>5, <1>6, KeepsStays
<1> QED BY <1>1, <1>2, <1>3, <1>4, <1>5, <1>7, CardsStep

-----------------------------------------------------------------------------
(* Steps that write neither runs nor cards *)

\* A pending run that is read is the run it was read from.
LEMMA PendingIsSameRun ==
    ASSUME IInv, IdsOK, NEW o \in occ, o.state = "PENDING"
    PROVE  SameRun(o)
BY DEF IInv, TablesOK, IdsOK, SameRun

\* What a process reads or still holds when it does not move on to a write.
Reads(p, l) ==
    /\ l.tpls \subseteq loc[p].tpls \cup tpl
    /\ l.cur \in {None, loc[p].cur} \cup loc[p].tpls \cup tpl
    /\ l.rows \subseteq loc[p].rows \cup {o \in occ : o.state = "PENDING"}
    /\ l.row \in {None, loc[p].row}

Moves(p, l, label) ==
    /\ Reads(p, l) /\ label \in Labels \ (Writing \cup {"date", "create", "skipsave", "drop", "state"})
    /\ pc' = [pc EXCEPT ![p] = label] /\ loc' = [loc EXCEPT ![p] = l]

LEMMA ReaderKeeps ==
    ASSUME IInv, CardsOK, NEW p \in Procs, NEW l, Reads(p, l)
    PROVE  /\ \A r \in l.tpls : Counted(r)
           /\ l.cur # None => Counted(l.cur)
           /\ \A o \in l.rows : SameRun(o)
           /\ l.row # None => SameRun(l.row)
BY CardsFacts, PendingIsSameRun DEF Reads, Keeps

LEMMA ReaderStep ==
    ASSUME IInv, IInv', CardsOK, NEW p \in Procs, NEW l, NEW label, Moves(p, l, label),
           UNCHANGED <<occ, task, fresh, start, dropped>>, \A r \in tpl' : Counted(r)
    PROVE  CardsOK'
<1>1. Keeps(l, label)
  BY ReaderKeeps DEF Keeps, Moves, Writing
<1>2. \A c \in Nat, s \in Series, n \in Nat : ~WillClaim(l, label, c, s, n)
  BY NotWriting DEF Moves
<1> QED BY <1>1, <1>2, ReadStep DEF Moves

\* Pausing a series moves no cursor.
LEMMA PausedCounted ==
    ASSUME IInv, CardsOK, NEW s, NEW b \in BOOLEAN, SetPaused(s, b)
    PROVE  \A r \in tpl' : Counted(r)
<1>1. ASSUME NEW q \in TplRow, Counted(q) PROVE Counted([q EXCEPT !.paused = b])
  BY <1>1 DEF Counted, TplRow
<1>2. \A q \in tpl : q \in TplRow /\ Counted(q)
  BY DEF IInv, TypeOK, CardsOK
<1> QED BY <1>1, <1>2 DEF SetPaused

\* A process that ends its request remembers nothing.
LEMMA FreshReads == \A p : Reads(p, Fresh)
BY DEF Reads, Fresh

\* A generator reads, moves on, gives a series up, or ends.
LEMMA GenerateReads ==
    ASSUME IInv, NEW p \in Procs,
           \/ StartCron(p) \/ StartSync(p) \/ PickTemplate(p) \/ EndGeneration(p)
           \/ GenDone(p) \/ GenRecordRefused(p) \/ GenStop(p)
    PROVE  \E l, label : Moves(p, l, label)
<1>1. loc[p] \in LocalRow /\ {"pick", "check"} \subseteq Labels
  BY LocalFacts DEF Labels, GenLabels
<1> USE DEF Moves, Reads, Goto, Remember, Writing
<1>2. CASE StartCron(p) \/ StartSync(p)
  <2>1. PICK ret : StartGeneration(p, ret)
    BY <1>2 DEF StartCron, StartSync
  <2>2. Moves(p, [loc[p] EXCEPT !.day = today, !.tpls = DueTemplates, !.ret = ret], "pick")
    BY <1>1, <2>1 DEF StartGeneration, LocalRow, DueTemplates
  <2> QED BY <2>2
<1>3. CASE PickTemplate(p)
  <2>1. PICK r \in loc[p].tpls :
           loc' = [loc EXCEPT ![p] = [loc[p] EXCEPT !.tpls = loc[p].tpls \ {r}, !.cur = r]]
    BY <1>3 DEF PickTemplate
  <2>2. Moves(p, [loc[p] EXCEPT !.tpls = loc[p].tpls \ {r}, !.cur = r], "check")
    BY <1>1, <1>3, <2>1 DEF PickTemplate, LocalRow
  <2> QED BY <2>2
<1>4. CASE EndGeneration(p)
  <2>1. PICK label \in {"idle", "map", "cards", "pending", "dstpl"} :
           pc' = [pc EXCEPT ![p] = label] /\ loc' = [loc EXCEPT ![p] = Fresh]
    BY <1>1, <1>4 DEF EndGeneration, Finish, LocalRow
  <2>2. Moves(p, Fresh, label)
    BY <2>1, FreshReads DEF Labels
  <2> QED BY <2>2
<1>5. CASE GenDone(p) \/ GenStop(p)
  <2>1. Moves(p, [loc[p] EXCEPT !.cur = None], "pick")
    BY <1>1, <1>5 DEF GenDone, GenStop, LocalRow
  <2> QED BY <2>1
<1>6. CASE GenRecordRefused(p)
  <2>1. Moves(p, [loc[p] EXCEPT !.cur = None, !.card = None], "pick")
    BY <1>1, <1>6 DEF GenRecordRefused, LocalRow
  <2> QED BY <2>1
<1> QED BY <1>2, <1>3, <1>4, <1>5, <1>6

\* The reads of a sync.
LEMMA SyncReads ==
    ASSUME IInv, NEW p \in Procs,
           \/ SyncReadTemplates(p) \/ SyncReadOrphanRuns(p) \/ SyncReadOrphanCards(p)
           \/ SyncReadPending(p) \/ SyncReadCards(p) \/ SyncSkipRun(p) \/ SyncEnd(p)
    PROVE  \E l, label : Moves(p, l, label)
<1>1. loc[p] \in LocalRow /\ pc = [pc EXCEPT ![p] = pc[p]]
      /\ {"orphans", "purge", "tasks", "each", "idle"} \subseteq Labels
  BY LocalFacts DEF Labels
<1> USE DEF Moves, Reads, Goto, Remember, Writing
<1>2. CASE SyncReadTemplates(p)
  <2>1. Moves(p, [loc[p] EXCEPT !.tpls = tpl], "orphans")
    BY <1>1, <1>2 DEF SyncReadTemplates, LocalRow
  <2> QED BY <2>1
<1>3. CASE SyncReadOrphanRuns(p)
  <2>1. PICK doomed : loc' = [loc EXCEPT ![p] = [loc[p] EXCEPT !.ret = "cards", !.doomed = doomed]]
    BY <1>3 DEF SyncReadOrphanRuns
  <2>2. Moves(p, [loc[p] EXCEPT !.ret = "cards", !.doomed = doomed], "purge")
    BY <1>1, <1>3, <2>1 DEF SyncReadOrphanRuns, LocalRow
  <2> QED BY <2>2
<1>4. CASE SyncReadOrphanCards(p)
  <2>1. PICK doomed : loc' = [loc EXCEPT ![p] = [loc[p] EXCEPT !.ret = "pending", !.doomed = doomed]]
    BY <1>4 DEF SyncReadOrphanCards
  <2>2. Moves(p, [loc[p] EXCEPT !.ret = "pending", !.doomed = doomed], "purge")
    BY <1>1, <1>4, <2>1 DEF SyncReadOrphanCards, LocalRow
  <2> QED BY <2>2
<1>5. CASE SyncReadPending(p)
  <2>1. Moves(p, [loc[p] EXCEPT !.rows = {o \in occ : o.state = "PENDING"}], "tasks")
    BY <1>1, <1>5 DEF SyncReadPending, LocalRow
  <2> QED BY <2>1
<1>6. CASE SyncReadCards(p)
  <2>1. PICK seen : loc' = [loc EXCEPT ![p] = [loc[p] EXCEPT !.seen = seen]]
    BY <1>6 DEF SyncReadCards
  <2>2. Moves(p, [loc[p] EXCEPT !.seen = seen], "each")
    BY <1>1, <1>6, <2>1 DEF SyncReadCards, LocalRow
  <2> QED BY <2>2
<1>7. CASE SyncSkipRun(p)
  <2>1. PICK o : loc' = [loc EXCEPT ![p] = [loc[p] EXCEPT !.rows = loc[p].rows \ {o},
                            !.tpls = loc[p].tpls \cup Active(Known(p, o))]]
    BY <1>7 DEF SyncSkipRun
  <2>2. Moves(p, [loc[p] EXCEPT !.rows = loc[p].rows \ {o},
                     !.tpls = loc[p].tpls \cup Active(Known(p, o))], "each")
    BY <1>1, <1>7, <2>1, ResolvedCopies DEF SyncSkipRun, LocalRow
  <2> QED BY <2>2
<1>8. CASE SyncEnd(p)
  <2>1. Moves(p, Fresh, "idle")
    BY <1>1, <1>8, FreshReads DEF SyncEnd, Finish
  <2> QED BY <2>1
<1> QED BY <1>2, <1>3, <1>4, <1>5, <1>6, <1>7, <1>8

\* Deletions look up what they delete; conversions and skips start or end.
LEMMA RequestReads ==
    ASSUME IInv, NEW p \in Procs,
           \/ StartDeleteCard(p) \/ PurgeNext(p) \/ PurgeEnd(p)
           \/ StartDeleteSeries(p) \/ SeriesReadCards(p) \/ SeriesDropTemplate(p)
           \/ StartSkip(p) \/ SkipRefused(p) \/ SkipSave(p)
           \/ StartDetach(p) \/ DetachPause(p) \/ StartDuplicate(p)
    PROVE  \E l, label : Moves(p, l, label)
<1>1. loc[p] \in LocalRow /\ loc = [loc EXCEPT ![p] = loc[p]]
      /\ {"erase", "unhook", "forget", "dscards", "dsruns", "skip", "dpause", "dunlink",
        "copy", "idle"} \subseteq Labels
  BY LocalFacts DEF Labels, DelLabels
<1> USE DEF Moves, Reads, Goto, Remember, Writing
<1>2. CASE StartDeleteCard(p)
  <2>1. PICK v, label : /\ loc' = [loc EXCEPT ![p] = [loc[p] EXCEPT !.victim = v]]
                        /\ label \in {"erase", "unhook"} /\ pc' = [pc EXCEPT ![p] = label]
    BY <1>2 DEF StartDeleteCard
  <2>2. Moves(p, [loc[p] EXCEPT !.victim = v], label)
    BY <1>1, <2>1 DEF LocalRow
  <2> QED BY <2>2
<1>3. CASE PurgeNext(p)
  <2> DEFINE card(v) == {t \in task : t.id = v.task}
             next(v) == IF \E t \in card(v) : t.tpl # None THEN "unhook"
                        ELSE IF card(v) # {} THEN "erase" ELSE "forget"
  <2>1. PICK v \in loc[p].doomed :
           /\ loc' = [loc EXCEPT ![p] = [loc[p] EXCEPT !.doomed = loc[p].doomed \ {v}, !.victim = v]]
           /\ pc' = [pc EXCEPT ![p] = next(v)]
    BY <1>3 DEF PurgeNext
  <2>2. Moves(p, [loc[p] EXCEPT !.doomed = loc[p].doomed \ {v}, !.victim = v], next(v))
    BY <1>1, <2>1 DEF LocalRow
  <2> QED BY <2>2
<1>4. CASE PurgeEnd(p)
  <2>1. PICK label \in {"idle", "map", "cards", "pending", "dstpl"} :
           pc' = [pc EXCEPT ![p] = label] /\ loc' = loc
    BY <1>1, <1>4 DEF PurgeEnd, LocalRow
  <2>2. Moves(p, loc[p], label)
    BY <1>1, <2>1 DEF Labels
  <2> QED BY <2>2
<1>5. CASE StartDeleteSeries(p)
  <2>1. PICK r, d : /\ r \in tpl
                    /\ loc' = [loc EXCEPT ![p] = [loc[p] EXCEPT !.cur = r, !.ret = "dstpl", !.doomed = d]]
    BY <1>5 DEF StartDeleteSeries
  <2>2. Moves(p, [loc[p] EXCEPT !.cur = r, !.ret = "dstpl", !.doomed = d], "dscards")
    BY <1>1, <1>5, <2>1 DEF StartDeleteSeries, LocalRow
  <2> QED BY <2>2
<1>6. CASE SeriesReadCards(p)
  <2>1. PICK d : loc' = [loc EXCEPT ![p] = [loc[p] EXCEPT !.doomed = d]]
    BY <1>6 DEF SeriesReadCards
  <2>2. Moves(p, [loc[p] EXCEPT !.doomed = d], "dsruns")
    BY <1>1, <1>6, <2>1 DEF SeriesReadCards, LocalRow
  <2> QED BY <2>2
<1>7. CASE SeriesDropTemplate(p) \/ SkipRefused(p) \/ SkipSave(p)
  <2>1. Moves(p, Fresh, "idle")
    BY <1>1, <1>7, FreshReads DEF SeriesDropTemplate, SkipRefused, SkipSave, Finish
  <2> QED BY <2>1
<1>8. CASE StartSkip(p)
  <2>1. PICK r, n : r \in tpl /\ loc' = [loc EXCEPT ![p] = [loc[p] EXCEPT !.cur = r, !.left = n]]
    BY <1>8 DEF StartSkip
  <2>2. Moves(p, [loc[p] EXCEPT !.cur = r, !.left = n], "skip")
    BY <1>1, <1>8, <2>1 DEF StartSkip, LocalRow
  <2> QED BY <2>2
<1>9. CASE StartDetach(p)
  <2>1. \E c : \E r \in {loc[p].cur} \cup tpl, label \in {"dpause", "dunlink"} :
           /\ loc' = [loc EXCEPT ![p] = [loc[p] EXCEPT !.card = c, !.cur = r]]
           /\ pc' = [pc EXCEPT ![p] = label]
    <3>1. PICK t \in task :
             \/ Remember(p, [loc[p] EXCEPT !.card = t.id]) /\ Goto(p, "dunlink")
             \/ /\ \E r \in tpl : Remember(p, [loc[p] EXCEPT !.card = t.id, !.cur = r])
                /\ Goto(p, "dpause")
      BY <1>9 DEF StartDetach
    <3>2. CASE Remember(p, [loc[p] EXCEPT !.card = t.id]) /\ Goto(p, "dunlink")
      <4>1. [loc[p] EXCEPT !.card = t.id] = [loc[p] EXCEPT !.card = t.id, !.cur = loc[p].cur]
        BY <1>1 DEF LocalRow
      <4> QED BY <3>2, <4>1
    <3>3. CASE /\ \E r \in tpl : Remember(p, [loc[p] EXCEPT !.card = t.id, !.cur = r])
               /\ Goto(p, "dpause")
      BY <3>3
    <3> QED BY <3>1, <3>2, <3>3
  <2>3. PICK c : \E r \in {loc[p].cur} \cup tpl, label \in {"dpause", "dunlink"} :
           /\ loc' = [loc EXCEPT ![p] = [loc[p] EXCEPT !.card = c, !.cur = r]]
           /\ pc' = [pc EXCEPT ![p] = label]
    BY <2>1
  <2>0. PICK r \in {loc[p].cur} \cup tpl, label \in {"dpause", "dunlink"} :
           /\ loc' = [loc EXCEPT ![p] = [loc[p] EXCEPT !.card = c, !.cur = r]]
           /\ pc' = [pc EXCEPT ![p] = label]
    BY <2>3
  <2>2. Moves(p, [loc[p] EXCEPT !.card = c, !.cur = r], label)
    BY <1>1, <2>0 DEF LocalRow
  <2> QED BY <2>2
<1>10. CASE DetachPause(p)
  <2>1. Moves(p, loc[p], "dunlink")
    BY <1>1, <1>10 DEF DetachPause
  <2> QED BY <2>1
<1>11. CASE StartDuplicate(p)
  <2>1. PICK r : r \in tpl /\ loc' = [loc EXCEPT ![p] = [loc[p] EXCEPT !.cur = r]]
    BY <1>11 DEF StartDuplicate
  <2>2. Moves(p, [loc[p] EXCEPT !.cur = r], "copy")
    BY <1>1, <1>11, <2>1 DEF StartDuplicate, LocalRow
  <2> QED BY <2>2
<1> QED BY <1>2, <1>3, <1>4, <1>5, <1>6, <1>7, <1>8, <1>9, <1>10, <1>11

\* After a failure a process still holds at most what it held.
LEMMA FailReads ==
    ASSUME IInv, NEW p \in Procs, Fail(p)
    PROVE  \E l, label : Moves(p, l, label)
<1>1. loc[p] \in LocalRow /\ loc = [loc EXCEPT ![p] = loc[p]]
      /\ {"pick", "each", "erase", "forget", "idle"} \subseteq Labels
  BY LocalFacts DEF Labels, DelLabels
<1> USE DEF Moves, Reads, Goto, Remember, Writing
<1>2. CASE /\ Remember(p, [loc[p] EXCEPT !.cur = None, !.card = None]) /\ Goto(p, "pick")
  <2>1. Moves(p, [loc[p] EXCEPT !.cur = None, !.card = None], "pick")
    BY <1>1, <1>2 DEF LocalRow
  <2> QED BY <2>1
<1>3. CASE /\ Remember(p, [loc[p] EXCEPT !.cur = None, !.row = None, !.card = None])
           /\ Goto(p, "each")
  <2>1. Moves(p, [loc[p] EXCEPT !.cur = None, !.row = None, !.card = None], "each")
    BY <1>1, <1>3 DEF LocalRow
  <2> QED BY <2>1
<1>4. CASE /\ Remember(p, [loc[p] EXCEPT !.row = None])
           /\ Goto(p, IF pc[p] = "erase" THEN "forget" ELSE "erase")
  <2>1. PICK label \in {"erase", "forget"} : pc' = [pc EXCEPT ![p] = label]
    BY <1>4
  <2>2. Moves(p, [loc[p] EXCEPT !.row = None], label)
    BY <1>1, <1>4, <2>1 DEF LocalRow
  <2> QED BY <2>2
<1>5. CASE Finish(p)
  <2>1. Moves(p, Fresh, "idle")
    BY <1>1, <1>5, FreshReads DEF Finish
  <2> QED BY <2>1
<1> QED BY <1>2, <1>3, <1>4, <1>5, Zenon DEF Fail

\* A cursor that is written back without its count had passed a date over.
LEMMA SavedCounted ==
    ASSUME IInv, CardsOK, NEW p \in Procs, SkipSave(p)
    PROVE  \A r \in tpl' : Counted(r)
<1>1. PICK r \in {loc[p].cur} : r = loc[p].cur
  OBVIOUS
<1>2. /\ tpl' = {IF q.id = r.id THEN [q EXCEPT !.last = r.last, !.next = r.next] ELSE q : q \in tpl}
      /\ PassedBefore(r.id, r.last)
  BY <1>1, CardsFacts DEF SkipSave, Keeps
<1>3. ASSUME NEW q \in TplRow, q.id = r.id
      PROVE  Counted([q EXCEPT !.last = r.last, !.next = r.next])
  BY <1>2, <1>3 DEF Counted, TplRow
<1>4. \A q \in tpl : q \in TplRow /\ Counted(q)
  BY DEF IInv, TypeOK, CardsOK
<1> QED BY <1>2, <1>3, <1>4

\* The steps that only read, move on, pause or end keep the invariant.
LEMMA ReadersKeep ==
    ASSUME IInv, IInv', CardsOK, NEW p \in Procs,
           \/ StartCron(p) \/ StartSync(p) \/ PickTemplate(p) \/ EndGeneration(p)
           \/ GenDone(p) \/ GenRecordRefused(p) \/ GenStop(p)
           \/ SyncReadTemplates(p) \/ SyncReadOrphanRuns(p) \/ SyncReadOrphanCards(p)
           \/ SyncReadPending(p) \/ SyncReadCards(p) \/ SyncSkipRun(p) \/ SyncEnd(p)
           \/ StartDeleteCard(p) \/ PurgeNext(p) \/ PurgeEnd(p)
           \/ StartDeleteSeries(p) \/ SeriesReadCards(p) \/ SeriesDropTemplate(p)
           \/ StartSkip(p) \/ SkipRefused(p) \/ SkipSave(p)
           \/ StartDetach(p) \/ DetachPause(p) \/ StartDuplicate(p) \/ Fail(p)
    PROVE  CardsOK'
<1>1. PICK l, label : Moves(p, l, label)
  BY GenerateReads, SyncReads, RequestReads, FailReads
<1>2. UNCHANGED <<occ, task, fresh, start, dropped>>
  BY DEF StartCron, StartSync, StartGeneration, PickTemplate, EndGeneration, GenDone,
         GenRecordRefused, GenStop, SyncReadTemplates, SyncReadOrphanRuns, SyncReadOrphanCards,
         SyncReadPending, SyncReadCards, SyncSkipRun, SyncEnd, StartDeleteCard, PurgeNext,
         PurgeEnd, StartDeleteSeries, SeriesReadCards, SeriesDropTemplate, StartSkip,
         SkipRefused, SkipSave, StartDetach, DetachPause, StartDuplicate, Fail, db
<1>3. \A r \in tpl' : Counted(r)
  <2>1. CASE GenStop(p)
    BY <2>1, PausedCounted DEF GenStop
  <2>2. CASE DetachPause(p)
    BY <2>2, PausedCounted DEF DetachPause
  <2>3. CASE SkipSave(p)
    BY <2>3, SavedCounted
  <2>4. CASE tpl' \subseteq tpl
    BY <2>4, CardsFacts
  <2>5. \/ GenStop(p) \/ DetachPause(p) \/ SkipSave(p) \/ tpl' \subseteq tpl
    BY DEF StartCron, StartSync, StartGeneration, PickTemplate, EndGeneration, GenDone,
           GenRecordRefused, SyncReadTemplates, SyncReadOrphanRuns, SyncReadOrphanCards,
           SyncReadPending, SyncReadCards, SyncSkipRun, SyncEnd, StartDeleteCard, PurgeNext,
           PurgeEnd, StartDeleteSeries, SeriesReadCards, SeriesDropTemplate, StartSkip,
           SkipRefused, StartDetach, StartDuplicate, Fail, db
  <2> QED BY <2>1, <2>2, <2>3, <2>4, <2>5
<1> QED BY <1>1, <1>2, <1>3, ReaderStep

\* A request that looks up a run that was not skipped remembers that run.
LEMMA LookupKeepsCards ==
    ASSUME IInv, IInv', CardsOK, NEW p \in Procs, Unhook(p) \/ StartStatus(p)
    PROVE  CardsOK'
<1>1. loc[p] \in LocalRow /\ loc = [loc EXCEPT ![p] = loc[p]]
      /\ task \subseteq TaskRow /\ occ \subseteq OccRow
  BY LocalFacts
<1>2. UNCHANGED <<tpl, occ, task, fresh, start, dropped>>
  BY DEF Unhook, StartStatus, db
<1>3. PICK row, label :
         /\ row = loc[p].row \/ (row \in occ /\ row.state # "SKIPPED")
         /\ label \in {"erase", "drop", "state"} /\ (label # "erase" => row # None)
         /\ pc' = [pc EXCEPT ![p] = label]
         /\ loc' = [loc EXCEPT ![p] = [loc[p] EXCEPT !.row = row]]
  <2>1. CASE Unhook(p)
    <3>1. CASE loc' = loc /\ Goto(p, "erase")
      <4>1. loc[p] = [loc[p] EXCEPT !.row = loc[p].row]
        BY <1>1 DEF LocalRow
      <4> QED BY <1>1, <3>1, <4>1 DEF Goto
    <3>2. CASE /\ Goto(p, "drop")
               /\ \E o \in occ : o.task # None /\ Remember(p, [loc[p] EXCEPT !.row = o])
      BY <1>1, <3>2, CardsFacts, RowAssumption DEF IdsOK, Goto, Remember
    <3> QED BY <2>1, <3>1, <3>2 DEF Unhook
  <2>2. CASE StartStatus(p)
    <3>1. \A t \in task : t.id # None
      BY <1>1, PlannerAssumption DEF TaskRow, SeriesAssumption
    <3> QED BY <1>1, <2>2, <3>1, CardsFacts, RowAssumption DEF StartStatus, IdsOK, Goto, Remember
  <2> QED BY <2>1, <2>2
<1>8. PICK l : l = [loc[p] EXCEPT !.row = row]
  OBVIOUS
<1>4. /\ loc' = [loc EXCEPT ![p] = l]
      /\ l.tpls = loc[p].tpls /\ l.cur = loc[p].cur /\ l.rows = loc[p].rows /\ l.row = row
  BY <1>1, <1>3, <1>8 DEF LocalRow
<1>5. row # None => SameRun(row)
  BY <1>3, CardsFacts DEF IInv, TablesOK, IdsOK, SameRun, Keeps
<1>6. Keeps(l, label)
  BY <1>3, <1>4, <1>5, CardsFacts DEF Keeps
<1>7. \A c \in Nat, s \in Series, n \in Nat : ~WillClaim(l, label, c, s, n)
  BY <1>3 DEF WillClaim
<1> QED BY <1>2, <1>3, <1>4, <1>6, <1>7, CardsFacts, ReadStep

\* A generator that finds no end of the series may record the next run.
LEMMA FindKeeps ==
    ASSUME IInv, IInv', CardsOK, NEW p \in Procs, GenFindSeq(p) \/ GenFindDate(p)
    PROVE  CardsOK'
<1>1. PICK label : /\ label \in {"advance", "date", "create"} /\ pc' = [pc EXCEPT ![p] = label]
                   /\ loc' = [loc EXCEPT ![p] = loc[p]]
                   /\ UNCHANGED <<tpl, occ, task, fresh, start, dropped>>
  BY LocalFacts DEF GenFindSeq, GenFindDate, Goto, db
<1>2. label # "advance" => EndAfter = 0 \/ loc[p].cur.gc < EndAfter
  <2>1. CASE GenFindDate(p)
    BY <2>1, CardsFacts DEF GenFindDate, Keeps
  <2>2. CASE GenFindSeq(p)
    <3>1. loc[p].cur.gc \in Nat /\ EndAfter \in Nat
      BY <2>2, LocalFacts, PlannerAssumption
      DEF GenFindSeq, Good, HoldsSeries, LocalRow, TplRow, BoundAssumption
    <3> QED BY <2>2, <3>1 DEF GenFindSeq, ShouldStop
  <2> QED BY <2>1, <2>2
<1>3. Keeps(loc[p], label)
  BY <1>1, <1>2, CardsFacts DEF Keeps
<1>4. \A c, s, n : ~WillClaim(loc[p], label, c, s, n)
  BY <1>1, NotWriting DEF Writing
<1> QED BY <1>1, <1>3, <1>4, CardsFacts, ReadStep

\* A generator that advances counts the run it passes.
LEMMA AdvanceKeeps ==
    ASSUME IInv, IInv', CardsOK, NEW p \in Procs, GenAdvance(p)
    PROVE  CardsOK'
<1>1. PICK c \in {loc[p].cur}, r \in {Advanced(loc[p].cur)} : c = loc[p].cur /\ r = Advanced(c)
  OBVIOUS
<1>2. PICK l : l = [loc[p] EXCEPT !.cur = r, !.card = None]
  OBVIOUS
<1>3. /\ pc' = [pc EXCEPT ![p] = "check"] /\ loc' = [loc EXCEPT ![p] = l]
      /\ UNCHANGED <<today, occ, task, fresh, start, dropped, faults>> /\ pc[p] = "advance"
      /\ tpl' = {IF q.id = r.id THEN [q EXCEPT !.last = r.last, !.gc = r.gc, !.next = r.next]
                 ELSE q : q \in tpl}
  BY <1>1, <1>2 DEF GenAdvance, Goto, Remember
<1>4. c \in TplRow /\ c # None /\ Counted(c)
  BY <1>1, <1>3, LocalFacts, CardsFacts DEF Good, HoldsSeries, LocalRow, Keeps
<1>5. r.id = c.id /\ r.last = c.last + 1 /\ r.gc = c.gc + 1
  BY <1>1, <1>4 DEF Advanced, TplRow
<1>6. Counted(r)
  <2>1. c.last \in Nat /\ c.gc \in Nat
    BY <1>4 DEF TplRow
  <2>2. PassedBefore(c.id, c.last) => PassedBefore(c.id, c.last + 1)
    BY <2>1 DEF PassedBefore
  <2> QED BY <1>4, <1>5, <2>1, <2>2 DEF Counted
<1>7. ASSUME NEW q \in TplRow, q.id = r.id
      PROVE  Counted([q EXCEPT !.last = r.last, !.gc = r.gc, !.next = r.next])
  BY <1>6, <1>7 DEF Counted, TplRow
<1>8. \A x \in tpl' : Counted(x)
  BY <1>3, <1>7, CardsFacts, LocalFacts
<1>9. l.tpls = loc[p].tpls /\ l.cur = r /\ l.rows = loc[p].rows /\ l.row = loc[p].row
  BY <1>2, LocalFacts DEF LocalRow
<1>10. Keeps(l, "check")
  BY <1>6, <1>9, CardsFacts DEF Keeps
<1>11. \A k, s, n : ~WillClaim(l, "check", k, s, n)
  BY NotWriting DEF Writing
<1> QED BY <1>3, <1>8, <1>10, <1>11, ReadStep

\* The new series is on its first run, and counts it.
LEMMA AttachTemplateCards ==
    ASSUME IInv, IInv', CardsOK, NEW p \in Procs, AttachTemplate(p)
    PROVE  CardsOK'
<1>1. /\ pc[p] = "atpl" /\ pc' = [pc EXCEPT ![p] = "arun"] /\ loc' = [loc EXCEPT ![p] = loc[p]]
      /\ tpl' = tpl \cup {loc[p].cur} /\ UNCHANGED <<occ, task, fresh, start, dropped>>
  BY LocalFacts DEF AttachTemplate, Goto
<1>2. loc[p].cur # None
  BY <1>1, LocalFacts DEF Good, HoldsSeries
<1>3. Keeps(loc[p], "arun") /\ Counted(loc[p].cur)
  BY <1>1, <1>2, CardsFacts DEF Keeps
<1>4. \A c, s, n : WillClaim(loc[p], "arun", c, s, n) => WillClaim(loc[p], pc[p], c, s, n)
  BY <1>1 DEF WillClaim
<1> QED BY <1>1, <1>3, <1>4, CardsFacts, ReadStep

-----------------------------------------------------------------------------
(* Steps that write cards *)

\* A step of p that writes no run.
LEMMA CardWriteStep ==
    ASSUME IInv, IInv', CardsOK, NEW p \in Procs, NEW l, NEW label,
           pc' = [pc EXCEPT ![p] = label], loc' = [loc EXCEPT ![p] = l],
           UNCHANGED <<occ, dropped>>, StartKept, fresh' >= fresh,
           \A r \in tpl' : Counted(r), \A t \in task' : t.id < fresh', Keeps(l, label),
           \A t \in task' : t.tpl \in Series => Claimed(t.id, t.tpl, t.seq), NEW N,
           Adds(l, label, N)
    PROVE  CardsOK'
<1>1. PassedKept /\ SameRuns
  BY DEF PassedKept, Passed, SameRuns
<1>2. TypeOK /\ fresh \in Nat /\ fresh' \in Nat /\ occ \subseteq OccRow /\ occ' \subseteq OccRow
  BY DEF IInv, TypeOK
<1>3. IdsOK'
  BY <1>2, CardsFacts DEF IdsOK, OccRow
<1>4. EndsAfterOccurrences'
  BY CardsFacts DEF EndsAfterOccurrences, PassedBefore, Passed
<1>5. \A o \in occ' : o.task \in Nat => Claimed(o.task, o.tpl, o.seq)
  BY DEF Claimed
<1>6. ClaimsOK'
  BY <1>2, <1>5, CardsFacts, ClaimsStep
<1>7. \A r \in tpl' : Counted(r)'
  BY DEF Counted, PassedBefore, Passed
<1>8. l \in LocalRow /\ (label = "skipsave" => l.cur # None)
  BY NewLocal DEF Good, HoldsSeries
<1>9. Keeps(l, label)'
  BY <1>1, <1>2, <1>8, KeepsStays
<1> QED BY <1>1, <1>3, <1>4, <1>6, <1>7, <1>9, CardsStep

\* A card that is inserted claims nothing yet.
LEMMA InsertedCards ==
    ASSUME IInv, CardsOK, NEW p \in Procs, InsertCard(p)
    PROVE  /\ fresh' = fresh + 1 /\ fresh \in Nat /\ fresh' >= fresh
           /\ \A t \in task' : t.id < fresh'
           /\ \A t \in task' : t.tpl \in Series => Claimed(t.id, t.tpl, t.seq)
<1>1. /\ task' = task \cup {[id |-> fresh, tpl |-> None, seq |-> 0]} /\ fresh' = fresh + 1
      /\ fresh \in Nat /\ task \subseteq TaskRow /\ None \notin Series
  BY LocalFacts, PlannerAssumption DEF InsertCard, SeriesAssumption
<1>2. \A t \in task' : t.id < fresh'
  BY <1>1, CardsFacts DEF IdsOK, TaskRow
<1>3. \A t \in task' : t.tpl \in Series => Claimed(t.id, t.tpl, t.seq)
  BY <1>1 DEF Claimed
<1> QED BY <1>1, <1>2, <1>3

\* A card that is linked carries out a claim; a card that is freed, none.
LEMMA LinkedCards ==
    ASSUME IInv, CardsOK, NEW p \in Procs, NEW id, NEW s \in Series \cup {None}, NEW n \in Nat,
           LinkCard(id, s, n), id \in Nat /\ s \in Series => Claimed(id, s, n)
    PROVE  /\ \A t \in task' : t.id < fresh
           /\ \A t \in task' : t.tpl \in Series => Claimed(t.id, t.tpl, t.seq)
<1> DEFINE f(t) == IF t.id = id THEN [t EXCEPT !.tpl = s, !.seq = n] ELSE t
<1>1. task' = {f(t) : t \in task} /\ task \subseteq TaskRow
  BY LocalFacts DEF LinkCard
<1>2. ASSUME NEW t \in task
      PROVE  f(t).id < fresh /\ (f(t).tpl \in Series => Claimed(f(t).id, f(t).tpl, f(t).seq))
  <2>1. t \in TaskRow /\ t.id < fresh
    BY <1>1, CardsFacts DEF IdsOK
  <2>2. CASE t.id = id
    <3>1. f(t).id = id /\ f(t).tpl = s /\ f(t).seq = n /\ id \in Nat
      BY <2>1, <2>2 DEF TaskRow
    <3> QED BY <2>1, <2>2, <3>1
  <2>3. CASE t.id # id
    BY <2>1, <2>3 DEF Claimed
  <2> QED BY <2>2, <2>3
<1> HIDE DEF f
<1> QED BY <1>1, <1>2

\* A generator gives a new card to the next run of its series, and links it.
LEMMA GenCardKeeps ==
    ASSUME IInv, IInv', CardsOK, NEW p \in Procs, GenCreateCard(p) \/ GenLinkCard(p)
    PROVE  CardsOK'
<1>1. PICK c \in {loc[p]}, r \in {loc[p].cur} : c = loc[p] /\ r = c.cur
  OBVIOUS
<1>2. pc[p] \in {"create", "link"} /\ UNCHANGED <<tpl, occ, start, dropped>>
  BY DEF GenCreateCard, GenLinkCard
<1>3. c \in LocalRow /\ r \in TplRow /\ start[r.id] # None /\ r.id \in Series /\ r.last + 1 \in Nat
  BY <1>1, <1>2, LocalFacts DEF Good, HoldsSeries, LocalRow, TplRow, Aligned
<1>4. StartKept /\ Keeps(c, pc[p]) /\ \A x \in tpl' : Counted(x)
  BY <1>1, <1>2, CardsFacts DEF StartKept
<1>5. CASE GenCreateCard(p)
  <2>1. PICK l : l = [c EXCEPT !.card = fresh]
    OBVIOUS
  <2>2. /\ pc' = [pc EXCEPT ![p] = "link"] /\ loc' = [loc EXCEPT ![p] = l] /\ InsertCard(p)
    BY <1>1, <1>5, <2>1 DEF GenCreateCard, Goto, Remember
  <2>3. /\ l.tpls = c.tpls /\ l.cur = c.cur /\ l.rows = c.rows /\ l.row = c.row /\ l.card = fresh
    BY <1>3, <2>1 DEF LocalRow
  <2>4. Keeps(l, "link")
    BY <1>4, <1>5, <2>3 DEF Keeps, GenCreateCard
  <2>5. \A k, s, n : WillClaim(l, "link", k, s, n) => k = fresh /\ s = r.id /\ n = r.last + 1
    BY <1>1, <2>3 DEF WillClaim
  <2>6. /\ fresh' = fresh + 1 /\ fresh \in Nat /\ fresh' >= fresh
        /\ \A t \in task' : t.id < fresh'
        /\ \A t \in task' : t.tpl \in Series => Claimed(t.id, t.tpl, t.seq)
    BY <2>2, InsertedCards
  <2>7. Adds(l, "link", r.last + 1)
    BY <1>2, <1>3, <2>5, <2>6 DEF Adds
  <2> QED BY <1>2, <1>4, <2>2, <2>4, <2>6, <2>7, CardWriteStep
<1>6. CASE GenLinkCard(p)
  <2>1. /\ pc' = [pc EXCEPT ![p] = "record"] /\ loc' = [loc EXCEPT ![p] = c] /\ pc[p] = "link"
        /\ LinkCard(c.card, r.id, r.last + 1) /\ UNCHANGED fresh
    BY <1>1, <1>6, LocalFacts DEF GenLinkCard, Goto
  <2>2. Keeps(c, "record")
    BY <1>4, <2>1 DEF Keeps
  <2>3. Claimed(c.card, r.id, r.last + 1)
    BY <1>1, <2>1 DEF Claimed, WillClaim
  <2>4. \A k, s, n : WillClaim(c, "record", k, s, n) => Claimed(k, s, n)
    BY <1>1, <2>1 DEF Claimed, WillClaim
  <2>5. fresh' >= fresh /\ \A t \in task' : t.id < fresh' /\ (t.tpl \in Series => Claimed(t.id, t.tpl, t.seq))
    BY <1>3, <2>1, <2>3, LocalFacts, LinkedCards
  <2>6. Adds(c, "record", 0)
    BY <2>4 DEF Adds
  <2> QED BY <1>2, <1>4, <2>1, <2>2, <2>5, <2>6, CardWriteStep
<1> QED BY <1>5, <1>6

\* A sync gives a new card to the run it repairs, and links it.
LEMMA MatCardKeeps ==
    ASSUME IInv, IInv', CardsOK, NEW p \in Procs, MatCreateCard(p) \/ MatLinkCard(p)
    PROVE  CardsOK'
<1>1. PICK c \in {loc[p]} : c = loc[p]
  OBVIOUS
<1>2. pc[p] \in {"mcreate", "mlink"} /\ UNCHANGED <<tpl, occ, start, dropped>>
  BY DEF MatCreateCard, MatLinkCard
<1>3. StartKept /\ Keeps(c, pc[p]) /\ \A x \in tpl' : Counted(x)
  BY <1>1, <1>2, CardsFacts DEF StartKept
<1>4. /\ c \in LocalRow /\ c.cur \in TplRow /\ c.row \in OccRow /\ c.cur # None /\ c.row # None
      /\ start[c.cur.id] # None /\ start[c.row.tpl] # None
      /\ c.cur.id \in Series /\ c.row.seq \in Nat
  BY <1>1, <1>2, <1>3, LocalFacts
  DEF Good, HoldsSeries, LocalRow, TplRow, OccRow, Aligned, Keeps, SameRun
<1>5. CASE MatCreateCard(p)
  <2>1. PICK l : l = [c EXCEPT !.card = fresh]
    OBVIOUS
  <2>2. /\ pc' = [pc EXCEPT ![p] = "mlink"] /\ loc' = [loc EXCEPT ![p] = l] /\ InsertCard(p)
    BY <1>1, <1>5, <2>1 DEF MatCreateCard, Goto, Remember
  <2>3. /\ l.tpls = c.tpls /\ l.cur = c.cur /\ l.rows = c.rows /\ l.row = c.row /\ l.card = fresh
    BY <1>4, <2>1 DEF LocalRow
  <2>4. Keeps(l, "mlink")
    BY <1>3, <2>3 DEF Keeps
  <2>5. \A k, s, n : WillClaim(l, "mlink", k, s, n) => k = fresh /\ start[s] # None /\ n = c.row.seq
    BY <1>4, <2>3 DEF WillClaim
  <2>6. /\ fresh' = fresh + 1 /\ fresh \in Nat /\ fresh' >= fresh
        /\ \A t \in task' : t.id < fresh'
        /\ \A t \in task' : t.tpl \in Series => Claimed(t.id, t.tpl, t.seq)
    BY <2>2, InsertedCards
  <2>7. Adds(l, "mlink", c.row.seq)
    BY <1>2, <2>5, <2>6 DEF Adds
  <2> QED BY <1>2, <1>3, <2>2, <2>4, <2>6, <2>7, CardWriteStep
<1>6. CASE MatLinkCard(p)
  <2>1. /\ pc' = [pc EXCEPT ![p] = "mrecord"] /\ loc' = [loc EXCEPT ![p] = c] /\ pc[p] = "mlink"
        /\ LinkCard(c.card, c.cur.id, c.row.seq) /\ UNCHANGED fresh
    BY <1>1, <1>6, LocalFacts DEF MatLinkCard, Goto
  <2>2. Keeps(c, "mrecord")
    BY <1>3, <1>4 DEF Keeps
  <2>3. Claimed(c.card, c.cur.id, c.row.seq)
    BY <1>1, <2>1 DEF Claimed, WillClaim
  <2>4. \A k, s, n : WillClaim(c, "mrecord", k, s, n) => Claimed(k, s, n)
    BY <1>1, <2>1 DEF Claimed, WillClaim
  <2>5. fresh' >= fresh /\ \A t \in task' : t.id < fresh' /\ (t.tpl \in Series => Claimed(t.id, t.tpl, t.seq))
    <3>1. fresh' = fresh /\ fresh \in Nat
      BY <2>1, LocalFacts
    <3>2. c.cur.id \in Series \cup {None} /\ LinkCard(c.card, c.cur.id, c.row.seq)
      BY <1>4, <2>1
    <3>3. /\ \A t \in task' : t.id < fresh
          /\ \A t \in task' : t.tpl \in Series => Claimed(t.id, t.tpl, t.seq)
      BY <1>4, <2>3, <3>2, LinkedCards
    <3> QED BY <3>1, <3>3
  <2>6. Adds(c, "mrecord", 0)
    BY <2>4 DEF Adds
  <2> QED BY <1>2, <1>3, <2>1, <2>2, <2>5, <2>6, CardWriteStep
<1> QED BY <1>5, <1>6

\* Deleting cards, or ending a conversion, adds no claim.
LEMMA CardEndKeeps ==
    ASSUME IInv, IInv', CardsOK, NEW p \in Procs, Erase(p) \/ AttachLink(p) \/ DetachCard(p)
    PROVE  CardsOK'
<1>1. UNCHANGED <<tpl, occ, fresh, start, dropped>>
  BY DEF Erase, AttachLink, DetachCard
<1>2. PICK l, label : Reads(p, l) /\ label \in {"forget", "idle"}
                      /\ pc' = [pc EXCEPT ![p] = label] /\ loc' = [loc EXCEPT ![p] = l]
  <2>1. Reads(p, Fresh) /\ Reads(p, loc[p])
    BY FreshReads DEF Reads
  <2> QED BY <2>1, LocalFacts DEF Erase, AttachLink, DetachCard, Finish, Goto, Remember
<1>3. Keeps(l, label)
  BY <1>2, ReaderKeeps DEF Keeps
<1>4. Adds(l, label, 0)
  BY <1>2, NotWriting DEF Writing, Adds
<1>5. \A t \in task' : t.id < fresh /\ (t.tpl \in Series => Claimed(t.id, t.tpl, t.seq))
  <2>1. CASE Erase(p)
    BY <2>1, CardsFacts DEF Erase, IdsOK, Claimed
  <2>2. CASE AttachLink(p)
    <3>1. pc[p] = "alink" /\ LinkCard(loc[p].card, loc[p].cur.id, 1)
      BY <2>2 DEF AttachLink
    <3>2. Claimed(loc[p].card, loc[p].cur.id, 1)
      BY <3>1 DEF Claimed, WillClaim
    <3>3. loc[p].cur.id \in Series
      BY <3>1, LocalFacts DEF Good, HoldsSeries, LocalRow, TplRow
    <3> QED BY <3>1, <3>2, <3>3, LinkedCards
  <2>3. CASE DetachCard(p)
    <3>1. LinkCard(loc[p].card, None, 0) /\ None \notin Series
      BY <2>3, PlannerAssumption DEF DetachCard, SeriesAssumption
    <3> QED BY <3>1, LinkedCards
  <2> QED BY <2>1, <2>2, <2>3
<1>6. StartKept /\ fresh' >= fresh /\ \A r \in tpl' : Counted(r)
  BY <1>1, LocalFacts, CardsFacts DEF StartKept
<1> QED BY <1>1, <1>2, <1>3, <1>4, <1>5, <1>6, CardWriteStep

\* A new series claims its card for its first run, and no other run can.
LEMMA StartAttachCards ==
    ASSUME IInv, IInv', CardsOK, NEW p \in Procs, StartAttach(p)
    PROVE  CardsOK'
<1>1. PICK s \in Unborn, d \in Days : \E r, l :
         /\ r = NewSeries(s, 1, NextDue[d]) /\ start' = [start EXCEPT ![s] = d]
         /\ loc' = [loc EXCEPT ![p] = l]
         /\ \/ l = [loc[p] EXCEPT !.cur = r, !.card = fresh] /\ InsertCard(p)
            \/ /\ \E t \in task : l = [loc[p] EXCEPT !.cur = r, !.card = t.id]
               /\ UNCHANGED <<task, fresh>>
  BY StartAttachPicks, Zenon
<1>2. PICK r, l :
         /\ r = NewSeries(s, 1, NextDue[d]) /\ start' = [start EXCEPT ![s] = d]
         /\ loc' = [loc EXCEPT ![p] = l]
         /\ \/ l = [loc[p] EXCEPT !.cur = r, !.card = fresh] /\ InsertCard(p)
            \/ /\ \E t \in task : l = [loc[p] EXCEPT !.cur = r, !.card = t.id]
               /\ UNCHANGED <<task, fresh>>
  BY <1>1, Zenon
<1>3. pc' = [pc EXCEPT ![p] = "atpl"] /\ UNCHANGED <<tpl, occ, dropped>>
  BY DEF StartAttach, Goto
<1>4. /\ loc[p] \in LocalRow /\ fresh \in Nat /\ task \subseteq TaskRow
      /\ start \in [Series -> Days \cup {None}]
  BY LocalFacts
<1>5. s \in Series /\ start[s] = None /\ d # None
  BY PlannerAssumption DEF Unborn, SeriesAssumption, BoundAssumption
<1>6. start'[s] # None /\ StartKept
  BY <1>2, <1>4, <1>5 DEF StartKept
<1>7. /\ fresh' \in Nat /\ fresh' >= fresh /\ \A t \in task' : t.id < fresh'
      /\ \A t \in task' : t.tpl \in Series => Claimed(t.id, t.tpl, t.seq)
  <2>1. CASE InsertCard(p)
    BY <2>1, InsertedCards
  <2>2. CASE UNCHANGED <<task, fresh>>
    BY <1>4, <2>2, CardsFacts DEF IdsOK, Claimed
  <2> QED BY <1>2, <2>1, <2>2
<1>8. PICK card : l = [loc[p] EXCEPT !.cur = r, !.card = card] /\ card < fresh'
  <2>1. CASE l = [loc[p] EXCEPT !.cur = r, !.card = fresh] /\ InsertCard(p)
    <3>1. fresh < fresh'
      BY <1>4, <2>1, InsertedCards
    <3> QED BY <2>1, <3>1
  <2>2. CASE /\ \E t \in task : l = [loc[p] EXCEPT !.cur = r, !.card = t.id]
             /\ UNCHANGED <<task, fresh>>
    <3>1. PICK t \in task : l = [loc[p] EXCEPT !.cur = r, !.card = t.id]
      BY <2>2
    <3>2. t.id < fresh'
      BY <1>7, <2>2
    <3> QED BY <3>1, <3>2
  <2> QED BY <1>2, <2>1, <2>2, Zenon
<1>9. /\ l.tpls = loc[p].tpls /\ l.cur = r /\ l.rows = loc[p].rows /\ l.row = loc[p].row
      /\ l.card = card
  BY <1>4, <1>8 DEF LocalRow
<1>10. r.id = s /\ Counted(r)
  <2>1. r = NewSeries(s, 1, NextDue[d])
    BY <1>2, Zenon
  <2>2. r.id = s /\ r.gc = 1 /\ r.last = 1
    BY <2>1 DEF NewSeries
  <2> QED BY <2>2 DEF Counted
<1>11. Keeps(l, "atpl")
  BY <1>9, <1>10, CardsFacts DEF Keeps
<1>12. Adds(l, "atpl", 1)
  BY <1>5, <1>6, <1>8, <1>9, <1>10 DEF Adds, WillClaim
<1> QED BY <1>2, <1>3, <1>6, <1>7, <1>11, <1>12, CardsFacts, CardWriteStep

\* A copy of a series has counted as many runs as it has: none.
LEMMA DuplicateCards ==
    ASSUME IInv, IInv', CardsOK, NEW p \in Procs, Duplicate(p)
    PROVE  CardsOK'
<1>1. PICK s \in Unborn, d \in Days : \E r, l :
         /\ r = NewSeries(s, 0, d) /\ start' = [start EXCEPT ![s] = d]
         /\ tpl' = tpl \cup {r}
         /\ l = [loc[p] EXCEPT !.day = today, !.cur = r] /\ loc' = [loc EXCEPT ![p] = l]
  BY DuplicatePicks, Zenon
<1>2. PICK r, l :
         /\ r = NewSeries(s, 0, d) /\ start' = [start EXCEPT ![s] = d]
         /\ tpl' = tpl \cup {r}
         /\ l = [loc[p] EXCEPT !.day = today, !.cur = r] /\ loc' = [loc EXCEPT ![p] = l]
  BY <1>1, Zenon
<1>3. pc' = [pc EXCEPT ![p] = "check"] /\ UNCHANGED <<occ, task, fresh, dropped>>
  BY DEF Duplicate, Goto
<1>4. loc[p] \in LocalRow /\ fresh \in Nat /\ start \in [Series -> Days \cup {None}]
  BY LocalFacts
<1>5. StartKept /\ fresh' >= fresh
  BY <1>2, <1>3, <1>4 DEF StartKept, Unborn
<1>6. l.tpls = loc[p].tpls /\ l.cur = r /\ l.rows = loc[p].rows /\ l.row = loc[p].row
  BY <1>2, <1>4 DEF LocalRow
<1>7. Counted(r)
  BY <1>2 DEF NewSeries, Counted
<1>8. Keeps(l, "check") /\ \A x \in tpl' : Counted(x)
  BY <1>2, <1>6, <1>7, CardsFacts DEF Keeps
<1>9. Adds(l, "check", 0)
  BY NotWriting DEF Writing, Adds
<1>10. \A t \in task' : t.id < fresh' /\ (t.tpl \in Series => Claimed(t.id, t.tpl, t.seq))
  BY <1>3, CardsFacts DEF IdsOK, Claimed
<1> QED BY <1>2, <1>3, <1>5, <1>8, <1>9, <1>10, CardWriteStep

-----------------------------------------------------------------------------
(* Steps that write runs *)

\* A step of p that writes runs only.
LEMMA RunWriteStep ==
    ASSUME IInv, IInv', CardsOK, NEW p \in Procs, NEW l, NEW label,
           pc' = [pc EXCEPT ![p] = label], loc' = [loc EXCEPT ![p] = l],
           UNCHANGED <<tpl, task, start>>, fresh' >= fresh, PassedKept, SameRuns,
           IdsOK', EndsAfterOccurrences', Keeps(l, label)', Adds(l, label, 0),
           \A o \in occ' : o.task \in Nat => Claimed(o.task, o.tpl, o.seq)
    PROVE  CardsOK'
<1>1. TypeOK /\ fresh \in Nat /\ fresh' \in Nat /\ tpl \subseteq TplRow /\ StartKept
  BY DEF IInv, TypeOK, StartKept
<1>2. \A t \in task' : t.tpl \in Series => Claimed(t.id, t.tpl, t.seq)
  BY DEF Claimed
<1>3. ClaimsOK'
  BY <1>1, <1>2, CardsFacts, ClaimsStep
<1>4. \A r \in tpl' : Counted(r)'
  BY <1>1, CardsFacts, CountedStays
<1> QED BY <1>1, <1>3, <1>4, CardsStep

\* The run past the end that is there stays excused.
LEMMA EndsStay ==
    ASSUME IInv, CardsOK, PassedKept, NEW o \in OccRow, NEW q \in occ,
           q.tpl = o.tpl, q.seq = o.seq, q.state = "SKIPPED" => o.state = "SKIPPED",
           EndAfter > 0, o.state # "SKIPPED", o.seq > EndAfter
    PROVE  PassedBefore(o.tpl, o.seq - 1)'
<1>1. PICK n \in 1..(o.seq - 1) : Passed(o.tpl, n)
  BY CardsFacts DEF CardsOK, EndsAfterOccurrences, PassedBefore
<1>2. n \in Nat /\ o.tpl \in Series
  BY DEF OccRow
<1>3. Passed(o.tpl, n)'
  BY <1>1, <1>2 DEF PassedKept
<1> QED BY <1>1, <1>3 DEF PassedBefore

\* Deleting runs leaves fewer claims; what is deleted is passed over.
LEMMA DeletionKeeps ==
    ASSUME IInv, IInv', CardsOK, NEW p \in Procs, Drop(p) \/ Forget(p) \/ SeriesDropRuns(p)
    PROVE  CardsOK'
<1>1. UNCHANGED <<tpl, task, fresh, start>>
  BY DEF Drop, Forget, SeriesDropRuns
<1>2. PICK rows : DeleteRuns(rows) \/ UNCHANGED <<occ, dropped>>
  BY DEF Drop, Forget, SeriesDropRuns
<1>3. /\ occ' \subseteq occ /\ dropped \subseteq dropped'
      /\ \A o \in occ : o \in occ' \/ <<o.tpl, o.seq>> \in dropped'
  BY <1>2 DEF DeleteRuns
<1>4. PassedKept /\ SameRuns
  BY <1>3, PassedStays DEF SameRuns
<1>5. IdsOK'
  BY <1>1, <1>3, CardsFacts DEF IdsOK
<1>6. EndsAfterOccurrences'
  BY <1>3, <1>4, EndsStay, LocalFacts DEF EndsAfterOccurrences
<1>7. PICK l, label : /\ Reads(p, l) /\ label \in {"erase", "purge"}
                      /\ pc' = [pc EXCEPT ![p] = label] /\ loc' = [loc EXCEPT ![p] = l]
  <2>1. Reads(p, loc[p])
    BY DEF Reads
  <2>2. Reads(p, [loc[p] EXCEPT !.victim = None]) /\ Reads(p, [loc[p] EXCEPT !.row = None])
    BY LocalFacts DEF Reads, LocalRow
  <2> QED BY <2>1, <2>2, LocalFacts DEF Drop, Forget, SeriesDropRuns, Goto, Remember
<1>8. Keeps(l, label) /\ Adds(l, label, 0)
  BY <1>7, ReaderKeeps, NotWriting DEF Keeps, Adds, Writing
<1>9. fresh \in Nat /\ fresh' >= fresh /\ TypeOK /\ StartKept /\ occ' \subseteq OccRow
  BY <1>1, LocalFacts DEF IInv, TypeOK, StartKept
<1>10. Keeps(l, label)'
  BY <1>1, <1>4, <1>7, <1>8, <1>9, NewLocal, KeepsStays
<1>11. \A o \in occ' : o.task \in Nat => Claimed(o.task, o.tpl, o.seq)
  BY <1>3 DEF Claimed
<1> QED BY <1>1, <1>4, <1>5, <1>6, <1>7, <1>8, <1>9, <1>10, <1>11, RunWriteStep

\* Rows that are rewritten in place and stay skipped exactly if they were.
InPlace ==
    /\ dropped' = dropped /\ fresh' = fresh
    /\ \A o \in occ' : \E q \in occ : /\ q.id = o.id /\ q.tpl = o.tpl /\ q.seq = o.seq
                                      /\ o.state = "SKIPPED" <=> q.state = "SKIPPED"
    /\ \A q \in occ : \E o \in occ' : /\ q.id = o.id /\ q.tpl = o.tpl /\ q.seq = o.seq
                                      /\ o.state = "SKIPPED" <=> q.state = "SKIPPED"

LEMMA InPlaceKeeps ==
    ASSUME IInv, IInv', CardsOK, InPlace
    PROVE  PassedKept /\ SameRuns /\ EndsAfterOccurrences'
<1>1. PassedKept
  BY PassedStays, SMTT(30) DEF InPlace
<1>2. SameRuns
  BY DEF InPlace, SameRuns
<1>3. occ' \subseteq OccRow
  BY DEF IInv, TypeOK
<1>4. EndsAfterOccurrences'
  <2>1. SUFFICES ASSUME NEW o \in occ', EndAfter > 0, o.state # "SKIPPED", o.seq > EndAfter
                 PROVE  PassedBefore(o.tpl, o.seq - 1)'
    BY DEF EndsAfterOccurrences
  <2>2. PICK q \in occ : q.tpl = o.tpl /\ q.seq = o.seq /\ (q.state = "SKIPPED" => o.state = "SKIPPED")
    BY DEF InPlace
  <2> QED BY <1>1, <1>3, <2>1, <2>2, EndsStay
<1> QED BY <1>1, <1>2, <1>4

\* What may be written to a run's link.
Linkable(id, card) == card = None \/ \A o \in occ : o.id = id => o.state # "SKIPPED"

\* Every run is as it was, but for the link of the one.
Relinked(id, card) ==
    \A o \in occ' : \E q \in occ :
        /\ q.id = o.id /\ q.tpl = o.tpl /\ q.seq = o.seq
        /\ o.task = q.task \/ (o.id = id /\ o.task = card)

\* Linking a run that is not skipped, or freeing one, rewrites rows in place.
LEMMA RelinkInPlace ==
    ASSUME IInv, CardsOK, NEW id, NEW card \in Nat \cup {None}, SetRunTask(id, card),
           UNCHANGED <<dropped, fresh, task>>, Linkable(id, card)
    PROVE  InPlace /\ IdsOK' /\ Relinked(id, card)
<1> DEFINE f(o) == IF o.id = id THEN [o EXCEPT !.task = card] ELSE o
<1>1. occ' = {f(o) : o \in occ}
  BY DEF SetRunTask
<1>2. ASSUME NEW o \in occ
      PROVE  /\ f(o).id = o.id /\ f(o).tpl = o.tpl /\ f(o).seq = o.seq /\ f(o).state = o.state
             /\ f(o).task = o.task \/ (o.id = id /\ f(o).task = card)
  BY RunsOKNow DEF OccRow
<1>3. \A o, q \in occ : f(o).id = f(q).id => f(o) = f(q)
  BY <1>2, CardsFacts DEF CardsOK, IdsOK
<1> HIDE DEF f
<1>4. InPlace
  BY <1>1, <1>2 DEF InPlace
<1>5. \A o \in occ' : o.id < fresh' /\ (o.state = "SKIPPED" => o.task = None)
  BY <1>1, <1>2, RunsOKNow DEF CardsOK, IdsOK, Linkable
<1>6. \A o, q \in occ' : o.id = q.id => o = q
  BY <1>1, <1>3
<1>7. \A t \in task' : t.id < fresh'
  BY CardsFacts DEF CardsOK, IdsOK
<1>8. IdsOK'
  BY <1>5, <1>6, <1>7 DEF IdsOK
<1>9. Relinked(id, card)
  BY <1>1, <1>2 DEF Relinked
<1> QED BY <1>4, <1>8, <1>9

\* A sync frees the run it repairs, and later gives it the new card.
LEMMA RelinkKeeps ==
    ASSUME IInv, IInv', CardsOK, NEW p \in Procs, SyncRepairRun(p) \/ MatRecord(p)
    PROVE  CardsOK'
<1>1. loc[p] \in LocalRow /\ fresh \in Nat /\ UNCHANGED <<tpl, task, fresh, start, dropped>>
  BY LocalFacts DEF SyncRepairRun, MatRecord
<1>2. CASE SyncRepairRun(p)
  <2>1. PICK o, r, l :
           /\ o \in NextRow(p)
           /\ r \in Resolved(p, o)
           /\ l = [loc[p] EXCEPT !.rows = loc[p].rows \ {o},
                                 !.tpls = loc[p].tpls \cup Active(Known(p, o)),
                                 !.cur = r, !.row = o]
           /\ loc' = [loc EXCEPT ![p] = l]
           /\ IF o.task = None THEN occ' = occ ELSE SetRunTask(o.id, None)
    BY <1>2 DEF SyncRepairRun, Remember
  <2>2. pc' = [pc EXCEPT ![p] = "mcreate"]
    BY <1>2 DEF SyncRepairRun, Goto
  <2>3. /\ l.tpls \subseteq loc[p].tpls \cup tpl /\ l.cur \in loc[p].tpls \cup tpl
        /\ l.rows \subseteq loc[p].rows /\ l.row \in loc[p].rows
    BY <1>1, <2>1, ResolvedCopies DEF LocalRow, NextRow
  <2>4. Keeps(l, "mcreate")
    BY <2>3, CardsFacts DEF Keeps
  <2>5. /\ InPlace /\ IdsOK'
        /\ \A x \in occ' : x.task \in Nat => \E q \in occ : q.tpl = x.tpl /\ q.seq = x.seq /\ q.task = x.task
    <3>1. CASE occ' = occ
      BY <1>1, <3>1, CardsFacts DEF InPlace, IdsOK
    <3>2. CASE SetRunTask(o.id, None)
      <4>1. PICK id : id = o.id /\ SetRunTask(id, None)
        BY <3>2
      <4>2. InPlace /\ IdsOK' /\ Relinked(id, None)
        BY <1>1, <4>1, RelinkInPlace DEF Linkable
      <4>3. None \notin Nat
        BY PlannerAssumption DEF SeriesAssumption
      <4> QED BY <4>2, <4>3 DEF Relinked
    <3> QED BY <2>1, <3>1, <3>2
  <2>6. PassedKept /\ SameRuns /\ EndsAfterOccurrences'
    BY <2>5, InPlaceKeeps
  <2>7. TypeOK /\ StartKept /\ occ' \subseteq OccRow /\ fresh' >= fresh /\ l \in LocalRow
    BY <1>1, <2>1, <2>2, NewLocal DEF IInv, TypeOK, StartKept
  <2>8. Keeps(l, "mcreate")'
    BY <1>1, <2>4, <2>6, <2>7, KeepsStays
  <2>9. Adds(l, "mcreate", 0)
    BY NotWriting DEF Writing, Adds
  <2>10. \A x \in occ' : x.task \in Nat => Claimed(x.task, x.tpl, x.seq)
    BY <2>5 DEF Claimed
  <2> QED BY <1>1, <2>1, <2>2, <2>5, <2>6, <2>7, <2>8, <2>9, <2>10, RunWriteStep
<1>3. CASE MatRecord(p)
  <2>1. PICK c, l : /\ c = loc[p] /\ l = [c EXCEPT !.cur = None, !.row = None, !.card = None]
    OBVIOUS
  <2>2. /\ pc' = [pc EXCEPT ![p] = "each"] /\ loc' = [loc EXCEPT ![p] = l] /\ pc[p] = "mrecord"
        /\ SetRunTask(c.row.id, c.card)
    BY <1>3, <2>1 DEF MatRecord, Goto, Remember
  <2>3. c.row # None /\ SameRun(c.row) /\ c.card \in Nat \cup {None}
    BY <1>1, <2>1, <2>2, CardsFacts DEF Keeps, LocalRow
  <2>4. InPlace /\ IdsOK' /\ Relinked(c.row.id, c.card)
    <3>1. Linkable(c.row.id, c.card)
      BY <2>3 DEF SameRun, Linkable
    <3> QED BY <1>1, <2>2, <2>3, <3>1, RelinkInPlace
  <2>5. ASSUME NEW x \in occ', x.task \in Nat PROVE Claimed(x.task, x.tpl, x.seq)
    <3>1. PICK q \in occ : /\ q.id = x.id /\ q.tpl = x.tpl /\ q.seq = x.seq
                           /\ x.task = q.task \/ (x.id = c.row.id /\ x.task = c.card)
      BY <2>4 DEF Relinked
    <3>2. CASE x.task = q.task
      BY <3>1, <3>2 DEF Claimed
    <3>3. CASE x.id = c.row.id /\ x.task = c.card
      <4>1. x.tpl = c.row.tpl /\ x.seq = c.row.seq
        BY <2>3, <3>1, <3>3 DEF SameRun
      <4>2. WillClaim(loc[p], pc[p], x.task, x.tpl, x.seq)
        BY <2>1, <2>2, <3>3, <4>1 DEF WillClaim
      <4> QED BY <4>2 DEF Claimed
    <3> QED BY <3>1, <3>2, <3>3
  <2>6. PassedKept /\ SameRuns /\ EndsAfterOccurrences'
    BY <2>4, InPlaceKeeps
  <2>7. Reads(p, l)
    BY <1>1, <2>1 DEF Reads, LocalRow
  <2>8. Keeps(l, "each") /\ Adds(l, "each", 0)
    BY <2>7, ReaderKeeps, NotWriting DEF Keeps, Writing, Adds
  <2>9. TypeOK /\ StartKept /\ occ' \subseteq OccRow /\ fresh' >= fresh /\ l \in LocalRow
    BY <1>1, <2>2, NewLocal DEF IInv, TypeOK, StartKept
  <2>10. Keeps(l, "each")'
    BY <1>1, <2>6, <2>8, <2>9, KeepsStays
  <2> QED BY <1>1, <2>2, <2>4, <2>5, <2>6, <2>8, <2>9, <2>10, RunWriteStep
<1> QED BY <1>2, <1>3

-----------------------------------------------------------------------------
(* Steps that insert runs *)

\* A new row has a new id, claims what its process was about to claim, and is
\* past the end of its series only after a date that was passed over.
LEMMA InsertKeeps ==
    ASSUME IInv, IInv', CardsOK, NEW p \in Procs, NEW l, NEW label, NEW o \in OccRow,
           pc' = [pc EXCEPT ![p] = label], loc' = [loc EXCEPT ![p] = l],
           UNCHANGED <<tpl, task, start, dropped>>, fresh' = fresh + 1,
           occ' = occ \cup {o}, o.id = fresh, o.state = "SKIPPED" => o.task = None,
           EndAfter > 0 /\ o.state # "SKIPPED" /\ o.seq > EndAfter => PassedBefore(o.tpl, o.seq - 1),
           o.task \in Nat => Claimed(o.task, o.tpl, o.seq),
           PassedKept => Keeps(l, label)', Adds(l, label, 0)
    PROVE  CardsOK'
<1>1. fresh \in Nat /\ fresh' >= fresh /\ occ \subseteq OccRow
  BY LocalFacts
<1>2. PassedKept
  BY PassedStays
<1>3. SameRuns
  BY <1>1 DEF SameRuns
<1>4. IdsOK'
  <2>1. \A q \in occ : q.id < fresh /\ q.id \in Nat /\ (q.state = "SKIPPED" => q.task = None)
    BY <1>1, CardsFacts DEF IdsOK, OccRow
  <2>2. \A q, x \in occ' : q.id = x.id => q = x
    BY <1>1, <2>1, CardsFacts DEF IdsOK
  <2>3. \A t \in task' : t.id < fresh'
    BY <1>1, CardsFacts, LocalFacts DEF IdsOK, TaskRow
  <2> QED BY <1>1, <2>1, <2>2, <2>3 DEF IdsOK
<1>5. EndsAfterOccurrences'
  <2>1. SUFFICES ASSUME NEW q \in occ', EndAfter > 0, q.state # "SKIPPED", q.seq > EndAfter
                 PROVE  PassedBefore(q.tpl, q.seq - 1)'
    BY DEF EndsAfterOccurrences
  <2>2. CASE q \in occ
    BY <1>1, <1>2, <2>1, <2>2, EndsStay
  <2>3. CASE q = o
    <3>1. PICK n \in 1..(o.seq - 1) : Passed(o.tpl, n)
      BY <2>1, <2>3 DEF PassedBefore
    <3>2. Passed(o.tpl, n)'
      BY <1>2, <3>1 DEF PassedKept, OccRow
    <3> QED BY <2>3, <3>1, <3>2 DEF PassedBefore
  <2> QED BY <2>1, <2>2, <2>3
<1>6. \A q \in occ' : q.task \in Nat => Claimed(q.task, q.tpl, q.seq)
  BY DEF Claimed
<1> QED BY <1>1, <1>2, <1>3, <1>4, <1>5, <1>6, RunWriteStep

\* What a process remembers stays true when a row is inserted.
LEMMA KeepsOnInsert ==
    ASSUME IInv, IInv', NEW p \in Procs, NEW l \in LocalRow, NEW label, Keeps(l, label),
           UNCHANGED start, fresh' = fresh + 1, PassedKept, label # "skipsave",
           NEW o, occ' = occ \cup {o}, o.id = fresh
    PROVE  Keeps(l, label)'
<1>1. TypeOK /\ fresh \in Nat /\ fresh' \in Nat /\ fresh' >= fresh /\ StartKept /\ occ' \subseteq OccRow
  BY DEF IInv, TypeOK, StartKept
<1>2. SameRuns
  BY <1>1 DEF SameRuns
<1> QED BY <1>1, <1>2, KeepsStays

\* A generator that is past the count of its copy had passed a date over.
LEMMA RecordKeeps ==
    ASSUME IInv, IInv', CardsOK, NEW p \in Procs, GenRecordRun(p)
    PROVE  CardsOK'
<1>1. PICK l \in {loc[p]}, r \in {loc[p].cur} : l = loc[p] /\ r = l.cur
  OBVIOUS
<1>2. PICK o : o = [id |-> fresh, tpl |-> r.id, seq |-> r.last + 1, due |-> r.next,
                    state |-> "PENDING", task |-> l.card]
  OBVIOUS
<1>3. /\ pc' = [pc EXCEPT ![p] = "advance"] /\ loc' = [loc EXCEPT ![p] = l]
      /\ UNCHANGED <<tpl, task, start, dropped>> /\ pc[p] = "record"
      /\ occ' = occ \cup {o} /\ fresh' = fresh + 1
  BY <1>1, <1>2, LocalFacts DEF GenRecordRun, InsertRun, Goto
<1>4. /\ o \in OccRow /\ o.id = fresh /\ o.tpl = r.id /\ o.seq = r.last + 1
      /\ o.state = "PENDING" /\ o.task = l.card
  <2>1. o \in occ'
    BY <1>3
  <2>2. o \in OccRow
    BY <2>1 DEF IInv, TypeOK
  <2> QED BY <1>2, <2>2
<1>5. r \in TplRow /\ Counted(r) /\ (EndAfter = 0 \/ r.gc < EndAfter) /\ Keeps(l, "advance")
  BY <1>1, <1>3, LocalFacts, CardsFacts DEF Good, HoldsSeries, LocalRow, Keeps
<1>6. EndAfter > 0 /\ o.seq > EndAfter => PassedBefore(o.tpl, o.seq - 1)
  <2>1. r.last \in Nat /\ r.gc \in Nat /\ EndAfter \in Nat /\ (r.last + 1) - 1 = r.last
    BY <1>5, PlannerAssumption DEF TplRow, BoundAssumption
  <2> QED BY <1>4, <1>5, <2>1 DEF Counted
<1>7. Claimed(o.task, o.tpl, o.seq)
  BY <1>1, <1>3, <1>4 DEF Claimed, WillClaim
<1>8. PassedKept => Keeps(l, "advance")'
  BY <1>1, <1>3, <1>4, <1>5, LocalFacts, KeepsOnInsert
<1>9. Adds(l, "advance", 0)
  BY NotWriting DEF Writing, Adds
<1> QED BY <1>3, <1>4, <1>6, <1>7, <1>8, <1>9, InsertKeeps

\* The first run of a series is never past its end.
LEMMA AttachRunCards ==
    ASSUME IInv, IInv', CardsOK, NEW p \in Procs, AttachRun(p)
    PROVE  CardsOK'
<1>1. PICK l \in {loc[p]}, r \in {loc[p].cur} : l = loc[p] /\ r = l.cur
  OBVIOUS
<1>2. PICK o : o = [id |-> fresh, tpl |-> r.id, seq |-> 1, due |-> start[r.id],
                    state |-> "PENDING", task |-> l.card]
  OBVIOUS
<1>3. /\ pc' = [pc EXCEPT ![p] = "alink"] /\ loc' = [loc EXCEPT ![p] = l]
      /\ UNCHANGED <<tpl, task, start, dropped>> /\ pc[p] = "arun"
      /\ occ' = occ \cup {o} /\ fresh' = fresh + 1
  BY <1>1, <1>2, LocalFacts DEF AttachRun, InsertRun, Goto
<1>4. /\ o \in OccRow /\ o.id = fresh /\ o.tpl = r.id /\ o.seq = 1
      /\ o.state = "PENDING" /\ o.task = l.card
  <2>1. o \in occ'
    BY <1>3
  <2>2. o \in OccRow
    BY <2>1 DEF IInv, TypeOK
  <2> QED BY <1>2, <2>2
<1>5. Keeps(l, "alink")
  BY <1>1, <1>3, CardsFacts DEF Keeps
<1>6. ~(EndAfter > 0 /\ o.seq > EndAfter)
  BY <1>4, PlannerAssumption DEF BoundAssumption
<1>7. Claimed(o.task, o.tpl, o.seq)
  BY <1>1, <1>3, <1>4 DEF Claimed, WillClaim
<1>8. PassedKept => Keeps(l, "alink")'
  BY <1>1, <1>3, <1>4, <1>5, LocalFacts, KeepsOnInsert
<1>9. Adds(l, "alink", 0)
  BY <1>1, <1>3 DEF Adds, Claimed, WillClaim
<1> QED BY <1>3, <1>4, <1>6, <1>7, <1>8, <1>9, InsertKeeps

\* A skip passes the date over, with its row and with its copy of the cursor.
LEMMA SkipKeeps ==
    ASSUME IInv, IInv', CardsOK, NEW p \in Procs, SkipInsert(p)
    PROVE  CardsOK'
<1>1. PICK c \in {loc[p]}, r \in {loc[p].cur} : c = loc[p] /\ r = c.cur
  OBVIOUS
<1>2. PICK o, x, l, label :
         /\ o = [id |-> fresh, tpl |-> r.id, seq |-> r.last + 1, due |-> r.next,
                 state |-> "SKIPPED", task |-> None]
         /\ x = [r EXCEPT !.last = r.last + 1, !.next = NextDue[r.next]]
         /\ l = [c EXCEPT !.left = c.left - 1, !.cur = x]
         /\ label = IF c.left = 1 THEN "skipsave" ELSE "skip"
         /\ occ' = occ \cup {o} /\ loc' = [loc EXCEPT ![p] = l] /\ pc' = [pc EXCEPT ![p] = label]
  BY <1>1 DEF SkipInsert, InsertRun, Goto, Remember
<1>3. /\ UNCHANGED <<tpl, task, start, dropped>> /\ pc[p] = "skip" /\ fresh' = fresh + 1
  BY DEF SkipInsert, InsertRun
<1>4. c \in LocalRow /\ r \in TplRow /\ Keeps(c, "skip") /\ r.id \in Series /\ r.last \in Nat
  BY <1>1, <1>3, LocalFacts, CardsFacts DEF Good, HoldsSeries, LocalRow, TplRow
<1>5. /\ o \in OccRow /\ o.id = fresh /\ o.tpl = r.id /\ o.seq = r.last + 1
      /\ o.state = "SKIPPED" /\ o.task = None
  <2>1. o \in occ'
    BY <1>2
  <2>2. o \in OccRow
    BY <2>1 DEF IInv, TypeOK
  <2> QED BY <1>2, <2>2
<1>6. x.id = r.id /\ x.last = r.last + 1
  <2>1. x = [r EXCEPT !.last = r.last + 1, !.next = NextDue[r.next]]
    BY <1>2
  <2> QED BY <1>4, <2>1 DEF TplRow
<1>7. l.tpls = c.tpls /\ l.cur = x /\ l.rows = c.rows /\ l.row = c.row
  <2>1. l = [c EXCEPT !.left = c.left - 1, !.cur = x]
    BY <1>2
  <2> QED BY <1>4, <2>1 DEF LocalRow
<1>8. ASSUME PassedKept PROVE Keeps(l, label)'
  <2>1. Keeps(c, "skip")'
    BY <1>2, <1>3, <1>4, <1>5, <1>8, KeepsOnInsert
  <2>2. Passed(x.id, x.last)'
    BY <1>2, <1>5, <1>6 DEF Passed
  <2>3. PassedBefore(x.id, x.last)'
    BY <1>4, <1>6, <2>2 DEF PassedBefore
  <2>4. Counted(x)'
    BY <2>3 DEF Counted
  <2>5. label \in {"skip", "skipsave"}
    BY <1>2
  <2> QED BY <1>7, <2>1, <2>3, <2>4, <2>5 DEF Keeps
<1>9. Adds(l, label, 0)
  <2>1. label \notin Writing
    BY <1>2 DEF Writing
  <2> QED BY <2>1, NotWriting DEF Adds
<1>10. o.task \notin Nat
  BY <1>5, PlannerAssumption DEF SeriesAssumption
<1> QED BY <1>2, <1>3, <1>5, <1>8, <1>9, <1>10, InsertKeeps

-----------------------------------------------------------------------------
(* The state of a run, pausing, time and failures *)

\* A run that is completed or taken back is one that was not skipped.
LEMMA SetRunStateCards ==
    ASSUME IInv, IInv', CardsOK, NEW p \in Procs, SetRunState(p)
    PROVE  CardsOK'
<1>0. PICK id : id = loc[p].row.id
  OBVIOUS
<1>1. PICK v \in {"PENDING", "COMPLETED"} :
         occ' = {IF o.id = id THEN [o EXCEPT !.state = v] ELSE o : o \in occ}
  BY <1>0 DEF SetRunState
<1>2. /\ UNCHANGED <<tpl, task, fresh, start, dropped>>
      /\ pc' = [pc EXCEPT ![p] = "idle"] /\ loc' = [loc EXCEPT ![p] = Fresh]
  BY DEF SetRunState, Finish, Goto, Remember
<1>3. \A o \in occ : o \in OccRow /\ (o.id = id => o.state # "SKIPPED")
  <2>1. loc[p].row # None
    BY CardsFacts DEF Keeps, SetRunState
  <2> QED BY <1>0, <2>1, LocalFacts, CardsFacts DEF Keeps, SameRun
<1> DEFINE f(o) == IF o.id = id THEN [o EXCEPT !.state = v] ELSE o
<1>4. occ' = {f(o) : o \in occ}
  BY <1>1
<1>5. ASSUME NEW o \in occ
      PROVE  /\ f(o).id = o.id /\ f(o).tpl = o.tpl /\ f(o).seq = o.seq /\ f(o).task = o.task
             /\ f(o).state = "SKIPPED" <=> o.state = "SKIPPED"
  BY <1>3 DEF OccRow
<1> HIDE DEF f
<1>6. InPlace
  BY <1>2, <1>4, <1>5 DEF InPlace
<1>7. IdsOK'
  BY <1>2, <1>4, <1>5, CardsFacts DEF IdsOK
<1>8. PassedKept /\ SameRuns /\ EndsAfterOccurrences'
  BY <1>6, InPlaceKeeps
<1>9. \A o \in occ' : o.task \in Nat => Claimed(o.task, o.tpl, o.seq)
  BY <1>4, <1>5 DEF Claimed
<1>10. fresh \in Nat /\ fresh' >= fresh
  BY <1>2, LocalFacts DEF IInv, TypeOK
<1>12. PICK l, label : l = Fresh /\ label = "idle"
  OBVIOUS
<1>11. Keeps(l, label)' /\ Adds(l, label, 0)
  BY <1>12 DEF Keeps, Fresh, Adds, WillClaim
<1>13. /\ pc' = [pc EXCEPT ![p] = label] /\ loc' = [loc EXCEPT ![p] = l]
       /\ UNCHANGED <<tpl, task, start>>
  BY <1>2, <1>12
<1> QED BY <1>13, <1>7, <1>8, <1>9, <1>10, <1>11, RunWriteStep

\* Pausing and the passing of a day keep the invariant.
LEMMA BystandersKeep ==
    ASSUME IInv, IInv', CardsOK, PauseOrResume \/ NextDay \/ UNCHANGED vars
    PROVE  CardsOK'
<1>1. CASE PauseOrResume
  <2>1. PICK p \in Procs : TRUE
    BY <1>1 DEF PauseOrResume
  <2>2. /\ UNCHANGED <<occ, task, fresh, start, dropped>>
        /\ pc' = [pc EXCEPT ![p] = pc[p]] /\ loc' = [loc EXCEPT ![p] = loc[p]]
    BY <1>1, LocalFacts DEF PauseOrResume
  <2>3. \A r \in tpl' : Counted(r)
    BY <1>1, PausedCounted DEF PauseOrResume
  <2> QED BY <2>2, <2>3, CardsFacts, ReadStep
<1>2. CASE NextDay \/ UNCHANGED vars
  <2>1. UNCHANGED <<tpl, occ, task, fresh, start, pc, loc, dropped>>
    BY <1>2 DEF NextDay, vars, db
  <2>2. CASE Procs = {}
    <3>1. \A c, s, n : Claimed(c, s, n)' => Claimed(c, s, n)
      BY <2>1, <2>2 DEF Claimed
    <3>2. ClaimsOK'
      BY <2>1, <3>1 DEF CardsOK, ClaimsOK
    <3>3. IdsOK' /\ EndsAfterOccurrences' /\ \A r \in tpl' : Counted(r)'
      BY <2>1 DEF CardsOK, IdsOK, Counted, PassedBefore, Passed, EndsAfterOccurrences
    <3> QED BY <2>2, <3>2, <3>3 DEF CardsOK
  <2>3. ASSUME NEW p \in Procs PROVE CardsOK'
    <3>1. pc' = [pc EXCEPT ![p] = pc[p]] /\ loc' = [loc EXCEPT ![p] = loc[p]]
      BY <2>1, LocalFacts
    <3> QED BY <2>1, <3>1, CardsFacts, ReadStep
  <2> QED BY <2>2, <2>3
<1> QED BY <1>1, <1>2

\* A crash forgets every claim that was not written down.
LEMMA CrashCards ==
    ASSUME IInv, CardsOK, Crash
    PROVE  CardsOK'
<1>1. /\ UNCHANGED <<tpl, occ, task, fresh, start, dropped>>
      /\ pc' = [p \in Procs |-> "idle"] /\ loc' = [p \in Procs |-> Fresh]
  BY DEF Crash, db
<1>2. IdsOK' /\ EndsAfterOccurrences' /\ \A r \in tpl' : Counted(r)'
  BY <1>1 DEF CardsOK, IdsOK, EndsAfterOccurrences, Counted, PassedBefore, Passed
<1>3. \A c, s, n : Claimed(c, s, n)' => Claimed(c, s, n)
  BY <1>1 DEF Claimed, WillClaim
<1>4. ClaimsOK'
  BY <1>1, <1>3 DEF CardsOK, ClaimsOK
<1>5. \A p \in Procs : Keeps(loc[p], pc[p])'
  BY <1>1 DEF Keeps, Fresh
<1> QED BY <1>2, <1>4, <1>5 DEF CardsOK

-----------------------------------------------------------------------------
(* The theorems *)

THEOREM InitCards == Init => CardsOK
BY DEF Init, CardsOK, IdsOK, ClaimsOK, Claimed, WillClaim, EndsAfterOccurrences, Keeps, Fresh

\* Every step of every process, every request and every failure keeps CardsOK.
THEOREM StepCards == IInv /\ CardsOK /\ [Next]_vars => CardsOK'
<1> SUFFICES ASSUME IInv, CardsOK, [Next]_vars PROVE CardsOK'
  OBVIOUS
<1>0. IInv'
  BY StepIInv
<1>1. ASSUME NEW p \in Procs, Start(p) PROVE CardsOK'
  BY <1>0, <1>1, ReadersKeep, LookupKeepsCards, StartAttachCards DEF Start
<1>2. ASSUME NEW p \in Procs, Continue(p) PROVE CardsOK'
  <2>1. CASE Generate(p)
    BY <1>0, <2>1, ReadersKeep, FindKeeps, AdvanceKeeps, GenCardKeeps, RecordKeeps DEF Generate
  <2>2. CASE Sync(p)
    BY <1>0, <2>2, ReadersKeep, MatCardKeeps, RelinkKeeps DEF Sync
  <2>3. CASE Delete(p)
    BY <1>0, <2>3, ReadersKeep, LookupKeepsCards, DeletionKeeps, CardEndKeeps DEF Delete
  <2>4. CASE DeleteSeries(p)
    BY <1>0, <2>4, ReadersKeep, DeletionKeeps DEF DeleteSeries
  <2>5. CASE Skip(p)
    BY <1>0, <2>5, ReadersKeep, SkipKeeps DEF Skip
  <2>6. CASE Convert(p)
    BY <1>0, <2>6, ReadersKeep, AttachTemplateCards, AttachRunCards, CardEndKeeps,
       DuplicateCards DEF Convert
  <2>7. CASE SetRunState(p)
    BY <1>0, <2>7, SetRunStateCards
  <2> QED BY <1>2, <2>1, <2>2, <2>3, <2>4, <2>5, <2>6, <2>7 DEF Continue
<1>3. ASSUME NEW p \in Procs, Fail(p) PROVE CardsOK'
  BY <1>0, <1>3, ReadersKeep
<1>4. CASE Crash
  BY <1>4, CrashCards
<1>5. CASE PauseOrResume \/ NextDay \/ AtBound \/ UNCHANGED vars
  BY <1>0, <1>5, BystandersKeep DEF AtBound
<1> QED BY <1>1, <1>2, <1>3, <1>4, <1>5 DEF Next

\* The claims on cards and the counts of the cursors stay in order.
THEOREM CardsInvariance == Spec => []CardsOK
<1> QED BY InitCards, StepCards, Invariance, PTL DEF Spec

\* A card that a run of a series points to carries that run's sequence, for any
\* number of series, whatever is repaired, detached, copied or fails.
THEOREM CardsAgreeWithRuns == Spec => []RunAgreesWithCard
<1>1. IInv /\ CardsOK => RunAgreesWithCard
  <2> SUFFICES ASSUME IInv, CardsOK, NEW o \in occ, NEW t \in task, o.task = t.id, t.tpl = o.tpl
               PROVE  t.seq = o.seq
    BY DEF RunAgreesWithCard
  <2>1. t.id \in Nat /\ t.seq \in Nat /\ o.tpl \in Series /\ o.seq \in Nat
    BY DEF IInv, TypeOK, TaskRow, OccRow
  <2>2. Claimed(t.id, o.tpl, o.seq) /\ Claimed(t.id, o.tpl, t.seq)
    BY DEF Claimed
  <2> QED BY <2>1, <2>2 DEF CardsOK, ClaimsOK
<1> QED BY <1>1, CardsInvariance, Invariance, PTL

\* No generator, however stale its copy of the count, records a run past the
\* end of its series unless an earlier date was skipped or deleted.
THEOREM SeriesEnd == Spec => []EndsAfterOccurrences
<1>1. CardsOK => EndsAfterOccurrences
  BY DEF CardsOK
<1> QED BY <1>1, CardsInvariance, PTL

\* The runs of a series with an end are at most the number its settings ask
\* for, as long as no date of it was skipped and no row of it deleted.
AtMostEndAfter ==
    \A s \in Series :
        EndAfter > 0 /\ (\A n \in Nat : ~Passed(s, n))
        => Cardinality({o \in occ : o.tpl = s}) <= EndAfter

\* AFTER_OCCURRENCES counts runs: their numbers are distinct (no two processes
\* record the same one) and none is past the end.
THEOREM SeriesSize == Spec => []AtMostEndAfter
<1>1. IInv /\ EndsAfterOccurrences => AtMostEndAfter
  <2> SUFFICES ASSUME IInv, EndsAfterOccurrences, NEW s \in Series, EndAfter > 0,
                      \A n \in Nat : ~Passed(s, n)
               PROVE  Cardinality({o \in occ : o.tpl = s}) <= EndAfter
    BY DEF AtMostEndAfter
  <2> DEFINE runs == {o \in occ : o.tpl = s}
  <2>1. EndAfter \in Nat
    BY PlannerAssumption DEF BoundAssumption, SeriesAssumption, ScheduleAssumption
  <2>2. ASSUME NEW o \in runs PROVE o.seq \in 1..EndAfter
    <3>1. o \in occ /\ o.tpl = s /\ o.seq \in Nat /\ 1 <= o.seq
      BY DEF IInv, TypeOK, TablesOK, OccRow
    <3>2. o.state # "SKIPPED"
      BY <3>1 DEF Passed
    <3>3. ~PassedBefore(s, o.seq - 1)
      BY DEF PassedBefore
    <3>4. o.seq <= EndAfter
      BY <2>1, <3>1, <3>2, <3>3 DEF EndsAfterOccurrences
    <3> QED BY <2>1, <3>1, <3>4
  <2> DEFINE seq == [o \in runs |-> o.seq]
  <2>3. seq \in Injection(runs, 1..EndAfter)
    <3>1. seq \in [runs -> 1..EndAfter]
      BY <2>2
    <3>2. \A o, q \in runs : o.seq = q.seq => o = q
      BY DEF IInv, TablesOK, UniqueKey
    <3>3. IsInjective(seq)
      BY <3>2 DEF IsInjective
    <3> QED BY <3>1, <3>3 DEF Injection
  <2>4. IsFiniteSet(1..EndAfter) /\ Cardinality(1..EndAfter) = EndAfter
    BY <2>1, FS_Interval
  <2> QED BY <2>3, <2>4, FS_Injection
<1> QED BY <1>1, SeriesEnd, Invariance, PTL
=============================================================================
