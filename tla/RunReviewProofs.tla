--------------------------- MODULE RunReviewProofs ---------------------------
(* Proofs about RunReview: for any checklists, runs and requests in          *)
(* progress, reviews are of submitted runs, cards reach Done with what was   *)
(* seen ticked, ticks survive the mirror, and ghosts do not survive requests *)
(* that come one at a time.                                                  *)
EXTENDS RunReview, WellFoundedInduction, TLAPS

-----------------------------------------------------------------------------
(* Data *)

\* A list of runs that is not empty has a last one.
LEMMA LastIn ==
    ASSUME NEW T \in SUBSET Runs, T # {}
    PROVE  Last(T) \in T
<1> DEFINE R == OpToRel(<, Nat)
           U == {MaxRuns - n : n \in T}
<1>1. MaxRuns \in Nat /\ \A n \in T : n \in Nat /\ n <= MaxRuns
  BY RunReviewAssumption DEF Runs
<1>2. U \subseteq Nat /\ U # {}
  BY <1>1
<1>3. \A i, j \in Nat : i < j => <<i, j>> \in R
  BY Zenon DEF OpToRel
<1>4. IsWellFoundedOn(R, Nat)
  BY NatLessThanWellFounded, Zenon
<1> HIDE DEF R
<1>5. PICK x \in U : \A y \in U : <<y, x>> \notin R
  <2> HIDE DEF U
  <2> QED BY <1>2, <1>4, WFMin, Zenon
<1>6. PICK n \in T : x = MaxRuns - n
  BY <1>5
<1>7. \A m \in T : m <= n
  <2> SUFFICES ASSUME NEW m \in T, ~(m <= n) PROVE FALSE
    OBVIOUS
  <2>1. MaxRuns - m < x /\ MaxRuns - m \in U /\ x \in Nat /\ MaxRuns - m \in Nat
    BY <1>1, <1>6
  <2> QED BY <1>3, <1>5, <2>1
<1> QED BY <1>7 DEF Last

\* A list stays a list when it is edited, unticked, shortened or cloned.
LEMMA Lists ==
    ASSUME NEW list \in SUBSET Item
    PROVE  /\ \A e \in Edits : Edited(list, e) \in SUBSET Item
           /\ Unticked(list) \in SUBSET Item
           /\ \A i : {x \in list : x.id # i} \in SUBSET Item
           /\ Named(Unticked(list)) = Named(list)
<1>1. ASSUME NEW e \in Edits PROVE Edited(list, e) \in SUBSET Item
  <2>1. /\ e.names \in [Titles -> Titles \cup {None}] /\ e.adds \subseteq Item
    BY DEF Edits
  <2>2. ASSUME NEW x \in list, e.names[x.title] # None
        PROVE  [id |-> x.id, title |-> e.names[x.title],
                done |-> IF x.title \in e.taps THEN ~x.done ELSE x.done] \in Item
    <3>1. x.id \in Nat /\ x.title \in Titles /\ x.done \in BOOLEAN
      BY DEF Item
    <3>2. e.names[x.title] \in Titles
      BY <2>1, <2>2, <3>1
    <3>3. (IF x.title \in e.taps THEN ~x.done ELSE x.done) \in BOOLEAN
      BY <3>1, Zenon
    <3> QED BY <3>1, <3>2, <3>3 DEF Item
  <2> QED BY <2>1, <2>2 DEF Edited
<1>2. \A x \in list : [x EXCEPT !.done = FALSE] \in Item /\ [x EXCEPT !.done = FALSE].title = x.title
  BY DEF Item
<1>3. Unticked(list) \in SUBSET Item
  BY <1>2 DEF Unticked
<1>4. Named(Unticked(list)) = Named(list)
  BY <1>2 DEF Named, Unticked
<1> QED BY <1>1, <1>3, <1>4

LEMMA NullIsNothing ==
    /\ None \notin BOOLEAN /\ None \notin Runs /\ None \notin Columns /\ None \notin Item
BY RunReviewAssumption DEF Runs

LEMMA FreshOK ==
    /\ Fresh \in LocalRow /\ Fresh.run = None /\ Fresh.card.list = {} /\ Fresh.list = None
    /\ Fresh.column = None /\ "idle" \in Labels /\ Good(Fresh, "idle")
BY RunReviewAssumption DEF Fresh, LocalRow, Labels, Good, Card

LEMMA Facts ==
    ASSUME IInv, NEW p \in Procs
    PROVE  /\ loc[p] \in LocalRow /\ pc[p] \in Labels /\ Good(loc[p], pc[p])
           /\ loc = [loc EXCEPT ![p] = loc[p]]
           /\ approval \in BOOLEAN /\ steps \in SUBSET Item /\ cards \in [Runs -> Card]
           /\ states \in [Runs -> {"PENDING", "SUBMITTED", "COMPLETED"}]
           /\ made \in Nat /\ requests \in Nat /\ faults \in Nat /\ alone \in BOOLEAN
           /\ overtaken \subseteq Procs /\ returned \subseteq Runs
BY DEF IInv, TypeOK

-----------------------------------------------------------------------------
(* What requests remember *)

\* p goes on to an await, or ends, remembering what it should.
Moves(p, l, label) ==
    /\ pc' = [pc EXCEPT ![p] = label] /\ loc' = [loc EXCEPT ![p] = l]
    /\ l \in LocalRow /\ label \in Labels /\ Good(l, label)

LEMMA FinishMoves ==
    ASSUME NEW p \in Procs, Finish(p)
    PROVE  Moves(p, Fresh, "idle")
BY FreshOK DEF Moves, Finish, Goto, Remember

LEMMA StartMoves ==
    ASSUME IInv, NEW p \in Procs, Start(p)
    PROVE  \E l, label : /\ Moves(p, l, label) /\ Begin(p, label, l)
                         /\ label \notin {"template", "write", "reload", "pending", "readRun",
                                          "mirror", "clone"}
                         /\ label = "review" => states[l.run] = "SUBMITTED"
                         /\ label = "deleteItem" => l.card.list = cards[l.run].list
<1>0. Fresh \in LocalRow /\ Fresh.run = None /\ cards \in [Runs -> Card] /\ steps \in SUBSET Item
  BY Facts, FreshOK
<1>1. CASE StartPatch(p)
  <2>1. PICK s \in Patches :
           /\ MayMove(cards[s.run], Sent(cards[s.run].list, s.edit), s.column)
           /\ Begin(p, "patch", [Fresh EXCEPT !.run = s.run, !.card = cards[s.run], !.column = s.column,
                                              !.list = Sent(cards[s.run].list, s.edit)])
    BY <1>1 DEF StartPatch
  <2>2. PICK l : l = [Fresh EXCEPT !.run = s.run, !.card = cards[s.run], !.column = s.column,
                                   !.list = Sent(cards[s.run].list, s.edit)]
    OBVIOUS
  <2>3. s.run \in Runs /\ s.edit \in Edits \cup {None} /\ s.column \in Columns \cup {None}
    BY RunReviewAssumption
  <2>4. cards[s.run] \in Card /\ cards[s.run].list \in SUBSET Item
    BY <1>0, <2>3 DEF Card
  <2>5. Sent(cards[s.run].list, s.edit) \in (SUBSET Item) \cup {None}
    BY <2>3, <2>4, Lists DEF Sent
  <2>6. /\ l \in LocalRow /\ l.run = s.run /\ l.card = cards[s.run] /\ l.column = s.column
        /\ l.list = Sent(cards[s.run].list, s.edit)
    BY <1>0, <2>2, <2>3, <2>4, <2>5 DEF LocalRow
  <2>7. MayMove(l.card, l.list, l.column)
    BY <2>1, <2>6
  <2>8. Good(l, "patch") /\ "patch" \in Labels
    BY <2>3, <2>6, <2>7 DEF Good, Labels
  <2>9. Moves(p, l, "patch") /\ Begin(p, "patch", l)
    BY <2>1, <2>2, <2>6, <2>8 DEF Moves, Begin, Goto, Remember
  <2> QED BY <2>9
<1>2. CASE StartUpdate(p)
  <2>1. PICK s \in Updates :
           Begin(p, "update", [Fresh EXCEPT !.approval = s.approval, !.before = steps,
                                            !.list = Sent(steps, s.edit)])
    BY <1>2 DEF StartUpdate
  <2>2. PICK x : x = Sent(steps, s.edit)
    OBVIOUS
  <2>3. PICK l : l = [Fresh EXCEPT !.approval = s.approval, !.before = steps, !.list = x]
    OBVIOUS
  <2>4. s.edit \in Edits \cup {None} /\ s.approval \in BOOLEAN \cup {None}
    BY RunReviewAssumption
  <2>5. x \in (SUBSET Item) \cup {None}
    BY <1>0, <2>2, <2>4, Lists DEF Sent
  <2>6. l \in LocalRow /\ l.column = None
    BY <1>0, <2>3, <2>4, <2>5, FreshOK DEF LocalRow
  <2>7. Good(l, "update") /\ "update" \in Labels
    BY <2>6 DEF Good, Labels
  <2>8. Begin(p, "update", l)
    BY <2>1, <2>2, <2>3
  <2>9. Moves(p, l, "update")
    BY <2>6, <2>7, <2>8 DEF Moves, Begin, Goto, Remember
  <2> QED BY <2>8, <2>9
<1>3. CASE StartEnsure(p)
  <2>1. PICK n, l : n \in Runs /\ l = [Fresh EXCEPT !.run = n] /\ Begin(p, "ensure", l)
    BY <1>3 DEF StartEnsure
  <2>2. l \in LocalRow /\ l.run = n /\ l.card = Fresh.card
    BY <1>0, <2>1 DEF LocalRow
  <2>3. Good(l, "ensure") /\ "ensure" \in Labels
    BY <2>1, <2>2, FreshOK DEF Good, Labels
  <2>4. Moves(p, l, "ensure")
    BY <2>1, <2>2, <2>3 DEF Moves, Begin, Goto, Remember
  <2> QED BY <2>1, <2>4
<1>4. CASE StartDeleteItem(p)
  <2>0. PICK n \in Runs : \E x \in cards[n].list :
           Begin(p, "deleteItem", [Fresh EXCEPT !.run = n, !.card = cards[n], !.item = x.id])
    BY <1>4 DEF StartDeleteItem
  <2>1. PICK x \in cards[n].list :
           Begin(p, "deleteItem", [Fresh EXCEPT !.run = n, !.card = cards[n], !.item = x.id])
    BY <2>0
  <2>2. PICK l : l = [Fresh EXCEPT !.run = n, !.card = cards[n], !.item = x.id]
    OBVIOUS
  <2>3. cards[n] \in Card /\ x.id \in Nat
    BY <2>1, <1>0 DEF Card, Item
  <2>4. l \in LocalRow /\ l.run = n /\ l.card = cards[n]
    BY <1>0, <2>2, <2>3 DEF LocalRow
  <2>5. Good(l, "deleteItem") /\ "deleteItem" \in Labels
    BY <2>4 DEF Good, Labels
  <2>6. Begin(p, "deleteItem", l)
    BY <2>1, <2>2
  <2>7. Moves(p, l, "deleteItem")
    BY <2>4, <2>5, <2>6 DEF Moves, Begin, Goto, Remember
  <2> QED BY <2>4, <2>6, <2>7
<1>5. CASE StartComplete(p)
  <2>1. PICK n \in Runs, c \in Closing, previous \in BOOLEAN :
           Begin(p, "rule", [Fresh EXCEPT !.run = n, !.card = cards[n], !.previous = previous,
                               !.column = IF c = None THEN cards[n].column ELSE c])
    BY <1>5 DEF StartComplete
  <2>2. PICK d : d = IF c = None THEN cards[n].column ELSE c
    OBVIOUS
  <2>3. cards[n] \in Card /\ cards[n].column \in Columns /\ c \in Columns \cup {None}
    BY <1>0, RunReviewAssumption DEF Card
  <2>4. d \in Columns
    BY <2>2, <2>3
  <2>5. PICK l : l = [Fresh EXCEPT !.run = n, !.card = cards[n], !.previous = previous, !.column = d]
    OBVIOUS
  <2>6. l \in LocalRow /\ l.run = n /\ l.column = d
    BY <1>0, <2>3, <2>4, <2>5 DEF LocalRow
  <2>7. d # None
    BY <2>4, NullIsNothing
  <2>8. Good(l, "rule") /\ "rule" \in Labels
    BY <2>6, <2>7 DEF Good, Labels
  <2>9. Begin(p, "rule", l)
    BY <2>1, <2>2, <2>5
  <2>10. Moves(p, l, "rule")
    BY <2>6, <2>8, <2>9 DEF Moves, Begin, Goto, Remember
  <2> QED BY <2>9, <2>10
<1>6. CASE StartReview(p)
  <2>1. PICK n, approved, l :
           /\ n \in Runs /\ approved \in BOOLEAN
           /\ l = [Fresh EXCEPT !.run = n, !.approval = approved]
           /\ states[n] = "SUBMITTED" /\ Begin(p, "review", l)
    BY <1>6 DEF StartReview
  <2>2. l \in LocalRow /\ l.run = n /\ l.approval = approved
    BY <1>0, <2>1 DEF LocalRow
  <2>3. l.approval # None
    BY <2>1, <2>2, NullIsNothing
  <2>4. Good(l, "review") /\ "review" \in Labels
    BY <2>1, <2>2, <2>3 DEF Good, Labels
  <2>5. Moves(p, l, "review")
    BY <2>1, <2>2, <2>4 DEF Moves, Begin, Goto, Remember
  <2>6. Begin(p, "review", l) /\ states[l.run] = "SUBMITTED"
    BY <2>1, <2>2
  <2> QED BY <2>5, <2>6
<1> QED BY <1>1, <1>2, <1>3, <1>4, <1>5, <1>6 DEF Start

\* From an await to the next: p remembers l as it was, but for what it reads.
LEMMA MirrorMoves ==
    ASSUME IInv, NEW p \in Procs, NEW todo \in SUBSET Runs, AfterMirror(p, todo)
    PROVE  \E l, label :
              /\ Moves(p, l, label)
              /\ IF todo # {} THEN label = "readRun" /\ l = [loc[p] EXCEPT !.todo = todo]
                 ELSE label \in {"sync", "idle"}
<1>0. loc[p] \in LocalRow
  BY Facts
<1>1. CASE todo # {}
  <2>1. PICK l : l = [loc[p] EXCEPT !.todo = todo]
    OBVIOUS
  <2>2. l \in LocalRow /\ l.todo = todo /\ l.run = loc[p].run /\ l.column = loc[p].column
    BY <1>0, <2>1 DEF LocalRow
  <2>3. Good(l, "readRun") /\ "readRun" \in Labels
    BY <1>1, <2>2, Facts DEF Good, Labels
  <2>4. Moves(p, l, "readRun")
    BY <1>1, <2>1, <2>2, <2>3 DEF AfterMirror, Moves, Goto, Remember
  <2> QED BY <1>1, <2>1, <2>4
<1>2. CASE todo = {} /\ loc[p].column # None
  <2>1. PICK l : l = [Fresh EXCEPT !.run = loc[p].run, !.column = loc[p].column]
    OBVIOUS
  <2>2. loc[p].run \in Runs /\ loc[p].column \in Columns
    BY <1>0, <1>2, Facts DEF Good, LocalRow
  <2>3. l \in LocalRow /\ l.run \in Runs /\ l.column # None
    BY <1>2, <2>1, <2>2, FreshOK DEF LocalRow
  <2>4. Good(l, "sync") /\ "sync" \in Labels
    BY <2>3 DEF Good, Labels
  <2>5. Moves(p, l, "sync")
    BY <1>2, <2>1, <2>3, <2>4 DEF AfterMirror, Moves, Goto, Remember
  <2> QED BY <1>2, <2>5
<1>3. CASE todo = {} /\ ~(loc[p].column # None)
  <2>1. Finish(p)
    BY <1>3 DEF AfterMirror
  <2> QED BY <1>3, <2>1, FinishMoves
<1> QED BY <1>1, <1>2, <1>3

\* Every other step of a request goes on to one of the awaits that follow.
LEMMA ContinueMoves ==
    ASSUME IInv, NEW p \in Procs, Continue(p) \/ Fail(p)
    PROVE  \E l, label : Moves(p, l, label)
<1>0. loc[p] \in LocalRow /\ Good(loc[p], pc[p]) /\ loc = [loc EXCEPT ![p] = loc[p]]
  BY Facts
<1> SUFFICES ASSUME ~Finish(p) PROVE \E l, label : Moves(p, l, label)
  BY FinishMoves
<1>1. CASE \E todo \in SUBSET Runs : AfterMirror(p, todo)
  BY <1>1, MirrorMoves
<1>2. ASSUME NEW label, loc' = loc, Goto(p, label), label \in Labels, Good(loc[p], label)
      PROVE  Moves(p, loc[p], label)
  BY <1>0, <1>2 DEF Moves, Goto
<1>3. CASE SavePatch(p)
  <2>1. PICK c : c = IF Moved(loc[p].card, loc[p].column) THEN loc[p].column ELSE None
    OBVIOUS
  <2>2. PICK label : label = IF loc[p].list = None THEN "sync" ELSE "template"
    OBVIOUS
  <2>3. PICK l : l = [Fresh EXCEPT !.run = loc[p].run, !.list = loc[p].list, !.column = c]
    OBVIOUS
  <2>4. ~(loc[p].list = None /\ ~Moved(loc[p].card, loc[p].column))
    BY <1>3 DEF SavePatch
  <2>5. pc[p] = "patch" /\ Goto(p, label) /\ Remember(p, l)
    BY <1>3, <2>1, <2>2, <2>3, <2>4 DEF SavePatch
  <2>6. label = "sync" => c # None
    BY <2>1, <2>2, <2>4 DEF Moved
  <2>7. loc[p].run \in Runs /\ c \in Columns \cup {None}
    BY <1>0, <2>1, <2>5 DEF Good, LocalRow
  <2>8. l \in LocalRow /\ l.run \in Runs /\ l.list = loc[p].list /\ l.column = c
    BY <1>0, <2>3, <2>7, FreshOK DEF LocalRow
  <2>9. Good(l, label) /\ label \in Labels
    BY <2>2, <2>6, <2>8 DEF Good, Labels
  <2> QED BY <2>5, <2>8, <2>9 DEF Moves, Goto, Remember
<1>4. CASE SaveTemplate(p) \/ SaveUpdate(p) \/ MoveCard(p) \/ SubmitRun(p)
  <2>1. PICK label \in {"reload", "submit", "previous"} :
           /\ Goto(p, label) /\ loc' = loc
           /\ label = "submit" => pc[p] = "move"
           /\ label = "previous" => pc[p] = "submit"
    BY <1>4 DEF SaveTemplate, SaveUpdate, MoveCard, SubmitRun
  <2>2. label \in Labels /\ Good(loc[p], label)
    BY <1>0, <2>1 DEF Good, Labels
  <2> QED BY <1>2, <2>1, <2>2
<1>5. CASE Reload(p)
  <2>1. PICK l : l = [loc[p] EXCEPT !.after = steps] /\ Remember(p, l) /\ Goto(p, "pending")
    BY <1>5 DEF Reload
  <2>2. l \in LocalRow /\ l.run = loc[p].run /\ l.column = loc[p].column
    BY <1>0, <2>1, Facts DEF LocalRow
  <2>3. Good(l, "pending") /\ "pending" \in Labels
    BY <1>0, <2>2 DEF Good, Labels
  <2> QED BY <2>1, <2>2, <2>3 DEF Moves, Goto, Remember
<1>11. CASE ReadTemplate(p)
  <2>1. PICK l : l = [loc[p] EXCEPT !.before = steps]
    OBVIOUS
  <2>2. pc[p] = "template" /\ Remember(p, l) /\ Goto(p, "write")
    BY <1>11, <2>1 DEF ReadTemplate
  <2>3. /\ l \in LocalRow /\ l.run = loc[p].run /\ l.column = loc[p].column
        /\ l.list = loc[p].list
    BY <1>0, <2>1, Facts DEF LocalRow
  <2>4. Good(l, "write") /\ "write" \in Labels
    BY <1>0, <2>2, <2>3 DEF Good, Labels
  <2> QED BY <2>2, <2>3, <2>4 DEF Moves, Goto, Remember
<1>6. CASE ListPending(p)
  <2>1. {n \in Runs : states[n] = "PENDING"} \in SUBSET Runs
    OBVIOUS
  <2> QED BY <1>1, <1>6, <2>1 DEF ListPending
<1>7. CASE ReadRun(p) \/ Mirror(p)
  <2>1. pc[p] \in {"readRun", "mirror"} /\ loc[p].todo \in SUBSET Runs /\ loc[p].todo # {}
    BY <1>0, <1>7 DEF ReadRun, Mirror, Good, LocalRow
  <2>2. PICK n \in Runs : n = Last(loc[p].todo)
    BY <2>1, LastIn
  <2>3. CASE Mirror(p)
    <3>1. loc[p].todo \ {n} \in SUBSET Runs
      BY <2>1
    <3>2. AfterMirror(p, loc[p].todo \ {n})
      BY <2>2, <2>3 DEF Mirror
    <3> QED BY <1>1, <3>1, <3>2
  <2>4. CASE ReadRun(p)
    <3>1. PICK x \in SUBSET Item : x = cards[n].list
      BY <2>2, Facts DEF Card
    <3>2. PICK c : c = [loc[p].card EXCEPT !.list = x]
      OBVIOUS
    <3>3. c \in Card
      BY <1>0, <3>1, <3>2 DEF LocalRow, Card
    <3>4. PICK l : l = [loc[p] EXCEPT !.card = c]
      OBVIOUS
    <3>5. /\ l \in LocalRow /\ l.todo = loc[p].todo
          /\ l.run = loc[p].run /\ l.column = loc[p].column
      BY <1>0, <3>3, <3>4 DEF LocalRow
    <3>6. l = [loc[p] EXCEPT !.card.list = x]
      BY <3>2, <3>4
    <3>7. Remember(p, l) /\ Goto(p, "mirror")
      BY <2>2, <2>4, <3>1, <3>6 DEF ReadRun
    <3>8. Good(l, "mirror") /\ "mirror" \in Labels
      BY <1>0, <2>1, <3>5 DEF Good, Labels
    <3> QED BY <3>5, <3>7, <3>8 DEF Moves, Goto, Remember
  <2> QED BY <1>7, <2>3, <2>4
<1>8. CASE ReadSteps(p)
  <2>1. PICK l : l = [loc[p] EXCEPT !.after = steps]
    OBVIOUS
  <2>2. Remember(p, l) /\ Goto(p, "clone") /\ pc[p] = "ensure"
    BY <1>8, <2>1 DEF ReadSteps
  <2>3. /\ l \in LocalRow /\ l.run = loc[p].run /\ l.card = loc[p].card
        /\ l.column = loc[p].column
    BY <1>0, <2>1, Facts DEF LocalRow
  <2>4. Good(l, "clone") /\ "clone" \in Labels
    BY <1>0, <2>2, <2>3 DEF Good, Labels
  <2> QED BY <2>2, <2>3, <2>4 DEF Moves, Goto, Remember
<1>9. CASE CheckRule(p)
  <2>1. PICK l : l = [loc[p] EXCEPT !.approval = approval]
    OBVIOUS
  <2>2. Remember(p, l) /\ Goto(p, "move") /\ pc[p] = "rule" /\ Open(loc[p].card.list) = {}
    BY <1>9, <2>1 DEF CheckRule
  <2>3. /\ l \in LocalRow /\ l.run = loc[p].run /\ l.card = loc[p].card
        /\ l.column = loc[p].column /\ l.approval = approval
    BY <1>0, <2>1, Facts DEF LocalRow
  <2>4. l.approval # None
    BY <2>3, Facts, NullIsNothing
  <2>5. Good(l, "move") /\ "move" \in Labels
    BY <1>0, <2>2, <2>3, <2>4 DEF Good, Labels
  <2> QED BY <2>2, <2>3, <2>5 DEF Moves, Goto, Remember
<1>10. CASE SyncRun(p) \/ SaveClone(p) \/ SaveDeleteItem(p) \/ CompletePrevious(p)
            \/ SaveReview(p) \/ Fail(p)
  BY <1>10 DEF SyncRun, SaveClone, SaveDeleteItem, CompletePrevious, SaveReview, Fail
<1> QED BY <1>3, <1>4, <1>5, <1>6, <1>7, <1>8, <1>9, <1>10, <1>11 DEF Continue

-----------------------------------------------------------------------------
(* Every row keeps its columns *)

LEMMA StatesTyped ==
    ASSUME IInv, NEW runs \in SUBSET Runs, NEW state \in {"PENDING", "SUBMITTED", "COMPLETED"},
           SetStates(runs, state)
    PROVE  /\ states' \in [Runs -> {"PENDING", "SUBMITTED", "COMPLETED"}]
           /\ alone' = alone /\ overtaken' \subseteq Procs /\ returned' \subseteq Runs
BY Facts, Zenon DEF SetStates, IInv, TypeOK

\* The rows of the tables, whatever the requests remember.
Rows ==
    /\ approval \in BOOLEAN /\ steps \in SUBSET Item
    /\ cards \in [Runs -> Card]
    /\ states \in [Runs -> {"PENDING", "SUBMITTED", "COMPLETED"}]
    /\ made \in Nat /\ requests \in Nat /\ faults \in Nat
    /\ alone \in BOOLEAN /\ overtaken \subseteq Procs /\ returned \subseteq Runs

\* A request that writes neither a card nor a template nor a run.
LEMMA ReadRows ==
    ASSUME IInv, NEW p \in Procs,
           \/ Start(p) \/ ReadTemplate(p) \/ Reload(p) \/ ListPending(p) \/ ReadRun(p)
           \/ ReadSteps(p) \/ CheckRule(p) \/ Fail(p)
    PROVE  Rows'
<1>1. /\ Rows /\ alone \in BOOLEAN /\ requests + 1 \in Nat /\ faults + 1 \in Nat
      /\ (alone /\ Idle) \in BOOLEAN /\ overtaken \ {p} \subseteq Procs
  BY Facts DEF Rows
<1>2. CASE Start(p)
  <2>1. PICK l, label : Begin(p, label, l)
    BY <1>2, StartMoves
  <2> QED BY <1>1, <2>1 DEF Begin, Rows, template
<1>3. CASE Fail(p)
  BY <1>1, <1>3 DEF Fail, Rows, template
<1>4. CASE \/ ReadTemplate(p) \/ Reload(p) \/ ListPending(p) \/ ReadRun(p) \/ ReadSteps(p)
           \/ CheckRule(p)
  BY <1>1, <1>4 DEF ReadTemplate, Reload, ListPending, ReadRun, ReadSteps, CheckRule, Rows, template,
     history
<1> QED BY <1>2, <1>3, <1>4

\* An item that a card gets from a step.
LEMMA CloneIsItem ==
    ASSUME made \in Nat, NEW S \in SUBSET Item, NEW o \in Orders(S), NEW s \in S
    PROVE  Clone(s, o) \in Item /\ Clone(s, o).title = s.title
<1>1. o[s] \in 1..MaxItems /\ MaxItems \in Nat /\ s.title \in Titles
  BY RunReviewAssumption DEF Orders, Item
<1>2. made + o[s] \in Nat
  BY <1>1
<1> QED BY <1>1, <1>2 DEF Clone, Item

\* What the mirror makes of the list of a run.
LEMMA MergedIsItem ==
    ASSUME made \in Nat, NEW S \in SUBSET Item, NEW list \in SUBSET Item, NEW o \in Orders(S),
           NEW match \in [S -> list \cup {None}], NEW s \in S
    PROVE  /\ Merged(s, o, match) \in Item /\ Merged(s, o, match).title = s.title
           /\ match[s] # None => /\ Merged(s, o, match).id = match[s].id
                                 /\ Merged(s, o, match).done = match[s].done
<1>1. CASE match[s] = None
  BY <1>1, CloneIsItem DEF Merged
<1>2. CASE match[s] # None
  <2>1. match[s] \in Item /\ s.title \in Titles
    BY <1>2 DEF Item
  <2>2. Merged(s, o, match) = [match[s] EXCEPT !.title = s.title]
    BY <1>2 DEF Merged
  <2> QED BY <1>2, <2>1, <2>2 DEF Item
<1> QED BY <1>1, <1>2

\* A card is written: its list, or the column it is in.
LEMMA CardRows ==
    ASSUME IInv, NEW p \in Procs,
           SavePatch(p) \/ Mirror(p) \/ SaveClone(p) \/ SaveDeleteItem(p) \/ MoveCard(p)
    PROVE  Rows'
<1>1. Rows /\ loc[p] \in LocalRow /\ Good(loc[p], pc[p]) /\ cards \in [Runs -> Card] /\ made \in Nat
  BY Facts DEF Rows
<1>2. UNCHANGED <<template, states, requests, faults, history>>
  BY DEF SavePatch, Mirror, SaveClone, SaveDeleteItem, MoveCard
<1>3. made' \in Nat
  <2>1. made + MaxItems \in Nat
    BY <1>1, RunReviewAssumption
  <2>2. made' = made \/ made' = made + MaxItems
    BY DEF SavePatch, Mirror, SaveClone, SaveDeleteItem, MoveCard
  <2> QED BY <1>1, <2>1, <2>2
<1> SUFFICES cards' \in [Runs -> Card]
  BY <1>1, <1>2, <1>3 DEF Rows, template, history
<1>4. CASE SavePatch(p)
  <2>1. PICK n, c :
           /\ n \in Runs
           /\ c = [list |-> IF loc[p].list = None THEN cards[n].list ELSE loc[p].list,
                   column |-> IF loc[p].column = None THEN cards[n].column ELSE loc[p].column]
           /\ cards' = [cards EXCEPT ![n] = c]
    BY <1>1, <1>4 DEF SavePatch, Good
  <2>2. /\ cards[n] \in Card /\ loc[p].list \in (SUBSET Item) \cup {None}
        /\ loc[p].column \in Columns \cup {None}
    BY <2>1, <1>1 DEF LocalRow
  <2>3. c \in Card
    BY <2>1, <2>2 DEF Card
  <2> QED BY <1>1, <2>1, <2>3
<1>5. ASSUME NEW n \in Runs, NEW x \in SUBSET Item, cards' = [cards EXCEPT ![n].list = x]
      PROVE  cards' \in [Runs -> Card]
  <2>1. PICK c : c = [cards[n] EXCEPT !.list = x]
    OBVIOUS
  <2>2. c \in Card
    BY <1>1, <2>1 DEF Card
  <2>3. cards' = [cards EXCEPT ![n] = c]
    BY <1>5, <2>1
  <2> QED BY <1>1, <2>2, <2>3
<1>6. CASE Mirror(p)
  <2>1. PICK n \in Runs : n = Last(loc[p].todo)
    BY <1>1, <1>6, LastIn DEF Mirror, Good, LocalRow
  <2>2. loc[p].card.list \in SUBSET Item /\ loc[p].after \in SUBSET Item
    BY <1>1 DEF LocalRow, Card
  <2>3. PICK o \in Orders(loc[p].after), match \in [loc[p].after -> loc[p].card.list \cup {None}] :
           cards' = [cards EXCEPT ![n].list = {Merged(s, o, match) : s \in loc[p].after}]
    BY <1>6, <2>1 DEF Mirror
  <2>4. {Merged(s, o, match) : s \in loc[p].after} \in SUBSET Item
    BY <1>1, <2>2, MergedIsItem
  <2> QED BY <1>5, <2>3, <2>4
<1>7. CASE SaveClone(p)
  <2>1. loc[p].run \in Runs /\ loc[p].after \in SUBSET Item
    BY <1>1, <1>7 DEF SaveClone, Good, LocalRow
  <2>2. PICK o \in Orders(loc[p].after) :
           cards' = [cards EXCEPT ![loc[p].run].list = {Clone(s, o) : s \in loc[p].after}]
    BY <1>7 DEF SaveClone
  <2>3. {Clone(s, o) : s \in loc[p].after} \in SUBSET Item
    BY <1>1, <2>1, CloneIsItem
  <2> QED BY <1>5, <2>1, <2>2, <2>3
<1>8. CASE SaveDeleteItem(p)
  <2>1. loc[p].run \in Runs /\ loc[p].card.list \in SUBSET Item
    BY <1>1, <1>8 DEF SaveDeleteItem, Good, LocalRow, Card
  <2>2. {x \in loc[p].card.list : x.id # loc[p].item} \in SUBSET Item
    BY <2>1
  <2> QED BY <1>5, <1>8, <2>1, <2>2 DEF SaveDeleteItem
<1>9. CASE MoveCard(p)
  <2>1. loc[p].run \in Runs /\ loc[p].column \in Columns
    BY <1>1, <1>9 DEF MoveCard, Good, LocalRow
  <2>2. PICK c : c = [cards[loc[p].run] EXCEPT !.column = loc[p].column]
    OBVIOUS
  <2>3. c \in Card
    BY <1>1, <2>1, <2>2 DEF Card
  <2>4. cards' = [cards EXCEPT ![loc[p].run] = c]
    BY <1>9, <2>2 DEF MoveCard
  <2> QED BY <1>1, <2>1, <2>3, <2>4
<1> QED BY <1>4, <1>6, <1>7, <1>8, <1>9

\* A template is written.
LEMMA TemplateRows ==
    ASSUME IInv, NEW p \in Procs, SaveTemplate(p) \/ SaveUpdate(p)
    PROVE  Rows'
<1>1. Rows /\ loc[p] \in LocalRow /\ Good(loc[p], pc[p])
  BY Facts DEF Rows
<1>2. loc[p].list \in (SUBSET Item) \cup {None} /\ loc[p].approval \in BOOLEAN \cup {None}
  BY <1>1 DEF LocalRow
<1>3. UNCHANGED <<cards, states, made, requests, faults, overtaken, alone, returned>>
  BY DEF SaveTemplate, SaveUpdate, history
<1>4. CASE SaveTemplate(p)
  <2>1. loc[p].list \in SUBSET Item
    BY <1>1, <1>2, <1>4 DEF SaveTemplate, Good
  <2>2. steps' \in SUBSET Item /\ approval' = approval
    BY <1>4, <2>1, Lists DEF SaveTemplate
  <2> QED BY <1>1, <1>3, <2>2 DEF Rows
<1>5. CASE SaveUpdate(p)
  <2>1. steps' \in SUBSET Item
    BY <1>1, <1>2, <1>5 DEF SaveUpdate, Rows
  <2>2. approval' = (IF loc[p].approval = None THEN approval ELSE loc[p].approval)
    BY <1>5 DEF SaveUpdate
  <2>3. approval' \in BOOLEAN
    <3>1. CASE loc[p].approval = None
      BY <1>1, <2>2, <3>1 DEF Rows
    <3>2. CASE loc[p].approval # None
      BY <1>2, <2>2, <3>2
    <3> QED BY <3>1, <3>2
  <2> QED BY <1>1, <1>3, <2>1, <2>3 DEF Rows
<1> QED BY <1>4, <1>5

\* Runs are completed, submitted, approved or sent back.
LEMMA StateRows ==
    ASSUME IInv, NEW p \in Procs,
           SyncRun(p) \/ SubmitRun(p) \/ CompletePrevious(p) \/ SaveReview(p)
    PROVE  Rows'
<1>1. Rows /\ loc[p] \in LocalRow /\ Good(loc[p], pc[p])
  BY Facts DEF Rows
<1>2. loc[p].run \in Runs
  BY <1>1 DEF Good, SyncRun, SubmitRun, CompletePrevious, SaveReview
<1>3. {n \in 1..loc[p].run : states[n] = "PENDING"} \subseteq Runs
  BY <1>2, RunReviewAssumption DEF Runs
<1>4. PICK runs \in SUBSET Runs, state \in {"PENDING", "SUBMITTED", "COMPLETED"} :
         SetStates(runs, state)
  BY <1>2, <1>3 DEF SyncRun, SubmitRun, CompletePrevious, SaveReview
<1>5. UNCHANGED <<template, cards, made, requests, faults>>
  BY DEF SyncRun, SubmitRun, CompletePrevious, SaveReview
<1> QED BY <1>1, <1>4, <1>5, StatesTyped DEF Rows, template

\* Rows keep their columns, and requests remember what they should.
LEMMA TypeStep ==
    ASSUME IInv, [Next]_vars
    PROVE  TypeOK' /\ \A q \in Procs : Good(loc[q], pc[q])'
<1>1. CASE UNCHANGED vars
  BY <1>1 DEF vars, history, IInv, TypeOK
<1>2. ASSUME NEW p \in Procs, Start(p) \/ Continue(p) \/ Fail(p)
      PROVE  TypeOK' /\ \A q \in Procs : Good(loc[q], pc[q])'
  <2>1. Rows'
    BY <1>2, ReadRows, CardRows, TemplateRows, StateRows DEF Continue
  <2>2. PICK l, label : Moves(p, l, label)
    BY <1>2, StartMoves, ContinueMoves
  <2>3. pc' \in [Procs -> Labels] /\ loc' \in [Procs -> LocalRow]
    BY <2>2 DEF Moves, IInv, TypeOK
  <2>4. TypeOK'
    BY <2>1, <2>3 DEF TypeOK, Rows
  <2>5. ASSUME NEW q \in Procs PROVE Good(loc[q], pc[q])'
    <3>1. CASE q = p
      <4>1. loc'[q] = l /\ pc'[q] = label /\ Good(l, label)
        BY <2>2, <3>1 DEF Moves, IInv, TypeOK
      <4> QED BY <4>1
    <3>2. CASE q # p
      <4>1. loc'[q] = loc[q] /\ pc'[q] = pc[q] /\ Good(loc[q], pc[q])
        BY <2>2, <3>2 DEF Moves, IInv, TypeOK
      <4> QED BY <4>1
    <3> QED BY <3>1, <3>2
  <2> QED BY <2>4, <2>5
<1> QED BY <1>1, <1>2 DEF Next, Terminated

-----------------------------------------------------------------------------
(* Reviews *)

\* Every step of a request leaves what the others remember.
LEMMA OthersStay ==
    ASSUME IInv, NEW p \in Procs, Start(p) \/ Continue(p) \/ Fail(p), NEW q \in Procs \ {p}
    PROVE  pc'[q] = pc[q] /\ loc'[q] = loc[q]
<1>1. PICK l, label : Moves(p, l, label)
  BY StartMoves, ContinueMoves
<1> QED BY <1>1 DEF Moves, IInv, TypeOK

\* A review begins with its request.
LEMMA Labelled ==
    ASSUME IInv, NEW p \in Procs, Continue(p) \/ Fail(p)
    PROVE  pc'[p] # "review"
<1>1. pc \in [Procs -> Labels]
  BY DEF IInv, TypeOK
<1>2. CASE SyncRun(p) \/ SaveTemplate(p) \/ SaveUpdate(p) \/ Reload(p) \/ ReadTemplate(p)
  BY <1>1, <1>2 DEF SyncRun, SaveTemplate, SaveUpdate, Reload, ReadTemplate, Finish, Goto
<1>3. CASE ListPending(p) \/ ReadRun(p) \/ Mirror(p)
  BY <1>1, <1>3 DEF ListPending, ReadRun, Mirror, AfterMirror, Finish, Goto
<1>4. CASE ReadSteps(p) \/ SaveClone(p) \/ SaveDeleteItem(p) \/ Fail(p)
  BY <1>1, <1>4 DEF ReadSteps, SaveClone, SaveDeleteItem, Fail, Finish, Goto
<1>5. CASE CheckRule(p) \/ MoveCard(p)
  BY <1>1, <1>5 DEF CheckRule, MoveCard, Finish, Goto
<1>6. CASE SubmitRun(p) \/ CompletePrevious(p) \/ SaveReview(p)
  BY <1>1, <1>6 DEF SubmitRun, CompletePrevious, SaveReview, Finish, Goto
<1>7. CASE SavePatch(p)
  BY <1>1, <1>7 DEF SavePatch, Finish, Goto
<1> QED BY <1>2, <1>3, <1>4, <1>5, <1>6, <1>7 DEF Continue

\* Only four steps touch the states of the runs, and their history.
LEMMA StatesStay ==
    ASSUME NEW p \in Procs, Start(p) \/ Continue(p) \/ Fail(p),
           ~(SyncRun(p) \/ SubmitRun(p) \/ CompletePrevious(p) \/ SaveReview(p))
    PROVE  /\ UNCHANGED <<states, returned>>
           /\ \/ overtaken' = overtaken
              \/ Start(p) /\ overtaken' = overtaken \ {p}
<1>1. CASE Start(p)
  BY <1>1 DEF Start, StartPatch, StartUpdate, StartEnsure, StartDeleteItem, StartComplete,
       StartReview, Begin
<1>2. CASE Continue(p) \/ Fail(p)
  BY <1>2 DEF Continue, Fail, SavePatch, ReadTemplate, SaveTemplate, SaveUpdate, Reload, ListPending, ReadRun,
       Mirror, ReadSteps, SaveClone, SaveDeleteItem, CheckRule, MoveCard, history
<1> QED BY <1>1, <1>2

LEMMA ReviewStep ==
    ASSUME IInv, NEW p \in Procs, Start(p) \/ Continue(p) \/ Fail(p)
    PROVE  Reviewing'
<1> SUFFICES ASSUME NEW q \in Procs, pc'[q] = "review"
             PROVE  states'[loc'[q].run] = "SUBMITTED" \/ q \in overtaken'
  BY DEF Reviewing
<1>1. CASE q = p
  <2>1. Start(p)
    BY <1>1, Labelled
  <2>2. PICK l, label : /\ Moves(p, l, label) /\ Begin(p, label, l)
                        /\ label = "review" => states[l.run] = "SUBMITTED"
    BY <2>1, StartMoves
  <2>3. loc'[q] = l /\ label = "review" /\ states' = states
    BY <1>1, <2>2 DEF Moves, Begin, IInv, TypeOK
  <2> QED BY <2>2, <2>3
<1>2. CASE q # p
  <2>1. pc[q] = "review" /\ loc'[q] = loc[q]
    BY <1>2, OthersStay
  <2>2. states[loc[q].run] = "SUBMITTED" \/ q \in overtaken
    BY <2>1 DEF IInv, Reviewing
  <2>3. CASE SyncRun(p) \/ SubmitRun(p) \/ CompletePrevious(p) \/ SaveReview(p)
    <3>1. PICK runs, state : SetStates(runs, state)
      BY <2>3 DEF SyncRun, SubmitRun, CompletePrevious, SaveReview
    <3>2. loc[q].run \in Runs
      BY <2>1, Facts DEF Good
    <3>3. CASE loc[q].run \in runs
      BY <2>1, <3>1, <3>3 DEF SetStates
    <3>4. CASE loc[q].run \notin runs
      <4>1. states'[loc[q].run] = states[loc[q].run] /\ overtaken \subseteq overtaken'
        BY <3>1, <3>2, <3>4 DEF SetStates
      <4> QED BY <2>1, <2>2, <4>1
    <3> QED BY <3>3, <3>4
  <2>4. CASE ~(SyncRun(p) \/ SubmitRun(p) \/ CompletePrevious(p) \/ SaveReview(p))
    <3>1. states' = states /\ (overtaken' = overtaken \/ overtaken' = overtaken \ {p})
      BY <2>4, StatesStay
    <3> QED BY <1>2, <2>1, <2>2, <3>1
  <2> QED BY <2>3, <2>4
<1> QED BY <1>1, <1>2

-----------------------------------------------------------------------------
(* Ghosts *)

\* The mirror of p is still to come to run n.
Coming(p, n) ==
    \/ pc[p] \in {"template", "write", "reload", "pending"}
    \/ pc[p] \in {"readRun", "mirror"} /\ n \in loc[p].todo

\* When p runs alone, a run is without ghosts or its mirror is coming.
LEMMA RunsAlone ==
    ASSUME IInv, alone, NEW p \in Procs, pc[p] # "idle"
    PROVE  /\ \A q \in Procs \ {p} : pc[q] = "idle"
           /\ Current(p)
           /\ \A n \in Runs \ returned : Ghostless(n) \/ Coming(p, n)
<1>1. Single /\ Current(p) /\ \A n \in Runs \ returned : Ghostless(n) \/ Awaited(n)
  BY DEF IInv, Mirrored
<1>2. \A q \in Procs \ {p} : pc[q] = "idle"
  BY <1>1 DEF Single
<1>3. ASSUME NEW n \in Runs, Awaited(n) PROVE Coming(p, n)
  <2>1. PICK q \in Procs :
           \/ pc[q] \in {"template", "write", "reload", "pending"}
           \/ pc[q] \in {"readRun", "mirror"} /\ n \in loc[q].todo
    BY <1>3 DEF Awaited
  <2>2. q = p
    BY <1>2, <2>1
  <2> QED BY <2>1, <2>2 DEF Coming
<1> QED BY <1>1, <1>2, <1>3

LEMMA StaysMirrored ==
    ASSUME NEW p \in Procs, \A q \in Procs \ {p} : pc'[q] = "idle", Current(p)',
           \A n \in Runs \ returned' : Ghostless(n)' \/ Coming(p, n)'
    PROVE  Mirrored'
<1>1. Single'
  BY DEF Single
<1>2. \A q \in Procs : Current(q)'
  BY DEF Current
<1>3. \A n \in Runs : Coming(p, n)' => Awaited(n)'
  BY DEF Coming, Awaited
<1> QED BY <1>1, <1>2, <1>3 DEF Mirrored

LEMMA StartMirrored ==
    ASSUME IInv, NEW p \in Procs, Start(p), alone'
    PROVE  Mirrored'
<1>1. PICK l, label : /\ Moves(p, l, label) /\ Begin(p, label, l)
                      /\ label \notin {"template", "write", "reload", "pending", "readRun",
                                       "mirror", "clone"}
                      /\ label = "deleteItem" => l.card.list = cards[l.run].list
  BY StartMoves
<1>2. /\ alone /\ Idle /\ UNCHANGED <<cards, steps, states, returned>>
      /\ pc'[p] = label /\ loc'[p] = l
  BY <1>1 DEF Begin, template, Moves, IInv, TypeOK
<1>3. \A q \in Procs \ {p} : pc'[q] = "idle"
  BY <1>2, OthersStay DEF Idle
<1>4. Current(p)'
  BY <1>1, <1>2 DEF Current
<1>5. ASSUME NEW n \in Runs \ returned PROVE Ghostless(n)'
  <2>1. ~Awaited(n)
    BY <1>2 DEF Idle, Awaited
  <2>2. Ghostless(n)
    BY <1>2, <2>1 DEF IInv, Mirrored
  <2> QED BY <1>2, <2>2 DEF Ghostless
<1> QED BY <1>2, <1>3, <1>4, <1>5, StaysMirrored

\* While p goes on alone: what is written keeps the runs without ghosts, or
\* the mirror that is due.
LEMMA ContinueMirrored ==
    ASSUME IInv, NEW p \in Procs, Continue(p), alone'
    PROVE  Mirrored'
<1>1. alone
  <2>1. alone' = alone
    BY DEF Continue, SavePatch, SyncRun, ReadTemplate, SaveTemplate, SaveUpdate, Reload,
         ListPending, ReadRun, Mirror, ReadSteps, SaveClone, SaveDeleteItem, CheckRule, MoveCard,
         SubmitRun, CompletePrevious, SaveReview, SetStates, history
  <2> QED BY <2>1, Zenon
<1>2. pc[p] # "idle"
  BY DEF Continue, SavePatch, SyncRun, ReadTemplate, SaveTemplate, SaveUpdate, Reload,
       ListPending, ReadRun, Mirror, ReadSteps, SaveClone, SaveDeleteItem, CheckRule, MoveCard,
       SubmitRun, CompletePrevious, SaveReview
<1>3. /\ Current(p) /\ \A n \in Runs \ returned : Ghostless(n) \/ Coming(p, n)
      /\ \A q \in Procs \ {p} : pc'[q] = "idle"
  BY <1>1, <1>2, RunsAlone, OthersStay
<1>4. /\ loc[p] \in LocalRow /\ Good(loc[p], pc[p]) /\ cards \in [Runs -> Card]
      /\ pc \in [Procs -> Labels] /\ loc \in [Procs -> LocalRow]
  BY Facts DEF IInv, TypeOK
<1>5. ASSUME pc'[p] \in {"idle", "sync", "move", "submit", "previous", "template", "write", "reload"}
      PROVE  Current(p)'
  BY <1>5 DEF Current
<1>6. ASSUME pc'[p] \in {"template", "write", "reload", "pending"}, Current(p)' PROVE Mirrored'
  BY <1>3, <1>6, StaysMirrored DEF Coming
<1>7. CASE SavePatch(p)
  <2>1. CASE loc[p].list # None
    <3>1. pc'[p] = "template"
      BY <1>4, <1>7, <2>1 DEF SavePatch, Goto
    <3> QED BY <1>5, <1>6, <3>1
  <2>2. CASE loc[p].list = None
    <3>1. pc[p] = "patch" /\ pc'[p] \in {"sync", "idle"} /\ UNCHANGED <<steps, states, returned>>
      BY <1>4, <1>7, <2>2 DEF SavePatch, Goto, Finish, template, history
    <3>2. \A n \in Runs : cards'[n].list = cards[n].list
      BY <1>4, <1>7, <2>2 DEF SavePatch, Good, Card
    <3>3. \A n \in Runs \ returned' : Ghostless(n)'
      BY <1>3, <3>1, <3>2 DEF Ghostless, Coming
    <3> QED BY <1>3, <1>5, <3>1, <3>3, StaysMirrored
  <2> QED BY <2>1, <2>2
<1>17. CASE ReadTemplate(p)
  <2>1. pc'[p] = "write"
    BY <1>4, <1>17 DEF ReadTemplate, Goto
  <2> QED BY <1>5, <1>6, <2>1
<1>8. CASE SaveTemplate(p) \/ SaveUpdate(p)
  <2>1. CASE SaveTemplate(p) \/ loc[p].list # None
    <3>1. pc'[p] = "reload"
      BY <1>4, <1>8, <2>1 DEF SaveTemplate, SaveUpdate, Goto
    <3> QED BY <1>5, <1>6, <3>1
  <2>2. CASE SaveUpdate(p) /\ loc[p].list = None
    <3>1. pc[p] = "update" /\ pc'[p] = "idle" /\ UNCHANGED <<cards, steps, states, returned>>
      BY <1>4, <2>2 DEF SaveUpdate, Goto, Finish, history
    <3>2. \A n \in Runs \ returned' : Ghostless(n)'
      BY <1>3, <3>1 DEF Ghostless, Coming
    <3> QED BY <1>3, <1>5, <3>1, <3>2, StaysMirrored
  <2> QED BY <1>8, <2>1, <2>2
<1>9. CASE Reload(p)
  <2>1. pc'[p] = "pending" /\ loc'[p].after = steps /\ steps' = steps
    BY <1>4, <1>9 DEF Reload, Goto, Remember, LocalRow, template
  <2>2. Current(p)'
    BY <2>1 DEF Current
  <2> QED BY <1>6, <2>1, <2>2
<1>10. ASSUME NEW todo \in SUBSET Runs, AfterMirror(p, todo), UNCHANGED <<steps, states, returned>>,
              loc[p].after = steps,
              \A n \in Runs \ returned : Ghostless(n)' \/ n \in todo
       PROVE  Mirrored'
  <2>1. CASE todo # {}
    <3>1. PICK l : l = [loc[p] EXCEPT !.todo = todo] /\ loc'[p] = l /\ pc'[p] = "readRun"
      BY <1>4, <1>10, <2>1 DEF AfterMirror, Goto, Remember
    <3>2. l.todo = todo /\ l.after = steps
      BY <1>4, <1>10, <3>1 DEF LocalRow
    <3>3. Current(p)'
      BY <1>10, <3>1, <3>2 DEF Current
    <3> QED BY <1>3, <1>10, <3>1, <3>2, <3>3, StaysMirrored DEF Coming
  <2>2. CASE todo = {}
    <3>1. pc'[p] \in {"sync", "idle"}
      BY <1>4, <1>10, <2>2 DEF AfterMirror, Goto, Finish
    <3> QED BY <1>3, <1>5, <1>10, <2>2, <3>1, StaysMirrored
  <2> QED BY <2>1, <2>2
<1>11. CASE ListPending(p)
  <2>1. /\ pc[p] = "pending" /\ UNCHANGED <<cards, steps, states, returned>>
        /\ AfterMirror(p, {n \in Runs : states[n] = "PENDING"})
    BY <1>11 DEF ListPending, template, history
  <2>2. loc[p].after = steps
    BY <1>3, <2>1 DEF Current
  <2>3. \A n \in Runs \ returned : Ghostless(n)' \/ n \in {m \in Runs : states[m] = "PENDING"}
    BY <2>1 DEF Ghostless
  <2>4. {n \in Runs : states[n] = "PENDING"} \in SUBSET Runs
    OBVIOUS
  <2> QED BY <1>10, <2>1, <2>2, <2>3, <2>4
<1>12. CASE ReadRun(p)
  <2>1. /\ pc[p] = "readRun" /\ pc'[p] = "mirror" /\ UNCHANGED <<cards, steps, states, returned>>
        /\ loc'[p] = [loc[p] EXCEPT !.card.list = cards[Last(loc[p].todo)].list]
    BY <1>4, <1>12 DEF ReadRun, Goto, Remember, template, history
  <2>2. loc'[p].todo = loc[p].todo /\ loc'[p].after = loc[p].after
    BY <1>4, <2>1 DEF LocalRow
  <2>3. Current(p)'
    BY <1>3, <2>1, <2>2 DEF Current
  <2>4. \A n \in Runs \ returned' : Ghostless(n)' \/ Coming(p, n)'
    BY <1>3, <2>1, <2>2 DEF Ghostless, Coming
  <2> QED BY <1>3, <2>3, <2>4, StaysMirrored
<1>13. CASE Mirror(p)
  <2>1. pc[p] = "mirror" /\ UNCHANGED <<steps, states, returned>> /\ loc[p].todo \in SUBSET Runs
    BY <1>4, <1>13 DEF Mirror, template, history, LocalRow
  <2>2. loc[p].after = steps
    BY <1>3, <2>1 DEF Current
  <2>3. PICK m \in Runs : m = Last(loc[p].todo)
    BY <1>4, <2>1, LastIn DEF Good
  <2>4. PICK o \in Orders(loc[p].after), match \in [loc[p].after -> loc[p].card.list \cup {None}] :
           cards' = [cards EXCEPT ![m].list = {Merged(s, o, match) : s \in loc[p].after}]
    BY <1>13, <2>3 DEF Mirror
  <2>5. loc[p].after \in SUBSET Item /\ loc[p].card.list \in SUBSET Item /\ made \in Nat
    BY <1>4, Facts DEF LocalRow, Card
  <2>8. Named({Merged(s, o, match) : s \in loc[p].after}) \subseteq Named(steps)
    <3>1. \A s \in loc[p].after : Merged(s, o, match).title = s.title
      BY <2>5, MergedIsItem
    <3> QED BY <2>2, <3>1 DEF Named
  <2>9. AfterMirror(p, loc[p].todo \ {m})
    BY <1>13, <2>3 DEF Mirror
  <2>6. Named(cards'[m].list) \subseteq Named(steps) /\ \A n \in Runs \ {m} : cards'[n] = cards[n]
    BY <1>4, <2>4, <2>8 DEF Card
  <2>7. \A n \in Runs \ returned : Ghostless(n)' \/ n \in loc[p].todo \ {m}
    BY <1>3, <2>1, <2>6 DEF Ghostless, Coming
  <2>10. loc[p].todo \ {m} \in SUBSET Runs
    BY <2>1
  <2> QED BY <1>10, <2>1, <2>2, <2>7, <2>9, <2>10
<1>14. CASE ReadSteps(p) \/ CheckRule(p)
  <2>1. /\ pc[p] \in {"ensure", "rule"} /\ pc'[p] \in {"idle", "clone", "move", "submit"}
        /\ UNCHANGED <<cards, steps, states, returned>>
        /\ pc'[p] = "clone" => loc'[p].after = steps
    BY <1>4, <1>14 DEF ReadSteps, CheckRule, Goto, Remember, Finish, template, history, LocalRow
  <2>2. Current(p)'
    BY <2>1 DEF Current
  <2>3. \A n \in Runs \ returned' : Ghostless(n)'
    BY <1>3, <2>1 DEF Ghostless, Coming
  <2> QED BY <1>3, <2>2, <2>3, StaysMirrored
<1>15. CASE SaveClone(p) \/ SaveDeleteItem(p) \/ MoveCard(p)
  <2>1. /\ pc[p] \in {"clone", "deleteItem", "move"} /\ pc'[p] \in {"idle", "submit"}
        /\ UNCHANGED <<steps, states, returned>> /\ loc[p].run \in Runs
    BY <1>4, <1>15 DEF SaveClone, SaveDeleteItem, MoveCard, Goto, Finish, template, history, Good
  <2>2. \A n \in Runs : Named(cards'[n].list) \subseteq Named(cards[n].list) \cup Named(steps)
    <3>1. CASE SaveClone(p)
      <4>1. loc[p].after \in SUBSET Item /\ loc[p].after = steps /\ made \in Nat
        BY <1>3, <1>4, <3>1, Facts DEF SaveClone, Current, LocalRow
      <4>2. PICK o \in Orders(loc[p].after) :
               cards' = [cards EXCEPT ![loc[p].run].list = {Clone(s, o) : s \in loc[p].after}]
        BY <3>1 DEF SaveClone
      <4>3. \A s \in loc[p].after : Clone(s, o).title = s.title
        BY <4>1, CloneIsItem
      <4>4. Named({Clone(s, o) : s \in loc[p].after}) \subseteq Named(steps)
        BY <4>1, <4>3 DEF Named
      <4> QED BY <1>4, <2>1, <4>2, <4>4 DEF Card
    <3>2. CASE SaveDeleteItem(p)
      <4>1. loc[p].card.list = cards[loc[p].run].list
        BY <1>3, <3>2 DEF SaveDeleteItem, Current
      <4>2. Named({x \in loc[p].card.list : x.id # loc[p].item}) \subseteq Named(cards[loc[p].run].list)
        BY <4>1 DEF Named
      <4> QED BY <1>4, <2>1, <3>2, <4>2 DEF SaveDeleteItem, Card
    <3>3. CASE MoveCard(p)
      BY <1>4, <2>1, <3>3 DEF MoveCard, Card
    <3> QED BY <1>15, <3>1, <3>2, <3>3
  <2>3. \A n \in Runs \ returned' : Ghostless(n)'
    BY <1>3, <2>1, <2>2 DEF Ghostless, Coming
  <2> QED BY <1>3, <1>5, <2>1, <2>3, StaysMirrored
<1>16. CASE SyncRun(p) \/ SubmitRun(p) \/ CompletePrevious(p) \/ SaveReview(p)
  <2>1. PICK runs, state : SetStates(runs, state)
    BY <1>16 DEF SyncRun, SubmitRun, CompletePrevious, SaveReview
  <2>2. /\ pc[p] \in {"sync", "submit", "previous", "review"} /\ pc'[p] \in {"idle", "previous"}
        /\ UNCHANGED <<cards, steps>>
    BY <1>4, <1>16 DEF SyncRun, SubmitRun, CompletePrevious, SaveReview, Finish, Goto, template
  <2>3. \A n \in Runs \ returned' : n \notin returned /\ (states'[n] = "PENDING" => states[n] = "PENDING")
    BY <2>1 DEF SetStates
  <2>4. \A n \in Runs \ returned' : Ghostless(n)'
    BY <1>3, <2>2, <2>3 DEF Ghostless, Coming
  <2> QED BY <1>3, <1>5, <2>2, <2>4, StaysMirrored
<1> QED BY <1>7, <1>8, <1>9, <1>11, <1>12, <1>13, <1>14, <1>15, <1>16,
       <1>17 DEF Continue

LEMMA MirroredStep ==
    ASSUME IInv, NEW p \in Procs, Start(p) \/ Continue(p) \/ Fail(p)
    PROVE  Mirrored'
<1>1. CASE ~alone'
  BY <1>1 DEF Mirrored
<1>2. CASE alone'
  <2>1. ~Fail(p)
    BY <1>2 DEF Fail
  <2> QED BY <1>2, <2>1, StartMirrored, ContinueMirrored
<1> QED BY <1>1, <1>2

-----------------------------------------------------------------------------
(* The invariant, and what it shows *)

\* The invariant holds when the runs have been generated.
THEOREM InitIInv == Init => IInv
<1> SUFFICES ASSUME Init PROVE IInv
  OBVIOUS
<1>1. PICK r \in Series : approval = r.approval /\ steps = r.steps
  BY DEF Init
<1>2. approval \in BOOLEAN /\ steps \in SUBSET Item
  BY <1>1, RunReviewAssumption
<1>3. made \in Nat
  BY RunReviewAssumption DEF Init
<1>4. ASSUME NEW n \in Runs PROVE cards[n] \in Card /\ Named(cards[n].list) = Named(steps)
  <2>1. PICK list : list = {[id |-> n * Known + s.id, title |-> s.title, done |-> FALSE] : s \in steps}
    OBVIOUS
  <2>2. cards[n] = [list |-> list, column |-> FirstColumn]
    BY <2>1 DEF Init
  <2>3. n \in Nat /\ Known \in Nat
    BY RunReviewAssumption DEF Runs
  <2>4. n * Known \in Nat
    BY <2>3
  <2>5. \A s \in steps : [id |-> n * Known + s.id, title |-> s.title, done |-> FALSE] \in Item
    <3>1. PICK b \in Nat : b = n * Known
      BY <2>4
    <3>2. \A s \in steps : [id |-> b + s.id, title |-> s.title, done |-> FALSE] \in Item
      BY <1>2 DEF Item
    <3> QED BY <3>1, <3>2
  <2>6. list \in SUBSET Item
    BY <2>1, <2>5
  <2>7. Named(list) = Named(steps)
    <3>1. ASSUME NEW s \in steps PROVE \E y \in list : y.title = s.title
      <4>1. [id |-> n * Known + s.id, title |-> s.title, done |-> FALSE] \in list
        BY <2>1
      <4> QED BY <4>1
    <3>2. \A y \in list : \E s \in steps : y.title = s.title
      BY <2>1
    <3> QED BY <3>1, <3>2 DEF Named
  <2> QED BY <2>2, <2>6, <2>7, RunReviewAssumption DEF Card
<1>7. /\ cards \in [Runs -> Card]
      /\ \A p \in Procs : pc[p] = "idle" /\ loc[p] = Fresh
      /\ \A n \in Runs : states[n] = "PENDING"
  BY <1>4 DEF Init
<1>9. TypeOK
  BY <1>2, <1>3, <1>7, FreshOK DEF Init, TypeOK
<1>5. \A p \in Procs : Good(loc[p], pc[p])
  BY <1>7, FreshOK
<1>6. Reviewing
  BY <1>7 DEF Reviewing
<1>8. Mirrored
  BY <1>4, <1>7 DEF Mirrored, Single, Current, Ghostless
<1> QED BY <1>5, <1>6, <1>8, <1>9 DEF IInv

\* Every step keeps the invariant.
THEOREM StepIInv == IInv /\ [Next]_vars => IInv'
<1> SUFFICES ASSUME IInv, [Next]_vars PROVE IInv'
  OBVIOUS
<1>1. TypeOK' /\ \A q \in Procs : Good(loc[q], pc[q])'
  BY TypeStep
<1>2. CASE UNCHANGED vars
  <2>1. Reviewing' /\ Mirrored'
    BY <1>2 DEF vars, history, IInv, Reviewing, Mirrored, Single, Current, Ghostless, Awaited
  <2> QED BY <1>1, <2>1 DEF IInv
<1>3. ASSUME NEW p \in Procs, Start(p) \/ Continue(p) \/ Fail(p) PROVE IInv'
  BY <1>1, <1>3, ReviewStep, MirroredStep DEF IInv
<1> QED BY <1>2, <1>3 DEF Next, Terminated

THEOREM Invariance == Spec => []IInv
BY InitIInv, StepIInv, PTL DEF Spec

\* Every row keeps its columns, and every card is in a column of the board.
THEOREM RunsTypeCorrect == Spec => []TypeOK
<1>1. IInv => TypeOK
  BY DEF IInv
<1> QED BY <1>1, Invariance, PTL

\* As long as requests come one at a time, a run that was pending all along has
\* no item whose title is gone from the template.
THEOREM GhostsAreGone == Spec => []NoGhosts
<1>1. IInv => NoGhosts
  BY DEF IInv, Mirrored, NoGhosts, Idle, Awaited, Ghostless
<1> QED BY <1>1, Invariance, PTL

\* A decision is made on a run that is submitted, but for overtaken reviews.
THEOREM ReviewsAreOfSubmitted == Spec => ReviewsOfSubmitted
<1>1. IInv /\ [Next]_vars =>
        [\A p \in Procs :
            pc[p] = "review" /\ pc'[p] # "review" =>
                states[loc[p].run] = "SUBMITTED" \/ p \in overtaken]_vars
  BY DEF IInv, Reviewing
<1> QED BY <1>1, Invariance, PTL DEF Spec, ReviewsOfSubmitted

-----------------------------------------------------------------------------
(* What a step does to cards *)

\* Most steps write no card.
LEMMA CardsStay ==
    ASSUME Next,
           \A p \in Procs : ~(SavePatch(p) \/ Mirror(p) \/ SaveClone(p) \/ SaveDeleteItem(p)
                             \/ MoveCard(p))
    PROVE  cards' = cards
<1>1. CASE Terminated
  BY <1>1 DEF Terminated, vars
<1>2. ASSUME NEW p \in Procs, Start(p) PROVE cards' = cards
  BY <1>2 DEF Start, StartPatch, StartUpdate, StartEnsure, StartDeleteItem, StartComplete,
       StartReview, Begin
<1>3. ASSUME NEW p \in Procs, Continue(p) \/ Fail(p) PROVE cards' = cards
  BY <1>3 DEF Continue, Fail, SyncRun, ReadTemplate, SaveTemplate, SaveUpdate, Reload, ListPending,
       ReadRun, ReadSteps, CheckRule, SubmitRun, CompletePrevious, SaveReview
<1> QED BY <1>1, <1>2, <1>3 DEF Next

\* What a PATCH leaves on its card.
LEMMA Patched ==
    ASSUME IInv, NEW p \in Procs, SavePatch(p), NEW n \in Runs, cards'[n] # cards[n]
    PROVE  /\ pc[p] = "patch" /\ pc'[p] # "patch" /\ loc[p].run = n
           /\ MayMove(loc[p].card, loc[p].list, loc[p].column)
           /\ cards'[n].column = IF loc[p].column = None THEN cards[n].column ELSE loc[p].column
           /\ cards'[n].list = IF loc[p].list = None THEN cards[n].list ELSE loc[p].list
<1>1. /\ loc[p] \in LocalRow /\ Good(loc[p], pc[p]) /\ cards \in [Runs -> Card]
      /\ pc \in [Procs -> Labels]
  BY Facts DEF IInv, TypeOK
<1>2. /\ pc[p] = "patch" /\ pc'[p] # "patch" /\ loc[p].run \in Runs
      /\ MayMove(loc[p].card, loc[p].list, loc[p].column)
  BY <1>1 DEF SavePatch, Goto, Finish, Good
<1>3. PICK c : c = [list |-> IF loc[p].list = None THEN cards[loc[p].run].list ELSE loc[p].list,
                    column |-> IF loc[p].column = None THEN cards[loc[p].run].column
                               ELSE loc[p].column]
  OBVIOUS
<1>4. cards' = [cards EXCEPT ![loc[p].run] = c]
  BY <1>3 DEF SavePatch
<1>5. loc[p].run = n /\ cards'[n] = c
  BY <1>1, <1>2, <1>4
<1> QED BY <1>2, <1>3, <1>5

LEMMA DoneStep ==
    ASSUME IInv, Next, NEW n \in Runs,
           cards[n].column # DoneColumn, cards'[n].column = DoneColumn
    PROVE  \E p \in Procs :
              /\ pc'[p] # pc[p] /\ loc[p].run = n
              /\ \/ Open(cards'[n].list) \cap Open(loc[p].card.list) = {}
                 \/ loc[p].card.column = DoneColumn
<1>1. PICK p \in Procs : \/ SavePatch(p) \/ Mirror(p) \/ SaveClone(p) \/ SaveDeleteItem(p)
                         \/ MoveCard(p)
  BY CardsStay
<1>2. /\ loc[p] \in LocalRow /\ Good(loc[p], pc[p]) /\ cards \in [Runs -> Card]
      /\ pc \in [Procs -> Labels]
  BY Facts DEF IInv, TypeOK
<1>3. ~(Mirror(p) \/ SaveClone(p) \/ SaveDeleteItem(p))
  <2>1. ASSUME NEW m, NEW x, cards' = [cards EXCEPT ![m].list = x] PROVE FALSE
    BY <1>2, <2>1 DEF Card
  <2> QED BY <2>1 DEF Mirror, SaveClone, SaveDeleteItem
<1>4. CASE MoveCard(p)
  <2>1. pc[p] = "move" /\ pc'[p] # pc[p] /\ loc[p].run \in Runs /\ Open(loc[p].card.list) = {}
    BY <1>2, <1>4 DEF MoveCard, Good, Goto
  <2>2. loc[p].run = n
    BY <1>2, <1>4, <2>1 DEF MoveCard
  <2> QED BY <2>1, <2>2
<1>5. CASE SavePatch(p)
  <2>1. /\ pc[p] = "patch" /\ pc'[p] # "patch" /\ loc[p].run = n
        /\ MayMove(loc[p].card, loc[p].list, loc[p].column)
        /\ cards'[n].column = IF loc[p].column = None THEN cards[n].column ELSE loc[p].column
        /\ cards'[n].list = IF loc[p].list = None THEN cards[n].list ELSE loc[p].list
    BY <1>5, Patched
  <2>2. loc[p].column = DoneColumn
    BY <2>1
  <2>3. CASE loc[p].card.column = DoneColumn
    BY <2>1, <2>3
  <2>4. CASE loc[p].card.column # DoneColumn
    <3>1. DoneColumn # None
      BY RunReviewAssumption
    <3>2. Open(IF loc[p].list # None /\ loc[p].list # {} THEN loc[p].list ELSE loc[p].card.list) = {}
      BY <2>1, <2>2, <2>4, <3>1 DEF MayMove, Moved
    <3>3. CASE loc[p].list # None
      <4>1. Open(loc[p].list) = {}
        BY <3>2, <3>3 DEF Open
      <4> QED BY <2>1, <3>3, <4>1
    <3>4. CASE loc[p].list = None
      <4>1. Open(loc[p].card.list) = {}
        BY <3>2, <3>4
      <4> QED BY <2>1, <4>1
    <3> QED BY <3>3, <3>4
  <2> QED BY <2>3, <2>4
<1> QED BY <1>1, <1>3, <1>4, <1>5

\* A card reaches Done with no item open that its request has seen open.
THEOREM DoneIsTicked == Spec => DoneWhenTicked
<1>1. IInv /\ [Next]_vars =>
        [\A n \in Runs :
            cards[n].column # DoneColumn /\ cards'[n].column = DoneColumn =>
                \E p \in Procs :
                    /\ pc'[p] # pc[p] /\ loc[p].run = n
                    /\ \/ Open(cards'[n].list) \cap Open(loc[p].card.list) = {}
                       \/ loc[p].card.column = DoneColumn]_vars
  BY DoneStep
<1> QED BY <1>1, Invariance, PTL DEF Spec, DoneWhenTicked

-----------------------------------------------------------------------------
(* Ticks *)

\* An item whose title a step has, and no other item of the card, is taken: a
\* step of its title finds it, if no step has taken it before.
LEMMA TitleIsTaken ==
    ASSUME NEW l, NEW o \in Orders(l.after),
           NEW match \in [l.after -> l.card.list \cup {None}], Match(o, match, l),
           NEW x \in l.card.list, x # None, x.title \in Named(l.after), ~Twins(x, l.card.list)
    PROVE  \E r \in l.after : match[r] = x
<1>1. PICK s \in l.after : s.title = x.title
  BY DEF Named
<1> DEFINE taken == {match[r] : r \in {r \in l.after : o[r] < o[s]}}
<1>2. CASE x \in taken
  BY <1>2
<1>3. CASE x \notin taken
  <2>1. {y \in l.card.list \ taken : y.title = s.title} = {x}
    BY <1>1, <1>3 DEF Twins
  <2>2. Wanted(s, l.card.list \ taken, l.before) = {x}
    BY <2>1 DEF Wanted
  <2>3. IF Wanted(s, l.card.list \ taken, l.before) = {} THEN match[s] = None
        ELSE match[s] \in Wanted(s, l.card.list \ taken, l.before)
    BY DEF Match
  <2> QED BY <1>1, <2>2, <2>3
<1> QED BY <1>2, <1>3

\* The mirror keeps the ticks of the items it has read, but for titles that no
\* step has and items of the same title.
LEMMA MirrorKeepsTicks ==
    ASSUME IInv, NEW p \in Procs, Mirror(p), NEW n \in Runs, NEW x \in LostTicks(n)
    PROVE  \/ x \notin loc[p].card.list
           \/ x.title \notin Named(loc[p].after) \/ Twins(x, loc[p].card.list)
<1>1. /\ loc[p] \in LocalRow /\ Good(loc[p], pc[p]) /\ cards \in [Runs -> Card] /\ made \in Nat
      /\ loc[p].after \in SUBSET Item /\ loc[p].card.list \in SUBSET Item
  BY Facts DEF LocalRow, Card
<1>2. PICK m \in Runs : m = Last(loc[p].todo)
  BY <1>1, LastIn DEF Mirror, Good, LocalRow
<1>3. PICK o \in Orders(loc[p].after), match \in [loc[p].after -> loc[p].card.list \cup {None}] :
         /\ Match(o, match, loc[p])
         /\ cards' = [cards EXCEPT ![m].list = {Merged(s, o, match) : s \in loc[p].after}]
  BY <1>2 DEF Mirror
<1>4. x.done /\ x \in cards[n].list /\ ~\E y \in cards'[n].list : y.id = x.id /\ y.done
  BY DEF LostTicks
<1>5. m = n
  <2> SUFFICES ASSUME m # n PROVE FALSE
    OBVIOUS
  <2>1. cards'[n] = cards[n]
    BY <1>1, <1>3
  <2> QED BY <1>4, <2>1
<1>6. cards'[n].list = {Merged(s, o, match) : s \in loc[p].after}
  BY <1>1, <1>3, <1>5 DEF Card
<1> SUFFICES ASSUME x \in loc[p].card.list, x.title \in Named(loc[p].after),
                    ~Twins(x, loc[p].card.list)
             PROVE  FALSE
  OBVIOUS
<1>7. x # None
  BY <1>1, NullIsNothing
<1>8. PICK r \in loc[p].after : match[r] = x
  BY <1>3, <1>7, TitleIsTaken
<1>9. Merged(r, o, match).id = x.id /\ Merged(r, o, match).done = x.done
  BY <1>1, <1>7, <1>8, MergedIsItem
<1> QED BY <1>4, <1>6, <1>9

LEMMA TicksStep ==
    ASSUME IInv, Next, NEW n \in Runs, NEW x \in LostTicks(n)
    PROVE  \E p \in Procs :
              LET l == loc[p] IN
              /\ pc'[p] # pc[p]
              /\ \/ pc[p] = "patch" /\ l.run = n
                 \/ pc[p] = "deleteItem" /\ l.item = x.id
                 \/ x \notin l.card.list
                 \/ pc[p] = "mirror" /\ (x.title \notin Named(l.after) \/ Twins(x, l.card.list))
<1>0. x.done /\ x \in cards[n].list /\ ~\E y \in cards'[n].list : y.id = x.id /\ y.done
  BY DEF LostTicks
<1>1. PICK p \in Procs : \/ SavePatch(p) \/ Mirror(p) \/ SaveClone(p) \/ SaveDeleteItem(p)
                         \/ MoveCard(p)
  BY <1>0, CardsStay
<1>2. /\ loc[p] \in LocalRow /\ Good(loc[p], pc[p]) /\ cards \in [Runs -> Card]
      /\ pc \in [Procs -> Labels]
  BY Facts DEF IInv, TypeOK
<1>3. CASE SavePatch(p)
  <2>1. cards'[n] # cards[n]
    BY <1>0
  <2> QED BY <1>3, <2>1, Patched
<1>4. CASE Mirror(p)
  <2>1. pc[p] = "mirror" /\ pc'[p] # pc[p]
    BY <1>2, <1>4 DEF Mirror, AfterMirror, Goto, Finish
  <2> QED BY <1>4, <2>1, MirrorKeepsTicks
<1>5. CASE SaveClone(p)
  <2>1. loc[p].card.list = {} /\ pc'[p] # pc[p]
    BY <1>2, <1>5 DEF SaveClone, Good, Goto, Finish
  <2> QED BY <2>1
<1>6. CASE SaveDeleteItem(p)
  <2>1. pc[p] = "deleteItem" /\ pc'[p] # pc[p] /\ loc[p].run \in Runs
    BY <1>2, <1>6 DEF SaveDeleteItem, Good, Goto, Finish
  <2>2. PICK list : list = {y \in loc[p].card.list : y.id # loc[p].item}
    OBVIOUS
  <2>3. cards' = [cards EXCEPT ![loc[p].run].list = list]
    BY <1>6, <2>2 DEF SaveDeleteItem
  <2>4. loc[p].run = n
    BY <1>0, <1>2, <2>3
  <2>5. cards'[n].list = list
    BY <1>2, <2>3, <2>4 DEF Card
  <2>6. x \notin loc[p].card.list \/ loc[p].item = x.id
    BY <1>0, <2>2, <2>5
  <2> QED BY <2>1, <2>6
<1>7. ~MoveCard(p)
  <2> SUFFICES ASSUME MoveCard(p) PROVE FALSE
    OBVIOUS
  <2>1. cards'[n].list = cards[n].list
    BY <1>2 DEF MoveCard, Card
  <2> QED BY <1>0, <2>1
<1> QED BY <1>1, <1>3, <1>4, <1>5, <1>6, <1>7

\* An item whose title the template keeps keeps its tick, whoever edits the
\* template or the checklist of another run.
THEOREM TicksAreKept == Spec => TicksKept
<1>1. IInv /\ [Next]_vars =>
        [\A n \in Runs : \A x \in LostTicks(n) :
            \E p \in Procs :
                LET l == loc[p] IN
                /\ pc'[p] # pc[p]
                /\ \/ pc[p] = "patch" /\ l.run = n
                   \/ pc[p] = "deleteItem" /\ l.item = x.id
                   \/ x \notin l.card.list
                   \/ pc[p] = "mirror" /\ (x.title \notin Named(l.after) \/ Twins(x, l.card.list))]_vars
  <2> SUFFICES ASSUME IInv, [Next]_vars, NEW n \in Runs, NEW x \in LostTicks(n), vars' # vars
               PROVE  \E p \in Procs :
                          LET l == loc[p] IN
                          /\ pc'[p] # pc[p]
                          /\ \/ pc[p] = "patch" /\ l.run = n
                             \/ pc[p] = "deleteItem" /\ l.item = x.id
                             \/ x \notin l.card.list
                             \/ /\ pc[p] = "mirror"
                                /\ x.title \notin Named(l.after) \/ Twins(x, l.card.list)
    BY Zenon
  <2>1. Next
    BY Zenon
  <2> QED BY <2>1, TicksStep
<1> QED BY <1>1, Invariance, PTL DEF Spec, TicksKept
=============================================================================
