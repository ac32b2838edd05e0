------------------------------ MODULE RunReview ------------------------------
(***************************************************************************)
(* The runs of one series after they have been generated: the checklist on *)
(* each card and its mirror on the template, the card that is moved to     *)
(* Done, the run that is completed, submitted and reviewed.  A process is  *)
(* one request, one action is what it does between two awaits: it reads a  *)
(* card, a template or a list of runs, and writes from what it read.       *)
(*                                                                         *)
(* A checklist is the set of its items.  The items of a card have ids of   *)
(* their own, which are not those of the template or of another card; the  *)
(* title ties them together.  The series completes its runs by the rule    *)
(* ALL_CHECKLIST, the default.  Skipped runs and deleted cards are those   *)
(* of PlannerRuns and left out here, and so is a card in no column.        *)
(***************************************************************************)
EXTENDS Naturals

CONSTANTS
    Titles,           \* the titles of items, without case and blanks around
    Columns,          \* the columns of the board
    FirstColumn,      \* the one new cards are in
    DoneColumn,       \* the one whose type is DONE
    MaxRuns,          \* the runs of the series, by sequence number
    Procs,            \* requests that may be in progress at once
    Series,           \* bound: the series, each with its checklist
    Known,            \* the largest id in those, and in what clients add
    Patches, Updates, \* bound: what clients send for a card, and for the template
    Closing,          \* bound: the columns they name when they complete a run
    MaxItems,         \* bound: the items of a list
    MaxRequests,      \* bound: requests
    MaxFaults,        \* bound: requests that fail
    None

Runs == 1..MaxRuns

Item == [id : Nat, title : Titles, done : BOOLEAN]

\* What a client does to a checklist before it sends it back: the new name of
\* the items of each title, or None for those it drops, the titles it ticks or
\* unticks, and the items it adds, with ids of its own.
Edits == [names : [Titles -> Titles \cup {None}], taps : SUBSET Titles, adds : SUBSET Item]

ASSUME RunReviewAssumption ==
    /\ None \notin Nat /\ None \notin BOOLEAN /\ None \notin Titles \cup Columns
    /\ None \notin Item
    /\ FirstColumn \in Columns /\ DoneColumn \in Columns \ {FirstColumn}
    /\ Series \subseteq [steps : SUBSET Item, approval : BOOLEAN]
    /\ \A r \in Series : \A s \in r.steps : s.id <= Known
    /\ Patches \subseteq [run : Runs, edit : Edits \cup {None}, column : Columns \cup {None}]
    /\ Closing \subseteq Columns \cup {None}
    /\ Updates \subseteq [edit : Edits \cup {None}, approval : BOOLEAN \cup {None}]
    /\ Known \in Nat /\ MaxRuns \in Nat /\ MaxItems \in Nat
    /\ MaxRequests \in Nat /\ MaxFaults \in Nat

VARIABLES
    approval,     \* requiresApproval of the template
    steps,        \* templateSubtasks of the template
    cards,        \* the card of each run
    states,       \* the state of each run
    made,         \* the ids generated so far
    pc, loc,      \* where each request is, and what it remembers
    requests,     \* requests begun
    faults,
    overtaken,    \* history: reviews of a run that was changed under them
    alone,        \* history: no two requests overlapped, and none failed
    returned      \* history: runs that became pending again

history == <<overtaken, alone, returned>>
vars    == <<approval, steps, cards, states, made, pc, loc, requests, faults, history>>

Card == [list : SUBSET Item, column : Columns]

Open(list) == {x.id : x \in {y \in list : ~y.done}}

Named(list) == {x.title : x \in list}

Unticked(list) == {[x EXCEPT !.done = FALSE] : x \in list}

\* The places of the items of a list, from the first to the last.
Orders(list) ==
    {o \in [list -> 1..MaxItems] : \A x, y \in list : o[x] = o[y] => x = y}

\* cloneTemplateSubtasksForOccurrence: nothing is ticked, every id is new.
Clone(s, o) == [id |-> made + o[s], title |-> s.title, done |-> FALSE]

Edited(list, e) ==
    {[id |-> x.id, title |-> e.names[x.title],
      done |-> IF x.title \in e.taps THEN ~x.done ELSE x.done] :
        x \in {y \in list : e.names[y.title] # None}} \cup e.adds

\* run: the run of the request; card: its card as it was read, in the mirror with
\* the list of the run that is mirrored; list: what is to be written; column:
\* where the card is moved, None once it is known to stay; item: the item to
\* delete; before, after: the steps of the template as they were read, before it
\* is written and then; todo: the runs still to mirror.
Fresh == [run |-> None, card |-> [list |-> {}, column |-> FirstColumn], list |-> None,
          column |-> None, item |-> None, approval |-> None, previous |-> FALSE,
          before |-> {}, after |-> {}, todo |-> {}]

\* The runs have been generated, each item of a card with an id of its own.
Init ==
    /\ \E r \in Series : approval = r.approval /\ steps = r.steps
    /\ cards = [n \in Runs |->
                  [list |-> {[id |-> n * Known + s.id, title |-> s.title, done |-> FALSE] :
                               s \in steps},
                   column |-> FirstColumn]]
    /\ made = Known * (MaxRuns + 1)
    /\ states = [n \in Runs |-> "PENDING"]
    /\ pc = [p \in Procs |-> "idle"] /\ loc = [p \in Procs |-> Fresh]
    /\ requests = 0 /\ faults = 0
    /\ overtaken = {} /\ alone = TRUE /\ returned = {}

-----------------------------------------------------------------------------
template == <<approval, steps>>

Goto(p, label) == pc' = [pc EXCEPT ![p] = label]

Remember(p, l) == loc' = [loc EXCEPT ![p] = l]

Finish(p) == Goto(p, "idle") /\ Remember(p, Fresh)

Idle == \A p \in Procs : pc[p] = "idle"

Begin(p, label, l) ==
    /\ requests < MaxRequests /\ pc[p] = "idle"
    /\ requests' = requests + 1
    /\ Goto(p, label) /\ Remember(p, l)
    /\ alone' = (alone /\ Idle)
    /\ overtaken' = overtaken \ {p}
    /\ UNCHANGED <<template, cards, states, made, faults, returned>>

\* A run changes its state; the reviews in progress have read another one.
SetStates(runs, state) ==
    /\ states' = [n \in Runs |-> IF n \in runs THEN state ELSE states[n]]
    /\ returned' = IF state = "PENDING" THEN returned \cup {n \in runs : states[n] # "PENDING"}
                   ELSE returned
    /\ overtaken' = overtaken \cup {q \in Procs : pc[q] = "review" /\ loc[q].run \in runs}
    /\ alone' = alone

-----------------------------------------------------------------------------
(* update: the PATCH of a card *)

\* The column was changed, from the card as it was read.
Moved(card, column) == column # None /\ column # card.column

\* The move to Done needs every item of the list that is sent, or, when none or
\* an empty one is sent, of the card as it was read.
MayMove(card, list, column) ==
    Moved(card, column) /\ column = DoneColumn =>
        Open(IF list # None /\ list # {} THEN list ELSE card.list) = {}

Sent(list, edit) == IF edit = None THEN None ELSE Edited(list, edit)

\* Mutant: a card with open items is moved.
StartPatchUnchecked(p) ==
    \E s \in Patches :
        LET card == cards[s.run] IN
        Begin(p, "patch", [Fresh EXCEPT !.run = s.run, !.card = card, !.column = s.column,
                                        !.list = Sent(card.list, s.edit)])

\* The client sends the whole list, edited, and the column of the card.  What
\* it saw is what the request reads: a client that looked earlier is no worse
\* off than one whose request is late to write.
StartPatch(p) ==
    \E s \in Patches :
        LET card == cards[s.run] IN
        /\ MayMove(card, Sent(card.list, s.edit), s.column)
        /\ Begin(p, "patch", [Fresh EXCEPT !.run = s.run, !.card = card, !.column = s.column,
                                           !.list = Sent(card.list, s.edit)])

SavePatch(p) ==
    LET l == loc[p] IN
    /\ pc[p] = "patch"
    /\ cards' = [cards EXCEPT ![l.run] =
                   [list |-> IF l.list = None THEN @.list ELSE l.list,
                    column |-> IF l.column = None THEN @.column ELSE l.column]]
    /\ IF l.list = None /\ ~Moved(l.card, l.column) THEN Finish(p)
       ELSE /\ Goto(p, IF l.list = None THEN "sync" ELSE "template")
            /\ Remember(p, [Fresh EXCEPT !.run = l.run, !.list = l.list,
                              !.column = IF Moved(l.card, l.column) THEN l.column ELSE None])
    /\ UNCHANGED <<template, states, made, requests, faults, history>>

\* syncOccurrenceCompletionFromTaskStatus, after any change of the column
SyncRun(p) ==
    LET l == loc[p] IN
    /\ pc[p] = "sync"
    /\ SetStates({l.run}, IF l.column = DoneColumn THEN "COMPLETED" ELSE "PENDING")
    /\ Finish(p)
    /\ UNCHANGED <<template, cards, made, requests, faults>>

-----------------------------------------------------------------------------
(* syncTemplateChecklistFromTaskSubtasks, updateTemplate, and the mirror     *)

ReadTemplate(p) ==
    /\ pc[p] = "template"
    /\ Remember(p, [loc[p] EXCEPT !.before = steps])
    /\ Goto(p, "write")
    /\ UNCHANGED <<template, cards, states, made, requests, faults, history>>

\* The steps get the ids of the items of this card.
SaveTemplate(p) ==
    /\ pc[p] = "write"
    /\ steps' = Unticked(loc[p].list)
    /\ Goto(p, "reload") /\ loc' = loc
    /\ UNCHANGED <<approval, cards, states, made, requests, faults, history>>

StartUpdate(p) ==
    \E s \in Updates :
        Begin(p, "update", [Fresh EXCEPT !.approval = s.approval, !.before = steps,
                                         !.list = Sent(steps, s.edit)])

SaveUpdate(p) ==
    LET l == loc[p] IN
    /\ pc[p] = "update"
    /\ approval' = IF l.approval = None THEN approval ELSE l.approval
    /\ steps' = IF l.list = None THEN steps ELSE l.list
    /\ IF l.list = None THEN Finish(p) ELSE Goto(p, "reload") /\ loc' = loc
    /\ UNCHANGED <<cards, states, made, requests, faults, history>>

Reload(p) ==
    /\ pc[p] = "reload"
    /\ Remember(p, [loc[p] EXCEPT !.after = steps])
    /\ Goto(p, "pending")
    /\ UNCHANGED <<template, cards, states, made, requests, faults, history>>

\* What follows the mirror, or the next of its runs.
AfterMirror(p, todo) ==
    LET l == loc[p] IN
    IF todo # {} THEN Goto(p, "readRun") /\ Remember(p, [l EXCEPT !.todo = todo])
    ELSE IF l.column # None
         THEN Goto(p, "sync") /\ Remember(p, [Fresh EXCEPT !.run = l.run, !.column = l.column])
    ELSE Finish(p)

\* Mutant: the run whose card was edited is the only one that is mirrored.
ListOwnRun(p) ==
    /\ pc[p] = "pending"
    /\ AfterMirror(p, {n \in Runs : states[n] = "PENDING" /\ n = loc[p].run})
    /\ UNCHANGED <<template, cards, states, made, requests, faults, history>>

ListPending(p) ==
    /\ pc[p] = "pending"
    /\ AfterMirror(p, {n \in Runs : states[n] = "PENDING"})
    /\ UNCHANGED <<template, cards, states, made, requests, faults, history>>

\* The runs are listed from the last one down.
Last(runs) == CHOOSE n \in runs : \A m \in runs : m <= n

ReadRun(p) ==
    /\ pc[p] = "readRun"
    /\ Remember(p, [loc[p] EXCEPT !.card.list = cards[Last(loc[p].todo)].list])
    /\ Goto(p, "mirror")
    /\ UNCHANGED <<template, cards, states, made, requests, faults, history>>

\* Mutant: the items of a run are matched by their ids.
WantedById(s, free, before) == {x \in free : x.id = s.id}

\* The items a step may take over: those of its title; if there is none, those
\* of the title it had before; and then those of its id.
Wanted(s, free, before) ==
    LET byTitle == {x \in free : x.title = s.title}
        old     == Named({b \in before : b.id = s.id}) \ {s.title}
        byOld   == {x \in free : x.title \in old} IN
    IF byTitle # {} THEN byTitle
    ELSE IF byOld # {} THEN byOld ELSE {x \in free : x.id = s.id}

\* The steps choose in their order, each one item that no earlier one has taken.
Match(o, match, l) ==
    \A s \in l.after :
        LET taken  == {match[r] : r \in {r \in l.after : o[r] < o[s]}}
            wanted == Wanted(s, l.card.list \ taken, l.before) IN
        IF wanted = {} THEN match[s] = None ELSE match[s] \in wanted

\* The step as an item of the card: with the id and the tick of the item it took.
Merged(s, o, match) ==
    IF match[s] = None THEN Clone(s, o) ELSE [match[s] EXCEPT !.title = s.title]

\* syncPendingOccurrenceAssignmentsFromTemplate, for one run: the template says
\* what items there are.  Which of two equal titles comes first is left open.
Mirror(p) ==
    LET l == loc[p]
        n == Last(l.todo) IN
    /\ pc[p] = "mirror"
    /\ \E o \in Orders(l.after), match \in [l.after -> l.card.list \cup {None}] :
          /\ Match(o, match, l)
          /\ cards' = [cards EXCEPT ![n].list = {Merged(s, o, match) : s \in l.after}]
          /\ made' = IF \E s \in l.after : match[s] = None
                     THEN made + MaxItems ELSE made
    /\ AfterMirror(p, l.todo \ {n})
    /\ UNCHANGED <<template, states, requests, faults, history>>

-----------------------------------------------------------------------------
(* ensureOccurrenceSubtasks and deleteSubtask *)

StartEnsure(p) ==
    \E n \in Runs :
        /\ cards[n].list = {}
        /\ Begin(p, "ensure", [Fresh EXCEPT !.run = n])

ReadSteps(p) ==
    /\ pc[p] = "ensure"
    /\ IF steps = {} THEN Finish(p)
       ELSE Goto(p, "clone") /\ Remember(p, [loc[p] EXCEPT !.after = steps])
    /\ UNCHANGED <<template, cards, states, made, requests, faults, history>>

SaveClone(p) ==
    LET l == loc[p] IN
    /\ pc[p] = "clone"
    /\ \E o \in Orders(l.after) :
          cards' = [cards EXCEPT ![l.run].list = {Clone(s, o) : s \in l.after}]
    /\ made' = made + MaxItems
    /\ Finish(p)
    /\ UNCHANGED <<template, states, requests, faults, history>>

\* The list that will be written back, without the item.
StartDeleteItem(p) ==
    \E n \in Runs : \E x \in cards[n].list :
        Begin(p, "deleteItem", [Fresh EXCEPT !.run = n, !.card = cards[n], !.item = x.id])

SaveDeleteItem(p) ==
    LET l == loc[p] IN
    /\ pc[p] = "deleteItem"
    /\ cards' = [cards EXCEPT ![l.run].list = {x \in l.card.list : x.id # l.item}]
    /\ Finish(p)
    /\ UNCHANGED <<template, states, made, requests, faults, history>>

-----------------------------------------------------------------------------
(* completeTaskWithRecurringAction *)

\* Mutant: the column of a client that names none is not read.
StartCompleteNamed(p) ==
    \E n \in Runs, column \in Closing, previous \in BOOLEAN :
        Begin(p, "rule", [Fresh EXCEPT !.run = n, !.card = cards[n], !.previous = previous,
                            !.column = column])

\* A client names a column, and it need not be Done; one that names none has the
\* column that was read written back.
StartComplete(p) ==
    \E n \in Runs, column \in Closing, previous \in BOOLEAN :
        Begin(p, "rule", [Fresh EXCEPT !.run = n, !.card = cards[n], !.previous = previous,
                            !.column = IF column = None THEN cards[n].column ELSE column])

\* ALL_CHECKLIST looks at the card as it was read before the template.
CheckRule(p) ==
    LET l == loc[p] IN
    /\ pc[p] = "rule"
    /\ IF Open(l.card.list) # {} THEN Finish(p)
       ELSE Remember(p, [l EXCEPT !.approval = approval]) /\ Goto(p, "move")
    /\ UNCHANGED <<template, cards, states, made, requests, faults, history>>

MoveCard(p) ==
    /\ pc[p] = "move"
    /\ cards' = [cards EXCEPT ![loc[p].run].column = loc[p].column]
    /\ Goto(p, "submit") /\ loc' = loc
    /\ UNCHANGED <<template, states, made, requests, faults, history>>

SubmitRun(p) ==
    LET l == loc[p] IN
    /\ pc[p] = "submit"
    /\ SetStates({l.run}, IF l.approval THEN "SUBMITTED" ELSE "COMPLETED")
    /\ IF l.previous THEN Goto(p, "previous") /\ loc' = loc ELSE Finish(p)
    /\ UNCHANGED <<template, cards, made, requests, faults>>

\* markPreviousPendingCompleted
CompletePrevious(p) ==
    /\ pc[p] = "previous"
    /\ SetStates({n \in 1..loc[p].run : states[n] = "PENDING"}, "COMPLETED")
    /\ Finish(p)
    /\ UNCHANGED <<template, cards, made, requests, faults>>

-----------------------------------------------------------------------------
(* reviewOccurrence *)

\* Mutant: the run need not have been submitted.
StartReviewAny(p) ==
    \E n \in Runs, approved \in BOOLEAN :
        Begin(p, "review", [Fresh EXCEPT !.run = n, !.approval = approved])

StartReview(p) ==
    \E n \in Runs, approved \in BOOLEAN :
        /\ states[n] = "SUBMITTED"
        /\ Begin(p, "review", [Fresh EXCEPT !.run = n, !.approval = approved])

SaveReview(p) ==
    LET l == loc[p] IN
    /\ pc[p] = "review"
    /\ SetStates({l.run}, IF l.approval THEN "COMPLETED" ELSE "PENDING")
    /\ Finish(p)
    /\ UNCHANGED <<template, cards, made, requests, faults>>

-----------------------------------------------------------------------------
\* A statement throws, or the process dies, between two writes: after the first,
\* and before a read that follows it would make no difference.
Fail(p) ==
    /\ faults < MaxFaults
    /\ pc[p] \in {"template", "readRun", "sync", "submit", "previous"}
    /\ faults' = faults + 1
    /\ alone' = FALSE
    /\ Finish(p)
    /\ UNCHANGED <<template, cards, states, made, requests, overtaken, returned>>

\* The bound on requests is reached and all have been answered.
Terminated == requests = MaxRequests /\ Idle /\ UNCHANGED vars

Start(p) ==
    \/ StartPatch(p) \/ StartUpdate(p) \/ StartEnsure(p) \/ StartDeleteItem(p)
    \/ StartComplete(p) \/ StartReview(p)

Continue(p) ==
    \/ SavePatch(p) \/ SyncRun(p) \/ ReadTemplate(p) \/ SaveTemplate(p) \/ SaveUpdate(p)
    \/ Reload(p) \/ ListPending(p) \/ ReadRun(p) \/ Mirror(p) \/ ReadSteps(p)
    \/ SaveClone(p) \/ SaveDeleteItem(p) \/ CheckRule(p) \/ MoveCard(p) \/ SubmitRun(p)
    \/ CompletePrevious(p) \/ SaveReview(p)

Next == (\E p \in Procs : Start(p) \/ Continue(p) \/ Fail(p)) \/ Terminated

Spec == Init /\ [][Next]_vars

-----------------------------------------------------------------------------
(* What the runs promise *)

Labels == {"idle", "patch", "sync", "template", "write", "update", "reload", "pending", "readRun",
           "mirror", "ensure", "clone", "deleteItem", "rule", "move", "submit", "previous", "review"}

LocalRow == [run : Runs \cup {None}, card : Card, list : (SUBSET Item) \cup {None},
             column : Columns \cup {None}, item : Nat \cup {None},
             approval : BOOLEAN \cup {None}, previous : BOOLEAN,
             before : SUBSET Item, after : SUBSET Item, todo : SUBSET Runs]

\* Every row has its own columns, and every card is in a column of the board,
\* whatever the request that moved it named.
TypeOK ==
    /\ approval \in BOOLEAN /\ steps \in SUBSET Item
    /\ cards \in [Runs -> Card]
    /\ states \in [Runs -> {"PENDING", "SUBMITTED", "COMPLETED"}]
    /\ pc \in [Procs -> Labels] /\ loc \in [Procs -> LocalRow]
    /\ made \in Nat /\ requests \in Nat /\ faults \in Nat
    /\ alone \in BOOLEAN /\ overtaken \subseteq Procs /\ returned \subseteq Runs

\* completeTaskWithRecurringAction: "a manager must approve before this run
\* counts as officially complete".  A run of a series that requires approval is
\* completed by a review, and by nothing else.
ApprovalRequired ==
    [][approval /\ approval' =>
          \A n \in Runs : states[n] # "COMPLETED" /\ states'[n] = "COMPLETED" =>
              \E p \in Procs : pc[p] = "review" /\ pc'[p] # "review" /\ loc[p].run = n]_vars

\* A decision is made on a run that is submitted: one that was approved, rejected
\* or completed in the meantime is reviewed again only by a request that had
\* already begun.
ReviewsOfSubmitted ==
    [][\A p \in Procs :
          pc[p] = "review" /\ pc'[p] # "review" =>
              states[loc[p].run] = "SUBMITTED" \/ p \in overtaken]_vars

\* A card that comes to Done has no item open that the request has seen open.
DoneWhenTicked ==
    [][\A n \in Runs :
          cards[n].column # DoneColumn /\ cards'[n].column = DoneColumn =>
              \E p \in Procs :
                  /\ pc'[p] # pc[p] /\ loc[p].run = n
                  /\ \/ Open(cards'[n].list) \cap Open(loc[p].card.list) = {}
                     \/ loc[p].card.column = DoneColumn]_vars

\* The ticked items of a card that are on it no more, or no longer ticked.
LostTicks(n) ==
    {x \in cards[n].list : x.done /\ ~\E y \in cards'[n].list : y.id = x.id /\ y.done}

Twins(x, list) == \E y \in list : y # x /\ y.title = x.title

\* Whoever edits the template, or the checklist of another run, takes no tick
\* from an item whose title the template keeps.  A tick is lost to a PATCH of
\* its own card, with the item that is deleted, when another request had read
\* the card before the tick was made, or when no step has the title any more:
\* a step renamed on one card is, for the others, a new one.
TicksKept ==
    [][\A n \in Runs : \A x \in LostTicks(n) :
          \E p \in Procs :
              LET l == loc[p] IN
              /\ pc'[p] # pc[p]
              /\ \/ pc[p] = "patch" /\ l.run = n
                 \/ pc[p] = "deleteItem" /\ l.item = x.id
                 \/ x \notin l.card.list
                 \/ pc[p] = "mirror" /\ (x.title \notin Named(l.after) \/ Twins(x, l.card.list))]_vars

\* syncTemplateChecklistFromTaskSubtasks: "mirror titles/times onto the planner
\* template and all PENDING runs so deletes/renames do not leave ghosts".  As long
\* as requests come one at a time, no run that has been pending all along has an
\* item whose title the template no longer has.
NoGhosts ==
    alone /\ Idle =>
        \A n \in Runs \ returned :
            states[n] = "PENDING" => Named(cards[n].list) \subseteq Named(steps)

-----------------------------------------------------------------------------
(* The inductive invariant behind them: what a request remembers of what it *)
(* has checked, the reviews that were overtaken, and the request on whose   *)
(* mirror a run with a ghost still waits.                                   *)

\* What a request at an await remembers.
Good(l, label) ==
    /\ label \in {"patch", "sync", "template", "write", "ensure", "clone", "deleteItem", "rule",
                  "move", "submit", "previous", "review"} => l.run \in Runs
    /\ label = "patch" => MayMove(l.card, l.list, l.column)
    /\ l.column # None => l.run \in Runs
    /\ label \in {"template", "write"} => l.list # None
    /\ label \in {"sync", "rule", "move"} => l.column # None
    /\ label \in {"readRun", "mirror"} => l.todo # {}
    /\ label \in {"move", "submit"} => Open(l.card.list) = {}
    /\ label \in {"move", "submit", "review"} => l.approval # None
    /\ label \in {"ensure", "clone"} => l.card.list = {}

Reviewing == \A p \in Procs :
    pc[p] = "review" => states[loc[p].run] = "SUBMITTED" \/ p \in overtaken

Single == \A p, q \in Procs : pc[p] # "idle" /\ pc[q] # "idle" => p = q

\* What a request that runs alone has read is still so.
Current(p) ==
    /\ pc[p] \in {"pending", "readRun", "mirror", "clone"} => loc[p].after = steps
    /\ pc[p] = "deleteItem" => loc[p].card.list = cards[loc[p].run].list

Awaited(n) == \E p \in Procs :
    \/ pc[p] \in {"template", "write", "reload", "pending"}
    \/ pc[p] \in {"readRun", "mirror"} /\ n \in loc[p].todo

Ghostless(n) == states[n] = "PENDING" => Named(cards[n].list) \subseteq Named(steps)

Mirrored == alone =>
    /\ Single
    /\ \A p \in Procs : Current(p)
    /\ \A n \in Runs \ returned : Ghostless(n) \/ Awaited(n)

IInv ==
    /\ TypeOK
    /\ \A p \in Procs : Good(loc[p], pc[p])
    /\ Reviewing /\ Mirrored
=============================================================================
