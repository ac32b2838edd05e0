---------------------------- MODULE MCRunReview -----------------------------
(* Small instances of RunReview for TLC. *)
EXTENDS RunReview, TLC

CONSTANTS a, b, c, doing

Keep == [names |-> [t \in Titles |-> t], taps |-> {}, adds |-> {}]

Step(id, t) == [id |-> id, title |-> t, done |-> FALSE]

TickFirst == [Keep EXCEPT !.taps = {a}]
TickAll   == [Keep EXCEPT !.taps = {a, b, c}]
Rename    == [Keep EXCEPT !.names = [Keep.names EXCEPT ![a] = c]]
Drop      == [Keep EXCEPT !.names = [Keep.names EXCEPT ![b] = None]]
Replace   == [names |-> [t \in Titles |-> IF t = b THEN b ELSE None], taps |-> {},
              adds |-> {Step(3, c)}]
Clear     == [Keep EXCEPT !.names = [t \in Titles |-> None]]

\* A card is moved, an item is ticked, renamed, dropped or added, or a list
\* comes with the move: a complete one, or an empty one.
MCPatches ==
    {[run |-> 2, edit |-> None, column |-> x] : x \in {doing, DoneColumn}}
    \cup {[run |-> 1, edit |-> e, column |-> None] : e \in {TickFirst, Rename, Replace}}
    \cup {[run |-> 1, edit |-> Clear, column |-> DoneColumn]}
    \cup {[run |-> 2, edit |-> TickAll, column |-> x] : x \in {None, DoneColumn}}

MCSeries == {[steps |-> {Step(1, a), Step(2, b)}, approval |-> TRUE]}

MCUpdates ==
    {[edit |-> None, approval |-> FALSE]}
    \cup {[edit |-> e, approval |-> None] : e \in {Rename, Drop}}

MCClosing == {None, DoneColumn}

Alike == Permutations(Procs)
=============================================================================
