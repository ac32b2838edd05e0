---------------------------- MODULE SeriesLedger ----------------------------
(* What the planner promises of a recurring series, with no process, cron   *)
(* job, card or cursor: from the day a series begins, its runs get their    *)
(* rows one by one, in the order of their sequence numbers and on the dates *)
(* of the rule.  The first run is the card the series was made from and     *)
(* comes on its own.  A row may be deleted, and what was recorded once may  *)
(* be recorded again, but the ledger of what was recorded never skips.      *)
EXTENDS Naturals

CONSTANTS
    Series,       \* ids of series
    Days,         \* the days a series may begin on
    DueOf,        \* the schedule of the rule, by start date and sequence
    MaxSeq,       \* bound: sequence numbers
    Ids,          \* ids of rows
    None

VARIABLES
    start,        \* the day each series began, None before
    runs,         \* the rows: [id, tpl, seq, due]
    ledger        \* the runs <<series, sequence>> that ever had a row

lvars == <<start, runs, ledger>>

Init ==
    /\ start = [s \in Series |-> None]
    /\ runs = {} /\ ledger = {}

Begin ==
    /\ \E s \in Series, d \in Days :
          start[s] = None /\ start' = [start EXCEPT ![s] = d]
    /\ UNCHANGED <<runs, ledger>>

\* Run n gets a row: none is there, and those between the first and it are in.
Record(s, n) ==
    /\ start[s] # None
    /\ \A r \in runs : r.tpl = s => r.seq # n
    /\ \A k \in 2..n - 1 : <<s, k>> \in ledger
    /\ \E i \in Ids :
          runs' = runs \cup {[id |-> i, tpl |-> s, seq |-> n, due |-> DueOf[start[s]][n]]}
    /\ ledger' = ledger \cup {<<s, n>>}
    /\ UNCHANGED start

Remove ==
    /\ runs' \subseteq runs
    /\ UNCHANGED <<start, ledger>>

Next == Begin \/ Remove \/ \E s \in Series, n \in 1..MaxSeq : Record(s, n)

Spec == Init /\ [][Next]_lvars
=============================================================================
