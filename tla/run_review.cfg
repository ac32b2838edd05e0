SPECIFICATION Spec
CONSTANTS
    None = None
    a = a
    b = b
    c = c
    doing = doing
    Titles = {a, b, c}
    Columns = {todo, doing, done}
    FirstColumn = todo
    DoneColumn = done
    Known = 3
    Series <- MCSeries
    Patches <- MCPatches
    Updates <- MCUpdates
    Closing <- MCClosing
    MaxRuns = 2
    MaxItems = 2
    Procs = {p, q}
    MaxRequests = 3
    MaxFaults = 1
SYMMETRY Alike
INVARIANTS TypeOK NoGhosts
PROPERTIES ReviewsOfSubmitted DoneWhenTicked TicksKept
