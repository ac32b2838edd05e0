SPECIFICATION Spec
CONSTANTS
    None = None
    People = {ann, bob}
    Procs = {p, q}
    SeatLimit = 2
    MaxInvites = 2
    MaxJoins = 3
    MaxFaults = 1
SYMMETRY PeopleSymmetry
INVARIANTS TypeOK SeatsPerPerson
PROPERTIES SettledStaysSettled
