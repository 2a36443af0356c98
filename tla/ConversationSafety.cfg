\* Two requests at a time on one call, a fault anywhere, a model that says anything.
CONSTANTS
    b1 = b1  p1 = p1  p2 = p2
    NoState = NoState
    Requests = {r1, r2}
    Bookings = {b1}
    Spellings = {p1}
    Names <- MCNames
    NoPnr = NoPnr
    Vocabulary = {"get_booking", "cancel_booking"}
    Articulate = FALSE
    Supervised = FALSE
    MaxIterations = 2
    MaxCalls = 1
    MaxTurns = 3
    MaxFaults = 1
SYMMETRY RequestSymmetry
SPECIFICATION Spec
INVARIANTS TypeOK ServicingIsEarned HistoryInOrder
PROPERTIES ChangeWasLookedUp
CHECK_DEADLOCK FALSE
