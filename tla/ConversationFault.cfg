\* The model's provider fails after a change has run.
CONSTANTS
    b1 = b1  p1 = p1  p2 = p2
    NoState = NoState
    Requests = {r1}
    Bookings = {b1}
    Spellings = {p1}
    Names <- MCNames
    NoPnr = NoPnr
    Vocabulary = {"get_booking", "cancel_booking"}
    Articulate = TRUE
    Supervised = FALSE
    MaxIterations = 2
    MaxCalls = 1
    MaxTurns = 3
    MaxFaults = 1
SPECIFICATION Spec
PROPERTIES ConsentSpentOnUse
CHECK_DEADLOCK FALSE
