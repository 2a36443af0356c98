\* One request at a time, no faults, one spelling per booking, replies that are spoken:
\* every tool, two calls in a response.
CONSTANTS
    b1 = b1  p1 = p1  p2 = p2
    NoState = NoState
    Requests = {r1}
    Bookings = {b1}
    Spellings = {p1}
    Names <- MCNames
    NoPnr = NoPnr
    Vocabulary = {"get_booking", "cancel_booking", "get_reschedule_options",
                  "reschedule_booking", "escalate_to_human", "check_flight_status", "no_such_tool"}
    Articulate = TRUE
    Supervised = TRUE
    MaxIterations = 2
    MaxCalls = 2
    MaxTurns = 3
    MaxFaults = 0
SPECIFICATION FairSpec
PROPERTIES HeardBeforeChange ConsentSpentOnUse EscalationIsKept
           EveryTurnEnds EscalationReachesTheCall
CHECK_DEADLOCK FALSE
