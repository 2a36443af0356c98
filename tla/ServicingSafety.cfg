\* A cancellation and a move of one booking at once, with chaos, a fault, a crash and
\* departures that come closer; handlers finish before their callers lose patience, and an
\* operator may retry a job however it ended.
CONSTANTS
    b1 = b1  f1 = f1  f2 = f2  cancel1 = cancel1  move1 = move1
    Bookings = {b1}
    Refundable = {b1}
    Flights = {f1, f2}
    FlightOf <- MCFlightOf
    RouteOf <- MCRouteOf
    Grounded = {}
    Intents = {cancel1, move1}
    BookingOf <- MCBookingOf
    WantedOf <- MCWantedOf
    OpOf <- MCOpOf
    Requests = {q1, q2}
    NoRequest = NoRequest
    ChaosKinds = {"MALFORMED", "hang"}
    Horizon = 1
    MaxFaults = 1
    MaxAttempts = 1
    Patient = TRUE
    OnlyDeadLetters = FALSE
    MaxCrashes = 1
    MaxRequeues = 1
SYMMETRY RequestSymmetry
SPECIFICATION Spec
INVARIANTS TypeOK CarriedOutOnce RefundsMatch ConfirmedIsCarriedOut
PROPERTIES CancelledIsFinal
CHECK_DEADLOCK FALSE
