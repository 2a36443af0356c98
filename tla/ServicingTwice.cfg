\* One cancellation whose first try is still running when its job tries again.
CONSTANTS
    b1 = b1  f1 = f1  f2 = f2  cancel1 = cancel1  move1 = move1
    Bookings = {b1}
    Refundable = {b1}
    Flights = {f1, f2}
    FlightOf <- MCFlightOf
    RouteOf <- MCRouteOf
    Grounded = {}
    Intents = {cancel1}
    BookingOf <- MCBookingOf
    WantedOf <- MCWantedOf
    OpOf <- MCOpOf
    Requests = {q1, q2}
    NoRequest = NoRequest
    ChaosKinds = {"hang"}
    Horizon = 3
    MaxFaults = 0
    MaxAttempts = 2
    Patient = FALSE
    OnlyDeadLetters = TRUE
    MaxCrashes = 0
    MaxRequeues = 0
SPECIFICATION Spec
INVARIANTS CarriedOutOnce
CHECK_DEADLOCK FALSE
