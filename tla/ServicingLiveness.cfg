\* One move, with everything that can go wrong on the way, to its end.
CONSTANTS
    b1 = b1  f1 = f1  f2 = f2  cancel1 = cancel1  move1 = move1
    Bookings = {b1}
    Refundable = {b1}
    Flights = {f1, f2}
    FlightOf <- MCFlightOf
    RouteOf <- MCRouteOf
    Grounded = {}
    Intents = {move1}
    BookingOf <- MCBookingOf
    WantedOf <- MCWantedOf
    OpOf <- MCOpOf
    Requests = {q1, q2}
    NoRequest = NoRequest
    ChaosKinds = {"SERVICE_UNAVAILABLE", "MALFORMED", "hang"}
    Horizon = 1
    MaxFaults = 1
    MaxAttempts = 2
    Patient = TRUE
    OnlyDeadLetters = TRUE
    MaxCrashes = 1
    MaxRequeues = 1
SPECIFICATION FairSpec
PROPERTIES EveryIntentEnds KeepsContract
CHECK_DEADLOCK FALSE
