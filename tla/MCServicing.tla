------------------------------ MODULE MCServicing ------------------------------
(* Small instances of Servicing for TLC. *)
EXTENDS Servicing, TLC

CONSTANTS b1, f1, f2, cancel1, move1

\* One booking on f1, and f2 on the same route.
MCFlightOf == [b \in Bookings |-> f1]
MCRouteOf == [f \in Flights |-> "DEL-BOM"]

\* The customer asks to move the booking, and to cancel it.
MCBookingOf == [i \in Intents |-> b1]
MCOpOf == [i \in Intents |-> IF i = cancel1 THEN "cancel" ELSE "reschedule"]
MCWantedOf == [i \in Intents |-> f2]

RequestSymmetry == Permutations(Requests)
=============================================================================
