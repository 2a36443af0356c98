--------------------------------- MODULE Flow ---------------------------------
(***************************************************************************)
(* The servicing flow of services/ai/flows/servicing.yaml and the operators*)
(* of services/ai/app/flows/schema.py that read it.  A flow narrows what   *)
(* the model is offered in each state and moves on what a tool did.        *)
(***************************************************************************)
CONSTANT NoState        \* a call row without a flow position

States == {"identify", "servicing", "choosing_flight", "resolved", "escalated"}

Initial == "identify"

\* The registered tools of tools/flight.py.
Tools == {"check_flight_status", "check_airport_weather", "check_aircraft_position",
          "get_booking", "cancel_booking", "get_reschedule_options",
          "reschedule_booking", "check_refund_status", "escalate_to_human"}

Mutating == {"cancel_booking", "reschedule_booking"}

\* turn.py's _SURFACING_TOOLS.
Surfacing == {"get_booking", "get_reschedule_options"}

\* Tools that take a booking reference.
TakesPnr == Mutating \cup Surfacing \cup {"check_refund_status"}

Offered(s) ==
    CASE s = "identify" ->
           {"check_flight_status", "check_airport_weather",
            "check_aircraft_position", "get_booking", "escalate_to_human"}
      [] s = "servicing" ->
           {"get_booking", "cancel_booking", "get_reschedule_options",
            "check_refund_status", "check_flight_status", "escalate_to_human"}
      [] s = "choosing_flight" ->
           {"get_reschedule_options", "reschedule_booking", "get_booking",
            "escalate_to_human"}
      [] s = "resolved" ->
           {"get_booking", "check_flight_status", "check_refund_status",
            "check_airport_weather", "escalate_to_human"}
      [] s = "escalated" -> {}

Arrow(from, tool, ok, to) == [from |-> from, tool |-> tool, ok |-> ok, to |-> to]

Transitions ==
    { Arrow("identify", "get_booking", TRUE, "servicing"),
      Arrow("identify", "get_booking", FALSE, "identify"),
      Arrow("servicing", "get_reschedule_options", TRUE, "choosing_flight"),
      Arrow("servicing", "cancel_booking", TRUE, "resolved"),
      Arrow("choosing_flight", "reschedule_booking", TRUE, "resolved"),
      Arrow("choosing_flight", "reschedule_booking", FALSE, "servicing") }
      \cup { Arrow(s, "escalate_to_human", TRUE, "escalated")
               : s \in States \ {"escalated"} }

\* Flow._check_references, and the registry check at startup.
FlowLoads ==
    /\ Initial \in States
    /\ \A t \in Transitions : t.to \in States /\ t.tool \in Offered(t.from)
    /\ \A s \in States : Offered(s) \subseteq Tools

ASSUME NoStateAssumption == NoState \notin States
ASSUME FlowAssumption == FlowLoads

\* run_turn's starting state: an unknown position falls back to the initial one.
StartState(s) == IF s \in States THEN s ELSE Initial

\* Mutated form: the transition's `on` is ignored.
NextStateAnyResult(s, tool, ok) ==
    IF \E t \in Transitions : t.from = s /\ t.tool = tool
      THEN (CHOOSE t \in Transitions : t.from = s /\ t.tool = tool /\ t.ok).to
      ELSE s

\* Flow.next_state, with "stay put" for None.
NextState(s, tool, ok) ==
    IF \E t \in Transitions : t.from = s /\ t.tool = tool /\ t.ok = ok
      THEN (CHOOSE t \in Transitions : t.from = s /\ t.tool = tool /\ t.ok = ok).to
      ELSE s
=============================================================================
