----------------------------- MODULE Conversation -----------------------------
(***************************************************************************)
(* One call of the AI service: POST /v1/turn requests (routes.py) run the  *)
(* orchestrator (turn.py), which asks the model, passes its tool calls     *)
(* through the confirmation gate, runs them, and leaves what it learnt on  *)
(* the call row (persistence.py).  Every await is a step of its own, so    *)
(* requests that overlap on the call interleave as the event loop allows.  *)
(*                                                                         *)
(* The model (LLM) may answer anything.  A tool ends "ok", "refused" (a    *)
(* failure that will not change) or "unavailable" (a retryable one).       *)
(* Booking references are the spellings the model writes, upper-cased; the *)
(* tools strip noise from them, so two spellings can name one booking.     *)
(***************************************************************************)
EXTENDS Flow, Naturals, Sequences, FiniteSets

CONSTANTS
    Requests,           \* requests that may be in progress at once
    Bookings,
    Spellings,          \* the pnr strings the model writes, after upper()
    Names,              \* [Spellings -> Bookings], _normalise_identifier's effect
    NoPnr,              \* a tool call without a booking reference
    Vocabulary,         \* the tool names the model uses
    Articulate,         \* the model never ends a turn on empty text
    Supervised,         \* the call is also ended, or escalated, from outside its turns
    MaxIterations,      \* settings.max_tool_iterations
    MaxCalls,           \* bound: tool calls in one model response
    MaxTurns,           \* bound: requests that are made on the call
    MaxFaults           \* bound: requests cut off by an error or a dying process

ASSUME RequestsAssumption == IsFiniteSet(Requests)
ASSUME NamesAssumption == NoPnr \notin Spellings /\ Names \in [Spellings -> Bookings]
ASSUME ModelAssumption == Articulate \in BOOLEAN /\ Supervised \in BOOLEAN
ASSUME TurnLimitsAssumption ==
    /\ MaxIterations \in Nat \ {0} /\ MaxCalls \in Nat \ {0}
    /\ MaxTurns \in Nat /\ MaxFaults \in Nat

VARIABLES
    informed,       \* calls.metadata.informed_bookings
    flowState,      \* calls.metadata.flow_state
    callStatus,     \* calls.status
    ended,          \* calls.ended_at is set
    transcript,     \* the call's rows of conversations
    pc,             \* where each request is
    mine,           \* run_turn's informed set, per request
    current,        \* run_turn's current_state
    iteration,      \* run_turn's loop counter
    calls,          \* tool calls of the model's response still to handle
    acted,          \* executed_this_turn > 0
    escalates,      \* escalate_to_human succeeded in this turn
    reply,          \* "none", "text" or "fallback"
    index,          \* _persist's turn index
    turn,           \* which turn of the call the request is
    turns,          \* requests made so far
    faults,         \* faults so far
    surfaced,       \* history: spellings looked up in this turn
    lookedUp,       \* history: spellings looked up by turns that reached the row
    fresh,          \* history: bookings looked up since a change was last run on them
    heard           \* history: bookings looked up by a turn whose reply was given

row == <<informed, flowState, callStatus, ended>>
request == <<mine, current, iteration, calls, acted, escalates, reply, index, turn>>
history == <<surfaced, lookedUp, fresh, heard>>
bounds == <<turns, faults>>
vars == <<row, transcript, pc, request, history, bounds>>

CallStatus == {"IN_PROGRESS", "ESCALATED", "COMPLETED"}

Steps == {"idle", "loadInformed", "loadFlow", "ask", "handle", "final", "setInformed",
          "setFlow", "nextIndex", "customerRow", "agentRow", "updateCall"}

ToolCall == [tool : Vocabulary \cap TakesPnr, pnr : Spellings]
              \cup [tool : Vocabulary \ TakesPnr, pnr : {NoPnr}]

Responses == UNION {[1..n -> ToolCall] : n \in 1..MaxCalls}

Row == [index : Nat, speaker : {"CUSTOMER", "AGENT"}, turn : Nat]

TypeOK ==
    /\ informed \subseteq Spellings
    /\ flowState \in States \cup {NoState}
    /\ callStatus \in CallStatus /\ ended \in BOOLEAN
    /\ transcript \subseteq Row
    /\ pc \in [Requests -> Steps]
    /\ mine \in [Requests -> SUBSET Spellings]
    /\ current \in [Requests -> States]
    /\ iteration \in [Requests -> Nat]
    /\ calls \in [Requests -> Seq(ToolCall)]
    /\ \A r \in Requests : pc[r] = "handle" => calls[r] # <<>>
    /\ acted \in [Requests -> BOOLEAN]
    /\ escalates \in [Requests -> BOOLEAN]
    /\ reply \in [Requests -> {"none", "text", "fallback"}]
    /\ index \in [Requests -> Nat]
    /\ turn \in [Requests -> Nat]
    /\ turns \in Nat /\ faults \in Nat
    /\ surfaced \in [Requests -> SUBSET Spellings]
    /\ lookedUp \subseteq Spellings
    /\ fresh \subseteq Bookings
    /\ heard \subseteq Bookings

\* create_call: a call row with nothing on it.
Init ==
    /\ informed = {} /\ flowState = NoState /\ callStatus = "IN_PROGRESS"
    /\ ended = FALSE
    /\ transcript = {}
    /\ pc = [r \in Requests |-> "idle"]
    /\ mine = [r \in Requests |-> {}]
    /\ current = [r \in Requests |-> Initial]
    /\ iteration = [r \in Requests |-> 0]
    /\ calls = [r \in Requests |-> <<>>]
    /\ acted = [r \in Requests |-> FALSE]
    /\ escalates = [r \in Requests |-> FALSE]
    /\ reply = [r \in Requests |-> "none"]
    /\ index = [r \in Requests |-> 0]
    /\ turn = [r \in Requests |-> 0]
    /\ turns = 0 /\ faults = 0
    /\ surfaced = [r \in Requests |-> {}]
    /\ lookedUp = {} /\ fresh = {} /\ heard = {}

-----------------------------------------------------------------------------
Goto(r, step) == pc' = [pc EXCEPT ![r] = step]

\* A request that is over leaves nothing in memory.
Forget(r) ==
    /\ mine' = [mine EXCEPT ![r] = {}]
    /\ current' = [current EXCEPT ![r] = Initial]
    /\ iteration' = [iteration EXCEPT ![r] = 0]
    /\ calls' = [calls EXCEPT ![r] = <<>>]
    /\ acted' = [acted EXCEPT ![r] = FALSE]
    /\ escalates' = [escalates EXCEPT ![r] = FALSE]
    /\ reply' = [reply EXCEPT ![r] = "none"]
    /\ index' = [index EXCEPT ![r] = 0]
    /\ turn' = [turn EXCEPT ![r] = 0]
    /\ surfaced' = [surfaced EXCEPT ![r] = {}]

StartTurn(r) ==
    /\ pc[r] = "idle" /\ turns < MaxTurns
    /\ turns' = turns + 1
    /\ turn' = [turn EXCEPT ![r] = turns + 1]
    /\ Goto(r, "loadInformed")
    /\ UNCHANGED <<row, transcript, mine, current, iteration, calls, acted, escalates,
                   reply, index, history, faults>>

LoadInformed(r) ==
    /\ pc[r] = "loadInformed"
    /\ mine' = [mine EXCEPT ![r] = informed]
    /\ Goto(r, "loadFlow")
    /\ UNCHANGED <<row, transcript, current, iteration, calls, acted, escalates, reply,
                   index, turn, history, bounds>>

LoadFlow(r) ==
    /\ pc[r] = "loadFlow"
    /\ current' = [current EXCEPT ![r] = StartState(flowState)]
    /\ iteration' = [iteration EXCEPT ![r] = 1]
    /\ Goto(r, "ask")
    /\ UNCHANGED <<row, transcript, mine, calls, acted, escalates, reply, index, turn,
                   history, bounds>>

-----------------------------------------------------------------------------
(* The tool loop. *)

\* Mutated form: the loop's counter stands still.
NextPassForgotten(r) == Goto(r, "ask") /\ UNCHANGED iteration

\* The loop's next pass, or the end of the last one.
NextPass(r) ==
    IF iteration[r] < MaxIterations
      THEN /\ iteration' = [iteration EXCEPT ![r] = @ + 1]
           /\ Goto(r, "ask")
      ELSE Goto(r, "final") /\ UNCHANGED iteration

\* Withholding the tools on the last pass does not stop the model from naming them.
ModelWantsTools(r) ==
    /\ pc[r] = "ask"
    /\ \E response \in Responses : calls' = [calls EXCEPT ![r] = response]
    /\ Goto(r, "handle")
    /\ UNCHANGED <<row, transcript, mine, current, iteration, acted, escalates, reply,
                   index, turn, history, bounds>>

ModelAnswers(r) ==
    /\ pc[r] = "ask"
    /\ \/ /\ reply' = [reply EXCEPT ![r] = "text"]
          /\ Goto(r, "setInformed")
       \/ ~Articulate /\ Goto(r, "final") /\ UNCHANGED reply
    /\ UNCHANGED <<row, transcript, mine, current, iteration, calls, acted, escalates,
                   index, turn, history, bounds>>

\* Mutated form: condition 1 only, look up and cancel in one breath.
GateForgetsTurn(r, call) == call.tool \in Mutating => call.pnr \in mine[r]

\* Mutated form: condition 2 only, cancel what was never described.
GateForgetsBooking(r, call) == call.tool \in Mutating => ~acted[r]

\* The confirmation gate: nothing has run this turn, and the booking's details
\* were looked up before.
GateOpen(r, call) ==
    call.tool \in Mutating => ~acted[r] /\ call.pnr \in mine[r]

Blocked(r) ==
    /\ pc[r] = "handle" /\ ~GateOpen(r, Head(calls[r]))
    /\ calls' = [calls EXCEPT ![r] = Tail(@)]
    /\ IF Tail(calls[r]) = <<>> THEN NextPass(r) ELSE UNCHANGED <<pc, iteration>>
    /\ UNCHANGED <<row, transcript, mine, current, acted, escalates, reply, index, turn,
                   history, bounds>>

\* How registry.run can end.
Outcomes(tool) ==
    CASE tool = "escalate_to_human" -> {"ok", "refused"}
      [] tool \notin Tools -> {"refused"}
      [] OTHER -> {"ok", "refused", "unavailable"}

\* Mutated form: consent is not spent.
InformedKept(r, call, result) ==
    IF call.tool \in Surfacing /\ result = "ok" THEN mine[r] \cup {call.pnr} ELSE mine[r]

\* A successful lookup makes a booking confirmable; running a change spends that,
\* whether it was done, refused or handed to the queue.
Informed(r, call, result) ==
    IF call.tool \in Surfacing /\ result = "ok" THEN mine[r] \cup {call.pnr}
    ELSE IF call.tool \in Mutating THEN mine[r] \ {call.pnr}
    ELSE mine[r]

\* A change that was unavailable may have been queued (enqueue_retry); then the
\* flow stays where it is.
Moves(r, call, result) ==
    \/ current' = [current EXCEPT ![r] = NextState(@, call.tool, result = "ok")]
    \/ call.tool \in Mutating /\ result = "unavailable" /\ UNCHANGED current

\* Mutated form: the last tool decides.
LastToolEscalates(r, call, result) == call.tool = "escalate_to_human" /\ result = "ok"

\* any(... "escalate_to_human" and ok ...)
Escalates(r, call, result) ==
    escalates[r] \/ (call.tool = "escalate_to_human" /\ result = "ok")

RunTool(r) ==
    LET call == Head(calls[r])
    IN  /\ pc[r] = "handle" /\ GateOpen(r, call)
        /\ \E result \in Outcomes(call.tool) :
             /\ mine' = [mine EXCEPT ![r] = Informed(r, call, result)]
             /\ Moves(r, call, result)
             /\ escalates' = [escalates EXCEPT ![r] = Escalates(r, call, result)]
             /\ IF call.tool \in Surfacing /\ result = "ok"
                  THEN /\ surfaced' = [surfaced EXCEPT ![r] = @ \cup {call.pnr}]
                       /\ fresh' = fresh \cup {Names[call.pnr]}
                  ELSE /\ UNCHANGED surfaced
                       /\ fresh' = IF call.tool \in Mutating
                                     THEN fresh \ {Names[call.pnr]} ELSE fresh
        /\ acted' = [acted EXCEPT ![r] = TRUE]
        /\ calls' = [calls EXCEPT ![r] = Tail(@)]
        /\ IF Tail(calls[r]) = <<>> THEN NextPass(r) ELSE UNCHANGED <<pc, iteration>>
        /\ UNCHANGED <<row, transcript, reply, index, turn, lookedUp, heard, bounds>>

\* The last question, with no tools: its failure is swallowed.
FinalAnswer(r) ==
    /\ pc[r] = "final"
    /\ \/ reply' = [reply EXCEPT ![r] = "text"] /\ UNCHANGED faults
       \/ ~Articulate /\ reply' = [reply EXCEPT ![r] = "fallback"] /\ UNCHANGED faults
       \/ /\ faults < MaxFaults /\ faults' = faults + 1
          /\ reply' = [reply EXCEPT ![r] = "fallback"]
    /\ Goto(r, "setInformed")
    /\ UNCHANGED <<row, transcript, mine, current, iteration, calls, acted, escalates,
                   index, turn, history, turns>>

-----------------------------------------------------------------------------
(* _persist: six statements, each its own transaction. *)

SetInformed(r) ==
    /\ pc[r] = "setInformed"
    /\ informed' = mine[r]
    /\ lookedUp' = lookedUp \cup surfaced[r]
    /\ Goto(r, "setFlow")
    /\ UNCHANGED <<flowState, callStatus, ended, transcript, request, surfaced, fresh, heard,
                   bounds>>

SetFlow(r) ==
    /\ pc[r] = "setFlow"
    /\ flowState' = current[r]
    /\ Goto(r, "nextIndex")
    /\ UNCHANGED <<informed, callStatus, ended, transcript, request, history, bounds>>

\* coalesce(max(turn_index) + 1, 0)
FirstFree ==
    IF transcript = {} THEN 0
    ELSE 1 + (CHOOSE n \in {t.index : t \in transcript} :
                \A t \in transcript : t.index <= n)

\* Mutated form: max(turn_index), without the + 1.
NextTurnIndexOffByOne(r) ==
    /\ pc[r] = "nextIndex"
    /\ index' = [index EXCEPT ![r] = FirstFree - 1]
    /\ Goto(r, "customerRow")
    /\ UNCHANGED <<row, transcript, mine, current, iteration, calls, acted, escalates,
                   reply, turn, history, bounds>>

NextTurnIndex(r) ==
    /\ pc[r] = "nextIndex"
    /\ index' = [index EXCEPT ![r] = FirstFree]
    /\ Goto(r, "customerRow")
    /\ UNCHANGED <<row, transcript, mine, current, iteration, calls, acted, escalates,
                   reply, turn, history, bounds>>

Taken(i) == \E t \in transcript : t.index = i

\* Mutated form: the INSERT is ON CONFLICT DO NOTHING.
InsertIgnoring(r, i, speaker, next) ==
    /\ IF Taken(i) THEN UNCHANGED transcript
       ELSE transcript' = transcript \cup
                {[index |-> i, speaker |-> speaker, turn |-> turn[r]]}
    /\ Goto(r, next) /\ UNCHANGED <<request, surfaced>>

\* INSERT under UNIQUE (call_id, turn_index): a second one raises, and the
\* request ends in a 500.
Insert(r, i, speaker, next) ==
    IF Taken(i)
      THEN Goto(r, "idle") /\ Forget(r) /\ UNCHANGED transcript
      ELSE /\ transcript' = transcript \cup
                {[index |-> i, speaker |-> speaker, turn |-> turn[r]]}
           /\ Goto(r, next) /\ UNCHANGED <<request, surfaced>>

RecordCustomer(r) ==
    /\ pc[r] = "customerRow"
    /\ Insert(r, index[r], "CUSTOMER", "agentRow")
    /\ UNCHANGED <<row, lookedUp, fresh, heard, bounds>>

RecordAgent(r) ==
    /\ pc[r] = "agentRow"
    /\ Insert(r, index[r] + 1, "AGENT", "updateCall")
    /\ UNCHANGED <<row, lookedUp, fresh, heard, bounds>>

\* update_call, and the response: the customer hears the reply.
UpdateCall(r) ==
    /\ pc[r] = "updateCall"
    /\ callStatus' = IF escalates[r] THEN "ESCALATED" ELSE callStatus
    /\ heard' = IF reply[r] = "text" THEN heard \cup {Names[p] : p \in surfaced[r]}
                ELSE heard
    /\ Goto(r, "idle") /\ Forget(r)
    /\ UNCHANGED <<informed, flowState, ended, transcript, lookedUp, fresh, bounds>>

-----------------------------------------------------------------------------
\* The process dies, the database or the model's provider fails: whatever await
\* the request is in raises and nothing after it happens.
TurnFails(r) ==
    /\ pc[r] # "idle" /\ faults < MaxFaults
    /\ faults' = faults + 1
    /\ Goto(r, "idle") /\ Forget(r)
    /\ UNCHANGED <<row, transcript, lookedUp, fresh, heard, turns>>

\* Mutated form: end_call overwrites whatever the status is.
EndCallOverwrites ==
    /\ Supervised /\ ~ended /\ ended' = TRUE
    /\ callStatus' = "COMPLETED"
    /\ UNCHANGED <<informed, flowState, transcript, pc, request, history, bounds>>

\* POST /v1/calls/{id}/end, which takes effect once: an escalated call keeps its status.
EndCall ==
    /\ Supervised /\ ~ended /\ ended' = TRUE
    /\ callStatus' = IF callStatus = "ESCALATED" THEN callStatus ELSE "COMPLETED"
    /\ UNCHANGED <<informed, flowState, transcript, pc, request, history, bounds>>

\* POST /api/calls/:id/escalate, by an operator.
EscalateByHand ==
    /\ Supervised
    /\ callStatus' = "ESCALATED"
    /\ UNCHANGED <<ended, informed, flowState, transcript, pc, request, history, bounds>>

ToolStep(r) == Blocked(r) \/ RunTool(r)

PersistStep(r) ==
    \/ SetInformed(r) \/ SetFlow(r) \/ NextTurnIndex(r)
    \/ RecordCustomer(r) \/ RecordAgent(r) \/ UpdateCall(r)

TurnStep(r) ==
    \/ LoadInformed(r) \/ LoadFlow(r)
    \/ ModelWantsTools(r) \/ ModelAnswers(r) \/ ToolStep(r) \/ FinalAnswer(r)
    \/ PersistStep(r)

Next ==
    \/ \E r \in Requests : StartTurn(r) \/ TurnStep(r) \/ TurnFails(r)
    \/ EndCall \/ EscalateByHand

Spec == Init /\ [][Next]_vars

(***************************************************************************)
(* Fairness: a request that was accepted is a coroutine that runs on.  The *)
(* model answers (its client has a timeout), but what it answers is free.  *)
(***************************************************************************)
FairSpec == Spec /\ \A r \in Requests : WF_vars(TurnStep(r))
-----------------------------------------------------------------------------
(* Safety. *)

RunsChange(r) == RunTool(r) /\ Head(calls[r]).tool \in Mutating

\* The gate's point (ADR 0004): whatever the model asks for, however requests
\* overlap or break off, a change runs only on a reference that an earlier turn of
\* the call looked up with success, never one looked up in the same breath.
ChangeWasLookedUp ==
    [][\A r \in Requests : RunsChange(r) => Head(calls[r]).pnr \in lookedUp]_vars

\* ADR 0004, condition 1: the details "have been read back to the customer on an
\* earlier turn": the customer was given the reply of a turn that looked them up.
HeardBeforeChange ==
    [][\A r \in Requests :
         RunsChange(r) => Names[Head(calls[r]).pnr] \in heard]_vars

\* ADR 0004: "Consent is spent on use ... a second change requires a fresh lookup":
\* between two changes to a booking there is a lookup of it.
ConsentSpentOnUse ==
    [][\A r \in Requests :
         RunsChange(r) => Names[Head(calls[r]).pnr] \in fresh]_vars

\* docs/flows.md: "the servicing tools must not become reachable for a booking the
\* system could not find": no turn, and no stored position, is beyond `identify`
\* unless a lookup of the call succeeded.
Beyond == {"servicing", "choosing_flight", "resolved"}

ServicingIsEarned ==
    /\ flowState \in Beyond => lookedUp # {}
    /\ \A r \in Requests : current[r] \in Beyond => lookedUp \cup surfaced[r] # {}

\* Requests that overlap or break off may lose rows, but what the call's history
\* replays is in order: no index is skipped, and every agent row stands right
\* after the customer row of its own turn.
HistoryInOrder ==
    \A t \in transcript :
      /\ t.index > 0 => Taken(t.index - 1)
      /\ t.speaker = "AGENT" =>
           \E q \in transcript :
             q.index + 1 = t.index /\ q.turn = t.turn /\ q.speaker = "CUSTOMER"

\* An escalated call stays escalated, whoever ends it or talks on (persistence.py:140).
EscalationIsKept ==
    [][callStatus = "ESCALATED" => callStatus' = "ESCALATED"]_vars

-----------------------------------------------------------------------------
(* Liveness. *)

\* turn.py:9-11: the loop is bounded, so a model that keeps asking for tools is
\* made to answer and every turn ends.
EveryTurnEnds == \A r \in Requests : pc[r] # "idle" ~> pc[r] = "idle"

\* servicing.yaml:100, "A human is taking over": a call whose flow says so is
\* escalated for the people who look at calls.
EscalationReachesTheCall == flowState = "escalated" ~> callStatus = "ESCALATED"
=============================================================================
