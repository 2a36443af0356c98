-------------------------- MODULE ConversationProofs ---------------------------
(***************************************************************************)
(* Proofs about Conversation, for any number of overlapping requests, any  *)
(* model, any faults: its types, that the history is in order, that a      *)
(* change runs only on a reference looked up by an earlier turn, and that  *)
(* the servicing states are earned by a lookup; that every step of a turn  *)
(* leaves less of it; and, for one faultless turn at a time, that consent  *)
(* is spent on use, a change is heard of and an escalation not mislaid.    *)
(***************************************************************************)
EXTENDS Conversation, TLAPS

-----------------------------------------------------------------------------
(* The flow. *)

LEMMA TransitionFacts ==
    \A t \in Transitions :
      /\ t.to \in States
      /\ t.to \in Beyond => t.from \in Beyond \/ (t.tool = "get_booking" /\ t.ok = TRUE)
BY DEF Transitions, Arrow, States, Beyond

LEMMA NextStateFacts ==
    ASSUME NEW s \in States, NEW tool, NEW ok \in BOOLEAN
    PROVE  /\ NextState(s, tool, ok) \in States
           /\ NextState(s, tool, ok) \in Beyond
                => s \in Beyond \/ (tool = "get_booking" /\ ok)
<1> DEFINE P(t) == t.from = s /\ t.tool = tool /\ t.ok = ok
<1>1. CASE \E t \in Transitions : P(t)
  <2> DEFINE c == CHOOSE t \in Transitions : P(t)
  <2>1. c \in Transitions /\ P(c)
    BY <1>1
  <2>2. NextState(s, tool, ok) = c.to
    BY <1>1 DEF NextState
  <2> QED BY <2>1, <2>2, TransitionFacts
<1>2. CASE ~ \E t \in Transitions : P(t)
  BY <1>2 DEF NextState
<1> QED BY <1>1, <1>2

LEMMA FoundOnly ==
    ASSUME NEW s \in States, NEW tool
    PROVE  /\ NextState(s, tool, TRUE) \in Beyond => s \in Beyond \/ tool = "get_booking"
           /\ NextState(s, tool, FALSE) \in Beyond => s \in Beyond
<1>1. NextState(s, tool, TRUE) \in Beyond => s \in Beyond \/ tool = "get_booking"
  BY NextStateFacts
<1>2. NextState(s, tool, FALSE) \in Beyond => s \in Beyond
  BY NextStateFacts
<1> QED BY <1>1, <1>2

LEMMA StartStateFacts ==
    ASSUME NEW s \in States \cup {NoState}
    PROVE  /\ StartState(s) \in States
           /\ StartState(s) \in Beyond => s \in Beyond
BY DEF StartState, Initial, States, Beyond

-----------------------------------------------------------------------------
(* The transcript: indexes 0 .. n-1, each once. *)

Counted(n) == \A i \in Nat : Taken(i) <=> i < n

Contiguous == \E n \in Nat : Counted(n)

\* Where a request that is about to insert stands.
IndexKept ==
    \A r \in Requests :
      /\ pc[r] = "customerRow" => index[r] = 0 \/ Taken(index[r] - 1)
      /\ pc[r] = "agentRow" =>
           [index |-> index[r], speaker |-> "CUSTOMER", turn |-> turn[r]] \in transcript

HistoryInv == Contiguous /\ IndexKept /\ HistoryInOrder

LEMMA FirstFreeFacts ==
    ASSUME transcript \subseteq Row, NEW n \in Nat, Counted(n)
    PROVE  FirstFree = n
<1> DEFINE I == {t.index : t \in transcript}
           IsTop(m) == \A t \in transcript : t.index <= m
<1>1. \A t \in transcript : t.index \in Nat /\ t.index < n
  BY DEF Counted, Taken, Row
<1>2. CASE n = 0
  <2>1. transcript = {}
    BY <1>1, <1>2
  <2> QED BY <1>2, <2>1 DEF FirstFree
<1>3. CASE n # 0
  <2>1. n - 1 \in I
    BY <1>3 DEF Counted, Taken
  <2>2. IsTop(n - 1)
    BY <1>1
  <2>3. \A m \in I : IsTop(m) => m = n - 1
    BY <1>1, <2>1
  <2> DEFINE top == CHOOSE m \in I : IsTop(m)
  <2>4. top = n - 1
    BY <2>1, <2>2, <2>3
  <2>5. transcript # {}
    BY <2>1
  <2>6. FirstFree = 1 + top
    BY <2>5 DEF FirstFree
  <2> HIDE DEF top
  <2> QED BY <2>4, <2>6
<1> QED BY <1>2, <1>3

-----------------------------------------------------------------------------
(* The inductive invariant. *)

\* What the gate rests on: nothing is in a request's informed set, or on the row,
\* that was not looked up; and as long as a turn has run no tool it has looked
\* nothing up itself.
GateInv ==
    /\ informed \subseteq lookedUp
    /\ \A r \in Requests :
         /\ mine[r] \subseteq lookedUp \cup surfaced[r]
         /\ ~acted[r] => surfaced[r] = {}
         /\ pc[r] = "setFlow" => surfaced[r] \subseteq lookedUp

IInv == TypeOK /\ HistoryInv /\ GateInv /\ ServicingIsEarned

LEMMA InitIInv == Init => IInv
<1> SUFFICES ASSUME Init PROVE IInv
  OBVIOUS
<1>1. TypeOK
  <2>1. /\ informed \subseteq Spellings /\ flowState \in States \cup {NoState}
        /\ callStatus \in CallStatus /\ ended \in BOOLEAN /\ transcript \subseteq Row
        /\ turns \in Nat /\ faults \in Nat
        /\ lookedUp \subseteq Spellings /\ fresh \subseteq Bookings /\ heard \subseteq Bookings
    BY DEF Init, CallStatus
  <2>2. /\ pc \in [Requests -> Steps] /\ \A r \in Requests : pc[r] # "handle"
        /\ current \in [Requests -> States]
    BY DEF Init, Steps, States, Initial
  <2>3. /\ mine \in [Requests -> SUBSET Spellings] /\ iteration \in [Requests -> Nat]
        /\ acted \in [Requests -> BOOLEAN] /\ escalates \in [Requests -> BOOLEAN]
        /\ reply \in [Requests -> {"none", "text", "fallback"}]
        /\ index \in [Requests -> Nat] /\ turn \in [Requests -> Nat]
        /\ surfaced \in [Requests -> SUBSET Spellings]
    BY DEF Init
  <2>4. calls \in [Requests -> Seq(ToolCall)]
    BY DEF Init
  <2> QED BY <2>1, <2>2, <2>3, <2>4 DEF TypeOK
<1>2. HistoryInv
  <2>1. Counted(0)
    BY DEF Init, Counted, Taken
  <2> QED BY <2>1 DEF Init, HistoryInv, Contiguous, IndexKept, HistoryInOrder
<1>3. GateInv
  BY DEF Init, GateInv
<1>4. ServicingIsEarned
  BY NoStateAssumption DEF Init, ServicingIsEarned, Beyond, States, Initial
<1> QED BY <1>1, <1>2, <1>3, <1>4 DEF IInv

-----------------------------------------------------------------------------
(* The pieces several actions share. *)

LEMMA ForgetType ==
    ASSUME TypeOK, NEW r \in Requests, Forget(r)
    PROVE  /\ mine' \in [Requests -> SUBSET Spellings]
           /\ current' \in [Requests -> States]
           /\ iteration' \in [Requests -> Nat]
           /\ calls' \in [Requests -> Seq(ToolCall)]
           /\ \A q \in Requests : q # r => calls'[q] = calls[q]
           /\ acted' \in [Requests -> BOOLEAN]
           /\ escalates' \in [Requests -> BOOLEAN]
           /\ reply' \in [Requests -> {"none", "text", "fallback"}]
           /\ index' \in [Requests -> Nat]
           /\ turn' \in [Requests -> Nat]
           /\ surfaced' \in [Requests -> SUBSET Spellings]
BY DEF TypeOK, Forget, Initial, States

LEMMA NextPassType ==
    ASSUME TypeOK, NEW r \in Requests, NextPass(r)
    PROVE  /\ pc' \in [Requests -> Steps]
           /\ pc'[r] \in {"ask", "final"}
           /\ \A q \in Requests : q # r => pc'[q] = pc[q]
           /\ iteration' \in [Requests -> Nat]
<1>1. pc \in [Requests -> Steps] /\ iteration \in [Requests -> Nat]
  BY DEF TypeOK
<1>2. CASE iteration[r] < MaxIterations
  BY <1>1, <1>2 DEF NextPass, Goto, Steps
<1>3. CASE ~(iteration[r] < MaxIterations)
  BY <1>1, <1>3 DEF NextPass, Goto, Steps
<1> QED BY <1>2, <1>3

\* Taking a call off the response, and what follows.
LEMMA CallHandledType ==
    ASSUME TypeOK, NEW r \in Requests, pc[r] = "handle",
           calls' = [calls EXCEPT ![r] = Tail(@)],
           IF Tail(calls[r]) = <<>> THEN NextPass(r) ELSE UNCHANGED <<pc, iteration>>
    PROVE  /\ Head(calls[r]) \in ToolCall
           /\ calls' \in [Requests -> Seq(ToolCall)]
           /\ pc' \in [Requests -> Steps]
           /\ pc'[r] \in {"ask", "final", "handle"}
           /\ \A q \in Requests : q # r => pc'[q] = pc[q]
           /\ iteration' \in [Requests -> Nat]
           /\ \A q \in Requests : pc'[q] = "handle" => calls'[q] # <<>>
<1>1. calls[r] \in Seq(ToolCall) /\ calls[r] # <<>>
  BY DEF TypeOK
<1>2. Head(calls[r]) \in ToolCall /\ Tail(calls[r]) \in Seq(ToolCall)
  BY <1>1
<1>3. /\ calls' \in [Requests -> Seq(ToolCall)]
      /\ calls'[r] = Tail(calls[r])
      /\ \A q \in Requests : q # r => calls'[q] = calls[q]
  BY <1>2 DEF TypeOK
<1>4. CASE Tail(calls[r]) = <<>>
  BY <1>2, <1>3, <1>4, NextPassType DEF TypeOK
<1>5. CASE Tail(calls[r]) # <<>>
  BY <1>2, <1>3, <1>5 DEF TypeOK
<1> QED BY <1>4, <1>5

LEMMA ToolCallFacts ==
    ASSUME NEW call \in ToolCall
    PROVE  call.tool \in TakesPnr => call.pnr \in Spellings
BY DEF ToolCall

LEMMA InsertType ==
    ASSUME TypeOK, NEW r \in Requests, NEW i \in Nat,
           NEW speaker \in {"CUSTOMER", "AGENT"}, NEW next \in Steps \ {"handle"},
           Insert(r, i, speaker, next)
    PROVE  /\ transcript' \subseteq Row
           /\ pc' \in [Requests -> Steps]
           /\ pc'[r] # "handle"
           /\ \A q \in Requests : q # r => pc'[q] = pc[q]
           /\ \/ Forget(r) /\ pc'[r] = "idle" /\ Taken(i) /\ UNCHANGED transcript
              \/ /\ UNCHANGED <<request, surfaced>> /\ pc'[r] = next /\ ~Taken(i)
                 /\ transcript' = transcript \cup
                      {[index |-> i, speaker |-> speaker, turn |-> turn[r]]}
<1>1. /\ transcript \subseteq Row /\ pc \in [Requests -> Steps] /\ turn[r] \in Nat
      /\ "idle" \in Steps
  BY DEF TypeOK, Steps
<1>2. CASE Taken(i)
  BY <1>1, <1>2 DEF Insert, Goto
<1>3. CASE ~Taken(i)
  <2>1. [index |-> i, speaker |-> speaker, turn |-> turn[r]] \in Row
    BY <1>1 DEF Row
  <2> QED BY <1>1, <1>3, <2>1 DEF Insert, Goto
<1> QED BY <1>2, <1>3

-----------------------------------------------------------------------------
(* Types. *)

LEMMA RunToolType ==
    ASSUME TypeOK, NEW r \in Requests, RunTool(r)
    PROVE  TypeOK'
<1> DEFINE call == Head(calls[r])
<1>1. PICK result \in Outcomes(call.tool) :
        /\ mine' = [mine EXCEPT ![r] = Informed(r, call, result)]
        /\ Moves(r, call, result)
        /\ escalates' = [escalates EXCEPT ![r] = Escalates(r, call, result)]
        /\ IF call.tool \in Surfacing /\ result = "ok"
             THEN /\ surfaced' = [surfaced EXCEPT ![r] = @ \cup {call.pnr}]
                  /\ fresh' = fresh \cup {Names[call.pnr]}
             ELSE /\ UNCHANGED surfaced
                  /\ fresh' = IF call.tool \in Mutating
                                THEN fresh \ {Names[call.pnr]} ELSE fresh
  BY DEF RunTool
<1>2. pc[r] = "handle" /\ calls' = [calls EXCEPT ![r] = Tail(@)]
      /\ (IF Tail(calls[r]) = <<>> THEN NextPass(r) ELSE UNCHANGED <<pc, iteration>>)
  BY DEF RunTool
<1>3. call \in ToolCall /\ (call.tool \in TakesPnr => call.pnr \in Spellings)
  BY <1>2, CallHandledType, ToolCallFacts
<1> HIDE DEF call
<1>4. Informed(r, call, result) \in SUBSET Spellings
  BY <1>3 DEF TypeOK, Informed, TakesPnr
<1>5. mine' \in [Requests -> SUBSET Spellings]
  BY <1>1, <1>4 DEF TypeOK
<1>6. current' \in [Requests -> States]
  <2>1. current[r] \in States /\ (result = "ok") \in BOOLEAN
    BY DEF TypeOK
  <2>2. NextState(current[r], call.tool, result = "ok") \in States
    BY <2>1, NextStateFacts
  <2> QED BY <1>1, <2>2 DEF TypeOK, Moves
<1>7. escalates' \in [Requests -> BOOLEAN]
  BY <1>1 DEF TypeOK, Escalates
<1>8. surfaced' \in [Requests -> SUBSET Spellings] /\ fresh' \subseteq Bookings
  <2>1. surfaced \in [Requests -> SUBSET Spellings] /\ fresh \subseteq Bookings
    BY DEF TypeOK
  <2>2. CASE call.tool \in Surfacing /\ result = "ok"
    <3>1. call.pnr \in Spellings /\ Names[call.pnr] \in Bookings
      BY <1>3, <2>2, NamesAssumption DEF TakesPnr
    <3>2. surfaced[r] \cup {call.pnr} \in SUBSET Spellings
      BY <2>1, <3>1
    <3>3. surfaced' = [surfaced EXCEPT ![r] = surfaced[r] \cup {call.pnr}]
      BY <1>1, <2>2
    <3> QED BY <1>1, <2>1, <2>2, <3>1, <3>2, <3>3
  <2>3. CASE ~(call.tool \in Surfacing /\ result = "ok")
    BY <1>1, <2>1, <2>3
  <2> QED BY <2>2, <2>3
<1>9. acted' \in [Requests -> BOOLEAN]
  BY DEF TypeOK, RunTool
<1>10. UNCHANGED <<row, transcript, reply, index, turn, lookedUp, heard, bounds>>
  BY DEF RunTool
<1> QED
  BY <1>2, <1>5, <1>6, <1>7, <1>8, <1>9, <1>10, CallHandledType
     DEF TypeOK, row, bounds

LEMMA TypeStep ==
    ASSUME TypeOK, Contiguous, [Next]_vars
    PROVE  TypeOK'
<1>1. CASE UNCHANGED vars
  BY <1>1 DEF TypeOK, vars, row, request, history, bounds
<1>2. ASSUME NEW r \in Requests, StartTurn(r) PROVE TypeOK'
  BY <1>2 DEF TypeOK, StartTurn, Goto, Steps, row, history
<1>3. ASSUME NEW r \in Requests, LoadInformed(r) PROVE TypeOK'
  BY <1>3 DEF TypeOK, LoadInformed, Goto, Steps, row, history, bounds
<1>4. ASSUME NEW r \in Requests, LoadFlow(r) PROVE TypeOK'
  BY <1>4, StartStateFacts DEF TypeOK, LoadFlow, Goto, Steps, row, history, bounds
<1>5. ASSUME NEW r \in Requests, ModelWantsTools(r) PROVE TypeOK'
  <2>1. PICK response \in Responses : calls' = [calls EXCEPT ![r] = response]
    BY <1>5 DEF ModelWantsTools
  <2>2. response \in Seq(ToolCall) /\ response # <<>>
    <3>1. PICK n \in 1..MaxCalls : response \in [1..n -> ToolCall]
      BY DEF Responses
    <3>2. n \in Nat /\ n >= 1
      BY TurnLimitsAssumption
    <3> QED BY <3>1, <3>2
  <2>3. pc' = [pc EXCEPT ![r] = "handle"]
    BY <1>5 DEF ModelWantsTools, Goto
  <2>4. /\ calls' \in [Requests -> Seq(ToolCall)]
        /\ pc' \in [Requests -> Steps]
        /\ \A q \in Requests : pc'[q] = "handle" => calls'[q] # <<>>
    BY <2>1, <2>2, <2>3 DEF TypeOK, Steps
  <2> QED BY <1>5, <2>4 DEF TypeOK, ModelWantsTools, row, history, bounds
<1>6. ASSUME NEW r \in Requests, ModelAnswers(r) PROVE TypeOK'
  BY <1>6 DEF TypeOK, ModelAnswers, Goto, Steps, row, history, bounds
<1>7. ASSUME NEW r \in Requests, Blocked(r) PROVE TypeOK'
  <2>1. /\ pc[r] = "handle" /\ calls' = [calls EXCEPT ![r] = Tail(@)]
        /\ IF Tail(calls[r]) = <<>> THEN NextPass(r) ELSE UNCHANGED <<pc, iteration>>
        /\ UNCHANGED <<row, transcript, mine, current, acted, escalates, reply, index,
                       turn, history, bounds>>
    BY <1>7 DEF Blocked
  <2> QED BY <2>1, CallHandledType DEF TypeOK, row, history, bounds
<1>8. ASSUME NEW r \in Requests, RunTool(r) PROVE TypeOK'
  BY <1>8, RunToolType
<1>9. ASSUME NEW r \in Requests, FinalAnswer(r) PROVE TypeOK'
  <2>1. reply' \in [Requests -> {"none", "text", "fallback"}] /\ faults' \in Nat
    <3>1. \/ reply' = [reply EXCEPT ![r] = "text"]
          \/ reply' = [reply EXCEPT ![r] = "fallback"]
      BY <1>9 DEF FinalAnswer
    <3>2. faults' = faults \/ faults' = faults + 1
      BY <1>9 DEF FinalAnswer
    <3>3. reply \in [Requests -> {"none", "text", "fallback"}] /\ faults \in Nat
      BY DEF TypeOK
    <3> QED BY <3>1, <3>2, <3>3
  <2>2. pc' = [pc EXCEPT ![r] = "setInformed"]
    BY <1>9 DEF FinalAnswer, Goto
  <2>3. UNCHANGED <<row, transcript, mine, current, iteration, calls, acted, escalates,
                   index, turn, history, turns>>
    BY <1>9 DEF FinalAnswer
  <2> QED BY <2>1, <2>2, <2>3 DEF TypeOK, Steps, row, history
<1>10. ASSUME NEW r \in Requests, SetInformed(r) PROVE TypeOK'
  BY <1>10 DEF TypeOK, SetInformed, Goto, Steps, request, bounds
<1>11. ASSUME NEW r \in Requests, SetFlow(r) PROVE TypeOK'
  BY <1>11 DEF TypeOK, SetFlow, Goto, Steps, request, history, bounds
<1>12. ASSUME NEW r \in Requests, NextTurnIndex(r) PROVE TypeOK'
  <2>1. FirstFree \in Nat
    BY FirstFreeFacts DEF TypeOK, Contiguous
  <2> QED BY <1>12, <2>1 DEF TypeOK, NextTurnIndex, Goto, Steps, row, history, bounds
<1>13. ASSUME NEW r \in Requests, RecordCustomer(r) \/ RecordAgent(r) PROVE TypeOK'
  <2>1. index[r] \in Nat /\ index[r] + 1 \in Nat
    BY DEF TypeOK
  <2>2. PICK i \in Nat, speaker \in {"CUSTOMER", "AGENT"}, next \in Steps \ {"handle"} :
          Insert(r, i, speaker, next)
    BY <1>13, <2>1 DEF RecordCustomer, RecordAgent, Steps
  <2>3. UNCHANGED <<row, lookedUp, fresh, heard, bounds>>
    BY <1>13 DEF RecordCustomer, RecordAgent
  <2>4. /\ transcript' \subseteq Row /\ pc' \in [Requests -> Steps]
        /\ \A q \in Requests : q # r => pc'[q] = pc[q]
        /\ pc'[r] # "handle"
        /\ Forget(r) \/ UNCHANGED <<request, surfaced>>
    BY <2>2, InsertType
  <2>5. CASE Forget(r)
    BY <2>3, <2>4, <2>5, ForgetType DEF TypeOK, row, bounds
  <2>6. CASE UNCHANGED <<request, surfaced>>
    BY <2>3, <2>4, <2>6 DEF TypeOK, row, bounds, request
  <2> QED BY <2>4, <2>5, <2>6
<1>14. ASSUME NEW r \in Requests, UpdateCall(r) PROVE TypeOK'
  <2>1. /\ callStatus' \in CallStatus
        /\ pc' = [pc EXCEPT ![r] = "idle"]
        /\ heard' \subseteq Bookings
        /\ UNCHANGED <<informed, flowState, ended, transcript, lookedUp, fresh, bounds>>
    BY <1>14, NamesAssumption DEF UpdateCall, TypeOK, CallStatus, Goto
  <2>2. Forget(r)
    BY <1>14 DEF UpdateCall
  <2> QED BY <2>1, <2>2, ForgetType DEF TypeOK, Steps, bounds
<1>15. ASSUME NEW r \in Requests, TurnFails(r) PROVE TypeOK'
  <2>1. /\ pc' = [pc EXCEPT ![r] = "idle"] /\ faults' \in Nat
        /\ UNCHANGED <<row, transcript, lookedUp, fresh, heard, turns>>
    BY <1>15 DEF TurnFails, TypeOK, Goto
  <2>2. Forget(r)
    BY <1>15 DEF TurnFails
  <2> QED BY <2>1, <2>2, ForgetType DEF TypeOK, Steps, row
<1>16. CASE EndCall \/ EscalateByHand
  BY <1>16 DEF TypeOK, EndCall, EscalateByHand, CallStatus, request, history, bounds
<1> QED
  BY <1>1, <1>2, <1>3, <1>4, <1>5, <1>6, <1>7, <1>8, <1>9, <1>10, <1>11, <1>12, <1>13,
     <1>14, <1>15, <1>16
     DEF Next, TurnStep, ToolStep, PersistStep

-----------------------------------------------------------------------------
(* The history. *)

\* A step that writes no row keeps every claim about rows.
LEMMA InsertHistory ==
    ASSUME TypeOK, HistoryInv, NEW r \in Requests, NEW i \in Nat,
           NEW speaker \in {"CUSTOMER", "AGENT"}, ~Taken(i),
           i = 0 \/ Taken(i - 1),
           speaker = "AGENT" =>
             \E q \in transcript :
               q.index + 1 = i /\ q.turn = turn[r] /\ q.speaker = "CUSTOMER",
           transcript' = transcript \cup
             {[index |-> i, speaker |-> speaker, turn |-> turn[r]]}
    PROVE  /\ Contiguous' /\ HistoryInOrder'
           /\ \A k \in Nat : Taken(k) => Taken(k)'
<1> DEFINE new == [index |-> i, speaker |-> speaker, turn |-> turn[r]]
<1>1. PICK n \in Nat : Counted(n)
  BY DEF HistoryInv, Contiguous
<1>2. i = n
  BY <1>1 DEF Counted
<1>3. \A k : Taken(k)' <=> Taken(k) \/ k = i
  <2>1. new.index = i /\ transcript' = transcript \cup {new}
    OBVIOUS
  <2> HIDE DEF new
  <2> QED BY <2>1 DEF Taken
<1>4. Counted(n + 1)'
  BY <1>1, <1>2, <1>3 DEF Counted
<1>5. Contiguous'
  BY <1>4 DEF Contiguous
<1>6. ASSUME NEW t \in transcript'
      PROVE  /\ t.index > 0 => Taken(t.index - 1)'
             /\ t.speaker = "AGENT" =>
                  \E q \in transcript' :
                    q.index + 1 = t.index /\ q.turn = t.turn /\ q.speaker = "CUSTOMER"
  <2>1. CASE t \in transcript
    BY <1>3, <2>1 DEF HistoryInv, HistoryInOrder
  <2>2. CASE t = new
    BY <1>3, <2>2
  <2> QED BY <1>6, <2>1, <2>2
<1>7. HistoryInOrder'
  BY <1>6 DEF HistoryInOrder
<1> QED BY <1>3, <1>5, <1>7

\* A step that leaves the transcript alone and puts no request before an INSERT.
LEMMA QuietHistory ==
    ASSUME TypeOK, HistoryInv, UNCHANGED transcript,
           \A q \in Requests :
             pc'[q] \in {"customerRow", "agentRow"} =>
               pc'[q] = pc[q] /\ index'[q] = index[q] /\ turn'[q] = turn[q]
    PROVE  HistoryInv'
<1>1. Contiguous' /\ HistoryInOrder'
  BY DEF HistoryInv, Contiguous, Counted, Taken, HistoryInOrder
<1>2. IndexKept'
  BY DEF HistoryInv, IndexKept, Taken
<1> QED BY <1>1, <1>2 DEF HistoryInv

LEMMA HistoryStep ==
    ASSUME TypeOK, HistoryInv, [Next]_vars
    PROVE  HistoryInv'
<1> DEFINE Quiet ==
      /\ UNCHANGED transcript
      /\ \A q \in Requests :
           pc'[q] \in {"customerRow", "agentRow"} =>
             pc'[q] = pc[q] /\ index'[q] = index[q] /\ turn'[q] = turn[q]
<1>1. CASE UNCHANGED vars
  <2> Quiet
    BY <1>1 DEF vars, request
  <2> QED BY QuietHistory
<1>2. ASSUME NEW r \in Requests,
             \/ StartTurn(r) \/ LoadInformed(r) \/ LoadFlow(r) \/ ModelWantsTools(r)
             \/ ModelAnswers(r) \/ FinalAnswer(r) \/ SetInformed(r) \/ SetFlow(r)
      PROVE  HistoryInv'
  <2>1. /\ UNCHANGED transcript /\ UNCHANGED index
        /\ \A q \in Requests : q # r => turn'[q] = turn[q]
    BY <1>2 DEF TypeOK, StartTurn, LoadInformed, LoadFlow, ModelWantsTools, ModelAnswers,
         FinalAnswer, SetInformed, SetFlow, request
  <2>2. \E step \in Steps \ {"customerRow", "agentRow"} : pc' = [pc EXCEPT ![r] = step]
    BY <1>2 DEF StartTurn, LoadInformed, LoadFlow, ModelWantsTools, ModelAnswers,
         FinalAnswer, SetInformed, SetFlow, Goto, Steps
  <2>3. Quiet
    BY <2>1, <2>2 DEF TypeOK
  <2> QED BY <2>3, QuietHistory
<1>3. ASSUME NEW r \in Requests, Blocked(r) \/ RunTool(r) PROVE HistoryInv'
  <2>1. /\ UNCHANGED <<transcript, index, turn>>
        /\ pc[r] = "handle" /\ calls' = [calls EXCEPT ![r] = Tail(@)]
        /\ IF Tail(calls[r]) = <<>> THEN NextPass(r) ELSE UNCHANGED <<pc, iteration>>
    BY <1>3 DEF Blocked, RunTool
  <2>2. pc'[r] \in {"ask", "final", "handle"} /\ \A q \in Requests : q # r => pc'[q] = pc[q]
    BY <2>1, CallHandledType
  <2>3. Quiet
    BY <2>1, <2>2
  <2> QED BY <2>3, QuietHistory
<1>4. ASSUME NEW r \in Requests, NextTurnIndex(r) PROVE HistoryInv'
  <2>1. PICK n \in Nat : Counted(n)
    BY DEF HistoryInv, Contiguous
  <2>2. FirstFree = n
    BY <2>1, FirstFreeFacts DEF TypeOK
  <2>3. n = 0 \/ Taken(n - 1)
    BY <2>1 DEF Counted
  <2>4. /\ UNCHANGED <<transcript, turn>> /\ index' = [index EXCEPT ![r] = n]
        /\ pc' = [pc EXCEPT ![r] = "customerRow"]
    BY <1>4, <2>2 DEF NextTurnIndex, Goto
  <2>5. Contiguous' /\ HistoryInOrder'
    BY <2>4 DEF HistoryInv, Contiguous, Counted, Taken, HistoryInOrder
  <2>6. IndexKept'
    BY <2>3, <2>4 DEF TypeOK, HistoryInv, IndexKept, Taken
  <2> QED BY <2>5, <2>6 DEF HistoryInv
<1>5. ASSUME NEW r \in Requests, RecordCustomer(r) PROVE HistoryInv'
  <2>1. index[r] \in Nat /\ pc[r] = "customerRow"
        /\ Insert(r, index[r], "CUSTOMER", "agentRow")
    BY <1>5 DEF TypeOK, RecordCustomer
  <2>2. \A q \in Requests : q # r => pc'[q] = pc[q]
    BY <2>1, InsertType DEF Steps
  <2>3. CASE Forget(r) /\ pc'[r] = "idle" /\ UNCHANGED transcript
    <3>1. Quiet
      BY <2>2, <2>3 DEF TypeOK, Forget
    <3> QED BY <3>1, QuietHistory
  <2>4. CASE /\ UNCHANGED <<request, surfaced>> /\ pc'[r] = "agentRow" /\ ~Taken(index[r])
             /\ transcript' = transcript \cup
                  {[index |-> index[r], speaker |-> "CUSTOMER", turn |-> turn[r]]}
    <3>1. index[r] = 0 \/ Taken(index[r] - 1)
      BY <2>1 DEF HistoryInv, IndexKept
    <3>2. /\ Contiguous' /\ HistoryInOrder'
          /\ \A k \in Nat : Taken(k) => Taken(k)'
      BY <2>1, <2>4, <3>1, InsertHistory
    <3>3. IndexKept'
      <4> SUFFICES ASSUME NEW q \in Requests
                   PROVE  ( /\ pc[q] = "customerRow" => index[q] = 0 \/ Taken(index[q] - 1)
                            /\ pc[q] = "agentRow" =>
                                 [index |-> index[q], speaker |-> "CUSTOMER",
                                  turn |-> turn[q]] \in transcript )'
        BY DEF IndexKept
      <4>1. index'[q] = index[q] /\ turn'[q] = turn[q] /\ index[q] \in Nat
        BY <2>4 DEF request, TypeOK
      <4>2. CASE q = r
        BY <2>4, <4>1, <4>2
      <4>3. CASE q # r
        <5>1. pc'[q] = pc[q]
          BY <2>2, <4>3
        <5> QED BY <2>4, <3>2, <4>1, <5>1 DEF HistoryInv, IndexKept
      <4> QED BY <4>2, <4>3
    <3> QED BY <3>2, <3>3 DEF HistoryInv
  <2> QED BY <2>1, <2>3, <2>4, InsertType DEF Steps
<1>6. ASSUME NEW r \in Requests, RecordAgent(r) PROVE HistoryInv'
  <2>1. index[r] \in Nat /\ index[r] + 1 \in Nat /\ pc[r] = "agentRow"
        /\ Insert(r, index[r] + 1, "AGENT", "updateCall")
    BY <1>6 DEF TypeOK, RecordAgent
  <2>2. \A q \in Requests : q # r => pc'[q] = pc[q]
    BY <2>1, InsertType DEF Steps
  <2>3. CASE Forget(r) /\ pc'[r] = "idle" /\ UNCHANGED transcript
    <3>1. Quiet
      BY <2>2, <2>3 DEF TypeOK, Forget
    <3> QED BY <3>1, QuietHistory
  <2>4. CASE /\ UNCHANGED <<request, surfaced>> /\ pc'[r] = "updateCall"
             /\ ~Taken(index[r] + 1)
             /\ transcript' = transcript \cup
                  {[index |-> index[r] + 1, speaker |-> "AGENT", turn |-> turn[r]]}
    <3> DEFINE asked == [index |-> index[r], speaker |-> "CUSTOMER", turn |-> turn[r]]
    <3>1. asked \in transcript
      BY <2>1 DEF HistoryInv, IndexKept
    <3>2. Taken((index[r] + 1) - 1)
      BY <2>1, <3>1 DEF Taken
    <3>3. \E q \in transcript :
            q.index + 1 = index[r] + 1 /\ q.turn = turn[r] /\ q.speaker = "CUSTOMER"
      BY <3>1
    <3>4. /\ Contiguous' /\ HistoryInOrder'
          /\ \A k \in Nat : Taken(k) => Taken(k)'
      BY <2>1, <2>4, <3>2, <3>3, InsertHistory
    <3>5. IndexKept'
      <4> SUFFICES ASSUME NEW q \in Requests
                   PROVE  ( /\ pc[q] = "customerRow" => index[q] = 0 \/ Taken(index[q] - 1)
                            /\ pc[q] = "agentRow" =>
                                 [index |-> index[q], speaker |-> "CUSTOMER",
                                  turn |-> turn[q]] \in transcript )'
        BY DEF IndexKept
      <4>1. index'[q] = index[q] /\ turn'[q] = turn[q] /\ index[q] \in Nat
        BY <2>4 DEF request, TypeOK
      <4>2. CASE q = r
        BY <2>4, <4>2
      <4>3. CASE q # r
        <5>1. pc'[q] = pc[q]
          BY <2>2, <4>3
        <5> QED BY <2>4, <3>4, <4>1, <5>1 DEF HistoryInv, IndexKept
      <4> QED BY <4>2, <4>3
    <3> QED BY <3>4, <3>5 DEF HistoryInv
  <2> QED BY <2>1, <2>3, <2>4, InsertType DEF Steps
<1>7. ASSUME NEW r \in Requests, UpdateCall(r) \/ TurnFails(r) PROVE HistoryInv'
  <2>1. UNCHANGED transcript /\ pc' = [pc EXCEPT ![r] = "idle"] /\ Forget(r)
    BY <1>7 DEF UpdateCall, TurnFails, Goto
  <2>2. Quiet
    BY <2>1 DEF TypeOK, Forget
  <2> QED BY <2>2, QuietHistory
<1>8. CASE EndCall \/ EscalateByHand
  <2> Quiet
    BY <1>8 DEF EndCall, EscalateByHand, request
  <2> QED BY QuietHistory
<1> QED
  BY <1>1, <1>2, <1>3, <1>4, <1>5, <1>6, <1>7, <1>8 DEF Next, TurnStep, ToolStep, PersistStep

-----------------------------------------------------------------------------
(* The gate and the flow. *)

\* What running a tool does to what a request has looked up.
LEMMA RunToolFacts ==
    ASSUME TypeOK, NEW r \in Requests, RunTool(r)
    PROVE  /\ mine'[r] \ mine[r] \subseteq surfaced'[r]
           /\ surfaced[r] \subseteq surfaced'[r]
           /\ acted'[r] = TRUE
           /\ pc'[r] \in {"ask", "final", "handle"}
           /\ current'[r] \in Beyond => current[r] \in Beyond \/ surfaced'[r] # {}
           /\ \A q \in Requests : q # r =>
                /\ mine'[q] = mine[q] /\ surfaced'[q] = surfaced[q]
                /\ acted'[q] = acted[q] /\ pc'[q] = pc[q] /\ current'[q] = current[q]
<1> DEFINE call == Head(calls[r])
<1>1. PICK result \in Outcomes(call.tool) :
        /\ mine' = [mine EXCEPT ![r] = Informed(r, call, result)]
        /\ Moves(r, call, result)
        /\ IF call.tool \in Surfacing /\ result = "ok"
             THEN surfaced' = [surfaced EXCEPT ![r] = @ \cup {call.pnr}]
             ELSE UNCHANGED surfaced
  BY DEF RunTool
<1>2. /\ pc[r] = "handle" /\ calls' = [calls EXCEPT ![r] = Tail(@)]
      /\ IF Tail(calls[r]) = <<>> THEN NextPass(r) ELSE UNCHANGED <<pc, iteration>>
      /\ acted' = [acted EXCEPT ![r] = TRUE]
  BY DEF RunTool
<1>3. pc'[r] \in {"ask", "final", "handle"} /\ \A q \in Requests : q # r => pc'[q] = pc[q]
  BY <1>2, CallHandledType
<1> HIDE DEF call
<1>4. /\ mine'[r] = Informed(r, call, result)
      /\ \A q \in Requests : q # r => mine'[q] = mine[q] /\ acted'[q] = acted[q]
      /\ acted'[r] = TRUE
  BY <1>1, <1>2 DEF TypeOK
<1>5. /\ surfaced[r] \subseteq surfaced'[r]
      /\ call.tool \in Surfacing /\ result = "ok" => call.pnr \in surfaced'[r]
      /\ \A q \in Requests : q # r => surfaced'[q] = surfaced[q]
  BY <1>1 DEF TypeOK
<1>6. mine'[r] \ mine[r] \subseteq surfaced'[r]
  BY <1>4, <1>5 DEF Informed
<1>7. /\ current'[r] \in Beyond => current[r] \in Beyond \/ surfaced'[r] # {}
      /\ \A q \in Requests : q # r => current'[q] = current[q]
  <2>1. CASE UNCHANGED current
    BY <2>1
  <2>2. CASE current' = [current EXCEPT ![r] = NextState(@, call.tool, result = "ok")]
    <3>1. current[r] \in States
      BY DEF TypeOK
    <3>2. current'[r] = NextState(current[r], call.tool, result = "ok")
      BY <2>2 DEF TypeOK
    <3>3. current'[r] \in Beyond =>
            current[r] \in Beyond \/ (call.tool = "get_booking" /\ result = "ok")
      <4>1. CASE result = "ok"
        <5>1. current'[r] = NextState(current[r], call.tool, TRUE)
          BY <3>2, <4>1
        <5>2. NextState(current[r], call.tool, TRUE) \in Beyond
                => current[r] \in Beyond \/ call.tool = "get_booking"
          BY <3>1, FoundOnly
        <5> QED BY <4>1, <5>1, <5>2
      <4>2. CASE result # "ok"
        <5>1. current'[r] = NextState(current[r], call.tool, FALSE)
          BY <3>2, <4>2
        <5>2. NextState(current[r], call.tool, FALSE) \in Beyond => current[r] \in Beyond
          BY <3>1, FoundOnly
        <5> QED BY <5>1, <5>2
      <4> QED BY <4>1, <4>2
    <3>4. call.tool = "get_booking" => call.tool \in Surfacing
      BY DEF Surfacing
    <3>5. \A q \in Requests : q # r => current'[q] = current[q]
      BY <2>2 DEF TypeOK
    <3>6. call.tool = "get_booking" /\ result = "ok" => call.pnr \in surfaced'[r]
      BY <1>5, <3>4
    <3>7. current'[r] \in Beyond => current[r] \in Beyond \/ surfaced'[r] # {}
      BY <3>3, <3>6
    <3> QED BY <3>5, <3>7
  <2> QED BY <1>1, <2>1, <2>2 DEF Moves
<1> QED BY <1>3, <1>4, <1>5, <1>6, <1>7

LEMMA GateStep ==
    ASSUME TypeOK, GateInv, [Next]_vars
    PROVE  GateInv'
<1>1. CASE UNCHANGED vars
  BY <1>1 DEF GateInv, vars, row, request, history
<1>2. ASSUME NEW r \in Requests,
             \/ StartTurn(r) \/ LoadFlow(r) \/ ModelWantsTools(r) \/ ModelAnswers(r)
             \/ FinalAnswer(r) \/ SetFlow(r) \/ NextTurnIndex(r)
      PROVE  GateInv'
  <2>1. UNCHANGED <<informed, lookedUp, mine, surfaced, acted>>
    BY <1>2 DEF StartTurn, LoadFlow, ModelWantsTools, ModelAnswers, FinalAnswer, SetFlow,
         NextTurnIndex, row, request, history
  <2>2. \E step \in Steps \ {"setFlow"} : pc' = [pc EXCEPT ![r] = step]
    BY <1>2 DEF StartTurn, LoadFlow, ModelWantsTools, ModelAnswers, FinalAnswer, SetFlow,
         NextTurnIndex, Goto, Steps
  <2> QED BY <2>1, <2>2 DEF TypeOK, GateInv
<1>3. ASSUME NEW r \in Requests, LoadInformed(r) PROVE GateInv'
  BY <1>3 DEF TypeOK, GateInv, LoadInformed, Goto, row, history
<1>4. ASSUME NEW r \in Requests, Blocked(r) PROVE GateInv'
  <2>1. /\ UNCHANGED <<informed, lookedUp, mine, surfaced, acted>>
        /\ pc[r] = "handle" /\ calls' = [calls EXCEPT ![r] = Tail(@)]
        /\ IF Tail(calls[r]) = <<>> THEN NextPass(r) ELSE UNCHANGED <<pc, iteration>>
    BY <1>4 DEF Blocked, row, history
  <2>2. pc'[r] # "setFlow" /\ \A q \in Requests : q # r => pc'[q] = pc[q]
    BY <2>1, CallHandledType
  <2> QED BY <2>1, <2>2 DEF GateInv
<1>5. ASSUME NEW r \in Requests, RunTool(r) PROVE GateInv'
  <2>1. UNCHANGED <<informed, lookedUp>>
    BY <1>5 DEF RunTool, row
  <2> QED BY <1>5, <2>1, RunToolFacts DEF GateInv
<1>6. ASSUME NEW r \in Requests, SetInformed(r) PROVE GateInv'
  <2>1. /\ informed' = mine[r] /\ lookedUp' = lookedUp \cup surfaced[r]
        /\ pc' = [pc EXCEPT ![r] = "setFlow"]
        /\ UNCHANGED <<mine, surfaced, acted>>
    BY <1>6 DEF SetInformed, Goto, request
  <2> QED BY <2>1 DEF TypeOK, GateInv
<1>7. ASSUME NEW r \in Requests, RecordCustomer(r) \/ RecordAgent(r) PROVE GateInv'
  <2>1. PICK i \in Nat, speaker \in {"CUSTOMER", "AGENT"},
             next \in {"agentRow", "updateCall"} : Insert(r, i, speaker, next)
    BY <1>7 DEF TypeOK, RecordCustomer, RecordAgent
  <2>2. /\ \A q \in Requests : q # r => pc'[q] = pc[q]
        /\ pc'[r] # "setFlow"
        /\ Forget(r) \/ UNCHANGED <<request, surfaced>>
    BY <2>1, InsertType DEF Steps
  <2>3. UNCHANGED <<informed, lookedUp>>
    BY <1>7 DEF RecordCustomer, RecordAgent, row
  <2>4. CASE Forget(r)
    BY <2>2, <2>3, <2>4 DEF TypeOK, GateInv, Forget
  <2>5. CASE UNCHANGED <<request, surfaced>>
    BY <2>2, <2>3, <2>5 DEF GateInv, request
  <2> QED BY <2>2, <2>4, <2>5
<1>8. ASSUME NEW r \in Requests, UpdateCall(r) \/ TurnFails(r) PROVE GateInv'
  <2>1. /\ UNCHANGED <<informed, lookedUp>> /\ Forget(r)
        /\ pc' = [pc EXCEPT ![r] = "idle"]
    BY <1>8 DEF UpdateCall, TurnFails, Goto, row
  <2> QED BY <2>1 DEF TypeOK, GateInv, Forget
<1>9. CASE EndCall \/ EscalateByHand
  BY <1>9 DEF GateInv, EndCall, EscalateByHand, request, history
<1> QED
  BY <1>1, <1>2, <1>3, <1>4, <1>5, <1>6, <1>7, <1>8, <1>9
     DEF Next, TurnStep, ToolStep, PersistStep

LEMMA EarnedStep ==
    ASSUME TypeOK, GateInv, ServicingIsEarned, [Next]_vars
    PROVE  ServicingIsEarned'
<1>0. Initial \notin Beyond
  BY DEF Initial, Beyond
<1>1. CASE UNCHANGED vars
  BY <1>1 DEF ServicingIsEarned, vars, row, request, history
<1>2. ASSUME NEW r \in Requests,
             \/ StartTurn(r) \/ LoadInformed(r) \/ ModelWantsTools(r) \/ ModelAnswers(r)
             \/ FinalAnswer(r) \/ NextTurnIndex(r) \/ Blocked(r)
      PROVE  ServicingIsEarned'
  <2>1. UNCHANGED <<flowState, lookedUp, current, surfaced>>
    BY <1>2 DEF StartTurn, LoadInformed, ModelWantsTools, ModelAnswers, FinalAnswer,
         NextTurnIndex, Blocked, row, history
  <2> QED BY <2>1 DEF ServicingIsEarned
<1>3. ASSUME NEW r \in Requests, LoadFlow(r) PROVE ServicingIsEarned'
  <2>1. /\ current' = [current EXCEPT ![r] = StartState(flowState)]
        /\ UNCHANGED <<flowState, lookedUp, surfaced>>
    BY <1>3 DEF LoadFlow, row, history
  <2>2. StartState(flowState) \in Beyond => lookedUp # {}
    BY StartStateFacts DEF TypeOK, ServicingIsEarned
  <2> QED BY <2>1, <2>2 DEF TypeOK, ServicingIsEarned
<1>4. ASSUME NEW r \in Requests, RunTool(r) PROVE ServicingIsEarned'
  <2>1. UNCHANGED <<flowState, lookedUp>>
    BY <1>4 DEF RunTool, row
  <2> QED BY <1>4, <2>1, RunToolFacts DEF ServicingIsEarned
<1>5. ASSUME NEW r \in Requests, SetInformed(r) PROVE ServicingIsEarned'
  BY <1>5 DEF ServicingIsEarned, SetInformed, request
<1>6. ASSUME NEW r \in Requests, SetFlow(r) PROVE ServicingIsEarned'
  <2>1. /\ flowState' = current[r] /\ pc[r] = "setFlow"
        /\ UNCHANGED <<lookedUp, current, surfaced>>
    BY <1>6 DEF SetFlow, request, history
  <2>2. surfaced[r] \subseteq lookedUp
    BY <2>1 DEF GateInv
  <2> QED BY <2>1, <2>2 DEF ServicingIsEarned
<1>7. ASSUME NEW r \in Requests,
             RecordCustomer(r) \/ RecordAgent(r) \/ UpdateCall(r) \/ TurnFails(r)
      PROVE  ServicingIsEarned'
  <2>1. /\ UNCHANGED <<flowState, lookedUp>>
        /\ Forget(r) \/ UNCHANGED <<request, surfaced>>
    BY <1>7 DEF RecordCustomer, RecordAgent, UpdateCall, TurnFails, Insert, row
  <2>2. CASE Forget(r)
    BY <1>0, <2>1, <2>2 DEF TypeOK, ServicingIsEarned, Forget
  <2>3. CASE UNCHANGED <<request, surfaced>>
    BY <2>1, <2>3 DEF ServicingIsEarned, request
  <2> QED BY <2>1, <2>2, <2>3
<1>8. CASE EndCall \/ EscalateByHand
  BY <1>8 DEF ServicingIsEarned, EndCall, EscalateByHand, request, history
<1> QED
  BY <1>1, <1>2, <1>3, <1>4, <1>5, <1>6, <1>7, <1>8
     DEF Next, TurnStep, ToolStep, PersistStep

LEMMA StepIInv == IInv /\ [Next]_vars => IInv'
BY TypeStep, HistoryStep, GateStep, EarnedStep DEF IInv, HistoryInv

LEMMA Invariance == Spec => []IInv
<1> QED BY InitIInv, StepIInv, PTL DEF Spec

\* Every state of a call is well-typed, whatever overlaps or fails.
THEOREM TypeCorrect == Spec => []TypeOK
<1>1. IInv => TypeOK
  BY DEF IInv
<1> QED BY <1>1, Invariance, PTL

\* The rows of a call are numbered without a gap and every agent row stands after
\* its own customer row (persistence.py's next_turn_index and the UNIQUE constraint).
THEOREM HistoryStaysInOrder == Spec => []HistoryInOrder
<1>1. IInv => HistoryInOrder
  BY DEF IInv, HistoryInv
<1> QED BY <1>1, Invariance, PTL

\* No failed lookup opens the servicing tools (docs/flows.md).
THEOREM ServicingStaysEarned == Spec => []ServicingIsEarned
<1>1. IInv => ServicingIsEarned
  BY DEF IInv
<1> QED BY <1>1, Invariance, PTL

\* The confirmation gate of turn.py: a change runs only on a reference that an
\* earlier turn of the call looked up with success.
THEOREM GateHolds == Spec => ChangeWasLookedUp
<1>1. ASSUME IInv, [Next]_vars, NEW r \in Requests, RunsChange(r)
      PROVE  Head(calls[r]).pnr \in lookedUp
  <2>1. Head(calls[r]).pnr \in mine[r] /\ ~acted[r]
    BY <1>1 DEF RunsChange, RunTool, GateOpen
  <2> QED BY <1>1, <2>1 DEF IInv, GateInv
<1>2. IInv /\ [Next]_vars =>
        [\A r \in Requests : RunsChange(r) => Head(calls[r]).pnr \in lookedUp]_vars
  BY <1>1
<1> QED BY <1>2, Invariance, PTL DEF Spec, ChangeWasLookedUp

-----------------------------------------------------------------------------
(* Consent, under what ADR 0004 takes for granted. *)

\* A client sends its next turn when it has the answer to the last, nothing fails, and the
\* model spells a booking in one way.
OneAtATime == \A q, r \in Requests : q = r
NothingFails == MaxFaults = 0
OneSpelling == \A p, q \in Spellings : Names[p] = Names[q] => p = q

\* Where a turn works on its own copy of the informed set.
Working == {"loadFlow", "ask", "handle", "final", "setInformed"}

\* What may be changed now has been looked up since it was last changed.
FreshInv ==
    \A r \in Requests :
      \A p \in IF pc[r] \in Working THEN mine[r] ELSE informed : Names[p] \in fresh

LEMMA RunToolSpends ==
    ASSUME TypeOK, OneSpelling, NEW r \in Requests, RunTool(r),
           \A p \in mine[r] : Names[p] \in fresh
    PROVE  \A p \in mine'[r] : Names[p] \in fresh'
<1> DEFINE call == Head(calls[r])
<1>1. PICK result \in Outcomes(call.tool) :
        /\ mine' = [mine EXCEPT ![r] = Informed(r, call, result)]
        /\ IF call.tool \in Surfacing /\ result = "ok"
             THEN fresh' = fresh \cup {Names[call.pnr]}
             ELSE fresh' = IF call.tool \in Mutating
                             THEN fresh \ {Names[call.pnr]} ELSE fresh
  BY DEF RunTool
<1>2. call \in ToolCall
  <2>1. /\ pc[r] = "handle" /\ calls' = [calls EXCEPT ![r] = Tail(@)]
        /\ IF Tail(calls[r]) = <<>> THEN NextPass(r) ELSE UNCHANGED <<pc, iteration>>
    BY DEF RunTool
  <2> QED BY <2>1, CallHandledType
<1>3. call.tool \in Mutating => call.pnr \in Spellings
  BY <1>2, ToolCallFacts DEF TakesPnr
<1> HIDE DEF call
<1>4. mine'[r] = Informed(r, call, result) /\ mine[r] \subseteq Spellings
  BY <1>1 DEF TypeOK
<1>5. CASE call.tool \in Surfacing /\ result = "ok"
  BY <1>1, <1>4, <1>5 DEF Informed
<1>6. CASE ~(call.tool \in Surfacing /\ result = "ok") /\ call.tool \in Mutating
  <2>1. mine'[r] = mine[r] \ {call.pnr} /\ fresh' = fresh \ {Names[call.pnr]}
    BY <1>1, <1>4, <1>6 DEF Informed
  <2> QED BY <1>3, <1>4, <1>6, <2>1 DEF OneSpelling
<1>7. CASE ~(call.tool \in Surfacing /\ result = "ok") /\ call.tool \notin Mutating
  BY <1>1, <1>4, <1>7 DEF Informed
<1> QED BY <1>5, <1>6, <1>7

\* The one request there is, and where it goes.
LEMMA OnlyOne ==
    ASSUME TypeOK, OneAtATime, NEW r \in Requests, NEW step \in Steps, Goto(r, step)
    PROVE  pc'[r] = step /\ \A q \in Requests : q = r
BY DEF TypeOK, OneAtATime, Goto

LEMMA FreshStep ==
    ASSUME TypeOK, OneAtATime, NothingFails, OneSpelling, FreshInv, [Next]_vars
    PROVE  FreshInv'
<1>1. CASE UNCHANGED vars
  BY <1>1 DEF FreshInv, vars, row, request, history
<1>2. CASE EndCall \/ EscalateByHand
  BY <1>2 DEF FreshInv, EndCall, EscalateByHand, request, history
<1>3. ASSUME NEW r \in Requests, UNCHANGED <<informed, mine, fresh>>,
             pc'[r] \in Working <=> pc[r] \in Working
      PROVE  FreshInv'
  BY <1>3 DEF OneAtATime, FreshInv
<1>4. ASSUME NEW r \in Requests, StartTurn(r) \/ SetFlow(r) \/ NextTurnIndex(r)
      PROVE  FreshInv'
  <2>1. UNCHANGED <<informed, mine, fresh>> /\ pc[r] \in {"idle", "setFlow", "nextIndex"}
    BY <1>4 DEF StartTurn, SetFlow, NextTurnIndex, row, request, history
  <2>2. pc'[r] \in {"loadInformed", "nextIndex", "customerRow"}
    BY <1>4, OnlyOne DEF StartTurn, SetFlow, NextTurnIndex, Steps
  <2> QED BY <1>3, <2>1, <2>2 DEF Working
<1>5. ASSUME NEW r \in Requests, LoadFlow(r) \/ ModelWantsTools(r) \/ ModelAnswers(r)
                                 \/ FinalAnswer(r)
      PROVE  FreshInv'
  <2>1. UNCHANGED <<informed, mine, fresh>> /\ pc[r] \in {"loadFlow", "ask", "final"}
    BY <1>5 DEF LoadFlow, ModelWantsTools, ModelAnswers, FinalAnswer, row, history
  <2>2. pc'[r] \in {"ask", "handle", "final", "setInformed"}
    BY <1>5, OnlyOne DEF LoadFlow, ModelWantsTools, ModelAnswers, FinalAnswer, Steps
  <2> QED BY <1>3, <2>1, <2>2 DEF Working
<1>6. ASSUME NEW r \in Requests, LoadInformed(r) PROVE FreshInv'
  <2>1. /\ pc[r] = "loadInformed" /\ UNCHANGED <<informed, fresh>>
        /\ mine'[r] = informed
    BY <1>6 DEF LoadInformed, TypeOK, row, history
  <2>2. pc'[r] = "loadFlow"
    BY <1>6, OnlyOne DEF LoadInformed, Steps
  <2> QED BY <2>1, <2>2 DEF OneAtATime, FreshInv, Working
<1>7. ASSUME NEW r \in Requests, ToolStep(r) PROVE FreshInv'
  <2>1. /\ pc[r] = "handle" /\ calls' = [calls EXCEPT ![r] = Tail(@)]
        /\ IF Tail(calls[r]) = <<>> THEN NextPass(r) ELSE UNCHANGED <<pc, iteration>>
    BY <1>7 DEF ToolStep, Blocked, RunTool
  <2>2. pc'[r] \in {"ask", "final", "handle"}
    BY <2>1, CallHandledType
  <2>3. CASE Blocked(r)
    <3>1. UNCHANGED <<informed, mine, fresh>>
      BY <2>3 DEF Blocked, row, history
    <3> QED BY <1>3, <2>1, <2>2, <3>1 DEF Working
  <2>4. CASE RunTool(r)
    <3>1. \A p \in mine[r] : Names[p] \in fresh
      BY <2>1 DEF FreshInv, Working
    <3>2. \A p \in mine'[r] : Names[p] \in fresh'
      BY <2>4, <3>1, RunToolSpends
    <3> QED BY <2>2, <3>2 DEF OneAtATime, FreshInv, Working
  <2> QED BY <1>7, <2>3, <2>4 DEF ToolStep
<1>8. ASSUME NEW r \in Requests, SetInformed(r) PROVE FreshInv'
  <2>1. pc[r] = "setInformed" /\ informed' = mine[r] /\ UNCHANGED fresh
    BY <1>8 DEF SetInformed
  <2>2. pc'[r] = "setFlow"
    BY <1>8, OnlyOne DEF SetInformed, Steps
  <2> QED BY <2>1, <2>2 DEF OneAtATime, FreshInv, Working
<1>9. ASSUME NEW r \in Requests, RecordCustomer(r) \/ RecordAgent(r) \/ UpdateCall(r)
      PROVE  FreshInv'
  <2>1. /\ pc[r] \in {"customerRow", "agentRow", "updateCall"} /\ UNCHANGED <<informed, fresh>>
    BY <1>9 DEF RecordCustomer, RecordAgent, UpdateCall, row
  <2>2. pc'[r] \in {"agentRow", "updateCall", "idle"}
    BY <1>9, OnlyOne DEF RecordCustomer, RecordAgent, UpdateCall, Insert, Steps
  <2> QED BY <2>1, <2>2 DEF OneAtATime, FreshInv, Working
<1>10. ASSUME NEW r \in Requests, TurnFails(r) PROVE FALSE
  BY <1>10 DEF TurnFails, NothingFails, TypeOK
<1> QED
  BY <1>1, <1>2, <1>4, <1>5, <1>6, <1>7, <1>8, <1>9, <1>10
     DEF Next, TurnStep, PersistStep

\* ADR 0004, "Consent is spent on use": a second change to a booking needs a fresh lookup.
\* True of turns that come one by one, do not fail and spell alike; each condition is needed.
THEOREM ConsentAlwaysSpent ==
    ASSUME OneAtATime, NothingFails, OneSpelling
    PROVE  Spec => ConsentSpentOnUse
<1>1. Init => FreshInv
  BY DEF Init, FreshInv, Working
<1>2. IInv /\ FreshInv /\ [Next]_vars => FreshInv'
  BY FreshStep DEF IInv
<1>3. ASSUME FreshInv, NEW r \in Requests, RunsChange(r)
      PROVE  Names[Head(calls[r]).pnr] \in fresh
  <2>1. Head(calls[r]).pnr \in mine[r] /\ pc[r] = "handle"
    BY <1>3 DEF RunsChange, RunTool, GateOpen
  <2> QED BY <1>3, <2>1 DEF FreshInv, Working
<1>4. FreshInv /\ [Next]_vars =>
        [\A r \in Requests : RunsChange(r) => Names[Head(calls[r]).pnr] \in fresh]_vars
  BY <1>3
<1> QED BY <1>1, <1>2, <1>4, Invariance, PTL DEF Spec, ConsentSpentOnUse

\* Where a turn has its reply and is being recorded.
Recording == {"setInformed", "setFlow", "nextIndex", "customerRow", "agentRow", "updateCall"}

\* What may be changed now has been heard of, or this turn's reply, which will be
\* given, tells of it: with nobody else on the call no INSERT conflicts.
HeardInv ==
    \A r \in Requests :
      /\ \A p \in IF pc[r] \in Working THEN mine[r] ELSE informed :
           Names[p] \in heard \/ p \in surfaced[r]
      /\ pc[r] \in {"idle", "loadInformed"} => surfaced[r] = {}
      /\ pc[r] \in Recording => reply[r] = "text"
      /\ pc[r] = "customerRow" => Counted(index[r])
      /\ pc[r] = "agentRow" => Counted(index[r] + 1)

LEMMA InsertCounts ==
    ASSUME TypeOK, NEW r \in Requests, NEW n \in Nat, Counted(n), NEW speaker, NEW next,
           Insert(r, n, speaker, next)
    PROVE  Counted(n + 1)' /\ Goto(r, next) /\ UNCHANGED <<request, surfaced>>
<1>1. ~Taken(n)
  BY DEF Counted
<1>2. /\ transcript' = transcript \cup {[index |-> n, speaker |-> speaker, turn |-> turn[r]]}
      /\ Goto(r, next) /\ UNCHANGED <<request, surfaced>>
  BY <1>1 DEF Insert
<1>3. \A i \in Nat : Taken(i)' <=> Taken(i) \/ i = n
  <2> DEFINE new == [index |-> n, speaker |-> speaker, turn |-> turn[r]]
  <2>1. new.index = n
    OBVIOUS
  <2> HIDE DEF new
  <2>2. transcript' = transcript \cup {new}
    BY <1>2 DEF new
  <2> QED BY <2>1, <2>2, Zenon DEF Taken
<1>4. \A i \in Nat : Taken(i)' <=> i < n + 1
  BY <1>3 DEF Counted
<1>5. Counted(n + 1)'
  BY <1>4 DEF Counted
<1> QED BY <1>2, <1>5

\* A step that leaves what was looked up and the transcript alone.
LEMMA HeardKept ==
    ASSUME TypeOK, OneAtATime, HeardInv, NEW r \in Requests,
           UNCHANGED <<informed, mine, surfaced, heard, transcript>>,
           pc'[r] \in Working <=> pc[r] \in Working,
           pc'[r] \in {"idle", "loadInformed"} => pc[r] \in {"idle", "loadInformed"},
           pc'[r] \in Recording => reply'[r] = "text",
           pc'[r] = "customerRow" => Counted(index'[r]),
           pc'[r] # "agentRow"
    PROVE  HeardInv'
<1>1. \A p \in IF pc'[r] \in Working THEN mine'[r] ELSE informed' :
         Names[p] \in heard' \/ p \in surfaced'[r]
  BY DEF HeardInv
<1>2. pc'[r] \in {"idle", "loadInformed"} => surfaced'[r] = {}
  BY DEF HeardInv
<1>3. pc'[r] = "customerRow" => Counted(index[r])'
  BY DEF Counted, Taken
<1>4. \A q \in Requests : q = r
  BY DEF OneAtATime
<1> QED BY <1>1, <1>2, <1>3, <1>4 DEF HeardInv

LEMMA HeardStep ==
    ASSUME TypeOK, HistoryInv, OneAtATime, NothingFails, Articulate, HeardInv, [Next]_vars
    PROVE  HeardInv'
<1>1. CASE UNCHANGED vars
  BY <1>1 DEF HeardInv, Counted, Taken, vars, row, request, history
<1>2. CASE EndCall \/ EscalateByHand
  BY <1>2 DEF HeardInv, Counted, Taken, EndCall, EscalateByHand, request, history
<1>3. ASSUME NEW r \in Requests, StartTurn(r) PROVE HeardInv'
  <2>1. UNCHANGED <<informed, mine, surfaced, heard, transcript>> /\ pc[r] = "idle"
    BY <1>3 DEF StartTurn, row, history
  <2>2. pc'[r] = "loadInformed"
    BY <1>3, OnlyOne DEF StartTurn, Steps
  <2> QED BY <2>1, <2>2, HeardKept DEF Working, Recording
<1>4. ASSUME NEW r \in Requests, LoadInformed(r) PROVE HeardInv'
  <2>1. /\ pc[r] = "loadInformed" /\ UNCHANGED <<informed, surfaced, heard>>
        /\ mine'[r] = informed
    BY <1>4 DEF LoadInformed, TypeOK, row, history
  <2>2. pc'[r] = "loadFlow"
    BY <1>4, OnlyOne DEF LoadInformed, Steps
  <2> QED BY <2>1, <2>2 DEF OneAtATime, HeardInv, Working, Recording
<1>5. ASSUME NEW r \in Requests, LoadFlow(r) \/ ModelWantsTools(r) \/ ModelAnswers(r)
                                 \/ FinalAnswer(r)
      PROVE  HeardInv'
  <2>1. /\ UNCHANGED <<informed, mine, surfaced, heard, transcript>>
        /\ pc[r] \in {"loadFlow", "ask", "final"}
    BY <1>5 DEF LoadFlow, ModelWantsTools, ModelAnswers, FinalAnswer, row, history
  <2>2. pc'[r] \in {"ask", "handle", "final", "setInformed"}
    BY <1>5, OnlyOne DEF LoadFlow, ModelWantsTools, ModelAnswers, FinalAnswer, Steps
  <2>3. pc'[r] = "setInformed" => reply'[r] = "text"
    <3>1. CASE LoadFlow(r) \/ ModelWantsTools(r)
      BY <3>1, OnlyOne DEF LoadFlow, ModelWantsTools, Steps
    <3>2. CASE ModelAnswers(r)
      BY <3>2 DEF ModelAnswers, TypeOK
    <3>3. CASE FinalAnswer(r)
      BY <3>3 DEF FinalAnswer, NothingFails, TypeOK
    <3> QED BY <1>5, <3>1, <3>2, <3>3
  <2> QED BY <2>1, <2>2, <2>3, HeardKept DEF Working, Recording
<1>6. ASSUME NEW r \in Requests, ToolStep(r) PROVE HeardInv'
  <2>1. /\ pc[r] = "handle" /\ calls' = [calls EXCEPT ![r] = Tail(@)]
        /\ IF Tail(calls[r]) = <<>> THEN NextPass(r) ELSE UNCHANGED <<pc, iteration>>
    BY <1>6 DEF ToolStep, Blocked, RunTool
  <2>2. pc'[r] \in {"ask", "final", "handle"}
    BY <2>1, CallHandledType
  <2>3. CASE Blocked(r)
    <3>1. UNCHANGED <<informed, mine, surfaced, heard, transcript>>
      BY <2>3 DEF Blocked, row, history
    <3> QED BY <2>1, <2>2, <3>1, HeardKept DEF Working, Recording
  <2>4. CASE RunTool(r)
    <3>1. \A p \in mine[r] : Names[p] \in heard \/ p \in surfaced[r]
      BY <2>1 DEF HeardInv, Working
    <3>2. heard' = heard
      BY <2>4 DEF RunTool
    <3>3. \A p \in mine'[r] : Names[p] \in heard' \/ p \in surfaced'[r]
      BY <2>4, <3>1, <3>2, RunToolFacts
    <3> QED BY <2>2, <3>3 DEF OneAtATime, HeardInv, Working, Recording
  <2> QED BY <1>6, <2>3, <2>4 DEF ToolStep
<1>7. ASSUME NEW r \in Requests, SetInformed(r) PROVE HeardInv'
  <2>1. /\ pc[r] = "setInformed" /\ informed' = mine[r]
        /\ UNCHANGED <<surfaced, heard, reply>>
    BY <1>7 DEF SetInformed, request
  <2>2. pc'[r] = "setFlow"
    BY <1>7, OnlyOne DEF SetInformed, Steps
  <2> QED BY <2>1, <2>2 DEF OneAtATime, HeardInv, Working, Recording
<1>8. ASSUME NEW r \in Requests, SetFlow(r) PROVE HeardInv'
  <2>1. /\ UNCHANGED <<informed, mine, surfaced, heard, transcript, reply>>
        /\ pc[r] = "setFlow"
    BY <1>8 DEF SetFlow, request, history
  <2>2. pc'[r] = "nextIndex"
    BY <1>8, OnlyOne DEF SetFlow, Steps
  <2>3. reply'[r] = "text"
    BY <2>1 DEF HeardInv, Recording
  <2> QED BY <2>1, <2>2, <2>3, HeardKept DEF Working
<1>9. ASSUME NEW r \in Requests, NextTurnIndex(r) PROVE HeardInv'
  <2>1. /\ UNCHANGED <<informed, mine, surfaced, heard, transcript, reply>>
        /\ pc[r] = "nextIndex" /\ index'[r] = FirstFree
    BY <1>9 DEF NextTurnIndex, row, history, TypeOK
  <2>2. pc'[r] = "customerRow"
    BY <1>9, OnlyOne DEF NextTurnIndex, Steps
  <2>3. reply'[r] = "text"
    BY <2>1 DEF HeardInv, Recording
  <2>4. PICK n \in Nat : Counted(n)
    BY DEF HistoryInv, Contiguous
  <2>5. FirstFree = n
    BY <2>4, FirstFreeFacts DEF TypeOK
  <2>6. Counted(index'[r])
    BY <2>1, <2>4, <2>5
  <2> QED BY <2>1, <2>2, <2>3, <2>6, HeardKept DEF Working
<1>10. ASSUME NEW r \in Requests, RecordCustomer(r) \/ RecordAgent(r) PROVE HeardInv'
  <2>1. PICK n \in Nat, speaker \in {"CUSTOMER", "AGENT"}, next \in {"agentRow", "updateCall"} :
          /\ Insert(r, n, speaker, next) /\ Counted(n)
          /\ next = "agentRow" => n = index[r]
    <3>1. CASE RecordCustomer(r)
      BY <3>1 DEF RecordCustomer, HeardInv, TypeOK
    <3>2. CASE RecordAgent(r)
      BY <3>2 DEF RecordAgent, HeardInv, TypeOK
    <3> QED BY <1>10, <3>1, <3>2
  <2>2. Counted(n + 1)' /\ Goto(r, next) /\ UNCHANGED <<request, surfaced>>
    BY <2>1, InsertCounts
  <2>3. /\ UNCHANGED <<informed, heard, index, reply, surfaced>>
        /\ pc[r] \in {"customerRow", "agentRow"}
    BY <1>10, <2>2 DEF RecordCustomer, RecordAgent, row, request
  <2>4. pc'[r] = next
    BY <2>2, OnlyOne DEF Steps
  <2>5. reply'[r] = "text" /\ \A p \in informed' : Names[p] \in heard' \/ p \in surfaced'[r]
    BY <2>3 DEF HeardInv, Working, Recording
  <2>6. pc'[r] = "agentRow" => Counted(index[r] + 1)'
    BY <2>1, <2>2, <2>3, <2>4
  <2>7. pc'[r] \notin Working /\ pc'[r] \notin {"idle", "loadInformed", "customerRow"}
    BY <2>4 DEF Working
  <2> QED BY <2>3, <2>5, <2>6, <2>7 DEF OneAtATime, HeardInv
<1>11. ASSUME NEW r \in Requests, UpdateCall(r) PROVE HeardInv'
  <2>1. pc[r] = "updateCall" /\ informed' = informed /\ reply[r] = "text"
    BY <1>11 DEF UpdateCall, HeardInv, Recording
  <2>2. heard' = heard \cup {Names[p] : p \in surfaced[r]} /\ surfaced'[r] = {}
    BY <1>11, <2>1 DEF UpdateCall, Forget, TypeOK
  <2>3. pc'[r] = "idle"
    BY <1>11, OnlyOne DEF UpdateCall, Steps
  <2>4. \A p \in informed : Names[p] \in heard \/ p \in surfaced[r]
    BY <2>1 DEF HeardInv, Working
  <2>5. \A p \in informed' : Names[p] \in heard'
    BY <2>1, <2>2, <2>4
  <2> QED BY <2>2, <2>3, <2>5 DEF OneAtATime, HeardInv, Working, Recording
<1>12. ASSUME NEW r \in Requests, TurnFails(r) PROVE FALSE
  BY <1>12 DEF TurnFails, NothingFails, TypeOK
<1> QED
  BY <1>1, <1>2, <1>3, <1>4, <1>5, <1>6, <1>7, <1>8, <1>9, <1>10, <1>11, <1>12
     DEF Next, TurnStep, PersistStep

\* ADR 0004, condition 1: before a change the customer was given the reply of a turn that
\* looked its booking up.  True of turns that come one by one, do not fail and end on words.
THEOREM ChangeAlwaysHeard ==
    ASSUME OneAtATime, NothingFails, Articulate
    PROVE  Spec => HeardBeforeChange
<1>1. Init => HeardInv
  BY DEF Init, HeardInv, Working, Recording
<1>2. IInv /\ HeardInv /\ [Next]_vars => HeardInv'
  BY HeardStep DEF IInv
<1>3. ASSUME IInv, HeardInv, NEW r \in Requests, RunsChange(r)
      PROVE  Names[Head(calls[r]).pnr] \in heard
  <2>1. Head(calls[r]).pnr \in mine[r] /\ pc[r] = "handle" /\ ~acted[r]
    BY <1>3 DEF RunsChange, RunTool, GateOpen
  <2>2. surfaced[r] = {}
    BY <1>3, <2>1 DEF IInv, GateInv
  <2> QED BY <1>3, <2>1, <2>2 DEF HeardInv, Working
<1>4. IInv /\ HeardInv /\ [Next]_vars =>
        [\A r \in Requests : RunsChange(r) => Names[Head(calls[r]).pnr] \in heard]_vars
  BY <1>3
<1> QED BY <1>1, <1>2, <1>4, Invariance, PTL DEF Spec, HeardBeforeChange

\* An escalated call stays escalated (persistence.py:140): of all the steps that write the
\* status none takes it back, whatever overlaps, fails or is done by hand.
THEOREM EscalationAlwaysKept == Spec => EscalationIsKept
<1> DEFINE Kept == callStatus = "ESCALATED" => callStatus' = "ESCALATED"
<1>1. ASSUME NEW r \in Requests,
             StartTurn(r) \/ LoadInformed(r) \/ LoadFlow(r) \/ ModelWantsTools(r)
               \/ ModelAnswers(r) \/ Blocked(r) \/ RunTool(r) \/ FinalAnswer(r)
      PROVE  UNCHANGED callStatus
  BY <1>1 DEF StartTurn, LoadInformed, LoadFlow, ModelWantsTools, ModelAnswers, Blocked,
              RunTool, FinalAnswer, row
<1>2. ASSUME NEW r \in Requests, PersistStep(r) \/ TurnFails(r) PROVE Kept
  BY <1>2 DEF PersistStep, SetInformed, SetFlow, NextTurnIndex, RecordCustomer, RecordAgent,
              UpdateCall, TurnFails, row
<1>3. EndCall \/ EscalateByHand => Kept
  BY DEF EndCall, EscalateByHand
<1>4. [Next]_vars => [Kept]_vars
  BY <1>1, <1>2, <1>3 DEF Next, TurnStep, ToolStep
<1> QED BY <1>4, PTL DEF Spec, EscalationIsKept

-----------------------------------------------------------------------------
(* A turn is finite: what a step leaves of it is less than what there was. *)

Pass == MaxCalls + 1

\* Steps of the passes after the n-th.
Passes(n) == Pass * (MaxIterations - n)

TurnBudget == 9 + Passes(0)

\* An upper bound on the steps that a request still takes: the passes of the tool loop that
\* are left, one step for the model and one for each call it may name, and the recording.
Left(r) ==
    CASE pc[r] = "idle"         -> 0
      [] pc[r] = "updateCall"   -> 1
      [] pc[r] = "agentRow"     -> 2
      [] pc[r] = "customerRow"  -> 3
      [] pc[r] = "nextIndex"    -> 4
      [] pc[r] = "setFlow"      -> 5
      [] pc[r] = "setInformed"  -> 6
      [] pc[r] = "final"        -> 7
      [] pc[r] = "handle"       -> 7 + Passes(iteration[r]) + Len(calls[r])
      [] pc[r] = "ask"          -> 7 + Passes(iteration[r]) + Pass
      [] pc[r] = "loadFlow"     -> 8 + Passes(0)
      [] pc[r] = "loadInformed" -> 9 + Passes(0)

\* The loop's counter and the model's response are within their bounds.
LoopInv ==
    \A r \in Requests :
      /\ pc[r] \in {"ask", "handle"} => iteration[r] \in 1..MaxIterations
      /\ Len(calls[r]) <= MaxCalls

\* Whatever the model asks for and however requests overlap, every step of a turn
\* leaves less of it, and no step of anything else adds to it.
Shortens(r) ==
    /\ TurnStep(r) \/ TurnFails(r) => Left(r)' < Left(r)
    /\ pc[r] # "idle" => Left(r)' <= Left(r)

InBudget == \A r \in Requests : Left(r) \in 0..TurnBudget /\ (Left(r) = 0 <=> pc[r] = "idle")

LEMMA PassFacts ==
    /\ Pass \in Nat /\ Pass = MaxCalls + 1 /\ MaxCalls \in Nat
    /\ MaxIterations \in Nat /\ MaxIterations >= 1
    /\ \A n \in 0..MaxIterations :
         /\ Passes(n) \in Nat /\ Passes(n) <= Passes(0)
         /\ n < MaxIterations => Passes(n) = Passes(n + 1) + Pass
         /\ n > 0 => Passes(n) + Pass <= Passes(0)
<1>1. Pass \in Nat /\ Pass = MaxCalls + 1 /\ MaxIterations \in Nat /\ MaxIterations >= 1
  BY TurnLimitsAssumption DEF Pass
<1>2. \A m \in Nat : Pass * m \in Nat /\ Pass * (m + 1) = Pass * m + Pass
  BY <1>1
<1>3. \A k, m \in Nat : k <= m => Pass * k <= Pass * m
  <2>1. ASSUME NEW k \in Nat, NEW m \in Nat, k <= m PROVE Pass * k <= Pass * m
    <3>1. Pass * (m - k) >= 0 /\ Pass * (m - k) = Pass * m - Pass * k
      BY <1>1, <2>1
    <3>2. Pass * m \in Nat /\ Pass * k \in Nat
      BY <1>2
    <3> QED BY <3>1, <3>2
  <2> QED BY <2>1
<1>4. ASSUME NEW n \in 0..MaxIterations
      PROVE  /\ Passes(n) \in Nat /\ Passes(n) <= Passes(0)
             /\ n < MaxIterations => Passes(n) = Passes(n + 1) + Pass
             /\ n > 0 => Passes(n) + Pass <= Passes(0)
  <2>1. MaxIterations - n \in Nat /\ MaxIterations - n <= MaxIterations - 0
    BY <1>1
  <2>2. Passes(n) \in Nat /\ Passes(n) <= Passes(0)
    <3>1. MaxIterations - 0 \in Nat
      BY <1>1
    <3>2. /\ Pass * (MaxIterations - n) \in Nat
          /\ Pass * (MaxIterations - n) <= Pass * (MaxIterations - 0)
      BY <1>2, <1>3, <2>1, <3>1, Zenon
    <3> QED BY <3>2, Zenon DEF Passes
  <2>3. ASSUME n < MaxIterations PROVE Passes(n) = Passes(n + 1) + Pass
    <3>1. MaxIterations - (n + 1) \in Nat /\ MaxIterations - (n + 1) + 1 = MaxIterations - n
      BY <1>1, <2>3
    <3> QED BY <1>2, <3>1 DEF Passes
  <2>4. ASSUME n > 0 PROVE Passes(n) + Pass <= Passes(0)
    <3>1. MaxIterations - n + 1 \in Nat /\ MaxIterations - n + 1 <= MaxIterations - 0
      BY <1>1, <2>4
    <3>2. Passes(n) + Pass = Pass * (MaxIterations - n + 1)
      BY <1>2, <2>1 DEF Passes
    <3> QED BY <1>1, <1>3, <3>1, <3>2 DEF Passes
  <2> QED BY <2>2, <2>3, <2>4
<1> QED BY <1>1, <1>4, TurnLimitsAssumption

\* A step of a turn leaves the other turns where they are.
LEMMA OthersStay ==
    ASSUME TypeOK, NEW r \in Requests, StartTurn(r) \/ TurnStep(r) \/ TurnFails(r),
           NEW q \in Requests, q # r
    PROVE  pc'[q] = pc[q] /\ iteration'[q] = iteration[q] /\ calls'[q] = calls[q]
<1>1. CASE StartTurn(r) \/ LoadInformed(r) \/ LoadFlow(r) \/ ModelAnswers(r) \/ FinalAnswer(r)
  BY <1>1 DEF StartTurn, LoadInformed, LoadFlow, ModelAnswers, FinalAnswer, Goto, TypeOK
<1>2. CASE ModelWantsTools(r)
  BY <1>2 DEF ModelWantsTools, Goto, TypeOK
<1>3. CASE ToolStep(r)
  BY <1>3 DEF ToolStep, Blocked, RunTool, NextPass, Goto, TypeOK
<1>4. CASE PersistStep(r) \/ TurnFails(r)
  BY <1>4 DEF PersistStep, SetInformed, SetFlow, NextTurnIndex, RecordCustomer, RecordAgent,
              UpdateCall, TurnFails, Insert, Goto, Forget, request, TypeOK
<1> QED BY <1>1, <1>2, <1>3, <1>4 DEF TurnStep

\* How a turn moves on: through its loop, within the loop's bounds, and out of it.
InLoop(r) ==
    \/ /\ pc[r] = "loadFlow" /\ pc'[r] = "ask" /\ iteration'[r] = 1 /\ calls'[r] = calls[r]
    \/ /\ pc[r] = "ask" /\ pc'[r] = "handle" /\ iteration'[r] = iteration[r]
       /\ Len(calls'[r]) \in 1..MaxCalls
    \/ /\ pc[r] = "handle" /\ pc'[r] = "handle" /\ iteration'[r] = iteration[r]
       /\ Len(calls'[r]) = Len(calls[r]) - 1
    \/ /\ pc[r] = "handle" /\ pc'[r] = "ask" /\ iteration[r] < MaxIterations
       /\ iteration'[r] = iteration[r] + 1 /\ Len(calls'[r]) = 0

AroundLoop(r) ==
    /\ calls'[r] = <<>> \/ Len(calls'[r]) <= Len(calls[r])
    /\ \/ pc[r] = "idle" /\ pc'[r] = "loadInformed"
       \/ pc[r] = "loadInformed" /\ pc'[r] = "loadFlow"
       \/ pc[r] = "ask" /\ pc'[r] \in {"final", "setInformed"}
       \/ pc[r] = "handle" /\ pc'[r] = "final"
       \/ pc[r] = "final" /\ pc'[r] = "setInformed"
       \/ pc[r] = "setInformed" /\ pc'[r] = "setFlow"
       \/ pc[r] = "setFlow" /\ pc'[r] = "nextIndex"
       \/ pc[r] = "nextIndex" /\ pc'[r] = "customerRow"
       \/ pc[r] = "customerRow" /\ pc'[r] = "agentRow"
       \/ pc[r] = "agentRow" /\ pc'[r] = "updateCall"
       \/ pc[r] # "idle" /\ pc'[r] = "idle"

LEMMA TurnMoves ==
    ASSUME TypeOK, NEW r \in Requests, StartTurn(r) \/ TurnStep(r) \/ TurnFails(r)
    PROVE  InLoop(r) \/ AroundLoop(r)
<1>1. CASE StartTurn(r) \/ LoadInformed(r) \/ FinalAnswer(r) \/ ModelAnswers(r)
  <2>1. calls' = calls
    BY <1>1 DEF StartTurn, LoadInformed, FinalAnswer, ModelAnswers
  <2>2. Len(calls'[r]) <= Len(calls[r])
    BY <2>1 DEF TypeOK
  <2> QED
    BY <1>1, <2>2 DEF StartTurn, LoadInformed, FinalAnswer, ModelAnswers, Goto, TypeOK, AroundLoop
<1>2. CASE LoadFlow(r)
  BY <1>2 DEF LoadFlow, Goto, TypeOK, InLoop
<1>3. CASE ModelWantsTools(r)
  <2>1. PICK response \in Responses : calls' = [calls EXCEPT ![r] = response]
    BY <1>3 DEF ModelWantsTools
  <2>2. PICK n \in 1..MaxCalls : response \in [1..n -> ToolCall]
    BY DEF Responses
  <2>3. Len(response) = n
    BY <2>2, TurnLimitsAssumption
  <2> QED BY <1>3, <2>1, <2>3 DEF ModelWantsTools, Goto, TypeOK, InLoop
<1>4. CASE ToolStep(r)
  <2>1. /\ pc[r] = "handle" /\ calls' = [calls EXCEPT ![r] = Tail(@)]
        /\ IF Tail(calls[r]) = <<>> THEN NextPass(r) ELSE UNCHANGED <<pc, iteration>>
    BY <1>4 DEF ToolStep, Blocked, RunTool
  <2>2. calls[r] \in Seq(ToolCall) /\ calls[r] # <<>> /\ calls'[r] = Tail(calls[r])
    BY <2>1 DEF TypeOK
  <2>3. Len(calls'[r]) = Len(calls[r]) - 1 /\ (calls'[r] = <<>> => Len(calls'[r]) = 0)
    <3>1. \A s \in Seq(ToolCall) : s # <<>> => Len(Tail(s)) = Len(s) - 1
      OBVIOUS
    <3>2. Len(<<>>) = 0
      OBVIOUS
    <3> QED BY <2>2, <3>1, <3>2, Zenon
  <2>4. CASE Tail(calls[r]) # <<>>
    BY <2>1, <2>3, <2>4 DEF InLoop
  <2>5. CASE Tail(calls[r]) = <<>> /\ iteration[r] < MaxIterations
    BY <2>1, <2>2, <2>3, <2>5 DEF NextPass, Goto, TypeOK, InLoop
  <2>6. CASE Tail(calls[r]) = <<>> /\ ~(iteration[r] < MaxIterations)
    BY <2>1, <2>2, <2>6 DEF NextPass, Goto, TypeOK, AroundLoop
  <2> QED BY <2>4, <2>5, <2>6
<1>5. CASE SetInformed(r) \/ SetFlow(r) \/ NextTurnIndex(r)
  <2>1. Len(calls'[r]) <= Len(calls[r])
    BY <1>5 DEF SetInformed, SetFlow, NextTurnIndex, request, TypeOK
  <2> QED BY <1>5, <2>1 DEF SetInformed, SetFlow, NextTurnIndex, Goto, TypeOK, AroundLoop
<1>6. CASE RecordCustomer(r) \/ RecordAgent(r)
  <2>1. PICK next \in {"agentRow", "updateCall"} :
          /\ (next = "agentRow") <=> pc[r] = "customerRow"
          /\ pc[r] \in {"customerRow", "agentRow"}
          /\ \/ Goto(r, "idle") /\ Forget(r)
             \/ Goto(r, next) /\ UNCHANGED request
    BY <1>6 DEF RecordCustomer, RecordAgent, Insert
  <2>2. calls'[r] = <<>> \/ Len(calls'[r]) <= Len(calls[r])
    BY <2>1 DEF Forget, request, TypeOK
  <2> QED BY <2>1, <2>2 DEF Goto, TypeOK, AroundLoop
<1>7. CASE UpdateCall(r) \/ TurnFails(r)
  BY <1>7 DEF UpdateCall, TurnFails, Forget, Goto, TypeOK, AroundLoop
<1> QED BY <1>1, <1>2, <1>3, <1>4, <1>5, <1>6, <1>7 DEF TurnStep, PersistStep

LEMMA LoopStep ==
    ASSUME TypeOK, LoopInv, [Next]_vars
    PROVE  LoopInv'
<1>1. CASE UNCHANGED vars \/ EndCall \/ EscalateByHand
  BY <1>1 DEF LoopInv, vars, request, EndCall, EscalateByHand
<1>2. ASSUME NEW r \in Requests, StartTurn(r) \/ TurnStep(r) \/ TurnFails(r) PROVE LoopInv'
  <2>1. Len(calls[r]) \in Nat /\ Len(calls[r]) <= MaxCalls /\ iteration[r] \in Nat
    BY DEF TypeOK, LoopInv
  <2>2. MaxCalls \in Nat /\ MaxIterations \in Nat /\ MaxIterations >= 1 /\ Len(<<>>) = 0
    BY TurnLimitsAssumption
  <2>3. /\ pc'[r] \in {"ask", "handle"} => iteration'[r] \in 1..MaxIterations
        /\ Len(calls'[r]) <= MaxCalls
    <3>1. CASE InLoop(r)
      BY <2>1, <2>2, <3>1 DEF InLoop, LoopInv
    <3>2. CASE AroundLoop(r)
      BY <2>1, <2>2, <3>2 DEF AroundLoop
    <3> QED BY <1>2, <3>1, <3>2, TurnMoves
  <2>4. ASSUME NEW q \in Requests, q # r
        PROVE  /\ pc'[q] \in {"ask", "handle"} => iteration'[q] \in 1..MaxIterations
               /\ Len(calls'[q]) <= MaxCalls
    BY <1>2, <2>4, OthersStay DEF LoopInv
  <2> QED BY <2>3, <2>4 DEF LoopInv
<1> QED BY <1>1, <1>2 DEF Next

LEMMA LoopInvHolds == Spec => []LoopInv
<1>1. Init => LoopInv
  BY TurnLimitsAssumption DEF Init, LoopInv
<1>2. IInv /\ LoopInv /\ [Next]_vars => LoopInv'
  BY LoopStep DEF IInv
<1> QED BY <1>1, <1>2, Invariance, PTL DEF Spec

\* What the count is made of where a turn is in its loop.
LEMMA InLoopFacts ==
    ASSUME TypeOK, LoopInv, NEW r \in Requests, pc[r] \in {"ask", "handle"}
    PROVE  /\ iteration[r] \in 1..MaxIterations /\ iteration[r] \in 0..MaxIterations
           /\ Len(calls[r]) \in 0..MaxCalls /\ (pc[r] = "handle" => Len(calls[r]) > 0)
           /\ Passes(iteration[r]) \in Nat /\ Passes(iteration[r]) + Pass <= Passes(0)
<1>1. iteration[r] \in 1..MaxIterations /\ iteration[r] \in 0..MaxIterations /\ iteration[r] > 0
  BY PassFacts DEF LoopInv
<1>2. Len(calls[r]) \in 0..MaxCalls /\ (pc[r] = "handle" => Len(calls[r]) > 0)
  BY DEF TypeOK, LoopInv
<1> QED BY <1>1, <1>2, PassFacts

LEMMA LeftFacts ==
    ASSUME TypeOK, LoopInv, NEW r \in Requests
    PROVE  /\ Left(r) \in 0..TurnBudget /\ (Left(r) = 0 <=> pc[r] = "idle")
           /\ pc[r] \in {"ask", "handle"} => Left(r) > 7
<1>1. pc[r] \in Steps /\ Passes(0) \in Nat
  BY PassFacts DEF TypeOK
<1>2. CASE pc[r] \in {"ask", "handle"}
  <2>1. pc[r] = "handle" => Left(r) = 7 + Passes(iteration[r]) + Len(calls[r])
    BY DEF Left
  <2>2. pc[r] = "ask" => Left(r) = 7 + Passes(iteration[r]) + Pass
    BY DEF Left
  <2>3. /\ Len(calls[r]) \in 0..MaxCalls /\ (pc[r] = "handle" => Len(calls[r]) > 0)
        /\ Passes(iteration[r]) \in Nat /\ Passes(iteration[r]) + Pass <= Passes(0)
    BY <1>2, InLoopFacts
  <2>4. Pass \in Nat /\ Pass = MaxCalls + 1 /\ MaxCalls \in Nat
    BY PassFacts
  <2> QED BY <1>1, <1>2, <2>1, <2>2, <2>3, <2>4 DEF TurnBudget
<1>3. CASE pc[r] \notin {"ask", "handle"}
  <2>1. Left(r) \in 0..7 \cup {8 + Passes(0), 9 + Passes(0)}
    BY <1>1, <1>3 DEF Steps, Left
  <2>2. Left(r) = 0 <=> pc[r] = "idle"
    BY <1>1, <1>3 DEF Steps, Left
  <2> QED BY <1>1, <1>3, <2>1, <2>2 DEF TurnBudget
<1> QED BY <1>2, <1>3

LEMMA LoopShortens ==
    ASSUME TypeOK, LoopInv, NEW r \in Requests, InLoop(r)
    PROVE  Left(r)' < Left(r)
<1>1. CASE pc[r] = "loadFlow" /\ pc'[r] = "ask" /\ iteration'[r] = 1
  <2>1. Left(r) = 8 + Passes(0) /\ Left(r)' = 7 + Passes(1) + Pass
    BY <1>1 DEF Left
  <2>2. Passes(1) \in Nat /\ Passes(1) + Pass <= Passes(0)
    BY PassFacts
  <2> QED BY <2>1, <2>2, PassFacts
<1>2. CASE /\ pc[r] = "ask" /\ pc'[r] = "handle" /\ iteration'[r] = iteration[r]
           /\ Len(calls'[r]) \in 1..MaxCalls
  <2>1. /\ Left(r) = 7 + Passes(iteration[r]) + Pass
        /\ Left(r)' = 7 + Passes(iteration[r]) + Len(calls'[r])
    BY <1>2 DEF Left
  <2> QED BY <1>2, <2>1, InLoopFacts, PassFacts
<1>3. CASE /\ pc[r] = "handle" /\ pc'[r] = "handle" /\ iteration'[r] = iteration[r]
           /\ Len(calls'[r]) = Len(calls[r]) - 1
  <2>1. /\ Left(r) = 7 + Passes(iteration[r]) + Len(calls[r])
        /\ Left(r)' = 7 + Passes(iteration[r]) + Len(calls'[r])
    BY <1>3 DEF Left
  <2> QED BY <1>3, <2>1, InLoopFacts
<1>4. CASE /\ pc[r] = "handle" /\ pc'[r] = "ask" /\ iteration[r] < MaxIterations
           /\ iteration'[r] = iteration[r] + 1
  <2>1. /\ Left(r) = 7 + Passes(iteration[r]) + Len(calls[r])
        /\ Left(r)' = 7 + Passes(iteration[r] + 1) + Pass
    BY <1>4 DEF Left
  <2>2. Passes(iteration[r]) = Passes(iteration[r] + 1) + Pass
    BY <1>4, InLoopFacts, PassFacts
  <2>3. Passes(iteration[r] + 1) \in Nat
    BY <1>4, InLoopFacts, PassFacts
  <2>4. Len(calls[r]) \in Nat /\ Len(calls[r]) > 0 /\ Pass \in Nat
    BY <1>4, InLoopFacts, PassFacts
  <2> QED BY <2>1, <2>2, <2>3, <2>4
<1> QED BY <1>1, <1>2, <1>3, <1>4 DEF InLoop

LEMMA AroundShortens ==
    ASSUME TypeOK, LoopInv, NEW r \in Requests, AroundLoop(r), pc[r] # "idle"
    PROVE  Left(r)' < Left(r)
<1>1. pc'[r] \in {"final", "setInformed"} => Left(r)' \in {6, 7}
  BY DEF Left
<1>2. CASE pc[r] \in {"ask", "handle"} /\ pc'[r] # "idle"
  BY <1>1, <1>2, LeftFacts DEF AroundLoop
<1>3. CASE pc[r] \notin {"ask", "handle"} /\ pc'[r] # "idle"
  <2>1. Passes(0) \in Nat
    BY PassFacts
  <2> QED BY <1>3, <2>1 DEF AroundLoop, Left
<1>4. CASE pc'[r] = "idle"
  <2>1. Left(r)' = 0
    BY <1>4 DEF Left
  <2> QED BY <2>1, LeftFacts
<1> QED BY <1>2, <1>3, <1>4

\* turn.py:9-11: the loop is bounded.  What is left of a turn never exceeds TurnBudget and is 0
\* only when it is over; every step it takes lowers it, whatever the model asks for, and no
\* other turn raises it.  With the fairness of FairSpec that is why EveryTurnEnds.
THEOREM TurnsOnlyShorten == Spec => []InBudget /\ [][\A r \in Requests : Shortens(r)]_vars
<1>1. IInv /\ LoopInv => InBudget
  BY LeftFacts DEF IInv, InBudget
<1>2. ASSUME IInv, LoopInv, InBudget, InBudget', Next, NEW r \in Requests PROVE Shortens(r)
  <2>1. TypeOK /\ Left(r) \in Nat /\ Left(r)' \in Nat
    <3>1. TurnBudget \in Nat
      BY PassFacts DEF TurnBudget
    <3> QED BY <1>2, <3>1 DEF IInv, InBudget
  <2>2. pc[r] # "idle" /\ (StartTurn(r) \/ TurnStep(r) \/ TurnFails(r)) => Left(r)' < Left(r)
    BY <1>2, <2>1, TurnMoves, LoopShortens, AroundShortens
  <2>3. TurnStep(r) \/ TurnFails(r) => pc[r] # "idle"
    BY DEF TurnStep, LoadInformed, LoadFlow, ModelWantsTools, ModelAnswers, ToolStep, Blocked,
           RunTool, FinalAnswer, PersistStep, SetInformed, SetFlow, NextTurnIndex,
           RecordCustomer, RecordAgent, UpdateCall, TurnFails
  <2>4. \/ StartTurn(r) \/ TurnStep(r) \/ TurnFails(r)
        \/ pc'[r] = pc[r] /\ iteration'[r] = iteration[r] /\ calls'[r] = calls[r]
    <3>1. EndCall \/ EscalateByHand => UNCHANGED <<pc, iteration, calls>>
      BY DEF EndCall, EscalateByHand, request
    <3> QED BY <1>2, <2>1, <3>1, OthersStay DEF Next
  <2>5. pc'[r] = pc[r] /\ iteration'[r] = iteration[r] /\ calls'[r] = calls[r]
          => Left(r)' = Left(r)
    BY DEF Left
  <2> QED BY <2>1, <2>2, <2>3, <2>4, <2>5 DEF Shortens
<1>3. IInv /\ LoopInv /\ InBudget /\ InBudget' /\ [Next]_vars =>
        [\A r \in Requests : Shortens(r)]_vars
  BY <1>2
<1> QED BY <1>1, <1>3, Invariance, LoopInvHolds, PTL DEF Spec

-----------------------------------------------------------------------------
(* An escalation on its way to the call. *)

\* A turn that has stored the flow's position and is still to write the call's status.
Carrying == {"nextIndex", "customerRow", "agentRow", "updateCall"}

\* A flow that says "escalated" is that of an escalated call, or of a turn that escalated it
\* and is about to say so.
EscalationInHand ==
    flowState = "escalated" =>
      callStatus = "ESCALATED" \/ \E r \in Requests : pc[r] \in Carrying /\ escalates[r]

\* What the flow rests on, and that nobody takes the index of a turn's rows.
CarriedInv ==
    /\ EscalationInHand
    /\ \A r \in Requests :
         /\ current[r] = "escalated" => escalates[r] \/ callStatus = "ESCALATED"
         /\ pc[r] = "customerRow" => Counted(index[r])
         /\ pc[r] = "agentRow" => Counted(index[r] + 1)

LEMMA EscalatedOnly ==
    ASSUME NEW s \in States, NEW tool, NEW ok \in BOOLEAN,
           NextState(s, tool, ok) = "escalated"
    PROVE  s = "escalated" \/ (tool = "escalate_to_human" /\ ok)
<1>1. \A t \in Transitions : t.to = "escalated" => t.tool = "escalate_to_human" /\ t.ok = TRUE
  BY DEF Transitions, Arrow
<1> DEFINE P(t) == t.from = s /\ t.tool = tool /\ t.ok = ok
<1>2. CASE \E t \in Transitions : P(t)
  <2> DEFINE c == CHOOSE t \in Transitions : P(t)
  <2>1. c \in Transitions /\ P(c)
    BY <1>2
  <2>2. NextState(s, tool, ok) = c.to
    BY <1>2 DEF NextState
  <2> QED BY <1>1, <2>1, <2>2
<1>3. CASE ~ \E t \in Transitions : P(t)
  BY <1>3 DEF NextState
<1> QED BY <1>2, <1>3

LEMMA RunToolEscalates ==
    ASSUME TypeOK, NEW r \in Requests, RunTool(r),
           current[r] = "escalated" => escalates[r] \/ callStatus = "ESCALATED"
    PROVE  /\ UNCHANGED <<row, transcript>>
           /\ current'[r] = "escalated" => escalates'[r] \/ callStatus' = "ESCALATED"
<1> DEFINE call == Head(calls[r])
<1>1. PICK result \in Outcomes(call.tool) :
        /\ Moves(r, call, result)
        /\ escalates' = [escalates EXCEPT ![r] = Escalates(r, call, result)]
  BY DEF RunTool
<1>2. UNCHANGED <<row, transcript>>
  BY DEF RunTool
<1> HIDE DEF call
<1>3. escalates'[r] = Escalates(r, call, result) /\ current[r] \in States
  BY <1>1 DEF TypeOK
<1>4. CASE current' = [current EXCEPT ![r] = NextState(@, call.tool, result = "ok")]
  <2>1. current'[r] = NextState(current[r], call.tool, result = "ok")
    BY <1>4 DEF TypeOK
  <2>2. (result = "ok") \in BOOLEAN
    OBVIOUS
  <2>3. current'[r] = "escalated" =>
          current[r] = "escalated" \/ (call.tool = "escalate_to_human" /\ result = "ok")
    BY <1>3, <2>1, <2>2, EscalatedOnly
  <2> QED BY <1>2, <1>3, <2>3 DEF Escalates, row
<1>5. CASE UNCHANGED current
  BY <1>2, <1>3, <1>5 DEF Escalates, row
<1> QED BY <1>1, <1>2, <1>4, <1>5 DEF Moves

\* A step that leaves the row and the transcript alone, before the flow is stored.
LEMMA CarriedKept ==
    ASSUME OneAtATime, CarriedInv, NEW r \in Requests, UNCHANGED <<row, transcript>>,
           current'[r] = "escalated" => escalates'[r] \/ callStatus' = "ESCALATED",
           pc[r] \in Carrying => pc'[r] \in Carrying /\ escalates'[r] = escalates[r],
           pc'[r] = "customerRow" => Counted(index'[r]),
           pc'[r] # "agentRow"
    PROVE  CarriedInv'
<1>1. \A q \in Requests : q = r
  BY DEF OneAtATime
<1>2. EscalationInHand'
  BY <1>1 DEF CarriedInv, EscalationInHand, row
<1>3. pc'[r] = "customerRow" => Counted(index[r])'
  BY DEF Counted, Taken
<1> QED BY <1>1, <1>2, <1>3 DEF CarriedInv

LEMMA CarriedStep ==
    ASSUME TypeOK, HistoryInv, OneAtATime, NothingFails, CarriedInv, [Next]_vars
    PROVE  CarriedInv'
<1>1. CASE UNCHANGED vars
  BY <1>1 DEF CarriedInv, EscalationInHand, Counted, Taken, vars, row, request
<1>2. CASE EndCall \/ EscalateByHand
  BY <1>2 DEF CarriedInv, EscalationInHand, Counted, Taken, EndCall, EscalateByHand, request
<1>3. ASSUME NEW r \in Requests, StartTurn(r) \/ LoadInformed(r) \/ ModelWantsTools(r)
                                 \/ ModelAnswers(r) \/ FinalAnswer(r)
      PROVE  CarriedInv'
  <2>1. UNCHANGED <<row, transcript, current, escalates>> /\ pc[r] \notin Carrying
    BY <1>3 DEF StartTurn, LoadInformed, ModelWantsTools, ModelAnswers, FinalAnswer, Carrying
  <2>2. pc'[r] \notin {"customerRow", "agentRow"}
    BY <1>3, OnlyOne DEF StartTurn, LoadInformed, ModelWantsTools, ModelAnswers, FinalAnswer,
                         Steps
  <2> QED BY <2>1, <2>2, CarriedKept DEF CarriedInv, row
<1>4. ASSUME NEW r \in Requests, LoadFlow(r) PROVE CarriedInv'
  <2>1. /\ UNCHANGED <<row, transcript>> /\ pc[r] = "loadFlow"
        /\ current'[r] = StartState(flowState)
    BY <1>4 DEF LoadFlow, TypeOK
  <2>2. pc'[r] = "ask"
    BY <1>4, OnlyOne DEF LoadFlow, Steps
  <2>3. current'[r] = "escalated" => flowState = "escalated"
    BY <2>1 DEF StartState, Initial
  <2>4. flowState = "escalated" => callStatus = "ESCALATED"
    BY <2>1 DEF CarriedInv, EscalationInHand, OneAtATime, Carrying
  <2> QED BY <2>1, <2>2, <2>3, <2>4, CarriedKept DEF Carrying, row
<1>5. ASSUME NEW r \in Requests, ToolStep(r) PROVE CarriedInv'
  <2>1. /\ pc[r] = "handle" /\ calls' = [calls EXCEPT ![r] = Tail(@)]
        /\ IF Tail(calls[r]) = <<>> THEN NextPass(r) ELSE UNCHANGED <<pc, iteration>>
    BY <1>5 DEF ToolStep, Blocked, RunTool
  <2>2. pc'[r] \in {"ask", "final", "handle"}
    BY <2>1, CallHandledType
  <2>3. /\ UNCHANGED <<row, transcript>>
        /\ current'[r] = "escalated" => escalates'[r] \/ callStatus' = "ESCALATED"
    <3>1. CASE Blocked(r)
      BY <3>1 DEF Blocked, CarriedInv, row
    <3>2. CASE RunTool(r)
      BY <3>2, RunToolEscalates DEF CarriedInv
    <3> QED BY <1>5, <3>1, <3>2 DEF ToolStep
  <2> QED BY <2>1, <2>2, <2>3, CarriedKept DEF Carrying
<1>6. ASSUME NEW r \in Requests, SetInformed(r) PROVE CarriedInv'
  <2>1. /\ pc[r] = "setInformed"
        /\ UNCHANGED <<flowState, callStatus, transcript, current, escalates>>
    BY <1>6 DEF SetInformed, request
  <2>2. pc'[r] = "setFlow"
    BY <1>6, OnlyOne DEF SetInformed, Steps
  <2>3. flowState = "escalated" => callStatus = "ESCALATED"
    BY <2>1 DEF CarriedInv, EscalationInHand, OneAtATime, Carrying
  <2> QED BY <2>1, <2>2, <2>3 DEF OneAtATime, CarriedInv, EscalationInHand
<1>7. ASSUME NEW r \in Requests, SetFlow(r) PROVE CarriedInv'
  <2>1. /\ pc[r] = "setFlow" /\ flowState' = current[r]
        /\ UNCHANGED <<callStatus, transcript, current, escalates>>
    BY <1>7 DEF SetFlow, request
  <2>2. pc'[r] = "nextIndex"
    BY <1>7, OnlyOne DEF SetFlow, Steps
  <2>3. current[r] = "escalated" => escalates[r] \/ callStatus = "ESCALATED"
    BY DEF CarriedInv
  <2> QED BY <2>1, <2>2, <2>3 DEF OneAtATime, CarriedInv, EscalationInHand, Carrying
<1>8. ASSUME NEW r \in Requests, NextTurnIndex(r) PROVE CarriedInv'
  <2>1. /\ UNCHANGED <<row, transcript, current, escalates>>
        /\ pc[r] = "nextIndex" /\ index'[r] = FirstFree
    BY <1>8 DEF NextTurnIndex, TypeOK
  <2>2. pc'[r] = "customerRow"
    BY <1>8, OnlyOne DEF NextTurnIndex, Steps
  <2>3. PICK n \in Nat : Counted(n)
    BY DEF HistoryInv, Contiguous
  <2>4. FirstFree = n
    BY <2>3, FirstFreeFacts DEF TypeOK
  <2>5. Counted(index'[r])
    BY <2>1, <2>3, <2>4
  <2> QED BY <2>1, <2>2, <2>5, CarriedKept DEF CarriedInv, Carrying, row
<1>9. ASSUME NEW r \in Requests, RecordCustomer(r) \/ RecordAgent(r) PROVE CarriedInv'
  <2>1. PICK n \in Nat, speaker \in {"CUSTOMER", "AGENT"}, next \in {"agentRow", "updateCall"} :
          /\ Insert(r, n, speaker, next) /\ Counted(n)
          /\ next = "agentRow" => n = index[r]
    <3>1. CASE RecordCustomer(r)
      BY <3>1 DEF RecordCustomer, CarriedInv, TypeOK
    <3>2. CASE RecordAgent(r)
      BY <3>2 DEF RecordAgent, CarriedInv, TypeOK
    <3> QED BY <1>9, <3>1, <3>2
  <2>2. Counted(n + 1)' /\ Goto(r, next) /\ UNCHANGED <<request, surfaced>>
    BY <2>1, InsertCounts
  <2>3. /\ UNCHANGED <<flowState, callStatus, index, current, escalates>>
        /\ pc[r] \in {"customerRow", "agentRow"}
    BY <1>9, <2>2 DEF RecordCustomer, RecordAgent, row, request
  <2>4. pc'[r] = next
    BY <2>2, OnlyOne DEF Steps
  <2>5. pc'[r] = "agentRow" => Counted(index[r] + 1)'
    BY <2>1, <2>2, <2>3, <2>4
  <2>6. EscalationInHand'
    BY <2>1, <2>3, <2>4 DEF OneAtATime, CarriedInv, EscalationInHand, Carrying
  <2>7. current'[r] = "escalated" => escalates'[r] \/ callStatus' = "ESCALATED"
    BY <2>3 DEF CarriedInv
  <2>8. pc'[r] # "customerRow"
    BY <2>1, <2>4
  <2> QED BY <2>5, <2>6, <2>7, <2>8 DEF OneAtATime, CarriedInv
<1>10. ASSUME NEW r \in Requests, UpdateCall(r) PROVE CarriedInv'
  <2>1. /\ flowState' = flowState /\ current'[r] = Initial
        /\ callStatus' = IF escalates[r] THEN "ESCALATED" ELSE callStatus
    BY <1>10 DEF UpdateCall, Forget, TypeOK
  <2>2. pc'[r] = "idle"
    BY <1>10, OnlyOne DEF UpdateCall, Steps
  <2>3. flowState = "escalated" => callStatus' = "ESCALATED"
    BY <2>1 DEF CarriedInv, EscalationInHand, OneAtATime
  <2> QED BY <2>1, <2>2, <2>3 DEF OneAtATime, CarriedInv, EscalationInHand, Initial
<1>11. ASSUME NEW r \in Requests, TurnFails(r) PROVE FALSE
  BY <1>11 DEF TurnFails, NothingFails, TypeOK
<1> QED
  BY <1>1, <1>2, <1>3, <1>4, <1>5, <1>6, <1>7, <1>8, <1>9, <1>10, <1>11
     DEF Next, TurnStep, PersistStep

\* servicing.yaml:100: when the flow says that a human takes over, the call is escalated for
\* those who look at calls, or the turn that escalated it has only its rows and the status
\* to write.  True of turns that come one by one and do not fail: persistence.py writes the
\* position first and the status last, and an INSERT that conflicts in between loses it.
THEOREM EscalationNeverMislaid ==
    ASSUME OneAtATime, NothingFails
    PROVE  Spec => []EscalationInHand
<1>1. Init => CarriedInv
  BY NoStateAssumption DEF Init, CarriedInv, EscalationInHand, Initial, States
<1>2. IInv /\ CarriedInv /\ [Next]_vars => CarriedInv'
  BY CarriedStep DEF IInv, HistoryInv
<1>3. CarriedInv => EscalationInHand
  BY DEF CarriedInv
<1> QED BY <1>1, <1>2, <1>3, Invariance, PTL DEF Spec
=============================================================================
