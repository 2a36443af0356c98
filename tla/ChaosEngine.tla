------------------------------ MODULE ChaosEngine ------------------------------
(***************************************************************************)
(* chaos.py and routers/admin.py of the flight service: the middleware     *)
(* every request passes, the configuration it resolves, and the admin      *)
(* routes that change it while requests are asleep in the middleware.      *)
(*                                                                         *)
(* A probability is "never", "sometimes" or "always"; how long a sleep     *)
(* lasts is left open.  An endpoint is a path; a prefix is a key of        *)
(* ChaosConfig.endpoints, Covers the paths that start with it and Length   *)
(* its length.                                                             *)
(***************************************************************************)
EXTENDS Naturals, FiniteSets

CONSTANTS
    Requests,           \* requests the service may have at once
    Endpoints,
    AdminPath,          \* /admin/...
    Exempt,             \* paths dispatch lets through: admin, health, docs
    Prefixes, Covers, Length,
    Settings,           \* what the environment may set at the start
    PutConfigs,         \* bodies of PUT /admin/chaos
    Patches,            \* bodies of PATCH /admin/chaos: some fields of a configuration
    Scenarios,          \* names asked of POST /admin/chaos/scenario/{name}
    MaxRequests         \* bound: requests made

Kinds == {"503", "429", "500", "504", "timeout", "malformed"}
Rates == {"never", "sometimes", "always"}
Knobs == {"enabled", "rate", "slow", "kind"}
Rule == [enabled : BOOLEAN, rate : Rates, slow : BOOLEAN, kind : Kinds]
Config == [enabled : BOOLEAN, rate : Rates, slow : BOOLEAN, kind : Kinds,
           overrides : UNION {[P -> Rule] : P \in SUBSET Prefixes}]

ASSUME RequestsAssumption == IsFiniteSet(Requests)
ASSUME EndpointsAssumption == AdminPath \in Exempt /\ Exempt \subseteq Endpoints
ASSUME PrefixesAssumption ==
    /\ IsFiniteSet(Prefixes)
    /\ Covers \in [Prefixes -> SUBSET Endpoints] /\ Length \in [Prefixes -> Nat]
    /\ \A p, q \in Prefixes : p # q /\ Covers[p] \cap Covers[q] # {} => Length[p] # Length[q]
ASSUME AdminInputsAssumption ==
    /\ PutConfigs \subseteq Config
    /\ Settings \subseteq {c \in Config : c.overrides = <<>>}
    /\ \A p \in Patches : \E c \in Config : \A f \in DOMAIN p : f \in DOMAIN c /\ p[f] = c[f]
ASSUME MaxRequestsAssumption == MaxRequests \in Nat

VARIABLES
    config, injected, passed,   \* ChaosState
    rpc,                \* where each request is
    endpoint,           \* its path
    rule,               \* the configuration dispatch resolved for it, while it sleeps
    reply,              \* what it was answered
    started,            \* requests made so far
    calm,               \* history: the last change of the configuration turned chaos off
    late                \* history: requests asleep at that change

chaosVars == <<config, injected, passed, rpc, endpoint, rule, reply, started, calm, late>>

RequestSteps == {"idle", "asleep", "hung", "handler", "consult", "fetching", "done"}

Default == [enabled |-> FALSE, rate |-> "never", slow |-> FALSE, kind |-> "503", overrides |-> <<>>]
Off == [f \in Knobs |-> Default[f]]

Switched(rate, slow, kind) == [Default EXCEPT !.enabled = TRUE, !.rate = rate, !.slow = slow, !.kind = kind]

\* SCENARIOS
Scenario(name) ==
    CASE name = "healthy"      -> Default
      [] name = "flaky"        -> Switched("sometimes", FALSE, "503")
      [] name = "hard_down"    -> Switched("always", FALSE, "503")
      [] name = "slow"         -> Switched("never", TRUE, "503")
      [] name = "rate_limited" -> Switched("sometimes", FALSE, "429")
      [] name = "timeouts"     -> Switched("sometimes", FALSE, "timeout")
      [] name = "corrupt"      -> Switched("sometimes", FALSE, "malformed")

Known == {"healthy", "flaky", "hard_down", "slow", "rate_limited", "timeouts", "corrupt"}

\* What a request is answered: by the engine, or by the service.
Injections == Kinds
Replies == Injections \cup {"none", "served", "answer", "refused", "unavailable", "no_report"}

ChaosTypeOK ==
    /\ config \in Config
    /\ injected \in Nat /\ passed \in Nat /\ started \in Nat /\ late \in Nat
    /\ rpc \in [Requests -> RequestSteps]
    /\ endpoint \in [Requests -> Endpoints]
    /\ rule \in [Requests -> Rule]
    /\ reply \in [Requests -> Replies]
    /\ calm \in BOOLEAN

ChaosInit ==
    /\ config \in Settings /\ injected = 0 /\ passed = 0
    /\ rpc = [q \in Requests |-> "idle"]
    /\ endpoint = [q \in Requests |-> AdminPath]
    /\ rule = [q \in Requests |-> Off]
    /\ reply = [q \in Requests |-> "none"]
    /\ started = 0
    /\ calm = (config = Default) /\ late = 0

-----------------------------------------------------------------------------
\* resolve: the longest override the path starts with, else the global configuration.
Matches(e) == {p \in DOMAIN config.overrides : e \in Covers[p]}

Resolve(e) ==
    IF Matches(e) = {}
    THEN [f \in Knobs |-> config[f]]
    ELSE config.overrides[CHOOSE p \in Matches(e) : \A o \in Matches(e) : Length[o] <= Length[p]]

Asleep == {q \in Requests : rpc[q] = "asleep"}

Moves(q, step, what) == rpc' = [rpc EXCEPT ![q] = step] /\ reply' = [reply EXCEPT ![q] = what]
Goto(q, step) == Moves(q, step, "none")
Reply(q, what) == Moves(q, "done", what)

\* The error, at once or after a hang.
Inject(q, kind) == IF kind = "timeout" THEN Goto(q, "hung") ELSE Reply(q, kind)

\* The dice, thrown after the sleep, with the rule resolved before it.
Dice(q, r) ==
    \/ /\ r.rate # "always"
       /\ passed' = passed + 1 /\ UNCHANGED injected
       /\ Goto(q, "handler")
    \/ /\ r.rate # "never"
       /\ injected' = injected + 1 /\ UNCHANGED passed
       /\ Inject(q, r.kind)

\* A request takes the place of one that was answered.
Arrives(q, e) ==
    /\ rpc[q] \in {"idle", "done"} /\ started < MaxRequests
    /\ started' = started + 1
    /\ endpoint' = [endpoint EXCEPT ![q] = e]

\* Mutated form: the exemption is forgotten.
DispatchAll(q, e) ==
    LET r == Resolve(e) IN
    /\ Arrives(q, e)
    /\ IF r.enabled THEN Dice(q, r) ELSE Goto(q, "handler") /\ UNCHANGED <<injected, passed>>
    /\ UNCHANGED <<config, rule, calm, late>>

\* dispatch, up to its first await.
Dispatch(q, e) ==
    LET r == Resolve(e)
        broken == e \notin Exempt /\ r.enabled IN
    /\ Arrives(q, e)
    /\ CASE ~broken -> Goto(q, "handler") /\ UNCHANGED <<injected, passed, rule>>
         [] broken /\ r.slow -> /\ Goto(q, "asleep")
                                /\ rule' = [rule EXCEPT ![q] = r]
                                /\ UNCHANGED <<injected, passed>>
         [] broken /\ ~r.slow -> Dice(q, r) /\ UNCHANGED rule
    /\ UNCHANGED <<config, calm, late>>

\* The sleep is over.
Wake(q) ==
    /\ rpc[q] = "asleep"
    /\ Dice(q, rule[q])
    /\ rule' = [rule EXCEPT ![q] = Off]
    /\ UNCHANGED <<config, endpoint, started, calm, late>>

\* The hang is over: a 504.
HangEnds(q) ==
    /\ rpc[q] = "hung"
    /\ Reply(q, "timeout")
    /\ UNCHANGED <<config, injected, passed, endpoint, rule, started, calm, late>>

-----------------------------------------------------------------------------
\* The admin routes.
\* Mutated form: the counters go on.
CountersKept == UNCHANGED <<injected, passed>>

ResetCounters == injected' = 0 /\ passed' = 0

\* A change after which nothing is to be injected any more, and any other change.
Calms == calm' = TRUE /\ late' = Cardinality(Asleep)
Stirs == calm' = FALSE /\ late' = 0

SetChaos ==
    /\ config' \in PutConfigs
    /\ Stirs /\ UNCHANGED <<injected, passed>>

\* model_dump() | patch: a field that is given replaces the field, endpoints included.
Merge(c, patch) == [f \in DOMAIN c |-> IF f \in DOMAIN patch THEN patch[f] ELSE c[f]]

PatchChaos ==
    /\ \E patch \in Patches : config' = Merge(config, patch)
    /\ Stirs /\ UNCHANGED <<injected, passed>>

ApplyScenario(name) ==
    IF name \in Known
    THEN /\ config' = Scenario(name)
         /\ ResetCounters
         /\ IF name = "healthy" THEN Calms ELSE Stirs
    ELSE UNCHANGED <<config, injected, passed, calm, late>>

ResetChaos == config' = Default /\ ResetCounters /\ Calms

\* get_chaos and list_scenarios
LookAtChaos == UNCHANGED <<config, injected, passed, calm, late>>

Administer(q) ==
    /\ rpc[q] = "handler" /\ endpoint[q] = AdminPath
    /\ \/ SetChaos \/ PatchChaos \/ ResetChaos \/ LookAtChaos
       \/ \E name \in Scenarios : ApplyScenario(name)
    /\ Reply(q, "served")
    /\ UNCHANGED <<endpoint, rule, started>>

-----------------------------------------------------------------------------
\* "chaos-off: Turn chaos off and restore healthy behaviour" (Makefile): after a reset, or
\* the scenario healthy, and until chaos is changed again, the engine breaks no more
\* requests than were asleep in the middleware at that moment.
ResetHeals == calm => injected <= late

\* "The admin and health surfaces must never be broken - otherwise you cannot turn chaos
\* back off" (chaos.py): whatever overrides are set, one that covers every path included,
\* no request to them waits in the engine or is answered by it.
AdminIsNeverBroken == \A q \in Requests :
    endpoint[q] \in Exempt => rpc[q] \notin {"asleep", "hung"} /\ reply[q] \notin Injections
=============================================================================
