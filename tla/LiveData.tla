------------------------------- MODULE LiveData -------------------------------
(***************************************************************************)
(* live.py and routers/live.py of the flight service: weather and aircraft *)
(* requests that have passed the middleware look up a code in the          *)
(* reference tables, which a loader may hold, and then a cache; a miss     *)
(* asks the outside world, and whatever comes back later is put in the     *)
(* cache, however many requests are doing the same.                        *)
(*                                                                         *)
(* Time is kept as ages, counted by Tick and capped where no comparison    *)
(* tells larger ones apart, so it has no end.                              *)
(***************************************************************************)
EXTENDS Integers, ChaosEngine, ReferenceData

CONSTANTS
    AirportAsked,       \* [weather endpoints -> AirportCodes]
    CarrierAsked,       \* [aircraft endpoints -> Carriers]
    Sky,                \* the key opensky:states
    NoKey,
    TTL,                \* [Sources -> Nat], WEATHER_TTL and AIRCRAFT_TTL
    Patience            \* [Sources -> Nat], the longest an httpx request can last

\* Keys of the cache: metar:<station> and opensky:states.
Sources == Stations \cup {Sky}

ASSUME AskedAssumption ==
    /\ DOMAIN AirportAsked \subseteq Endpoints /\ DOMAIN CarrierAsked \subseteq Endpoints
    /\ DOMAIN AirportAsked \cap DOMAIN CarrierAsked = {}
    /\ Exempt \cap (DOMAIN AirportAsked \cup DOMAIN CarrierAsked) = {}
    /\ AirportAsked \in [DOMAIN AirportAsked -> AirportCodes]
    /\ CarrierAsked \in [DOMAIN CarrierAsked -> Carriers]
ASSUME SourcesAssumption == Sky \notin Stations /\ NoKey \notin Sources
ASSUME TimesAssumption == TTL \in [Sources -> Nat] /\ Patience \in [Sources -> Nat]

VARIABLES
    cache,              \* _cache
    key,                \* the key a request needs
    age,                \* time since a request sent its fetch
    answer,             \* what the outside world has answered, not yet received
    shown,              \* history: the age of the observation a request was answered with
    quiet               \* history: time since the last answer received for a key, a report

liveVars == <<cache, key, age, answer, shown, quiet>>

Capped(n, top) == IF n < top THEN n + 1 ELSE top

\* No observation in the cache is older than this while it is served.
Oldest(k) == TTL[k] + Patience[k]
Ages(k) == 0..Oldest(k) + 1

\* left is expires_at less the time, -1 when that is past; a value of None is "none".
Entry(k) == [value : {"report", "none"}, left : -1..TTL[k], seen : Ages(k)]
NoEntry == [value |-> "none", left |-> -1, seen |-> 0]

\* An answer on its way, with the age of what it reports.
Nothing == [kind |-> "nothing", seen |-> 0]
Answers(k) == [kind : {"report", "none"}, seen : Ages(k)]

LiveTypeOK ==
    /\ cache \in [Sources -> UNION {Entry(k) : k \in Sources}]
    /\ \A k \in Sources : cache[k] \in Entry(k)
    /\ key \in [Requests -> Sources \cup {NoKey}]
    /\ age \in [Requests -> Nat]
    /\ answer \in [Requests -> {Nothing} \cup UNION {Answers(k) : k \in Sources}]
    /\ \A q \in Requests : answer[q] = Nothing \/ (key[q] \in Sources /\ answer[q] \in Answers(key[q]))
    /\ \A q \in Requests : rpc[q] \in {"consult", "fetching"} => key[q] \in Sources
    /\ shown \in [Requests -> Nat]
    /\ quiet \in [Sources -> Nat]

LiveInit ==
    /\ cache = [k \in Sources |-> NoEntry]
    /\ key = [q \in Requests |-> NoKey]
    /\ age = [q \in Requests |-> 0]
    /\ answer = [q \in Requests |-> Nothing]
    /\ shown = [q \in Requests |-> 0]
    /\ quiet = [k \in Sources |-> TTL[k] + 1]

-----------------------------------------------------------------------------
\* What the slot's previous request left behind is gone.
Anew(q) ==
    /\ key' = [key EXCEPT ![q] = NoKey]
    /\ shown' = [shown EXCEPT ![q] = 0]
    /\ UNCHANGED <<cache, age, answer, quiet>>

\* Handlers of routes that use neither table nor cache of this module.
OtherEndpoints == Endpoints \ (DOMAIN AirportAsked \cup DOMAIN CarrierAsked \cup {AdminPath})

Serve(q) ==
    /\ rpc[q] = "handler" /\ endpoint[q] \in OtherEndpoints
    /\ Reply(q, "served")
    /\ UNCHANGED liveVars

\* The request needs a key, or is refused for the row it did not find.
Needs(q, k) ==
    /\ key' = [key EXCEPT ![q] = k]
    /\ Goto(q, "consult")
    /\ UNCHANGED <<cache, age, answer, shown, quiet>>

Refuse(q) == Reply(q, "refused") /\ UNCHANGED liveVars

\* airport_weather's row: 404 AIRPORT_NOT_FOUND, 422 NO_WEATHER_STATION, or its station.
FindStation(q) ==
    /\ rpc[q] = "handler" /\ endpoint[q] \in DOMAIN AirportAsked
    /\ ~Locked
    /\ LET stations == {a.icao : a \in {a \in reference.airports : a.iata = AirportAsked[endpoint[q]]}} IN
       IF stations \ {Null} = {} THEN Refuse(q) ELSE \E k \in stations \ {Null} : Needs(q, k)

\* aircraft_position's row: 404 AIRLINE_NOT_FOUND, or the callsign to look for.
FindAirline(q) ==
    /\ rpc[q] = "handler" /\ endpoint[q] \in DOMAIN CarrierAsked
    /\ ~Locked
    /\ IF HasAirline(reference, CarrierAsked[endpoint[q]]) THEN Needs(q, Sky) ELSE Refuse(q)

\* Mutated form: the expiry is not looked at.
HitForever(k) == cache[k].value = "report"

\* _get finds a value: None is the same as no entry.
Hit(k) == cache[k].left >= 0 /\ cache[k].value = "report"

\* The cached report answers the request.
FromCache(q) ==
    /\ rpc[q] = "consult" /\ Hit(key[q])
    /\ shown' = [shown EXCEPT ![q] = cache[key[q]].seen]
    /\ Reply(q, "answer")
    /\ UNCHANGED <<cache, key, age, answer, quiet>>

\* A miss: the fetch is sent before anything else can run.
SendFetch(q) ==
    /\ rpc[q] = "consult" /\ ~Hit(key[q])
    /\ age' = [age EXCEPT ![q] = 0]
    /\ answer' = [answer EXCEPT ![q] = Nothing]
    /\ Goto(q, "fetching")
    /\ UNCHANGED <<cache, key, shown, quiet>>

\* The outside world answers with a report, or that a station has none.
Respond(q) ==
    /\ rpc[q] = "fetching" /\ answer[q] = Nothing
    /\ \E kind \in {"report", "none"} :
         /\ kind = "none" => key[q] # Sky
         /\ answer' = [answer EXCEPT ![q] = [kind |-> kind, seen |-> 0]]
    /\ UNCHANGED <<rpc, reply, cache, key, age, shown, quiet>>

\* The fetch is over.
Drop(q) == answer' = [answer EXCEPT ![q] = Nothing] /\ age' = [age EXCEPT ![q] = 0] /\ UNCHANGED key

\* Mutated form: the time to live counts from the observation.
PutAsOfObservation(k, value, seen) ==
    cache' = [cache EXCEPT ![k] = [value |-> value, left |-> TTL[k] - seen, seen |-> seen]]

\* _put, over whatever another request has put in the meantime.
Put(k, value, seen) == cache' = [cache EXCEPT ![k] = [value |-> value, left |-> TTL[k], seen |-> seen]]

\* The answer arrives and is put in the cache, a None too.
Receive(q) ==
    LET k == key[q]  a == answer[q] IN
    /\ rpc[q] = "fetching" /\ a # Nothing
    /\ Put(k, a.kind, a.seen)
    /\ IF a.kind = "report"
       THEN /\ shown' = [shown EXCEPT ![q] = a.seen]
            /\ quiet' = [quiet EXCEPT ![k] = 0]
            /\ Reply(q, "answer")
       ELSE /\ quiet' = [quiet EXCEPT ![k] = TTL[k] + 1]
            /\ Reply(q, "no_report") /\ UNCHANGED shown
    /\ Drop(q)

\* httpx raises, the status is an error (429 among them) or the body is not JSON: the
\* request fails and the cache stays.
FetchFails(q) ==
    /\ rpc[q] = "fetching"
    /\ Reply(q, "unavailable") /\ Drop(q) /\ UNCHANGED <<cache, shown, quiet>>

\* Mutated form: AsyncClient(timeout=None).
WaitsForever(q) == FALSE /\ FetchFails(q)

\* httpx's timeout ends the fetch.
TimesOut(q) == rpc[q] = "fetching" /\ age[q] = Patience[key[q]] /\ FetchFails(q)

\* Time passes, but not past the end of a fetch.
Tick ==
    /\ \A q \in Requests : rpc[q] = "fetching" => age[q] < Patience[key[q]]
    /\ cache' = [k \in Sources |->
                    [cache[k] EXCEPT !.left = IF @ >= 0 THEN @ - 1 ELSE -1,
                                     !.seen = Capped(@, Oldest(k) + 1)]]
    /\ age' = [q \in Requests |-> IF rpc[q] = "fetching" THEN age[q] + 1 ELSE age[q]]
    /\ answer' = [q \in Requests |->
                    IF answer[q] = Nothing THEN Nothing
                    ELSE [answer[q] EXCEPT !.seen = Capped(@, Oldest(key[q]) + 1)]]
    /\ quiet' = [k \in Sources |-> Capped(quiet[k], TTL[k] + 1)]
    /\ UNCHANGED <<rpc, reply, key, shown>>

-----------------------------------------------------------------------------
\* The steps of a request's handler that its fairness covers.
HandlerStep(q) ==
    \/ Serve(q) \/ FindStation(q) \/ FindAirline(q) \/ FromCache(q) \/ SendFetch(q)
    \/ Receive(q) \/ TimesOut(q)

LiveNext ==
    \/ Tick
    \/ \E q \in Requests : HandlerStep(q) \/ Respond(q) \/ FetchFails(q)

\* "Everything is cached" (live.py), with a time to live per source: whatever order
\* answers arrive in, one that was long on its way over one just put included, nobody is
\* answered with an observation older than its time to live and one fetch.
ServedIsRecent == \A q \in Requests :
    rpc[q] = "done" /\ reply[q] = "answer" => shown[q] <= Oldest(key[q])

\* "A voice agent asking once per turn would exhaust" the quota (live.py): no request goes
\* out for a key within the time to live of the last report received for it, whatever
\* errors and late answers came in between.  An answer without a report ends that: its
\* None is cached, and read back as nothing.
QuotaIsSpared ==
    [][\A q \in Requests : rpc[q] = "consult" /\ rpc'[q] = "fetching" => quiet[key[q]] > TTL[key[q]]]_<<rpc, quiet>>
=============================================================================
