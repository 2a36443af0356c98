------------------------------- MODULE Platform -------------------------------
(***************************************************************************)
(* The flight service and the database it reads, with the operator's       *)
(* scripts: either a new database being set up (make migrate, reference,   *)
(* seed and db-reset, run by several people) or a service that answers     *)
(* requests while chaos is switched, the outside world fails and the       *)
(* reference data is loaded again.                                         *)
(***************************************************************************)
EXTENDS LiveData, Seeding

CONSTANTS
    Published,          \* the issue of each file that a running service was set up from
    MaxWork,            \* bound: requests to a running service and loads, together
    Copied              \* the issue of each file downloaded since, by a run that was killed

ASSUME PublishedAssumption == {Published, Copied} \subseteq Issues

VARIABLE
    serving             \* the service is up; the database is not rebuilt under it

platformVars == <<migrationVars, referenceVars, seedingVars, chaosVars, liveVars, serving>>

PlatformTypeOK ==
    /\ MigrationsTypeOK /\ ReferenceTypeOK /\ SeedingTypeOK
    /\ ChaosTypeOK /\ LiveTypeOK
    /\ serving \in BOOLEAN

\* The tables one issue of each file gives.
LoadedFrom(i) ==
    LET read == [NoRows EXCEPT !.airports = AirportsOf(i), !.airlines = AirlinesOf(i)] IN
    [read EXCEPT !.routes = RoutesOf(i, read)]

NewDatabase == MigrationsInit /\ ReferenceInit /\ serving = FALSE

RunningService ==
    /\ MigratedInit
    /\ disk = [f \in Files |-> Copied]
    /\ reference = LoadedFrom(Published)
    /\ shared = {}
    /\ lpc = [l \in Loaders |-> "idle"]
    /\ refresh = [l \in Loaders |-> FALSE]
    /\ got = [l \in Loaders |-> [f \in Files |-> Missing]]
    /\ work = [l \in Loaders |-> NoRows]
    /\ loads = 1
    /\ serving = TRUE

PlatformInit ==
    /\ NewDatabase \/ RunningService
    /\ SeedingInit /\ ChaosInit /\ LiveInit

-----------------------------------------------------------------------------
database == <<migrationVars, referenceVars, seedingVars>>
service == <<chaosVars, liveVars>>

\* Bound: a loader asks only whether the tables exist, so loaders and migrations take turns.
Migrate ==
    /\ ~serving /\ MigrationsNext
    /\ \A l \in Loaders : lpc[l] = "idle"
    /\ UNCHANGED <<referenceVars, seedingVars, service>>

\* Bound: under a running service the reference data is loaded from the copies.
Load ==
    /\ ReferenceNext
    /\ loads' # loads => \A m \in Runners : mpc[m] = "idle"
    /\ serving => started + loads' <= MaxWork /\ \A l \in Loaders : ~refresh'[l]
    /\ UNCHANGED <<migrationVars, seedingVars, service>>

Seed ==
    /\ ~serving /\ SeedingNext
    /\ UNCHANGED <<migrationVars, disk, reference, lpc, refresh, got, work, loads, service>>

Reset == ~serving /\ DropTables /\ UNCHANGED service

Middleware ==
    /\ serving
    /\ \E q \in Requests :
         \/ \E e \in Endpoints : started + loads < MaxWork /\ Dispatch(q, e) /\ Anew(q)
         \/ (Wake(q) \/ HangEnds(q) \/ Administer(q)) /\ UNCHANGED liveVars
    /\ UNCHANGED database

Live ==
    /\ serving /\ LiveNext
    /\ UNCHANGED <<database, config, injected, passed, endpoint, rule, started, calm, late>>

PlatformNext ==
    \/ (Migrate \/ Load \/ Seed \/ Reset) /\ UNCHANGED serving
    \/ (Middleware \/ Live) /\ UNCHANGED serving

PlatformSpec == PlatformInit /\ [][PlatformNext]_platformVars

\* The event loop runs what is ready, time passes, a script that is not killed goes on,
\* and httpx ends what takes too long.  Nothing makes the outside world answer.
RequestGoesOn(q) ==
    \/ (serving /\ (Wake(q) \/ HangEnds(q) \/ Administer(q)) /\ UNCHANGED <<database, liveVars, serving>>)
    \/ (serving /\ HandlerStep(q) /\ UNCHANGED <<database, config, injected, passed, endpoint, rule,
                                                 started, calm, late, serving>>)

TimePasses ==
    serving /\ Tick /\ UNCHANGED <<database, config, injected, passed, endpoint, rule, started,
                                   calm, late, serving>>

LoadGoesOn(l) == LoaderStep(l) /\ UNCHANGED <<migrationVars, seedingVars, service, serving>>

PlatformFairness ==
    /\ \A q \in Requests : WF_platformVars(RequestGoesOn(q))
    /\ WF_platformVars(TimePasses)
    /\ \A l \in Loaders : WF_platformVars(LoadGoesOn(l))

FairPlatformSpec == PlatformSpec /\ PlatformFairness

-----------------------------------------------------------------------------
\* Every request to the flight service is answered in the end, though it may sleep and hang
\* in the chaos engine, wait for a loader that holds the reference tables, and ask an
\* outside world that never answers (dispatch, fetch_one, fetch_metar).
EveryRequestEnds == \A q \in Requests : (rpc[q] # "idle") ~> (rpc[q] = "done")
=============================================================================
