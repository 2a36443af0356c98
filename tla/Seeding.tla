-------------------------------- MODULE Seeding --------------------------------
(***************************************************************************)
(* scripts/seed.py and the Makefile's db-reset: one transaction empties    *)
(* the service's tables, reads the routes that the reference data has      *)
(* between the hubs, and invents flights on them (and customers, bookings, *)
(* calls and jobs, which no property of this module tells apart; the       *)
(* booking rows are FlightService's ServiceInit).                          *)
(***************************************************************************)
EXTENDS ReferenceData

CONSTANTS
    Hubs,               \* HUBS, the airports of the seeded schedule
    NoSeed              \* the tables hold no seeded rows

VARIABLES
    spc,                \* where each seeder is
    pool,               \* route_pool, per seeder
    flown               \* the routes the committed flights are on, or NoSeed

seedingVars == <<spc, pool, flown>>

SeederSteps == {"idle", "emptied", "chosen"}

SeedingTypeOK ==
    /\ spc \in [Seeders -> SeederSteps]
    /\ pool \in [Seeders -> SUBSET Route]
    /\ flown = NoSeed \/ flown \in SUBSET Route

SeedingInit ==
    /\ spc = [s \in Seeders |-> "idle"]
    /\ pool = [s \in Seeders |-> {}]
    /\ flown = NoSeed

\* load_routes: the routes of Indian carriers between hubs.
RoutePool ==
    {r \in reference.routes :
        /\ r.origin \in Hubs /\ r.destination \in Hubs
        /\ \E a \in reference.airlines : a.iata = r.carrier /\ a.indian}

\* The transaction ends; its locks are released.
Release(s) ==
    /\ spc' = [spc EXCEPT ![s] = "idle"]
    /\ pool' = [pool EXCEPT ![s] = {}]
    /\ shared' = shared \ {s}

\* TRUNCATE of the service's tables, which a second seeder waits for; then staff and
\* customers.
Empty(s) ==
    /\ spc[s] = "idle" /\ Migrated
    /\ \A o \in Seeders : spc[o] = "idle"
    /\ spc' = [spc EXCEPT ![s] = "emptied"]
    /\ UNCHANGED <<pool, flown, shared>>

\* Mutated form: the routes are read on a connection of their own.
RoutePoolOfAnother(s) ==
    /\ spc[s] = "emptied" /\ ~Locked /\ RoutePool # {}
    /\ pool' = [pool EXCEPT ![s] = RoutePool]
    /\ spc' = [spc EXCEPT ![s] = "chosen"]
    /\ UNCHANGED <<shared, flown>>

\* load_routes waits for a loader's transaction; with no routes the run ends.
LoadRoutePool(s) ==
    /\ spc[s] = "emptied" /\ ~Locked
    /\ IF RoutePool = {}
       THEN Release(s)
       ELSE /\ pool' = [pool EXCEPT ![s] = RoutePool]
            /\ shared' = shared \cup {s}
            /\ spc' = [spc EXCEPT ![s] = "chosen"]
    /\ UNCHANGED flown

\* Flights on routes of the pool, and every other row; conn.commit().
CommitSeed(s) ==
    /\ spc[s] = "chosen"
    /\ \E routes \in SUBSET pool[s] \ {{}} : flown' = routes
    /\ Release(s)

SeederDies(s) ==
    /\ spc[s] # "idle"
    /\ Release(s) /\ UNCHANGED flown

SeedingNext ==
    \E s \in Seeders : Empty(s) \/ LoadRoutePool(s) \/ CommitSeed(s) \/ SeederDies(s)

\* DROP SCHEMA takes every table with it, and waits for the transactions that hold one.
DropTables ==
    /\ ~Locked
    /\ \A s \in Seeders : spc[s] = "idle"
    /\ DropSchema
    /\ reference' = NoRows /\ flown' = NoSeed
    /\ UNCHANGED <<disk, shared, lpc, refresh, got, work, loads, spc, pool>>

-----------------------------------------------------------------------------
\* "A seeded AI303 flies a route Air India genuinely operated" (seed.py): the moment the
\* flights are committed, the reference tables still hold their routes, though loaders
\* replace the tables at any time and nothing but the reader's lock keeps them.
SeededOnRealRoutes ==
    [][flown' # flown /\ flown' # NoSeed => flown' \subseteq reference.routes]_<<flown, reference>>
=============================================================================
