----------------------------- MODULE ReferenceData -----------------------------
(***************************************************************************)
(* scripts/load_reference.py: copies of three OpenFlights files under      *)
(* data/reference/, and loaders that replace the tables airports, airlines *)
(* and routes (0006_reference_data.sql) with what the files hold, in one   *)
(* transaction.  0006 declares no foreign key among the three.             *)
(*                                                                         *)
(* A version of the data is an element of Issues; AirportRows, AirlineRows *)
(* and RouteRows give each version's lines, reduced to the fields the      *)
(* loader decides on.  A code of the wrong length is no code here.         *)
(***************************************************************************)
EXTENDS Migrations, Sequences

CONSTANTS
    Loaders,            \* load_reference.py processes
    Seeders,            \* seed.py processes, which read the tables
    Issues,             \* versions of a file
    Online,             \* those a download may get
    CutShort,           \* what is left of a file whose writing was interrupted
    Missing,            \* no copy
    AirportCodes, Stations,     \* three- and four-letter codes of airports
    Carriers, Callsigns,        \* two- and three-letter codes of airlines
    Null,               \* no value, \N in the files
    AirportRows, AirlineRows, RouteRows,
    MaxLoads            \* bound: runs of the loader

\* Fields of a line; airports.dat is read up to its thirteenth.
AirportRow == [width : Nat, iata : AirportCodes \cup {Null}, icao : Stations \cup {Null},
               airport : BOOLEAN]
AirlineRow == [iata : Carriers \cup {Null}, icao : Callsigns \cup {Null},
               active : BOOLEAN, indian : BOOLEAN]
RouteRow == [carrier : Carriers \cup {Null}, origin : AirportCodes \cup {Null},
             destination : AirportCodes \cup {Null}]

ASSUME IssuesAssumption == Missing \notin Issues /\ CutShort \in Issues /\ Online \subseteq Issues
ASSUME NullAssumption == Null \notin AirportCodes \cup Stations \cup Carriers \cup Callsigns
ASSUME RowsAssumption ==
    /\ AirportRows \in [Issues -> Seq(AirportRow)]
    /\ AirlineRows \in [Issues -> Seq(AirlineRow)]
    /\ RouteRows \in [Issues -> Seq(RouteRow)]
ASSUME LoadsAssumption == MaxLoads \in Nat

VARIABLES
    disk,               \* data/reference/: the copy of each file
    reference,          \* the committed tables
    shared,             \* open transactions that have read the tables
    lpc,                \* where each loader is
    refresh,            \* --refresh
    got,                \* the text each loader has of each file
    work,               \* the tables in the loader's transaction
    loads               \* runs so far

referenceVars == <<disk, reference, shared, lpc, refresh, got, work, loads>>

Files == {"airports", "airlines", "routes"}
Loading == {"truncated", "airlinesIn", "filled"}
LoaderSteps == {"idle", "parsed"} \cup Files \cup Loading

Airport == [iata : AirportCodes, icao : Stations \cup {Null}]
Airline == [iata : Carriers, icao : Callsigns, indian : BOOLEAN]
Route == [carrier : Carriers, origin : AirportCodes, destination : AirportCodes]
Tables == [airports : SUBSET Airport, airlines : SUBSET Airline, routes : SUBSET Route]
NoRows == [airports |-> {}, airlines |-> {}, routes |-> {}]

ReferenceTypeOK ==
    /\ disk \in [Files -> Issues \cup {Missing}]
    /\ reference \in Tables
    /\ shared \subseteq Seeders
    /\ lpc \in [Loaders -> LoaderSteps]
    /\ refresh \in [Loaders -> BOOLEAN]
    /\ got \in [Loaders -> [Files -> Issues \cup {Missing}]]
    /\ work \in [Loaders -> Tables]
    /\ loads \in Nat
    /\ \A l \in Loaders : lpc[l] \in Loading => \A f \in Files : got[l][f] \in Issues

-----------------------------------------------------------------------------
\* What main makes of the lines.
\* A line of twelve fields passes "len(row) < 12" and has no row[12].
Ragged(i) == \E n \in DOMAIN AirportRows[i] :
    AirportRows[i][n].width = 12 /\ AirportRows[i][n].iata # Null

AirportKept(row) == row.width > 12 /\ row.iata # Null /\ row.airport

\* The last line of a code counts.
AirportsOf(i) ==
    LET rows == AirportRows[i] IN
    {[iata |-> rows[n].iata, icao |-> rows[n].icao] : n \in
        {n \in DOMAIN rows : /\ AirportKept(rows[n])
                             /\ \A o \in DOMAIN rows : AirportKept(rows[o])
                                  /\ rows[o].iata = rows[n].iata => o <= n}}

AirlineKept(row) == row.iata # Null /\ row.icao # Null /\ row.active

\* The first line of a code counts.
AirlinesOf(i) ==
    LET rows == AirlineRows[i] IN
    {[iata |-> rows[n].iata, icao |-> rows[n].icao, indian |-> rows[n].indian] : n \in
        {n \in DOMAIN rows : /\ AirlineKept(rows[n])
                             /\ \A o \in DOMAIN rows : AirlineKept(rows[o])
                                  /\ rows[o].iata = rows[n].iata => n <= o}}

HasAirport(tables, code) == \E a \in tables.airports : a.iata = code
HasAirline(tables, code) == \E a \in tables.airlines : a.iata = code

\* A route's codes are in the other two tables.
Resolvable(tables, r) ==
    /\ HasAirline(tables, r.carrier)
    /\ HasAirport(tables, r.origin) /\ HasAirport(tables, r.destination)

\* Mutated form: routes are kept whatever their codes name.
RoutesUnchecked(i, tables) ==
    {r \in {RouteRows[i][n] : n \in DOMAIN RouteRows[i]} :
        Null \notin {r.carrier, r.origin, r.destination} /\ r.origin # r.destination}

\* The routes the loader keeps; it has the airports and airlines it just loaded.
RoutesOf(i, tables) ==
    {r \in {RouteRows[i][n] : n \in DOMAIN RouteRows[i]} :
        /\ Null \notin {r.carrier, r.origin, r.destination}
        /\ r.origin # r.destination
        /\ Resolvable(tables, r)}

-----------------------------------------------------------------------------
\* Nothing downloaded, the tables empty.
ReferenceInit ==
    /\ disk = [f \in Files |-> Missing]
    /\ reference = NoRows
    /\ shared = {}
    /\ lpc = [l \in Loaders |-> "idle"]
    /\ refresh = [l \in Loaders |-> FALSE]
    /\ got = [l \in Loaders |-> [f \in Files |-> Missing]]
    /\ work = [l \in Loaders |-> NoRows]
    /\ loads = 0

After(step) == CASE step = "airports" -> "airlines"
                 [] step = "airlines" -> "routes"
                 [] step = "routes" -> "parsed"

\* Ends the process: what it held in memory and in its transaction is gone.
Exit(l) ==
    /\ lpc' = [lpc EXCEPT ![l] = "idle"]
    /\ refresh' = [refresh EXCEPT ![l] = FALSE]
    /\ got' = [got EXCEPT ![l] = [f \in Files |-> Missing]]
    /\ work' = [work EXCEPT ![l] = NoRows]

StartLoad(l) ==
    /\ lpc[l] = "idle" /\ loads < MaxLoads
    /\ loads' = loads + 1
    /\ \E r \in BOOLEAN : refresh' = [refresh EXCEPT ![l] = r]
    /\ lpc' = [lpc EXCEPT ![l] = "airports"]
    /\ UNCHANGED <<disk, reference, shared, got, work>>

Have(l, f, i) ==
    /\ got' = [got EXCEPT ![l][f] = i]
    /\ lpc' = [lpc EXCEPT ![l] = After(f)]
    /\ UNCHANGED <<reference, shared, refresh, work, loads>>

Downloads(l, f) == lpc[l] = f /\ (refresh[l] \/ disk[f] = Missing)

\* fetch: the copy, when there is one and it was not to be refreshed.
UseCopy(l, f) ==
    /\ lpc[l] = f /\ disk[f] # Missing /\ ~refresh[l]
    /\ Have(l, f, disk[f]) /\ UNCHANGED disk

\* The download succeeds and becomes the copy.
Download(l, f) ==
    /\ Downloads(l, f)
    /\ \E i \in Online :
         Have(l, f, i) /\ disk' = [disk EXCEPT ![f] = i]

\* The download fails: the copy serves, and without one the run ends.
DownloadFails(l, f) ==
    /\ Downloads(l, f)
    /\ IF disk[f] # Missing
       THEN Have(l, f, disk[f])
       ELSE Exit(l) /\ UNCHANGED <<reference, shared, loads>>
    /\ UNCHANGED disk

\* The process is killed in write_bytes, which truncates the file first.
DiesWriting(l, f) ==
    /\ Downloads(l, f)
    /\ disk' = [disk EXCEPT ![f] = CutShort]
    /\ Exit(l) /\ UNCHANGED <<reference, shared, loads>>

\* TRUNCATE takes ACCESS EXCLUSIVE, which is kept until the transaction ends.
Locked == \E l \in Loaders : lpc[l] \in Loading

\* Airports are parsed, then the three tables emptied and the airports inserted; a ragged
\* line or tables that do not exist end the run.
LoadAirports(l) ==
    /\ lpc[l] = "parsed"
    /\ IF Ragged(got[l]["airports"]) \/ ~Migrated
       THEN Exit(l)
       ELSE /\ ~Locked /\ shared = {}
            /\ work' = [work EXCEPT ![l] = [NoRows EXCEPT !.airports = AirportsOf(got[l]["airports"])]]
            /\ lpc' = [lpc EXCEPT ![l] = "truncated"]
            /\ UNCHANGED <<refresh, got>>
    /\ UNCHANGED <<disk, reference, shared, loads>>

LoadAirlines(l) ==
    /\ lpc[l] = "truncated"
    /\ work' = [work EXCEPT ![l].airlines = AirlinesOf(got[l]["airlines"])]
    /\ lpc' = [lpc EXCEPT ![l] = "airlinesIn"]
    /\ UNCHANGED <<disk, reference, shared, refresh, got, loads>>

LoadRoutes(l) ==
    /\ lpc[l] = "airlinesIn"
    /\ work' = [work EXCEPT ![l].routes = RoutesOf(got[l]["routes"], work[l])]
    /\ lpc' = [lpc EXCEPT ![l] = "filled"]
    /\ UNCHANGED <<disk, reference, shared, refresh, got, loads>>

\* conn.commit()
CommitLoad(l) ==
    /\ lpc[l] = "filled"
    /\ reference' = work[l]
    /\ Exit(l)
    /\ UNCHANGED <<disk, shared, loads>>

LoaderDies(l) ==
    /\ lpc[l] # "idle"
    /\ Exit(l)
    /\ UNCHANGED <<disk, reference, shared, loads>>

\* A loader's own steps, without the ways it can die.
LoaderStep(l) ==
    \/ \E f \in Files : UseCopy(l, f) \/ Download(l, f) \/ DownloadFails(l, f)
    \/ LoadAirports(l) \/ LoadAirlines(l) \/ LoadRoutes(l) \/ CommitLoad(l)

ReferenceNext ==
    \E l \in Loaders :
      \/ StartLoad(l) \/ LoaderStep(l) \/ LoaderDies(l)
      \/ \E f \in Files : DiesWriting(l, f)

-----------------------------------------------------------------------------
\* "Skip routes we cannot resolve, so the foreign keys stay honest" (load_reference.py):
\* whatever mix of old, new and cut files a run loads, whichever runs overlap and
\* wherever one dies, the committed routes name committed airlines and airports.
RoutesResolve == \A r \in reference.routes : Resolvable(reference, r)
=============================================================================
