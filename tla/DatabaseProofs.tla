---------------------------- MODULE DatabaseProofs ----------------------------
(***************************************************************************)
(* Proofs about the database half of Platform: racing migration runners,   *)
(* loaders that replace the reference tables, and seeders that read them,  *)
(* for any number of each and any files.                                   *)
(***************************************************************************)
EXTENDS Platform, TLAPS

-----------------------------------------------------------------------------
(* Migrations. *)

\* A runner's place in the series: what it found is still recorded, so is everything
\* before the file it has come to, and a file it is applying is not.
RunnersInOrder ==
    \A m \in Runners :
      /\ known[m] \subseteq Applied
      /\ mpc[m] = "idle" => known[m] = {} /\ at[m] = 1
      /\ mpc[m] # "idle" => \A w \in Versions : w < at[m] => w \in Applied
      /\ mpc[m] = "open" => at[m] \notin Applied

\* Nobody else applies it.
OneApplies ==
    \A m, n \in Runners : mpc[m] = "open" /\ mpc[n] = "open" /\ at[m] = at[n] => m = n

InSeries ==
    /\ MigrationsTypeOK
    /\ \A v \in Versions : effects[v] = IF v \in Applied THEN 1 ELSE 0
    /\ \A v \in Applied, w \in Versions : w < v => w \in Applied
    /\ RunnersInOrder
    /\ OneApplies

LEMMA InSeriesIsOrdered == InSeries => MigratedOnceInOrder
<1> SUFFICES ASSUME InSeries PROVE MigratedOnceInOrder
  OBVIOUS
<1>1. ASSUME NEW v \in Applied, NEW w \in 1..v
      PROVE  w \in Applied
  <2>1. v \in Versions /\ w \in Versions /\ (w = v \/ w < v)
    BY <1>1, LastAssumption DEF InSeries, MigrationsTypeOK, Versions
  <2> QED BY <1>1, <2>1 DEF InSeries
<1> QED BY <1>1 DEF InSeries, MigratedOnceInOrder

LEMMA MigrationsStart == MigrationsInit => InSeries
<1> SUFFICES ASSUME MigrationsInit PROVE InSeries
  OBVIOUS
<1>1. Applied = {}
  BY DEF MigrationsInit, Applied
<1>2. MigrationsTypeOK
  BY <1>1, LastAssumption, EditsAssumption
     DEF MigrationsInit, MigrationsTypeOK, Versions, Texts, MigrationSteps
<1> QED BY <1>1, <1>2 DEF MigrationsInit, InSeries, RunnersInOrder, OneApplies

LEMMA MigratedStart == MigratedInit => InSeries
<1> SUFFICES ASSUME MigratedInit PROVE InSeries
  OBVIOUS
<1>1. Applied = Versions
  BY DEF MigratedInit, Applied
<1>2. MigrationsTypeOK
  BY <1>1, LastAssumption, EditsAssumption
     DEF MigratedInit, MigrationsTypeOK, Versions, Texts, MigrationSteps
<1> QED BY <1>1, <1>2 DEF MigratedInit, InSeries, RunnersInOrder, OneApplies

\* A run ends; the tables are as they were.
LEMMA QuitInSeries ==
    ASSUME InSeries, NEW m \in Runners, Quit(m), UNCHANGED <<files, applied, effects>>
    PROVE  InSeries'
<1>1. Applied' = Applied
  BY DEF Applied
<1>2. MigrationsTypeOK'
  BY <1>1, LastAssumption DEF InSeries, MigrationsTypeOK, Quit, Versions, MigrationSteps
<1>3. RunnersInOrder' /\ OneApplies'
  BY <1>1 DEF InSeries, MigrationsTypeOK, RunnersInOrder, OneApplies, Quit
<1> QED BY <1>1, <1>2, <1>3 DEF InSeries

LEMMA DiscoverInSeries ==
    ASSUME InSeries, NEW m \in Runners, Discover(m)
    PROVE  InSeries'
<1>1. Applied' = Applied
  BY DEF Applied, Discover
<1>2. MigrationsTypeOK'
  BY <1>1 DEF InSeries, MigrationsTypeOK, Discover, MigrationSteps
<1>3. RunnersInOrder' /\ OneApplies'
  BY <1>1 DEF InSeries, MigrationsTypeOK, RunnersInOrder, OneApplies, Discover, Versions
<1> QED BY <1>1, <1>2, <1>3 DEF InSeries, Discover

\* A runner goes on to the next file when the one it has come to is recorded.
LEMMA AdvanceInSeries ==
    ASSUME InSeries, NEW m \in Runners, mpc[m] # "idle", Advance(m), UNCHANGED files,
           MigrationsTypeOK', Applied \cup {at[m]} = Applied',
           \A v \in Versions : effects'[v] = IF v \in Applied' THEN 1 ELSE 0,
           \A n \in Runners \ {m} : mpc[n] = "open" => at[n] \notin Applied'
    PROVE  InSeries'
<1>1. at[m] \in Versions /\ at[m] \in Nat
  BY LastAssumption DEF InSeries, MigrationsTypeOK, Versions
<1>2. \A v \in Applied', w \in Versions : w < v => w \in Applied'
  BY <1>1 DEF InSeries, RunnersInOrder
<1>3. ASSUME NEW n \in Runners PROVE
        /\ known'[n] \subseteq Applied'
        /\ mpc'[n] = "idle" => known'[n] = {} /\ at'[n] = 1
        /\ mpc'[n] # "idle" => \A w \in Versions : w < at'[n] => w \in Applied'
        /\ mpc'[n] = "open" => at'[n] \notin Applied'
  <2>1. CASE n # m
    BY <2>1 DEF InSeries, MigrationsTypeOK, RunnersInOrder, Advance, Quit
  <2>2. CASE n = m /\ at[m] = Last
    BY <2>2 DEF InSeries, MigrationsTypeOK, Advance, Quit
  <2>3. CASE n = m /\ at[m] # Last
    <3>1. at'[n] = at[m] + 1 /\ mpc'[n] = "up" /\ known'[n] = known[n]
      BY <2>3 DEF InSeries, MigrationsTypeOK, Advance
    <3>2. \A w \in Versions : w < at[m] + 1 => w = at[m] \/ w < at[m]
      BY <1>1, LastAssumption DEF Versions
    <3> QED BY <2>3, <3>1, <3>2 DEF InSeries, RunnersInOrder
  <2> QED BY <2>1, <2>2, <2>3
<1>4. OneApplies'
  BY DEF InSeries, MigrationsTypeOK, OneApplies, Advance, Quit
<1> QED BY <1>2, <1>3, <1>4 DEF InSeries, RunnersInOrder

LEMMA AdvanceTyped ==
    ASSUME MigrationsTypeOK, NEW m \in Runners, Advance(m)
    PROVE  /\ mpc' \in [Runners -> MigrationSteps]
           /\ known' \in [Runners -> SUBSET Versions]
           /\ at' \in [Runners -> Versions]
<1>1. CASE at[m] = Last
  <2>1. 1 \in Versions
    BY LastAssumption DEF Versions
  <2> QED BY <1>1, <2>1 DEF MigrationsTypeOK, Advance, Quit, MigrationSteps
<1>2. CASE at[m] # Last
  <2>1. at[m] \in Versions
    BY DEF MigrationsTypeOK
  <2>2. at[m] + 1 \in Versions
    BY <1>2, <2>1, LastAssumption DEF Versions
  <2> QED BY <1>2, <2>2 DEF MigrationsTypeOK, Advance, MigrationSteps
<1> QED BY <1>1, <1>2

LEMMA SkipInSeries ==
    ASSUME InSeries, NEW m \in Runners, Skip(m)
    PROVE  InSeries'
<1>1. Applied' = Applied /\ at[m] \in Applied
  BY DEF Applied, Skip, InSeries, RunnersInOrder
<1>2. MigrationsTypeOK'
  BY <1>1, AdvanceTyped DEF InSeries, MigrationsTypeOK, Skip
<1>3. \A v \in Versions : effects'[v] = IF v \in Applied' THEN 1 ELSE 0
  BY <1>1 DEF InSeries, Skip
<1>4. \A n \in Runners \ {m} : mpc[n] = "open" => at[n] \notin Applied'
  BY <1>1 DEF InSeries, RunnersInOrder
<1> QED BY <1>1, <1>2, <1>3, <1>4, AdvanceInSeries DEF Skip

LEMMA ExecuteInSeries ==
    ASSUME InSeries, NEW m \in Runners, Execute(m)
    PROVE  InSeries'
<1>1. CASE at[m] \in Applied
  BY <1>1, QuitInSeries DEF Execute
<1>2. CASE at[m] \notin Applied
  <2>1. Applied' = Applied
    BY DEF Applied, Execute
  <2>2. MigrationsTypeOK'
    BY <1>2, <2>1 DEF InSeries, MigrationsTypeOK, Execute, MigrationSteps
  <2>3. RunnersInOrder'
    BY <1>2, <2>1 DEF InSeries, MigrationsTypeOK, RunnersInOrder, Execute
  <2>4. OneApplies'
    BY <1>2 DEF InSeries, MigrationsTypeOK, OneApplies, Execute, Applying
  <2> QED BY <2>1, <2>2, <2>3, <2>4 DEF InSeries, Execute
<1> QED BY <1>1, <1>2

LEMMA RecordInSeries ==
    ASSUME InSeries, NEW m \in Runners, Record(m)
    PROVE  InSeries'
<1>1. at[m] \in Versions /\ at[m] \notin Applied
  BY DEF InSeries, MigrationsTypeOK, RunnersInOrder, Record
<1>2. Applied' = Applied \cup {at[m]}
  BY DEF Record, Applied
<1>3. MigrationsTypeOK'
  <2>1. applied' \in [Applied' -> Texts]
    BY <1>1, <1>2 DEF Record, InSeries, MigrationsTypeOK
  <2>2. effects' \in [Versions -> Nat]
    BY <1>1 DEF Record, InSeries, MigrationsTypeOK
  <2> QED BY <1>1, <1>2, <2>1, <2>2, AdvanceTyped DEF Record, InSeries, MigrationsTypeOK
<1>4. \A v \in Versions : effects'[v] = IF v \in Applied' THEN 1 ELSE 0
  BY <1>1, <1>2 DEF Record, InSeries, MigrationsTypeOK
<1>5. \A n \in Runners \ {m} : mpc[n] = "open" => at[n] \notin Applied'
  BY <1>2 DEF Record, InSeries, RunnersInOrder, OneApplies
<1> QED BY <1>2, <1>3, <1>4, <1>5, AdvanceInSeries DEF Record

LEMMA EditInSeries ==
    ASSUME InSeries, NEW v \in Versions, Edit(v)
    PROVE  InSeries'
<1>1. Applied' = Applied
  BY DEF Applied, Edit
<1>2. MigrationsTypeOK'
  BY <1>1 DEF InSeries, MigrationsTypeOK, Edit
<1> QED BY <1>1, <1>2 DEF InSeries, RunnersInOrder, OneApplies, Edit

LEMMA DropInSeries ==
    ASSUME InSeries, DropSchema
    PROVE  InSeries'
<1>1. Applied' = {}
  BY DEF Applied, DropSchema
<1>2. MigrationsTypeOK'
  BY <1>1 DEF InSeries, MigrationsTypeOK, DropSchema
<1> QED BY <1>1, <1>2 DEF InSeries, RunnersInOrder, OneApplies, DropSchema

LEMMA MigrationsKeepSeries ==
    ASSUME InSeries, MigrationsNext \/ DropSchema \/ UNCHANGED migrationVars
    PROVE  InSeries'
<1>1. ASSUME NEW m \in Runners,
             Discover(m) \/ Skip(m) \/ Execute(m) \/ Record(m) \/ RunnerDies(m)
      PROVE  InSeries'
  BY <1>1, DiscoverInSeries, SkipInSeries, ExecuteInSeries, RecordInSeries, QuitInSeries
     DEF RunnerDies
<1>2. CASE UNCHANGED migrationVars
  <2>1. Applied' = Applied
    BY <1>2 DEF Applied, migrationVars
  <2>2. MigrationsTypeOK'
    BY <1>2, <2>1 DEF InSeries, MigrationsTypeOK, migrationVars
  <2> QED BY <1>2, <2>1, <2>2 DEF InSeries, RunnersInOrder, OneApplies, migrationVars
<1> QED BY <1>1, <1>2, EditInSeries, DropInSeries DEF MigrationsNext

LEMMA PlatformMigrates ==
    [PlatformNext]_platformVars => MigrationsNext \/ DropSchema \/ UNCHANGED migrationVars
BY DEF PlatformNext, Migrate, Load, Seed, Reset, DropTables, Middleware, Live, database,
       migrationVars, platformVars

\* However many runners race, die and are run again, and whoever edits files or rebuilds the
\* schema between runs, every recorded script has run once, no other has, and the recorded
\* ones are an unbroken series.
THEOREM SchemaNeverHalfBuilt == PlatformSpec => []MigratedOnceInOrder
<1>1. PlatformInit => InSeries
  BY MigrationsStart, MigratedStart DEF PlatformInit, NewDatabase, RunningService
<1>2. InSeries /\ [PlatformNext]_platformVars => InSeries'
  BY PlatformMigrates, MigrationsKeepSeries
<1> QED BY <1>1, <1>2, InSeriesIsOrdered, PTL DEF PlatformSpec
-----------------------------------------------------------------------------
(* The reference tables. *)

\* What a loader has read by the time it has come to a step.
TextsRead(l) ==
    /\ lpc[l] \notin {"idle", "airports"} => got[l]["airports"] \in Issues
    /\ lpc[l] \notin {"idle", "airports", "airlines"} => got[l]["airlines"] \in Issues
    /\ lpc[l] \notin {"idle", "airports", "airlines", "routes"} => got[l]["routes"] \in Issues

\* The tables' types, and that the routes in a transaction name what is in it.
TablesOK ==
    /\ ReferenceTypeOK
    /\ RoutesResolve
    /\ \A l \in Loaders : TextsRead(l)
    /\ \A l \in Loaders : lpc[l] = "filled" => \A r \in work[l].routes : Resolvable(work[l], r)

LEMMA AirportsTyped ==
    ASSUME NEW i \in Issues
    PROVE  AirportsOf(i) \subseteq Airport
<1> DEFINE rows == AirportRows[i]
<1>1. rows \in Seq(AirportRow)
  BY RowsAssumption
<1>2. ASSUME NEW n \in DOMAIN rows, AirportKept(rows[n])
      PROVE  [iata |-> rows[n].iata, icao |-> rows[n].icao] \in Airport
  <2>1. rows[n] \in AirportRow
    BY <1>1
  <2> QED BY <1>2, <2>1 DEF AirportRow, AirportKept, Airport
<1> QED BY <1>2 DEF AirportsOf

LEMMA AirlinesTyped ==
    ASSUME NEW i \in Issues
    PROVE  AirlinesOf(i) \subseteq Airline
<1> DEFINE rows == AirlineRows[i]
<1>1. rows \in Seq(AirlineRow)
  BY RowsAssumption
<1>2. ASSUME NEW n \in DOMAIN rows, AirlineKept(rows[n])
      PROVE  [iata |-> rows[n].iata, icao |-> rows[n].icao, indian |-> rows[n].indian] \in Airline
  <2>1. rows[n] \in AirlineRow
    BY <1>1
  <2> QED BY <1>2, <2>1 DEF AirlineRow, AirlineKept, Airline
<1> QED BY <1>2 DEF AirlinesOf

LEMMA RoutesTyped ==
    ASSUME NEW i \in Issues, NEW tables
    PROVE  /\ RoutesOf(i, tables) \subseteq Route
           /\ \A r \in RoutesOf(i, tables) : Resolvable(tables, r)
<1>1. RouteRows[i] \in Seq(RouteRow)
  BY RowsAssumption
<1>2. \A n \in DOMAIN RouteRows[i] : RouteRows[i][n] \in RouteRow
  BY <1>1
<1>3. ASSUME NEW r \in RoutesOf(i, tables)
      PROVE  r \in Route /\ Resolvable(tables, r)
  <2>1. r \in RouteRow /\ Null \notin {r.carrier, r.origin, r.destination}
    BY <1>2 DEF RoutesOf
  <2> QED BY <2>1 DEF RoutesOf, RouteRow, Route
<1> QED BY <1>3

\* Routes resolve by the airports and airlines alone.
LEMMA RoutesAside ==
    ASSUME NEW t \in Tables, NEW routes, NEW r
    PROVE  Resolvable([t EXCEPT !.routes = routes], r) <=> Resolvable(t, r)
<1>1. /\ [t EXCEPT !.routes = routes].airports = t.airports
      /\ [t EXCEPT !.routes = routes].airlines = t.airlines
  BY DEF Tables
<1> QED BY <1>1 DEF Resolvable, HasAirport, HasAirline

LEMMA ReferenceStart == ReferenceInit => TablesOK
BY LoadsAssumption
   DEF ReferenceInit, TablesOK, ReferenceTypeOK, RoutesResolve, TextsRead, NoRows, Tables, LoaderSteps, Loading, Files

LEMMA LoadedFromIsSound ==
    ASSUME NEW i \in Issues
    PROVE  /\ LoadedFrom(i) \in Tables
           /\ \A r \in LoadedFrom(i).routes : Resolvable(LoadedFrom(i), r)
<1> DEFINE read == [NoRows EXCEPT !.airports = AirportsOf(i), !.airlines = AirlinesOf(i)]
<1>1. read \in Tables
  BY AirportsTyped, AirlinesTyped DEF NoRows, Tables
<1>2. LoadedFrom(i) = [read EXCEPT !.routes = RoutesOf(i, read)]
  BY DEF LoadedFrom
<1>3. LoadedFrom(i) \in Tables /\ LoadedFrom(i).routes = RoutesOf(i, read)
  <2> HIDE DEF read
  <2> QED BY <1>1, <1>2, RoutesTyped DEF Tables
<1>4. \A r : Resolvable(LoadedFrom(i), r) <=> Resolvable(read, r)
  <2> HIDE DEF read
  <2> QED BY <1>1, <1>2, RoutesAside
<1> QED BY <1>3, <1>4, RoutesTyped

LEMMA RunningStart == RunningService => TablesOK
<1> SUFFICES ASSUME RunningService PROVE TablesOK
  OBVIOUS
<1>1. Published \in Issues /\ Copied \in Issues
  BY PublishedAssumption
<1>2. reference \in Tables /\ RoutesResolve
  BY <1>1, LoadedFromIsSound DEF RunningService, RoutesResolve
<1>3. NoRows \in Tables
  BY DEF NoRows, Tables
<1>4. ReferenceTypeOK
  BY <1>1, <1>2, <1>3 DEF RunningService, ReferenceTypeOK, LoaderSteps, Loading, Files
<1> QED BY <1>2, <1>4 DEF RunningService, TablesOK, TextsRead
-----------------------------------------------------------------------------
(* Loaders. *)

LEMMA ExitKeepsTables ==
    ASSUME TablesOK, NEW l \in Loaders, Exit(l), UNCHANGED <<reference, shared, loads>>,
           disk' \in [Files -> Issues \cup {Missing}]
    PROVE  TablesOK'
<1>1. NoRows \in Tables
  BY DEF NoRows, Tables
<1>2. ReferenceTypeOK'
  BY <1>1 DEF TablesOK, ReferenceTypeOK, Exit, LoaderSteps, Loading
<1>3. \A n \in Loaders : TextsRead(n)'
  BY DEF TablesOK, ReferenceTypeOK, TextsRead, Exit
<1>4. \A n \in Loaders : lpc'[n] = "filled" => \A r \in work'[n].routes : Resolvable(work'[n], r)
  BY DEF TablesOK, ReferenceTypeOK, Exit
<1> QED BY <1>2, <1>3, <1>4 DEF TablesOK, RoutesResolve

LEMMA HaveKeepsTables ==
    ASSUME TablesOK, NEW l \in Loaders, NEW f \in Files, lpc[l] = f, NEW i \in Issues, Have(l, f, i),
           disk' \in [Files -> Issues \cup {Missing}]
    PROVE  TablesOK'
<1>1. After(f) \in {"airlines", "routes", "parsed"}
  BY DEF After, Files
<1>2. ReferenceTypeOK'
  <2>1. lpc' \in [Loaders -> LoaderSteps]
    BY <1>1 DEF TablesOK, ReferenceTypeOK, Have, LoaderSteps, Files
  <2>2. got' \in [Loaders -> [Files -> Issues \cup {Missing}]]
    BY DEF TablesOK, ReferenceTypeOK, Have
  <2>3. \A n \in Loaders : lpc'[n] \in Loading => \A g \in Files : got'[n][g] \in Issues
    BY <1>1 DEF TablesOK, ReferenceTypeOK, Have, Loading
  <2> QED BY <2>1, <2>2, <2>3 DEF TablesOK, ReferenceTypeOK, Have
<1>3. ASSUME NEW n \in Loaders PROVE TextsRead(n)'
  <2>1. CASE n # l
    BY <2>1 DEF TablesOK, ReferenceTypeOK, TextsRead, Have
  <2>2. CASE n = l
    <3>1. /\ lpc'[l] = After(f) /\ got'[l][f] = i
          /\ \A g \in Files \ {f} : got'[l][g] = got[l][g]
      BY DEF TablesOK, ReferenceTypeOK, Have
    <3>2. {"airports", "airlines", "routes"} = Files
      BY DEF Files
    <3>3. CASE f = "airports"
      BY <2>2, <3>1, <3>2, <3>3 DEF After, TextsRead
    <3>4. CASE f = "airlines"
      BY <2>2, <3>1, <3>2, <3>4 DEF After, TextsRead, TablesOK
    <3>5. CASE f = "routes"
      BY <2>2, <3>1, <3>2, <3>5 DEF After, TextsRead, TablesOK
    <3> QED BY <3>2, <3>3, <3>4, <3>5
  <2> QED BY <2>1, <2>2
<1>4. \A n \in Loaders : lpc'[n] = "filled" => \A r \in work'[n].routes : Resolvable(work'[n], r)
  BY <1>1 DEF TablesOK, ReferenceTypeOK, Have
<1> QED BY <1>2, <1>3, <1>4 DEF TablesOK, RoutesResolve, Have

LEMMA FetchKeepsTables ==
    ASSUME TablesOK, NEW l \in Loaders, NEW f \in Files,
           UseCopy(l, f) \/ Download(l, f) \/ DownloadFails(l, f) \/ DiesWriting(l, f)
    PROVE  TablesOK'
<1>1. disk \in [Files -> Issues \cup {Missing}] /\ Online \subseteq Issues /\ CutShort \in Issues
  BY IssuesAssumption DEF TablesOK, ReferenceTypeOK
<1>2. CASE UseCopy(l, f)
  BY <1>1, <1>2, HaveKeepsTables DEF UseCopy
<1>3. CASE Download(l, f)
  <2>1. PICK i \in Online : Have(l, f, i) /\ disk' = [disk EXCEPT ![f] = i]
    BY <1>3 DEF Download
  <2>2. disk' \in [Files -> Issues \cup {Missing}]
    BY <1>1, <2>1
  <2> QED BY <1>1, <1>3, <2>1, <2>2, HaveKeepsTables DEF Download, Downloads
<1>4. CASE DownloadFails(l, f)
  <2>1. CASE disk[f] # Missing
    BY <1>1, <1>4, <2>1, HaveKeepsTables DEF DownloadFails, Downloads
  <2>2. CASE disk[f] = Missing
    BY <1>1, <1>4, <2>2, ExitKeepsTables DEF DownloadFails
  <2> QED BY <2>1, <2>2
<1>5. CASE DiesWriting(l, f)
  <2>1. disk' \in [Files -> Issues \cup {Missing}]
    BY <1>1, <1>5 DEF DiesWriting
  <2> QED BY <1>5, <2>1, ExitKeepsTables DEF DiesWriting
<1> QED BY <1>2, <1>3, <1>4, <1>5

\* A loader fills its tables.
LEMMA FillKeepsTables ==
    ASSUME TablesOK, NEW l \in Loaders, lpc[l] \notin {"idle"} \cup Files,
           NEW next \in Loading, NEW tables \in Tables,
           next = "filled" => \A r \in tables.routes : Resolvable(tables, r),
           lpc' = [lpc EXCEPT ![l] = next], work' = [work EXCEPT ![l] = tables],
           UNCHANGED <<disk, reference, shared, refresh, got, loads>>
    PROVE  TablesOK'
<1>1. next \in LoaderSteps /\ next \notin {"idle"} \cup Files
  BY DEF LoaderSteps, Loading, Files
<1>2. \A f \in Files : got[l][f] \in Issues
  BY DEF TablesOK, TextsRead, Files
<1>3. ReferenceTypeOK'
  BY <1>1, <1>2 DEF TablesOK, ReferenceTypeOK
<1>4. \A n \in Loaders : TextsRead(n)'
  BY <1>2 DEF TablesOK, ReferenceTypeOK, TextsRead, Files
<1>5. \A n \in Loaders : lpc'[n] = "filled" => \A r \in work'[n].routes : Resolvable(work'[n], r)
  BY DEF TablesOK, ReferenceTypeOK
<1> QED BY <1>3, <1>4, <1>5 DEF TablesOK, RoutesResolve

LEMMA LoadKeepsTables ==
    ASSUME TablesOK, NEW l \in Loaders,
           LoadAirports(l) \/ LoadAirlines(l) \/ LoadRoutes(l) \/ CommitLoad(l)
    PROVE  TablesOK'
<1>1. disk \in [Files -> Issues \cup {Missing}] /\ work[l] \in Tables
  BY DEF TablesOK, ReferenceTypeOK
<1>2. CASE LoadAirports(l)
  <2>1. CASE Ragged(got[l]["airports"]) \/ ~Migrated
    BY <1>1, <1>2, <2>1, ExitKeepsTables DEF LoadAirports
  <2>2. CASE ~(Ragged(got[l]["airports"]) \/ ~Migrated)
    <3> DEFINE filled == [NoRows EXCEPT !.airports = AirportsOf(got[l]["airports"])]
    <3>1. got[l]["airports"] \in Issues
      BY <1>2 DEF TablesOK, TextsRead, LoadAirports
    <3>2. filled \in Tables
      BY <3>1, AirportsTyped DEF NoRows, Tables
    <3>3. "truncated" \in Loading /\ lpc[l] \notin {"idle"} \cup Files
      BY <1>2 DEF Loading, Files, LoadAirports
    <3>4. lpc' = [lpc EXCEPT ![l] = "truncated"] /\ work' = [work EXCEPT ![l] = filled]
      BY <1>2, <2>2 DEF LoadAirports
    <3>5. UNCHANGED <<disk, reference, shared, refresh, got, loads>>
      BY <1>2, <2>2 DEF LoadAirports
    <3> HIDE DEF filled
    <3> QED BY <3>2, <3>3, <3>4, <3>5, FillKeepsTables
  <2> QED BY <2>1, <2>2
<1>3. CASE LoadAirlines(l)
  <2> DEFINE filled == [work[l] EXCEPT !.airlines = AirlinesOf(got[l]["airlines"])]
  <2>1. got[l]["airlines"] \in Issues
    BY <1>3 DEF TablesOK, TextsRead, LoadAirlines
  <2>2. filled \in Tables
    BY <1>1, <2>1, AirlinesTyped DEF Tables
  <2>3. "airlinesIn" \in Loading /\ lpc[l] \notin {"idle"} \cup Files
    BY <1>3 DEF Loading, Files, LoadAirlines
  <2>4. lpc' = [lpc EXCEPT ![l] = "airlinesIn"] /\ work' = [work EXCEPT ![l] = filled]
    BY <1>3 DEF LoadAirlines
  <2>5. UNCHANGED <<disk, reference, shared, refresh, got, loads>>
    BY <1>3 DEF LoadAirlines
  <2> HIDE DEF filled
  <2> QED BY <2>2, <2>3, <2>4, <2>5, FillKeepsTables
<1>4. CASE LoadRoutes(l)
  <2> DEFINE kept == RoutesOf(got[l]["routes"], work[l])
             filled == [work[l] EXCEPT !.routes = kept]
  <2>1. got[l]["routes"] \in Issues
    BY <1>4 DEF TablesOK, TextsRead, LoadRoutes
  <2>2. kept \subseteq Route /\ \A r \in kept : Resolvable(work[l], r)
    BY <2>1, RoutesTyped
  <2>3. filled \in Tables /\ filled.routes = kept
    BY <1>1, <2>2 DEF Tables
  <2>4. \A r \in filled.routes : Resolvable(filled, r)
    BY <1>1, <2>2, <2>3, RoutesAside
  <2>5. "filled" \in Loading /\ lpc[l] \notin {"idle"} \cup Files
    BY <1>4 DEF Loading, Files, LoadRoutes
  <2>6. lpc' = [lpc EXCEPT ![l] = "filled"] /\ work' = [work EXCEPT ![l] = filled]
    BY <1>4 DEF LoadRoutes
  <2>7. UNCHANGED <<disk, reference, shared, refresh, got, loads>>
    BY <1>4 DEF LoadRoutes
  <2> HIDE DEF filled
  <2> QED BY <2>3, <2>4, <2>5, <2>6, <2>7, FillKeepsTables
<1>5. CASE CommitLoad(l)
  <2>1. NoRows \in Tables
    BY DEF NoRows, Tables
  <2>2. ReferenceTypeOK'
    BY <1>1, <1>5, <2>1 DEF TablesOK, ReferenceTypeOK, CommitLoad, Exit, LoaderSteps, Loading
  <2>3. RoutesResolve'
    BY <1>5 DEF TablesOK, RoutesResolve, CommitLoad
  <2>4. \A n \in Loaders : TextsRead(n)'
    BY <1>5 DEF TablesOK, ReferenceTypeOK, TextsRead, CommitLoad, Exit
  <2>5. \A n \in Loaders : lpc'[n] = "filled" => \A r \in work'[n].routes : Resolvable(work'[n], r)
    BY <1>5 DEF TablesOK, ReferenceTypeOK, CommitLoad, Exit
  <2> QED BY <2>2, <2>3, <2>4, <2>5 DEF TablesOK
<1> QED BY <1>2, <1>3, <1>4, <1>5

LEMMA StartKeepsTables ==
    ASSUME TablesOK, NEW l \in Loaders, StartLoad(l)
    PROVE  TablesOK'
<1>1. ReferenceTypeOK'
  BY DEF TablesOK, ReferenceTypeOK, StartLoad, LoaderSteps, Files, Loading
<1>2. \A n \in Loaders : TextsRead(n)'
  BY DEF TablesOK, ReferenceTypeOK, TextsRead, StartLoad
<1>3. \A n \in Loaders : lpc'[n] = "filled" => \A r \in work'[n].routes : Resolvable(work'[n], r)
  BY DEF TablesOK, ReferenceTypeOK, StartLoad
<1> QED BY <1>1, <1>2, <1>3 DEF TablesOK, RoutesResolve, StartLoad

\* Readers come and go, and the schema is rebuilt.
LEMMA OthersKeepTables ==
    ASSUME TablesOK, reference' \in {reference, NoRows}, shared' \subseteq Seeders,
           UNCHANGED <<disk, lpc, refresh, got, work, loads>>
    PROVE  TablesOK'
<1>1. NoRows \in Tables
  BY DEF NoRows, Tables
<1>2. ReferenceTypeOK'
  BY <1>1 DEF TablesOK, ReferenceTypeOK
<1> QED BY <1>2 DEF TablesOK, RoutesResolve, NoRows, TextsRead

LEMMA PlatformKeepsTables == TablesOK /\ [PlatformNext]_platformVars => TablesOK'
<1> SUFFICES ASSUME TablesOK, [PlatformNext]_platformVars PROVE TablesOK'
  OBVIOUS
<1>1. shared \subseteq Seeders
  BY DEF TablesOK, ReferenceTypeOK
<1>2. CASE Load
  <2>1. disk \in [Files -> Issues \cup {Missing}]
    BY DEF TablesOK, ReferenceTypeOK
  <2> QED BY <1>2, <2>1, StartKeepsTables, FetchKeepsTables, LoadKeepsTables, ExitKeepsTables
          DEF Load, ReferenceNext, LoaderStep, LoaderDies
<1>3. CASE Seed
  <2>1. shared' \subseteq Seeders
    BY <1>1, <1>3 DEF Seed, SeedingNext, Empty, LoadRoutePool, CommitSeed, SeederDies, Release
  <2> QED BY <1>3, <2>1, OthersKeepTables DEF Seed
<1>4. CASE Reset
  BY <1>1, <1>4, OthersKeepTables DEF Reset, DropTables
<1>5. CASE Migrate \/ Middleware \/ Live \/ UNCHANGED platformVars
  BY <1>1, <1>5, OthersKeepTables
     DEF Migrate, Middleware, Live, database, referenceVars, platformVars
<1> QED BY <1>2, <1>3, <1>4, <1>5 DEF PlatformNext

\* Whatever mix of old, new and cut files a run loads, however many runs overlap and wherever
\* one dies, the committed routes name committed airlines and airports.
THEOREM RoutesAlwaysResolve == PlatformSpec => []RoutesResolve
<1>1. PlatformInit => TablesOK
  BY ReferenceStart, RunningStart DEF PlatformInit, NewDatabase
<1> QED BY <1>1, PlatformKeepsTables, PTL DEF PlatformSpec, TablesOK
-----------------------------------------------------------------------------
(* Seeders. *)

\* A seeder that has chosen holds its lock on the tables it chose from, and no loader works
\* while anyone does.
ChosenIsThere ==
    /\ SeedingTypeOK
    /\ \A s \in Seeders : spc[s] = "chosen" => s \in shared /\ pool[s] \subseteq reference.routes
    /\ shared # {} => ~Locked

Seeded == TablesOK /\ ChosenIsThere

LEMMA PoolIsTyped == TablesOK => RoutePool \subseteq reference.routes /\ RoutePool \subseteq Route
BY DEF TablesOK, ReferenceTypeOK, Tables, RoutePool

LEMMA SeederKeepsChosen ==
    ASSUME Seeded, SeedingNext, UNCHANGED <<reference, lpc>>
    PROVE  ChosenIsThere'
<1>1. Locked' = Locked
  BY DEF Locked
<1>2. PICK s \in Seeders : Empty(s) \/ LoadRoutePool(s) \/ CommitSeed(s) \/ SeederDies(s)
  BY DEF SeedingNext
<1>3. CASE Release(s) /\ (flown' = flown \/ flown' \in SUBSET Route)
  <2>1. SeedingTypeOK'
    BY <1>3 DEF Seeded, ChosenIsThere, SeedingTypeOK, Release, SeederSteps
  <2>2. \A o \in Seeders : spc'[o] = "chosen" => o \in shared' /\ pool'[o] \subseteq reference'.routes
    BY <1>3 DEF Seeded, ChosenIsThere, SeedingTypeOK, Release
  <2> QED BY <1>1, <1>3, <2>1, <2>2 DEF Seeded, ChosenIsThere, Release
<1>4. CASE Empty(s)
  <2>1. SeedingTypeOK'
    BY <1>4 DEF Seeded, ChosenIsThere, SeedingTypeOK, Empty, SeederSteps
  <2> QED BY <1>1, <1>4, <2>1 DEF Seeded, ChosenIsThere, SeedingTypeOK, Empty
<1>5. CASE LoadRoutePool(s)
  <2>1. CASE RoutePool = {}
    BY <1>3, <1>5, <2>1 DEF LoadRoutePool
  <2>2. CASE RoutePool # {}
    <3>1. SeedingTypeOK'
      BY <1>5, <2>2, PoolIsTyped DEF Seeded, ChosenIsThere, SeedingTypeOK, LoadRoutePool, SeederSteps
    <3>2. \A o \in Seeders : spc'[o] = "chosen" => o \in shared' /\ pool'[o] \subseteq reference'.routes
      BY <1>5, <2>2, PoolIsTyped DEF Seeded, ChosenIsThere, SeedingTypeOK, LoadRoutePool
    <3> QED BY <1>1, <1>5, <3>1, <3>2 DEF ChosenIsThere, LoadRoutePool
  <2> QED BY <2>1, <2>2
<1>6. CASE CommitSeed(s)
  <2>1. pool[s] \subseteq Route
    BY DEF Seeded, ChosenIsThere, SeedingTypeOK
  <2> QED BY <1>3, <1>6, <2>1 DEF CommitSeed
<1>7. CASE SeederDies(s)
  BY <1>3, <1>7 DEF SeederDies
<1> QED BY <1>2, <1>4, <1>5, <1>6, <1>7

LEMMA LoaderKeepsChosen ==
    ASSUME Seeded, ReferenceNext, UNCHANGED seedingVars
    PROVE  ChosenIsThere'
<1>1. shared' = shared
  BY DEF ReferenceNext, StartLoad, LoaderStep, LoaderDies, UseCopy, Download, DownloadFails,
         DiesWriting, Have, LoadAirports, LoadAirlines, LoadRoutes, CommitLoad
<1>2. PICK l \in Loaders :
        \/ StartLoad(l) \/ LoaderStep(l) \/ LoaderDies(l)
        \/ \E f \in Files : DiesWriting(l, f)
  BY DEF ReferenceNext
<1>3. shared # {} => reference' = reference /\ ~Locked'
  <2> SUFFICES ASSUME shared # {}
               PROVE  reference' = reference /\ ~Locked'
    OBVIOUS
  <2>1. /\ lpc \in [Loaders -> LoaderSteps]
        /\ \A n \in Loaders : lpc[n] \notin Loading
    BY DEF Seeded, TablesOK, ReferenceTypeOK, ChosenIsThere, Locked
  <2>2. CASE StartLoad(l)
    BY <2>1, <2>2 DEF StartLoad, Locked, Loading
  <2>3. ASSUME NEW f \in Files, UseCopy(l, f) \/ Download(l, f) \/ DownloadFails(l, f) \/ DiesWriting(l, f)
        PROVE  reference' = reference /\ ~Locked'
    <3>1. reference' = reference /\ lpc' \in {[lpc EXCEPT ![l] = After(f)], [lpc EXCEPT ![l] = "idle"]}
      BY <2>3 DEF UseCopy, Download, DownloadFails, DiesWriting, Have, Exit
    <3>2. After(f) \notin Loading /\ "idle" \notin Loading
      BY DEF After, Files, Loading
    <3> QED BY <2>1, <3>1, <3>2 DEF Locked
  <2>4. CASE LoadAirports(l)
    <3>1. reference' = reference /\ lpc' = [lpc EXCEPT ![l] = "idle"]
      BY <2>4 DEF LoadAirports, Exit
    <3> QED BY <2>1, <3>1 DEF Locked, Loading
  <2>5. CASE LoaderDies(l)
    BY <2>1, <2>5 DEF LoaderDies, Exit, Locked, Loading
  <2>6. ~(LoadAirlines(l) \/ LoadRoutes(l) \/ CommitLoad(l))
    BY <2>1 DEF LoadAirlines, LoadRoutes, CommitLoad, Loading
  <2> QED BY <1>2, <2>2, <2>3, <2>4, <2>5, <2>6 DEF LoaderStep
<1>4. SeedingTypeOK'
  BY DEF Seeded, ChosenIsThere, SeedingTypeOK, seedingVars
<1> QED BY <1>1, <1>3, <1>4 DEF Seeded, ChosenIsThere, seedingVars

LEMMA PlatformKeepsChosen == Seeded /\ [PlatformNext]_platformVars => ChosenIsThere'
<1> SUFFICES ASSUME Seeded, [PlatformNext]_platformVars PROVE ChosenIsThere'
  OBVIOUS
<1>1. CASE Load
  BY <1>1, LoaderKeepsChosen DEF Load
<1>2. CASE Seed
  BY <1>2, SeederKeepsChosen DEF Seed
<1>3. CASE Reset
  <2>1. SeedingTypeOK'
    BY <1>3 DEF Seeded, ChosenIsThere, SeedingTypeOK, Reset, DropTables
  <2> QED BY <1>3, <2>1 DEF ChosenIsThere, Reset, DropTables, Locked
<1>4. CASE Migrate \/ Middleware \/ Live \/ UNCHANGED platformVars
  <2>1. UNCHANGED <<seedingVars, reference, shared, lpc>>
    BY <1>4 DEF Migrate, Middleware, Live, database, referenceVars, platformVars
  <2>2. SeedingTypeOK' /\ Locked' = Locked
    BY <2>1 DEF Seeded, ChosenIsThere, SeedingTypeOK, Locked, seedingVars
  <2> QED BY <2>1, <2>2 DEF Seeded, ChosenIsThere, seedingVars
<1> QED BY <1>1, <1>2, <1>3, <1>4 DEF PlatformNext

LEMMA CommitsWhatIsThere ==
    Seeded /\ [PlatformNext]_platformVars
      => (flown' # flown /\ flown' # NoSeed => flown' \subseteq reference.routes)
<1> SUFFICES ASSUME Seeded, [PlatformNext]_platformVars, flown' # flown, flown' # NoSeed
             PROVE  flown' \subseteq reference.routes
  OBVIOUS
<1>1. ~(Migrate \/ Load \/ Middleware \/ Live \/ UNCHANGED platformVars \/ Reset)
  BY DEF Migrate, Load, Middleware, Live, database, seedingVars, platformVars, Reset, DropTables
<1>2. PICK s \in Seeders : CommitSeed(s)
  BY <1>1 DEF PlatformNext, Seed, SeedingNext, Empty, LoadRoutePool, SeederDies, Release
<1> QED BY <1>2 DEF CommitSeed, Seeded, ChosenIsThere

\* The moment seeded flights are committed, the tables still hold their routes: the reader's
\* lock keeps every loader out until then.
THEOREM SeededFlightsExist == PlatformSpec => SeededOnRealRoutes
<1>1. PlatformInit => Seeded
  <2>1. PlatformInit => TablesOK
    BY ReferenceStart, RunningStart DEF PlatformInit, NewDatabase
  <2>2. PlatformInit => ChosenIsThere
    BY DEF PlatformInit, SeedingInit, NewDatabase, ReferenceInit, RunningService, ChosenIsThere,
           SeedingTypeOK, SeederSteps
  <2> QED BY <2>1, <2>2 DEF Seeded
<1>2. Seeded /\ [PlatformNext]_platformVars => Seeded'
  BY PlatformKeepsTables, PlatformKeepsChosen DEF Seeded
<1>3. Seeded /\ [PlatformNext]_platformVars
        => [flown' # flown /\ flown' # NoSeed => flown' \subseteq reference.routes]_<<flown, reference>>
  BY CommitsWhatIsThere
<1> QED BY <1>1, <1>2, <1>3, PTL DEF PlatformSpec, SeededOnRealRoutes
=============================================================================
