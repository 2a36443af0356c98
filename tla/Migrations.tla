------------------------------ MODULE Migrations ------------------------------
(***************************************************************************)
(* scripts/migrate.py: runners that apply db/migrations/*.sql in filename  *)
(* order, each in a transaction with the row of schema_migrations that     *)
(* records it.  No lock keeps two runners apart: a runner that executes a  *)
(* script another has not committed waits on the objects it creates, and   *)
(* fails when they exist, because every script creates what it creates     *)
(* without IF NOT EXISTS.                                                  *)
(*                                                                         *)
(* Versions are the files 1..Last in filename order; a text stands for a   *)
(* file's contents and for its checksum.                                   *)
(***************************************************************************)
EXTENDS Naturals

CONSTANTS
    Last,               \* the number of migrations
    Runners,            \* migrate.py processes
    MaxEdits            \* bound: edits of migration files

ASSUME LastAssumption == Last \in Nat \ {0}
ASSUME EditsAssumption == MaxEdits \in Nat

VARIABLES
    files,              \* what each file holds
    applied,            \* schema_migrations: version |-> checksum
    effects,            \* history: how often each script has run in this schema
    mpc,                \* where each runner is
    known,              \* cmd_up's applied: the versions found in schema_migrations
    at                  \* the file each runner has come to

migrationVars == <<files, applied, effects, mpc, known, at>>

Versions == 1..Last
MigrationSteps == {"idle", "up", "open"}

Applied == DOMAIN applied
Migrated == Applied = Versions

\* What a file may hold, 0 at first.
Texts == 0..MaxEdits

MigrationsTypeOK ==
    /\ files \in [Versions -> Texts]
    /\ Applied \subseteq Versions /\ applied \in [Applied -> Texts]
    /\ effects \in [Versions -> Nat]
    /\ mpc \in [Runners -> MigrationSteps]
    /\ known \in [Runners -> SUBSET Versions]
    /\ at \in [Runners -> Versions]

MigrationsInit ==
    /\ files = [v \in Versions |-> 0]
    /\ applied = <<>>
    /\ effects = [v \in Versions |-> 0]
    /\ mpc = [m \in Runners |-> "idle"]
    /\ known = [m \in Runners |-> {}]
    /\ at = [m \in Runners |-> 1]

\* A database that has every migration.
MigratedInit ==
    /\ files = [v \in Versions |-> 0]
    /\ applied = files
    /\ effects = [v \in Versions |-> 1]
    /\ mpc = [m \in Runners |-> "idle"]
    /\ known = [m \in Runners |-> {}]
    /\ at = [m \in Runners |-> 1]

-----------------------------------------------------------------------------
\* An applied migration's file no longer has the checksum that was recorded.
Changed == \E v \in Applied : applied[v] # files[v]

\* The process ends: finished, failed or killed, it can be run again.
Quit(m) ==
    /\ mpc' = [mpc EXCEPT ![m] = "idle"]
    /\ known' = [known EXCEPT ![m] = {}]
    /\ at' = [at EXCEPT ![m] = 1]

\* applied_map and the checks of every file, before anything is executed; a changed file
\* is refused, and without a pending one the run is over.
Discover(m) ==
    /\ mpc[m] = "idle" /\ ~Changed /\ ~Migrated
    /\ known' = [known EXCEPT ![m] = Applied]
    /\ mpc' = [mpc EXCEPT ![m] = "up"]
    /\ UNCHANGED <<files, applied, effects, at>>

\* Mutated form: the loop goes one file too far.
AdvanceTooFar(m) ==
    /\ at' = [at EXCEPT ![m] = @ + 1]
    /\ mpc' = [mpc EXCEPT ![m] = IF at[m] > Last THEN "idle" ELSE "up"]
    /\ UNCHANGED known

\* Goes on to the next file; the last one ends the run.
Advance(m) ==
    IF at[m] = Last
    THEN Quit(m)
    ELSE /\ at' = [at EXCEPT ![m] = @ + 1]
         /\ mpc' = [mpc EXCEPT ![m] = "up"]
              /\ UNCHANGED known

\* A version that was listed is not pending.
Skip(m) ==
    /\ mpc[m] = "up" /\ at[m] \in known[m]
    /\ Advance(m)
    /\ UNCHANGED <<files, applied, effects>>

\* Mutated form: the script's statements wait for nobody.
NobodyWaits(v) == FALSE

\* A runner has the version's script in an open transaction.
Applying(v) == \E m \in Runners : mpc[m] = "open" /\ at[m] = v

\* conn.execute(path.read_text()): waits for another runner's transaction on the same
\* script; once that has committed, what the script creates exists and the run fails.
Execute(m) ==
    /\ mpc[m] = "up" /\ at[m] \notin known[m]
    /\ ~Applying(at[m])
    /\ IF at[m] \in Applied
       THEN Quit(m)
       ELSE /\ mpc' = [mpc EXCEPT ![m] = "open"]
            /\ UNCHANGED <<known, at>>
    /\ UNCHANGED <<files, applied, effects>>

\* INSERT INTO schema_migrations, with the checksum of the file as it is now, and commit.
Record(m) ==
    /\ mpc[m] = "open"
    /\ applied' = [v \in Applied \cup {at[m]} |-> IF v = at[m] THEN files[v] ELSE applied[v]]
    /\ effects' = [effects EXCEPT ![at[m]] = @ + 1]
    /\ Advance(m)
    /\ UNCHANGED files

\* The script is refused by the database, or the process is killed: an open transaction
\* is rolled back.
RunnerDies(m) ==
    /\ mpc[m] # "idle"
    /\ Quit(m)
    /\ UNCHANGED <<files, applied, effects>>

\* Someone edits a file, or puts an earlier text back.
Edit(v) ==
    /\ \E t \in Texts : t # files[v] /\ files' = [files EXCEPT ![v] = t]
    /\ UNCHANGED <<applied, effects, mpc, known, at>>

\* db-reset: DROP SCHEMA public CASCADE, with no runner at work.
DropSchema ==
    /\ \A m \in Runners : mpc[m] = "idle"
    /\ applied' = <<>>
    /\ effects' = [v \in Versions |-> 0]
    /\ UNCHANGED <<files, mpc, known, at>>

MigrationsNext ==
    \/ \E m \in Runners :
         Discover(m) \/ Skip(m) \/ Execute(m) \/ Record(m) \/ RunnerDies(m)
    \/ \E v \in Versions : Edit(v)

-----------------------------------------------------------------------------
\* "Applies db/migrations/*.sql in filename order ... every migration runs inside a
\* transaction" (migrate.py): however many runners race, die and are run again, a script
\* has run once in the schema if it is recorded and not at all if it is not, and what is
\* recorded is an unbroken series from the first file on.
MigratedOnceInOrder ==
    /\ \A v \in Versions : effects[v] = IF v \in Applied THEN 1 ELSE 0
    /\ \A v \in Applied : \A w \in 1..v : w \in Applied
=============================================================================
