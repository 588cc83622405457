-------------------------------- MODULE Startup --------------------------------
(***************************************************************************)
(* Starts of the server on one database: its migrations (src/server/db/    *)
(* migrationRunner.ts on SQLite, postgresMigrationRunner.ts), what follows *)
(* them before it listens (src/server/index.ts), its state as the health   *)
(* and readiness routes tell it, its shutdown. Starts may overlap: a tool, *)
(* another container or an earlier process is still there.                 *)
(***************************************************************************)
EXTENDS Integers, FiniteSets

CONSTANTS
  Servers,
  Last,        \* bound: migrations of the releases there are
  Has,         \* of each server, the number of migrations of its release
  MaxStarts,   \* bound: starts of all servers
  Nothing      \* absent value

HasAssumption ==
  /\ Last \in Nat /\ MaxStarts \in Nat
  /\ Has \in [Servers -> 1..Last]
  /\ Nothing \notin Servers

VARIABLES
  driver,   \* "sqlite" or "postgres"
  applied,  \* how often the statements of each migration have taken effect
  table,    \* schema_migrations: the versions in it
  lock,     \* the advisory lock
  server,   \* the processes
  starts    \* starts so far

vars == <<driver, applied, table, lock, server, starts>>

\* availableMigrationVersions, in the order of their names.
Versions(s) == 1..Has[s]

Stopped == [step |-> "stopped", seen |-> {}, closed |-> TRUE]

\* A new database or one of an earlier release.
Init ==
  /\ driver \in {"sqlite", "postgres"}
  /\ \E n \in 0..Last :
       /\ table = 1..n
       /\ applied = [v \in 1..Last |-> IF v <= n THEN 1 ELSE 0]
  /\ lock = Nothing
  /\ server = [s \in Servers |-> Stopped]
  /\ starts = 0

-----------------------------------------------------------------------------
(* Migrations                                                              *)

Start(s) ==
  /\ server[s].step = "stopped"
  /\ starts < MaxStarts
  /\ starts' = starts + 1
  /\ server' = [server EXCEPT ![s] = [step |-> "starting", seen |-> {}, closed |-> FALSE]]
  /\ UNCHANGED <<driver, applied, table, lock>>

\* The applied versions are read once; on PostgreSQL with the lock.
ReadApplied(s) ==
  /\ server[s].step = "starting"
  /\ IF driver = "postgres" THEN lock = Nothing /\ lock' = s ELSE UNCHANGED lock
  /\ server' = [server EXCEPT ![s].step = "migrating", ![s].seen = table]
  /\ UNCHANGED <<driver, applied, table, starts>>

Missing(s) == Versions(s) \ server[s].seen

\* Seeded fault: nothing keeps a version from being recorded again.
RecordableAlways(vs) == vs \subseteq 1..Last

\* The versions are the table's primary key.
Recordable(vs) == vs \cap table = {}

Took(vs) ==
  /\ Recordable(vs)
  /\ applied' = [v \in 1..Last |-> IF v \in vs THEN applied[v] + 1 ELSE applied[v]]
  /\ table' = table \cup vs

\* On SQLite each missing migration and its row are a transaction.
ApplyOne(s) ==
  /\ driver = "sqlite" /\ server[s].step = "migrating"
  /\ \E v \in Missing(s) :
       /\ \A w \in Missing(s) : v <= w
       /\ Took({v})
       /\ server' = [server EXCEPT ![s].seen = @ \cup {v}]
  /\ UNCHANGED <<driver, lock, starts>>

\* On PostgreSQL all of them are one, and the lock is released after it.
ApplyAll(s) ==
  /\ driver = "postgres" /\ server[s].step = "migrating"
  /\ Took(Missing(s))
  /\ lock' = Nothing
  /\ server' = [server EXCEPT ![s].step = "migrated", ![s].seen = @ \cup Missing(s)]
  /\ UNCHANGED <<driver, starts>>

NothingMissing(s) ==
  /\ driver = "sqlite" /\ server[s].step = "migrating"
  /\ Missing(s) = {}
  /\ server' = [server EXCEPT ![s].step = "migrated"]
  /\ UNCHANGED <<driver, applied, table, lock, starts>>

-----------------------------------------------------------------------------
(* The process                                                             *)

\* Development identities are disabled and the break-glass account is found
\* configured; the listener opens.
Listen(s) ==
  /\ server[s].step = "migrated"
  /\ server' = [server EXCEPT ![s].step = "serving"]
  /\ UNCHANGED <<driver, applied, table, lock, starts>>

\* A migration fails and is rolled back, an identity cannot be disabled, the
\* port is taken, or the process is killed: the connection and its lock go.
Exit(s) ==
  /\ server[s].step # "stopped"
  /\ server' = [server EXCEPT ![s] = Stopped]
  /\ lock' = IF lock = s THEN Nothing ELSE lock
  /\ UNCHANGED <<driver, applied, table, starts>>

\* SIGTERM: the runtime is closed before the process ends.
Shutdown(s) ==
  /\ server[s].step = "serving" /\ ~server[s].closed
  /\ server' = [server EXCEPT ![s].closed = TRUE]
  /\ UNCHANGED <<driver, applied, table, lock, starts>>

-----------------------------------------------------------------------------
Next ==
  \E s \in Servers :
    \/ Start(s) \/ ReadApplied(s) \/ ApplyOne(s) \/ ApplyAll(s) \/ NothingMissing(s)
    \/ Listen(s) \/ Exit(s) \/ Shutdown(s)

Spec == Init /\ [][Next]_vars

-----------------------------------------------------------------------------
TypeOK ==
  /\ driver \in {"sqlite", "postgres"}
  /\ applied \in [1..Last -> Nat]
  /\ table \subseteq 1..Last
  /\ lock \in Servers \cup {Nothing}
  /\ server \in [Servers -> [step : {"stopped", "starting", "migrating", "migrated", "serving"},
                             seen : SUBSET (1..Last), closed : BOOLEAN]]
  /\ starts \in 0..MaxStarts

\* status(): of an open runtime, on SQLite any migration, on PostgreSQL the
\* number of those of the release.
MigrationsApplied(s) ==
  /\ ~server[s].closed
  /\ IF driver = "sqlite" THEN table # {} ELSE Cardinality(table) = Has[s]

Ready(s) == server[s].step = "serving" /\ MigrationsApplied(s)

\* The statements of a migration took effect once if it is recorded and not at
\* all otherwise, without gaps, however many starts overlap or are cut short;
\* and a server that says it is ready has every migration of its release
\* (migrateDatabase, migratePostgresDatabase, status).
SchemaIsWhole ==
  /\ \A v \in 1..Last : applied[v] = IF v \in table THEN 1 ELSE 0
  /\ \A v \in table : 1..v \subseteq table
  /\ \A s \in Servers : Ready(s) => Versions(s) \subseteq table
=============================================================================
