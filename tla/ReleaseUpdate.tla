----------------------------- MODULE ReleaseUpdate -----------------------------
(***************************************************************************)
(* The update of a Compose installation (scripts/update.js, with backup.js *)
(* and runtime-verify.js): read the active release, lock, back the         *)
(* database up, extract, switch .env, start and verify; on an error stop,  *)
(* restore database and .env, start the previous release. The tool may be  *)
(* killed between any two steps and started again; members work while the  *)
(* container runs. Starting a release migrates the database forward; a     *)
(* release does not notice a schema newer than its own                     *)
(* (server/db/migrationRunner.ts, runtime.ts). The tool asks only for a    *)
(* version whose directory does not exist: OlderTargets lets the operator  *)
(* name one that is older than the active release.                         *)
(***************************************************************************)
EXTENDS Integers

CONSTANTS
  Tools,        \* runs of the tool at a time
  OlderTargets, \* may the operator name an older version
  LastVersion,  \* bound: releases 1..LastVersion, each with a newer schema
  MaxWrites     \* bound: changes by members

OptionAssumption == OlderTargets \in BOOLEAN

BoundAssumption == LastVersion \in Nat \ {0} /\ MaxWrites \in Nat

VARIABLES
  env,       \* APP_RELEASE_DIR in .env
  releases,  \* extracted releases
  running,   \* release of the container, 0 when it is down
  db,        \* the database: its schema and the changes in it
  lock,      \* .update-lock exists
  tool       \* per run of the tool: step, target, what it read and kept

vars == <<env, releases, running, db, lock, tool>>

-----------------------------------------------------------------------------
Versions == 1..LastVersion

Database == [schema : Versions, data : 0..MaxWrites]

Steps == {"read", "locked", "backedUp", "extracted", "switched", "started",
          "failed", "stopped", "restored", "envRestored", "restarted"}

Idle == [step |-> "idle"]

Init ==
  /\ env = 1
  /\ releases = {1}
  /\ running = 1
  /\ db = [schema |-> 1, data |-> 0]
  /\ lock = FALSE
  /\ tool = [t \in Tools |-> Idle]

MemberWrites ==
  /\ running # 0
  /\ db.data < MaxWrites
  /\ db' = [db EXCEPT !.data = @ + 1]
  /\ UNCHANGED <<env, releases, running, lock, tool>>

\* The migrations that the started release has and the database has not.
Migrated(version) == [db EXCEPT !.schema = IF version > @ THEN version ELSE @]

Go(t, step) == tool' = [tool EXCEPT ![t].step = step]

Starts(version) == running' = version /\ db' = Migrated(version)

-----------------------------------------------------------------------------
(* A run of the tool                                                       *)

\* activeRelease, before the lock.
ReadActiveRelease(t) ==
  /\ tool[t] = Idle
  /\ env \in releases
  /\ \E target \in Versions :
       /\ target > env \/ OlderTargets
       /\ tool' = [tool EXCEPT ![t] = [step |-> "read", target |-> target,
                                     previous |-> env, backup |-> db]]
  /\ UNCHANGED <<env, releases, running, db, lock>>

\* There is no lock, or --clear-stale-lock removes one that no run holds.
AcquireLock(t) ==
  /\ tool[t].step = "read"
  /\ lock => \A other \in Tools : tool[other].step \in {"idle", "read"}
  /\ lock' = TRUE
  /\ Go(t, "locked")
  /\ UNCHANGED <<env, releases, running, db>>

\* preflight, and the backup in the container: both need what they find.
CreateBackup(t) ==
  /\ tool[t].step = "locked"
  /\ tool[t].target \notin releases
  /\ running # 0
  /\ tool' = [tool EXCEPT ![t].step = "backedUp", ![t].backup = db]
  /\ UNCHANGED <<env, releases, running, db, lock>>

ExtractRelease(t) ==
  /\ tool[t].step = "backedUp"
  /\ releases' = releases \cup {tool[t].target}
  /\ Go(t, "extracted")
  /\ UNCHANGED <<env, running, db, lock>>

SwitchEnv(t) ==
  /\ tool[t].step = "extracted"
  /\ env' = tool[t].target
  /\ Go(t, "switched")
  /\ UNCHANGED <<releases, running, db, lock>>

\* compose up: the container is created anew from .env and migrates.
Up(t, from, to) ==
  /\ tool[t].step = from
  /\ Starts(env)
  /\ Go(t, to)
  /\ UNCHANGED <<env, releases, lock>>

\* The run ends; it takes its own lock with it.
End(t) ==
  /\ tool' = [tool EXCEPT ![t] = Idle]
  /\ lock' = (lock /\ tool[t].step = "read")
  /\ UNCHANGED <<env, releases, running, db>>

\* An error before the switch, or an existing lock.
Refuse(t) == tool[t].step \in {"read", "locked", "backedUp"} /\ End(t)

\* verifyRuntime and writeState.
Complete(t) ==
  /\ tool[t].step = "started"
  /\ running = tool[t].target
  /\ End(t)

\* An error from the switch on: the build, the start or the verification.
Fail(t) ==
  /\ tool[t].step \in {"extracted", "switched", "started"}
  /\ Go(t, "failed")
  /\ UNCHANGED <<env, releases, running, db, lock>>

-----------------------------------------------------------------------------
(* Rollback                                                                *)

\* compose down; when that fails the rollback goes on (what such a container
\* still writes goes to the replaced file, and the model keeps it).
Down(t) ==
  /\ tool[t].step = "failed"
  /\ running' \in {0, running}
  /\ Go(t, "stopped")
  /\ UNCHANGED <<env, releases, db, lock>>

\* restoreDatabase: the backup takes the place of the file.
DatabaseRestored(t) == tool[t].backup

RestoreDatabase(t) ==
  /\ tool[t].step = "stopped"
  /\ db' = DatabaseRestored(t)
  /\ Go(t, "restored")
  /\ UNCHANGED <<env, releases, running, lock>>

RestoreEnv(t) ==
  /\ tool[t].step = "restored"
  /\ env' = tool[t].previous
  /\ Go(t, "envRestored")
  /\ UNCHANGED <<releases, running, db, lock>>

\* The previous release is verified, or the rollback is reported as failed.
RolledBack(t) ==
  /\ tool[t].step \in {"stopped", "restored", "envRestored", "restarted"}
  /\ End(t)

-----------------------------------------------------------------------------
\* The tool is killed: what it has done stays, and so does its lock.
Kill(t) ==
  /\ tool[t] # Idle
  /\ tool' = [tool EXCEPT ![t] = Idle]
  /\ UNCHANGED <<env, releases, running, db, lock>>

\* The operator starts what .env names.
StartAgain ==
  /\ running = 0
  /\ \A t \in Tools : tool[t] = Idle
  /\ Starts(env)
  /\ UNCHANGED <<env, releases, lock, tool>>

Next ==
  \/ MemberWrites
  \/ \E t \in Tools :
       \/ ReadActiveRelease(t) \/ AcquireLock(t) \/ CreateBackup(t)
       \/ ExtractRelease(t) \/ SwitchEnv(t) \/ Up(t, "switched", "started")
       \/ Complete(t) \/ Refuse(t) \/ Fail(t) \/ Down(t)
       \/ RestoreDatabase(t) \/ RestoreEnv(t)
       \/ Up(t, "envRestored", "restarted") \/ RolledBack(t) \/ Kill(t)
  \/ StartAgain

Spec == Init /\ [][Next]_vars

-----------------------------------------------------------------------------
\* Every variable has its type.
TypeOK ==
  /\ env \in Versions
  /\ releases \subseteq Versions
  /\ running \in 0..LastVersion
  /\ db \in Database
  /\ lock \in BOOLEAN
  /\ tool \in [Tools -> {Idle} \cup [step : Steps, target : Versions, previous : Versions,
                                    backup : Database]]

\* docs/update.md: a container-only rollback is not sufficient after forward
\* migrations. No release ever runs on a schema newer than its own, whatever
\* step the tool failed or was killed at and however often it was run again.
OldCodeNeverOnNewerSchema == running # 0 => db.schema <= running
=============================================================================
