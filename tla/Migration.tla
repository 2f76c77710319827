------------------------------ MODULE Migration ------------------------------
(* store/migrate.cpp: "kyua db-migrate" on a historical database, which held *)
(* every action of the user.  Its schema is brought to version 2 in place    *)
(* and each action is then copied to a results file of its own.              *)
(*                                                                           *)
(* The SQL of the steps runs outside of any transaction, so a step that      *)
(* fails or dies leaves what it has done so far.  The user may run the       *)
(* command again as long as there is a database.                             *)
EXTENDS Naturals, FiniteSets, TLC

CONSTANTS
  Actions,      \* the actions of the database
  Empty,        \* those without results
  NameOf,       \* the results file of each action, from its cwd and start time
  Versions,     \* schema versions the database may start at
  Faults,       \* faults of the host: crash, sqlite, full
  MaxFaults     \* bound: faults

VARIABLES
  pc,           \* the step of the running command
  old,          \* the database: absent, v1, half (of the way to v2) or v2
  from,         \* version_from
  backup,       \* the backup made at each version: none, truncated or as old
  results,      \* results files: none, blank (only the tables), half or the action
  todo,         \* the rows of actions_stmt that are left
  current,      \* the row being extracted
  exit,         \* of the last command
  faults, attempts

migration_vars ==
  <<pc, old, from, backup, results, todo, current, exit, faults, attempts>>

Names == {NameOf[a] : a \in Actions}
NoAction == "<none>"

MigrationInit ==
  /\ pc = "idle" /\ from = 0 /\ todo = {} /\ current = NoAction
  /\ old \in {IF v = 1 THEN "v1" ELSE "v2" : v \in Versions}
  /\ backup = [v \in 1..2 |-> "none"]
  /\ results = [n \in Names |-> "none"]
  /\ exit = "none" /\ faults = 0 /\ attempts = 0

Fault(kind) == kind \in Faults /\ faults < MaxFaults /\ faults' = faults + 1
NoFault == UNCHANGED faults

Leave(code) == pc' = "idle" /\ exit' = code

(* get_schema_version(): half a migration has not recorded the new version.  *)
Start ==
  /\ pc = "idle" /\ old # "absent" /\ attempts < MaxFaults + 1
  /\ from' = IF old = "v2" THEN 2 ELSE 1
  /\ attempts' = attempts + 1
  /\ pc' = "backup" /\ exit' = "none"
  /\ UNCHANGED <<old, backup, results, todo, current, faults>>

(* Defect: the backup is taken after the schema has been changed.            *)
backup_databaseLate(contents) == IF contents = "v1" THEN "half" ELSE contents

(* fs::copy() of the database as it is.                                      *)
backup_database(contents) == contents

(* The target is truncated when it is opened.                                *)
OpenBackup ==
  /\ pc = "backup"
  /\ backup' = [backup EXCEPT ![from] = "truncated"]
  /\ pc' = "copy"
  /\ UNCHANGED <<old, from, results, todo, current, exit, faults, attempts>>

(* fs::copy() does not look at the state of the output: what does not fit in *)
(* the disk is not missed.                                                   *)
CopyBackup ==
  /\ pc = "copy"
  /\ \/ backup' = [backup EXCEPT ![from] = backup_database(old)] /\ NoFault
     \/ UNCHANGED backup /\ Fault("full")
  /\ pc' = IF from = 1 THEN "step" ELSE "chunk"
  /\ UNCHANGED <<old, from, results, todo, current, exit, attempts>>

(* migrate_schema_step(1, 2), statement by statement; a database that is     *)
(* half of the way already has the tables that it creates.                   *)
MigrateStep ==
  /\ pc = "step"
  /\ \/ old = "v1" /\ old' = "half" /\ pc' = "steps" /\ NoFault /\ UNCHANGED exit
     \/ old = "half" /\ Leave("failure") /\ NoFault /\ UNCHANGED old
  /\ UNCHANGED <<from, backup, results, todo, current, attempts>>

MigrateRest ==
  /\ pc = "steps"
  /\ \/ old' = "v2" /\ pc' = "chunk" /\ NoFault /\ UNCHANGED exit
     \/ \E kind \in {"sqlite", "full"} : Fault(kind) /\ Leave("failure") /\ UNCHANGED old
  /\ UNCHANGED <<from, backup, results, todo, current, attempts>>

(* chunk_database() reads the actions of the old database.                   *)
Chunk ==
  /\ pc = "chunk"
  /\ todo' = Actions /\ pc' = "next"
  /\ UNCHANGED <<old, from, backup, results, current, exit, faults, attempts>>

(* An action without results has no start time; one whose file exists is     *)
(* taken to be migrated already.                                             *)
Skipped(a) == a \in Empty \/ results[NameOf[a]] # "none"

NextAction ==
  /\ pc = "next" /\ todo # {}
  /\ \E a \in todo :
       /\ todo' = todo \ {a}
       /\ IF Skipped(a) THEN UNCHANGED <<pc, current>> ELSE current' = a /\ pc' = "create"
  /\ UNCHANGED <<old, from, backup, results, exit, faults, attempts>>

SetFile(contents) == results' = [results EXCEPT ![NameOf[current]] = contents]

(* fs::unlink() in the handler of any exception: without a file it throws    *)
(* out of the command.                                                       *)
DropFile ==
  IF results[NameOf[current]] = "none" THEN Leave("failure") /\ UNCHANGED results
  ELSE SetFile("none") /\ pc' = "next" /\ UNCHANGED exit

(* mkdir_p(), open_and_setup() and initialize().                             *)
CreateFile ==
  /\ pc = "create"
  /\ \/ SetFile("blank") /\ pc' = "fill" /\ NoFault /\ UNCHANGED exit
     \/ \E kind \in {"sqlite", "full"} : Fault(kind) /\ DropFile
  /\ UNCHANGED <<old, from, backup, todo, current, attempts>>

(* migrate_schema_step(2, 3) inserts table after table.                      *)
FillFile ==
  /\ pc = "fill"
  /\ \/ SetFile("half") /\ pc' = "filling" /\ NoFault /\ UNCHANGED exit
     \/ \E kind \in {"sqlite", "full"} : Fault(kind) /\ DropFile
  /\ UNCHANGED <<old, from, backup, todo, current, attempts>>

FillRest ==
  /\ pc = "filling"
  /\ \/ SetFile(current) /\ pc' = "next" /\ NoFault /\ UNCHANGED exit
     \/ \E kind \in {"sqlite", "full"} : Fault(kind) /\ DropFile
  /\ UNCHANGED <<old, from, backup, todo, current, attempts>>

UnlinkOld ==
  /\ pc = "next" /\ todo = {}
  /\ old' = "absent"
  /\ Leave("success")
  /\ UNCHANGED <<from, backup, results, todo, current, faults, attempts>>

Crash ==
  /\ pc # "idle" /\ Fault("crash")
  /\ Leave("killed")
  /\ UNCHANGED <<old, from, backup, results, todo, current, attempts>>

MigrationNext ==
  \/ Start \/ OpenBackup \/ CopyBackup \/ MigrateStep \/ MigrateRest \/ Chunk \/ NextAction
  \/ CreateFile \/ FillFile \/ FillRest \/ UnlinkOld \/ Crash

MigrationSpec == MigrationInit /\ [][MigrationNext]_migration_vars
-----------------------------------------------------------------------------
Whole == {"v1", "v2"}
Recoverable(a) ==
  old \in Whole \/ results[NameOf[a]] = a \/ \E v \in 1..2 : backup[v] \in Whole

(* The results of an action are somewhere in full (the database, its file or *)
(* a backup) whatever dies or fails, unless a second command ran on a        *)
(* database that the first one left between two versions: it replaced the    *)
(* only good backup before it found out.                                     *)
LostOnlyInHalf ==
  \A a \in Actions \ Empty : Recoverable(a) \/ (old = "half" /\ attempts > 1)

(* Violated when the disk is full: the same without any command that died.   *)
DataSurvives == \A a \in Actions \ Empty : Recoverable(a)
=============================================================================
