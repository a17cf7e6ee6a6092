------------------------------ MODULE Migration ------------------------------
(***************************************************************************)
(* Schema migrations: Migrate of internal/store/db.go, which every         *)
(* scheduler and every run of cmd/migrate calls on the shared database.    *)
(* Whether a version is applied is read outside the transaction that       *)
(* applies it.  The files are looked for in the working directory of the   *)
(* process; when ./migrations is not there, nothing is to be done.         *)
(***************************************************************************)
EXTENDS Integers, FiniteSets

CONSTANTS
  Process,
  LastVersion  \* files are numbered 1..LastVersion (today there is one)

ASSUME MigrationAssumption == LastVersion \in Nat

VARIABLES
  applied,    \* the table schema_migrations
  effects,    \* history: how often the statements of a version were committed
  migrating   \* local state of each process inside Migrate

migrationVars == <<applied, effects, migrating>>

Versions == 1..LastVersion

MigratingState == [pc : {"check", "apply"}, version : Versions]

NotMigrating == [pc |-> "none"]

\* Migrate has returned without an error, having been through the files or
\* having found no directory, or with an error.
Migrated == [pc |-> "done"]
NoFiles == [pc |-> "nofiles"]
MigrateError == [pc |-> "failed"]

MigrationTypeOK ==
  /\ applied \subseteq Versions
  /\ effects \in [Versions -> Nat]
  /\ migrating \in [Process -> MigratingState \cup
                                 {NotMigrating, Migrated, NoFiles, MigrateError}]

MigrationInit ==
  /\ applied = {}
  /\ effects = [v \in Versions |-> 0]
  /\ migrating = [p \in Process |-> NotMigrating]

\* Mutant of HasNext: one file too many.
HasNextOrLast(version) == version <= LastVersion

HasNext(version) == version < LastVersion

\* Migrate's loop goes to the next file, or is through.
NextFile(version) ==
  IF HasNext(version) THEN [pc |-> "check", version |-> version + 1] ELSE Migrated

\* CREATE TABLE IF NOT EXISTS schema_migrations, and the sorted files, if the
\* process was started where they are.
MigrateStart(p) ==
  /\ \E m \in {NextFile(0), NoFiles} : migrating' = [migrating EXCEPT ![p] = m]
  /\ UNCHANGED <<applied, effects>>

\* Mutant of AfterApplied: a version found applied ends the loop.
AfterAppliedStop(version) == Migrated

\* applyMigration returns nil for a version found applied.
AfterApplied(version) == NextFile(version)

\* SELECT COUNT(*) of applyMigration.
CheckVersion(p) ==
  /\ migrating[p].pc = "check"
  /\ LET v == migrating[p].version
     IN migrating' = [migrating EXCEPT ![p] =
          IF v \in applied THEN AfterApplied(v) ELSE [pc |-> "apply", version |-> v]]
  /\ UNCHANGED <<applied, effects>>

\* Mutant of Recordable: version is no primary key.
AlwaysRecordable(version) == TRUE

\* The INSERT into schema_migrations satisfies its primary key.
Recordable(version) == version \notin applied

\* The transaction of applyMigration: the file's statements and the record,
\* both or neither.
ApplyVersion(p) ==
  /\ migrating[p].pc = "apply"
  /\ LET v == migrating[p].version
     IN IF Recordable(v)
        THEN /\ applied' = applied \cup {v}
             /\ effects' = [effects EXCEPT ![v] = effects[v] + 1]
             /\ migrating' = [migrating EXCEPT ![p] = NextFile(v)]
        ELSE /\ migrating' = [migrating EXCEPT ![p] = MigrateError]
             /\ UNCHANGED <<applied, effects>>

\* Any statement fails, or the database stays locked for too long.
MigrateFails(p) ==
  /\ migrating[p].pc \in {"check", "apply"}
  /\ migrating' = [migrating EXCEPT ![p] = MigrateError]
  /\ UNCHANGED <<applied, effects>>

-----------------------------------------------------------------------------
(* Properties. *)

\* Whoever migrates at the same time, dies or fails in between: versions are
\* applied without a gap from the first, and the statements of a version are
\* committed exactly once if it is recorded, never if it is not.
AppliedExactlyOnce ==
  /\ \A v \in Versions : effects[v] = IF v \in applied THEN 1 ELSE 0
  /\ applied = 1..Cardinality(applied)
=============================================================================
