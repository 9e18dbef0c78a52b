-------------------------------- MODULE Schema ---------------------------------
(***************************************************************************)
(* The tables of the one database, and the three scripts that create them: *)
(* migrations/001_initial_schema.sql (by hand, or by the database container*)
(* on an empty volume), the schemaSQL of "checkin-dao", and the migration  *)
(* of "attestation".  The scripts use the same names for tables with       *)
(* different columns, and CREATE TABLE IF NOT EXISTS takes any table of    *)
(* that name.  Each script is one transaction.                             *)
(*                                                                         *)
(* A table is abstracted to whose columns it has.  The two audit tables,   *)
(* which no statement uses, are left out.                                  *)
(***************************************************************************)

VARIABLE layout     \* whose columns each table has

CheckInTables == {"users", "check_ins", "emergency_alerts", "bad_client_reports",
                  "dao_proposals", "dao_votes"}
Tables == CheckInTables \cup {"attestations"}

SchemaTypeOK == layout \in [Tables -> {"absent", "initial", "service"}]

SchemaInit == layout = [t \in Tables |-> "absent"]

\* CREATE TABLE IF NOT EXISTS for each of the tables.
Created(tables, columns) ==
    [t \in Tables |-> IF t \in tables /\ layout[t] = "absent" THEN columns ELSE layout[t]]

\* 001 creates its indexes without IF NOT EXISTS: the second time, and after
\* schemaSQL, which has idx_check_ins_status too, it is rolled back.
InitialSchema ==
    IF layout["check_ins"] = "absent" /\ layout["dao_proposals"] = "absent"
    THEN layout' = Created(Tables, "initial")
    ELSE UNCHANGED layout

\* Columns with an index in schemaSQL that the tables of 001 do not have:
\* emergency_alerts.status, bad_client_reports.reporter_id and .category.
HasIndexedColumns ==
    /\ layout["emergency_alerts"] # "initial"
    /\ layout["bad_client_reports"] # "initial"

\* Mutants of CheckInMigration: an index that cannot be made is only logged; the
\* tables are created without IF NOT EXISTS.
CheckInMigrationTolerant ==
    layout' = Created(CheckInTables, "service")
CheckInMigrationOnce ==
    /\ \A t \in CheckInTables : layout[t] = "absent"
    /\ layout' = Created(CheckInTables, "service")

\* RunMigrations succeeds; otherwise nothing is created.
CheckInMigration ==
    /\ HasIndexedColumns
    /\ layout' = Created(CheckInTables, "service")

\* The columns of its two indexes are in both layouts.
AttestationMigration == layout' = Created({"attestations"}, "service")
===============================================================================
