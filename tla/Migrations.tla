----------------------------- MODULE Migrations -----------------------------
(***************************************************************************)
(* The schema migrations every start of the web process runs, and the      *)
(* command line runs by hand: src/app/lib/db/migrations.py.                *)
(*                                                                         *)
(* Each SQL file, and the DDL of _migrations, holds a BEGIN and a COMMIT of *)
(* its own.  That COMMIT ends the transaction run_migrations opened, so    *)
(* every script is committed by itself and the version after it, by a      *)
(* statement of its own: a process may stop in between.                    *)
(***************************************************************************)
EXTENDS Integers

CONSTANTS
    Runners,        \* processes that may run the migrations at once
    LastVersion,    \* the highest number of a SQL file
    NoTable,        \* table _migrations does not exist
    MaxCrashes      \* bound on the processes that are stopped

ASSUME LastVersionAssumption == LastVersion \in Nat
ASSUME NoTableAssumption == NoTable \notin Int
ASSUME MaxCrashesAssumption == MaxCrashes \in Nat

VARIABLES
    version,        \* the row of _migrations
    applied,        \* the SQL files that have been committed
    phase,          \* the statement each runner sends next, or how it ended
    sql_ver,        \* the SQL file its loop has come to
    crashes

vars == <<version, applied, phase, sql_ver, crashes>>

Versions == 0 .. LastVersion
Ended == {"done", "failed", "version is None"}
Phase == {"check", "create", "read", "run", "record"} \cup Ended

TypeOK ==
    /\ version \in Versions \cup {-1, NoTable}
    /\ applied \subseteq Versions
    /\ phase \in [Runners -> Phase]
    /\ sql_ver \in [Runners -> 0 .. LastVersion + 1]
    /\ crashes \in 0 .. MaxCrashes

Init ==
    /\ version = NoTable
    /\ applied = {}
    /\ phase = [r \in Runners |-> "check"]
    /\ sql_ver = [r \in Runners |-> 0]
    /\ crashes = 0

Goto(r, p) == phase' = [phase EXCEPT ![r] = p]

\* Mutated forms of the loop's end: one script too early, and one too late.
StopsShort(r, ver) ==
    /\ sql_ver' = [sql_ver EXCEPT ![r] = ver + 1]
    /\ Goto(r, IF ver + 1 >= LastVersion THEN "done" ELSE "run")
RunsOn(r, ver) ==
    /\ sql_ver' = [sql_ver EXCEPT ![r] = ver + 1]
    /\ Goto(r, IF ver > LastVersion THEN "done" ELSE "run")

\* The loop goes on with the first file later than ver, or ends.
GoOnAfter(r, ver) ==
    /\ sql_ver' = [sql_ver EXCEPT ![r] = ver + 1]
    /\ Goto(r, IF ver = LastVersion THEN "done" ELSE "run")

-----------------------------------------------------------------------------
\* CHECK_MIGRATIONS_TABLE.
CheckTable(r) ==
    /\ phase[r] = "check"
    /\ Goto(r, IF version = NoTable THEN "create" ELSE "read")
    /\ UNCHANGED <<version, applied, sql_ver, crashes>>

\* create_migrations_table; curr_ver is then -1.
CreateTable(r) ==
    /\ phase[r] = "create"
    /\ version = NoTable
    /\ version' = -1
    /\ GoOnAfter(r, -1)
    /\ UNCHANGED <<applied, crashes>>

\* Another runner has created the table after the check: an error of the database.
CreateTableFails(r) ==
    /\ phase[r] = "create"
    /\ version # NoTable
    /\ Goto(r, "failed")
    /\ UNCHANGED <<version, applied, sql_ver, crashes>>

\* get_current_version: a version that is false, as 0 is, counts as none, and
\* run_migrations gives up.
ReadVersion(r) ==
    /\ phase[r] = "read"
    /\ IF version = 0
           THEN Goto(r, "version is None") /\ UNCHANGED sql_ver
           ELSE GoOnAfter(r, version)
    /\ UNCHANGED <<version, applied, crashes>>

\* A mutated form: the scripts may be run again.
RunScriptAgain(r) ==
    /\ phase[r] = "run"
    /\ applied' = applied \cup {sql_ver[r]}
    /\ Goto(r, "record")
    /\ UNCHANGED <<version, sql_ver, crashes>>

\* run_migration, first statement: the script, committed at its end.
RunScript(r) ==
    /\ phase[r] = "run"
    /\ sql_ver[r] \notin applied
    /\ applied' = applied \cup {sql_ver[r]}
    /\ Goto(r, "record")
    /\ UNCHANGED <<version, sql_ver, crashes>>

\* The script has been run before: its types and tables exist.
ScriptFails(r) ==
    /\ phase[r] = "run"
    /\ sql_ver[r] \in applied
    /\ Goto(r, "failed")
    /\ UNCHANGED <<version, applied, sql_ver, crashes>>

\* A mutated form: the number of the next script is recorded.
RecordNextVersion(r) ==
    /\ phase[r] = "record"
    /\ version' = IF sql_ver[r] = LastVersion THEN LastVersion ELSE sql_ver[r] + 1
    /\ GoOnAfter(r, sql_ver[r])
    /\ UNCHANGED <<applied, crashes>>

\* run_migration, second statement: `update _migrations set version = $1`.
RecordVersion(r) ==
    /\ phase[r] = "record"
    /\ version' = sql_ver[r]
    /\ GoOnAfter(r, sql_ver[r])
    /\ UNCHANGED <<applied, crashes>>

\* A runner is stopped; what it has not committed is undone.
Crash(r) ==
    /\ phase[r] \notin Ended
    /\ crashes < MaxCrashes
    /\ crashes' = crashes + 1
    /\ Goto(r, "failed")
    /\ UNCHANGED <<version, applied, sql_ver>>

\* The web process starts again, or the command is given again.
Start(r) ==
    /\ phase[r] \in Ended
    /\ Goto(r, "check")
    /\ sql_ver' = [sql_ver EXCEPT ![r] = 0]
    /\ UNCHANGED <<version, applied, crashes>>

Run(r) ==
    \/ CheckTable(r)
    \/ CreateTable(r)
    \/ CreateTableFails(r)
    \/ ReadVersion(r)
    \/ RunScript(r)
    \/ ScriptFails(r)
    \/ RecordVersion(r)

Next == \E r \in Runners : Run(r) \/ Crash(r) \/ Start(r)

\* A runner that is not stopped carries on to its end.
Spec == Init /\ [][Next]_vars /\ \A r \in Runners : WF_vars(Run(r))

-----------------------------------------------------------------------------
\* The schema is that of the recorded version, or one script ahead of it: a
\* version is never recorded for a script that has not run, nor is a script
\* skipped, whatever processes migrate at once or stop half way.
SchemaMatchesVersion ==
    LET recorded == IF version = NoTable THEN -1 ELSE version
    IN  applied \in {0 .. recorded, 0 .. recorded + 1}

\* The version never goes back: a runner slower than another one never
\* records its older version over the newer.
VersionNeverGoesBack ==
    [][version # NoTable => version' # NoTable /\ version' >= version]_version

\* As long as no process is stopped, the schema is completed, however many
\* processes start at once and fail on each other's tables.
SchemaCompleted == <>(version = LastVersion \/ crashes > 0)

\* "Current version cannot be None, _migrations table wasn't created
\* successfully." (migrations.py, line 68): that error means the table is missing.
NoneMeansNoTable ==
    \A r \in Runners : phase[r] = "version is None" => version = NoTable
=============================================================================
