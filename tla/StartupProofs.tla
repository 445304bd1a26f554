---------------------------- MODULE StartupProofs ----------------------------
(***************************************************************************)
(* For any number of web processes, migrations by hand, scripts, logins    *)
(* and commands at once: a web process only serves when the schema and the *)
(* default user are complete, and no start changes a password.             *)
(***************************************************************************)
EXTENDS Startup, TLAPS

-----------------------------------------------------------------------------
(* The migrations by themselves, run by any number of processes.           *)

Recorded == IF version = NoTable THEN -1 ELSE version

\* What each runner knows: once it has read the table, the table stays; it never
\* runs a script later than the next one; and only one runner at a time is
\* between a script and its version, for that script is the next one.
RunnersInv ==
    \A r \in Runners :
        /\ phase[r] \in {"read", "run", "record"} => version # NoTable
        /\ phase[r] \in {"run", "record"} => sql_ver[r] \in 0 .. LastVersion
        /\ phase[r] = "run" => sql_ver[r] <= Recorded + 1
        /\ phase[r] = "record" => /\ sql_ver[r] = Recorded + 1
                                  /\ sql_ver[r] \in applied
                                  /\ \A s \in Runners \ {r} : phase[s] # "record"

Inv == TypeOK /\ RunnersInv /\ SchemaMatchesVersion

LEMMA RecordedType == TypeOK => Recorded \in -1 .. LastVersion
BY LastVersionAssumption DEF TypeOK, Recorded, Versions

LEMMA InitInv == Init => Inv
<1> SUFFICES ASSUME Init PROVE Inv
  OBVIOUS
<1>1. TypeOK
  BY LastVersionAssumption, MaxCrashesAssumption DEF Init, TypeOK, Phase, Versions
<1>2. RunnersInv
  BY DEF Init, RunnersInv
<1>3. SchemaMatchesVersion
  BY <1>1 DEF Init, SchemaMatchesVersion
<1> QED
  BY <1>1, <1>2, <1>3 DEF Inv

\* The end of the loop's body keeps the types, and the next script a runner
\* comes to is the one after ver.
LEMMA GoOnAfterType ==
    ASSUME TypeOK, NEW r \in Runners, NEW ver \in -1 .. LastVersion, GoOnAfter(r, ver)
    PROVE  /\ phase' \in [Runners -> Phase]
           /\ sql_ver' \in [Runners -> 0 .. LastVersion + 1]
           /\ phase'[r] \in {"run", "done"}
           /\ sql_ver'[r] = ver + 1
           /\ phase'[r] = "run" => sql_ver'[r] \in 0 .. LastVersion
           /\ \A s \in Runners \ {r} : phase'[s] = phase[s] /\ sql_ver'[s] = sql_ver[s]
<1>1. ver + 1 \in 0 .. LastVersion + 1
  BY LastVersionAssumption
<1>2. ver # LastVersion => ver + 1 \in 0 .. LastVersion
  BY LastVersionAssumption
<1> QED
  BY <1>1, <1>2 DEF GoOnAfter, Goto, TypeOK, Phase, Ended

\* A runner that ends, fails or begins again changes neither the table nor the
\* schema.
LEMMA OnlyPhase ==
    ASSUME Inv, NEW r \in Runners, NEW p \in Phase \ {"run", "record", "read"},
           Goto(r, p), UNCHANGED <<version, applied>>,
           crashes' \in 0 .. MaxCrashes,
           sql_ver' \in [Runners -> 0 .. LastVersion + 1],
           \A s \in Runners \ {r} : sql_ver'[s] = sql_ver[s]
    PROVE  Inv'
<1>1. /\ phase' \in [Runners -> Phase] /\ phase'[r] = p
      /\ \A s \in Runners \ {r} : phase'[s] = phase[s]
  BY DEF Goto, Inv, TypeOK
<1>2. TypeOK'
  BY <1>1 DEF Inv, TypeOK
<1>3. RunnersInv'
  BY <1>1 DEF Inv, RunnersInv, Recorded
<1>4. SchemaMatchesVersion'
  BY DEF Inv, SchemaMatchesVersion
<1> QED
  BY <1>2, <1>3, <1>4 DEF Inv

-----------------------------------------------------------------------------
LEMMA CheckTableInv == ASSUME Inv, NEW r \in Runners, CheckTable(r) PROVE Inv'
<1>1. CASE version = NoTable
  BY <1>1, OnlyPhase DEF CheckTable, Phase, Inv, TypeOK
<1>2. CASE version # NoTable
  <2>1. /\ phase' = [phase EXCEPT ![r] = "read"]
        /\ UNCHANGED <<version, applied, sql_ver, crashes>>
    BY <1>2 DEF CheckTable, Goto
  <2>2. TypeOK'
    BY <2>1 DEF Inv, TypeOK, Phase
  <2>3. RunnersInv'
    BY <1>2, <2>1 DEF Inv, TypeOK, RunnersInv, Recorded
  <2>4. SchemaMatchesVersion'
    BY <2>1 DEF Inv, SchemaMatchesVersion
  <2> QED
    BY <2>2, <2>3, <2>4 DEF Inv
<1> QED
  BY <1>1, <1>2

LEMMA CreateTableInv == ASSUME Inv, NEW r \in Runners, CreateTable(r) PROVE Inv'
<1>1. /\ version = NoTable /\ version' = -1 /\ UNCHANGED <<applied, crashes>>
      /\ NoTable # -1
  BY NoTableAssumption DEF CreateTable
<1>2. -1 \in -1 .. LastVersion
  BY LastVersionAssumption
<1>3. /\ phase' \in [Runners -> Phase]
      /\ sql_ver' \in [Runners -> 0 .. LastVersion + 1]
      /\ phase'[r] \in {"run", "done"} /\ sql_ver'[r] = 0
      /\ phase'[r] = "run" => sql_ver'[r] \in 0 .. LastVersion
      /\ \A s \in Runners \ {r} : phase'[s] = phase[s] /\ sql_ver'[s] = sql_ver[s]
  BY <1>2, GoOnAfterType DEF CreateTable, Inv
<1>4. Recorded = -1 /\ Recorded' = -1
  BY <1>1 DEF Recorded
<1>5. TypeOK'
  BY <1>1, <1>3 DEF Inv, TypeOK
<1>6. RunnersInv'
  BY <1>1, <1>3, <1>4 DEF Inv, RunnersInv
<1>7. SchemaMatchesVersion'
  BY <1>1 DEF Inv, SchemaMatchesVersion
<1> QED
  BY <1>5, <1>6, <1>7 DEF Inv

LEMMA ReadVersionInv == ASSUME Inv, NEW r \in Runners, ReadVersion(r) PROVE Inv'
<1>1. CASE version = 0
  BY <1>1, OnlyPhase DEF ReadVersion, Phase, Ended, Inv, TypeOK
<1>2. CASE version # 0
  <2>1. /\ GoOnAfter(r, version) /\ UNCHANGED <<version, applied, crashes>>
        /\ version # NoTable /\ version \in -1 .. LastVersion
    BY <1>2, LastVersionAssumption
       DEF ReadVersion, Inv, TypeOK, RunnersInv, Versions
  <2>2. /\ phase' \in [Runners -> Phase]
        /\ sql_ver' \in [Runners -> 0 .. LastVersion + 1]
        /\ phase'[r] \in {"run", "done"} /\ sql_ver'[r] = version + 1
        /\ phase'[r] = "run" => sql_ver'[r] \in 0 .. LastVersion
        /\ \A s \in Runners \ {r} : phase'[s] = phase[s] /\ sql_ver'[s] = sql_ver[s]
    BY <2>1, GoOnAfterType DEF Inv
  <2>3. Recorded = version /\ Recorded' = version
    BY <2>1 DEF Recorded
  <2>4. TypeOK'
    BY <2>1, <2>2 DEF Inv, TypeOK
  <2>5. RunnersInv'
    BY <2>1, <2>2, <2>3 DEF Inv, RunnersInv
  <2>6. SchemaMatchesVersion'
    BY <2>1 DEF Inv, SchemaMatchesVersion
  <2> QED
    BY <2>4, <2>5, <2>6 DEF Inv
<1> QED
  BY <1>1, <1>2

\* The script is the next one: an earlier one would fail.
LEMMA RunScriptInv == ASSUME Inv, NEW r \in Runners, RunScript(r) PROVE Inv'
<1> DEFINE k == sql_ver[r]
<1>1. /\ phase' = [phase EXCEPT ![r] = "record"] /\ applied' = applied \cup {k}
      /\ k \notin applied /\ UNCHANGED <<version, sql_ver, crashes>>
      /\ k \in 0 .. LastVersion /\ k <= Recorded + 1 /\ version # NoTable
  BY DEF RunScript, Goto, Inv, RunnersInv
<1>2. Recorded \in -1 .. LastVersion /\ Recorded' = Recorded
  BY <1>1, RecordedType DEF Inv, Recorded
<1>3. applied = 0 .. Recorded \/ applied = 0 .. Recorded + 1
  BY DEF Inv, SchemaMatchesVersion, Recorded
<1>4. k = Recorded + 1 /\ applied = 0 .. Recorded
  BY <1>1, <1>2, <1>3, LastVersionAssumption
<1>5. \A s \in Runners : phase[s] # "record"
  BY <1>1, <1>4 DEF Inv, RunnersInv
<1>6. TypeOK'
  BY <1>1 DEF Inv, TypeOK, Phase, Versions
<1>7. RunnersInv'
  <2>1. /\ phase'[r] = "record"
        /\ \A s \in Runners \ {r} : phase'[s] = phase[s] /\ phase[s] # "record"
    BY <1>1, <1>5 DEF Inv, TypeOK
  <2> QED
    BY <1>1, <1>2, <1>4, <2>1 DEF Inv, RunnersInv
<1>8. applied' = 0 .. Recorded + 1
  BY <1>1, <1>2, <1>4
<1>9. SchemaMatchesVersion'
  BY <1>1, <1>8 DEF SchemaMatchesVersion, Recorded
<1> QED
  BY <1>6, <1>7, <1>9 DEF Inv

\* Nobody else is recording, and what others are about to run is not ahead of
\* the version recorded now.
LEMMA RecordVersionInv == ASSUME Inv, NEW r \in Runners, RecordVersion(r) PROVE Inv'
<1> DEFINE k == sql_ver[r]
<1>1. /\ GoOnAfter(r, k) /\ version' = k /\ UNCHANGED <<applied, crashes>>
      /\ k \in 0 .. LastVersion /\ k = Recorded + 1 /\ k \in applied
      /\ version # NoTable /\ k # NoTable
      /\ \A s \in Runners \ {r} : phase[s] # "record"
  BY NoTableAssumption DEF RecordVersion, Inv, RunnersInv
<1>2. Recorded \in -1 .. LastVersion /\ Recorded' = k
  BY <1>1, RecordedType DEF Inv, Recorded
<1>3. applied = 0 .. k
  <2>1. applied = 0 .. Recorded \/ applied = 0 .. Recorded + 1
    BY DEF Inv, SchemaMatchesVersion, Recorded
  <2> QED
    BY <1>1, <1>2, <2>1
<1>4. k \in -1 .. LastVersion
  BY <1>1
<1>5. /\ phase' \in [Runners -> Phase]
      /\ sql_ver' \in [Runners -> 0 .. LastVersion + 1]
      /\ phase'[r] \in {"run", "done"} /\ sql_ver'[r] = k + 1
      /\ phase'[r] = "run" => sql_ver'[r] \in 0 .. LastVersion
      /\ \A s \in Runners \ {r} : phase'[s] = phase[s] /\ sql_ver'[s] = sql_ver[s]
  BY <1>1, <1>4, GoOnAfterType DEF Inv
<1>6. TypeOK'
  BY <1>1, <1>5 DEF Inv, TypeOK, Versions
<1>7. RunnersInv'
  <2>1. \A s \in Runners \ {r} : phase[s] = "run" => sql_ver[s] <= k + 1
    BY <1>1, <1>2 DEF Inv, TypeOK, RunnersInv
  <2> QED
    BY <1>1, <1>2, <1>5, <2>1 DEF Inv, RunnersInv
<1>8. SchemaMatchesVersion'
  BY <1>1, <1>3 DEF SchemaMatchesVersion
<1> QED
  BY <1>6, <1>7, <1>8 DEF Inv

LEMMA StepInv == Inv /\ [Next]_vars => Inv'
<1> SUFFICES ASSUME Inv, [Next]_vars PROVE Inv'
  OBVIOUS
<1>1. ASSUME NEW r \in Runners, CreateTableFails(r) \/ ScriptFails(r) PROVE Inv'
  BY <1>1, OnlyPhase DEF CreateTableFails, ScriptFails, Phase, Ended, Inv, TypeOK
<1>2. ASSUME NEW r \in Runners, Crash(r) PROVE Inv'
  <2>1. crashes' \in 0 .. MaxCrashes
    BY <1>2, MaxCrashesAssumption DEF Crash, Inv, TypeOK
  <2> QED
    BY <1>2, <2>1, OnlyPhase DEF Crash, Phase, Ended, Inv, TypeOK
<1>3. ASSUME NEW r \in Runners, Start(r) PROVE Inv'
  <2>1. /\ sql_ver' \in [Runners -> 0 .. LastVersion + 1]
        /\ \A s \in Runners \ {r} : sql_ver'[s] = sql_ver[s]
    BY <1>3, LastVersionAssumption DEF Start, Inv, TypeOK
  <2> QED
    BY <1>3, <2>1, OnlyPhase DEF Start, Phase, Inv, TypeOK
<1>4. CASE UNCHANGED vars
  BY <1>4 DEF vars, Inv, TypeOK, RunnersInv, Recorded, SchemaMatchesVersion
<1> QED
  BY <1>1, <1>2, <1>3, <1>4, CheckTableInv, CreateTableInv, ReadVersionInv,
     RunScriptInv, RecordVersionInv DEF Next, Run

LEMMA Invariance == Spec => []Inv
BY InitInv, StepInv, PTL DEF Spec

\* A script is never skipped, nor recorded before it has run.
THEOREM SchemaFollowsVersion == Spec => []SchemaMatchesVersion
<1>1. Inv => SchemaMatchesVersion
  BY DEF Inv
<1> QED
  BY <1>1, Invariance, PTL

VersionKeptOrGrows ==
    version' # version /\ version # NoTable => version' # NoTable /\ version' >= version

LEMMA StepVersion == Inv /\ [Next]_vars => VersionKeptOrGrows
<1> SUFFICES ASSUME Inv, [Next]_vars, version' # version, version # NoTable
             PROVE  version' # NoTable /\ version' >= version
  BY DEF VersionKeptOrGrows
<1>1. PICK r \in Runners : CreateTable(r) \/ RecordVersion(r)
  BY DEF Next, vars, Run, CheckTable, CreateTableFails, ReadVersion, RunScript,
         ScriptFails, Crash, Start
<1>2. RecordVersion(r)
  BY <1>1 DEF CreateTable
<1>3. version' = Recorded + 1 /\ Recorded = version
  BY <1>2 DEF RecordVersion, Inv, RunnersInv, Recorded
<1> QED
  BY <1>3, NoTableAssumption, LastVersionAssumption DEF Inv, TypeOK, Versions

\* The recorded version only grows.
THEOREM VersionGrows == Spec => VersionNeverGoesBack
<1>1. VersionKeptOrGrows =>
          [version # NoTable => version' # NoTable /\ version' >= version]_version
  BY DEF VersionKeptOrGrows
<1> QED
  BY <1>1, StepVersion, Invariance, PTL DEF Spec, VersionNeverGoesBack

-----------------------------------------------------------------------------
(* The starts of web processes, with the migrations in them.               *)

\* A runner that came to its end found the last script recorded, and a web
\* process is past its migrations only when they came to their end.
PastMigrations == {"check login", "create user", "insert user", "serving"}

DoneInv == \A r \in Runners : phase[r] = "done" => version = LastVersion

StartInv ==
    \A r \in Web :
        /\ starting[r] \in PastMigrations => phase[r] = "done"
        /\ starting[r] = "serving" /\ r \in Configured => DefaultLogin \in DOMAIN users

AccountTypes ==
    /\ starting \in [Web -> Starting]
    /\ DOMAIN users \subseteq Logins /\ users \in [DOMAIN users -> Passwords]
    /\ command \in [Operators -> Command \cup {NoCommand}]

StartupInv == Inv /\ DoneInv /\ AccountTypes /\ StartInv

LEMMA InitStartupInv == StartupInit => StartupInv
<1> SUFFICES ASSUME StartupInit PROVE StartupInv
  OBVIOUS
<1>1. Inv
  BY InitInv DEF StartupInit
<1>2. DoneInv /\ StartInv
  BY DEF StartupInit, Init, DoneInv, StartInv, PastMigrations
<1>3. AccountTypes
  BY DEF StartupInit, AccountTypes, Starting
<1> QED
  BY <1>1, <1>2, <1>3 DEF StartupInv

-----------------------------------------------------------------------------
(* The migrations, under the starts.                                       *)

\* Once the last script is recorded no runner is between a script and its
\* version, so the version stays.
LEMMA LastVersionStays ==
    ASSUME Inv, version = LastVersion, NEW r \in Runners, Run(r)
    PROVE  version' = LastVersion
<1>1. Recorded = LastVersion /\ version # NoTable
  BY LastVersionAssumption, NoTableAssumption DEF Recorded
<1>2. ~RecordVersion(r)
  BY <1>1, LastVersionAssumption DEF RecordVersion, Inv, RunnersInv
<1>3. ~CreateTable(r)
  BY <1>1 DEF CreateTable
<1> QED
  BY <1>2, <1>3 DEF Run, CheckTable, CreateTableFails, ReadVersion, RunScript, ScriptFails

\* The loop ends at the last script.
LEMMA DoneAtLast ==
    ASSUME Inv, NEW r \in Runners, Run(r), phase'[r] = "done"
    PROVE  version' = LastVersion
<1>1. phase \in [Runners -> Phase]
  BY DEF Inv, TypeOK
<1>2. PICK ver \in {-1, version, sql_ver[r]} :
         /\ \/ CreateTable(r) /\ ver = -1
            \/ ReadVersion(r) /\ ver = version
            \/ RecordVersion(r) /\ ver = sql_ver[r]
         /\ GoOnAfter(r, ver)
  BY <1>1 DEF Run, CheckTable, CreateTable, CreateTableFails, ReadVersion, RunScript,
              ScriptFails, RecordVersion, Goto
<1>3. ver = LastVersion
  BY <1>1, <1>2 DEF GoOnAfter, Goto
<1>4. ~(CreateTable(r) /\ ver = -1)
  BY <1>3, LastVersionAssumption
<1>5. CASE ReadVersion(r) /\ ver = version
  BY <1>3, <1>5 DEF ReadVersion
<1>6. CASE RecordVersion(r) /\ ver = sql_ver[r]
  BY <1>3, <1>6 DEF RecordVersion
<1> QED
  BY <1>2, <1>4, <1>5, <1>6

LEMMA OthersKeepPhase ==
    ASSUME Inv, NEW r \in Runners, Run(r) \/ Crash(r) \/ Start(r)
    PROVE  /\ \A s \in Runners \ {r} : phase'[s] = phase[s]
           /\ Run(r) \/ Crash(r) => phase[r] # "done"
           /\ Crash(r) \/ Start(r) => phase'[r] # "done" /\ UNCHANGED version
BY DEF Inv, TypeOK, Run, CheckTable, CreateTable, CreateTableFails, ReadVersion,
       RunScript, ScriptFails, RecordVersion, Crash, Start, GoOnAfter, Goto, Ended

LEMMA RunnerStep ==
    ASSUME Inv, DoneInv, NEW r \in Runners, Run(r) \/ Crash(r) \/ Start(r)
    PROVE  Inv' /\ DoneInv'
<1>1. Inv'
  BY StepInv DEF Next
<1>2. CASE Run(r)
  BY <1>1, <1>2, LastVersionStays, DoneAtLast, OthersKeepPhase DEF DoneInv
<1>3. CASE Crash(r) \/ Start(r)
  BY <1>1, <1>3, OthersKeepPhase DEF DoneInv
<1> QED
  BY <1>1, <1>2, <1>3

-----------------------------------------------------------------------------
(* The steps of the starts and of the commands.                            *)

\* A start goes on, over a schema that stays, as far as it may.
LEMMA StartStep ==
    ASSUME StartupInv, NEW r \in Web, NEW s \in Starting, StartGoes(r, s),
           UNCHANGED <<phase, command>>,
           Inv', DoneInv',
           DOMAIN users \subseteq DOMAIN users', DOMAIN users' \subseteq Logins,
           users' \in [DOMAIN users' -> Passwords],
           s \in PastMigrations => phase[r] = "done",
           s = "serving" /\ r \in Configured => DefaultLogin \in DOMAIN users'
    PROVE  StartupInv'
<1>1. starting' = [starting EXCEPT ![r] = s] /\ starting \in [Web -> Starting]
  BY DEF StartGoes, StartupInv, AccountTypes
<1>2. AccountTypes'
  BY <1>1 DEF StartupInv, AccountTypes
<1>3. StartInv'
  BY <1>1 DEF StartupInv, StartInv
<1> QED
  BY <1>2, <1>3 DEF StartupInv

LEMMA SetPasswordType ==
    ASSUME AccountTypes, NEW l \in Logins, NEW p \in Passwords, SetPassword(l, p)
    PROVE  /\ DOMAIN users \subseteq DOMAIN users' /\ DOMAIN users' \subseteq Logins
           /\ users' \in [DOMAIN users' -> Passwords]
           /\ l \in DOMAIN users'
           /\ \A k \in DOMAIN users \ {l} : users'[k] = users[k]
BY DEF AccountTypes, SetPassword

LEMMA OnStartupInv ==
    ASSUME StartupInv, NEW r \in Web,
           OnStartup(r) \/ StopStart(r) \/ StartAgain(r)
    PROVE  StartupInv'
<1>0. r \in Runners /\ Inv /\ DoneInv /\ AccountTypes /\ StartInv
  BY WebAssumption DEF StartupInv
<1>1. CASE Run(r) /\ UNCHANGED startupVars
  <2>1. Inv' /\ DoneInv'
    BY <1>0, <1>1, RunnerStep
  <2>2. AccountTypes' /\ StartInv'
    BY <1>0, <1>1, WebAssumption, OthersKeepPhase
       DEF startupVars, AccountTypes, StartInv
  <2> QED
    BY <2>1, <2>2 DEF StartupInv
<1>2. ASSUME UNCHANGED <<version, applied, phase, sql_ver>>, crashes' \in 0 .. MaxCrashes
      PROVE  Inv' /\ DoneInv'
  BY <1>0, <1>2 DEF Inv, TypeOK, RunnersInv, Recorded, SchemaMatchesVersion, DoneInv
<1>3. CASE MigrationsEnd(r)
  <2>1. PICK s \in Starting : /\ StartGoes(r, s)
                              /\ s \in PastMigrations => phase[r] = "done"
                              /\ s = "serving" => r \notin Configured
    BY <1>3 DEF MigrationsEnd, Starting, PastMigrations
  <2> QED
    BY <1>0, <1>2, <1>3, <2>1, StartStep DEF MigrationsEnd, vars, Inv, TypeOK, AccountTypes
<1>4. CASE CheckLogin(r) \/ CreateUser(r)
  <2>1. PICK s \in PastMigrations : /\ StartGoes(r, s)
                                    /\ s = "serving" => DefaultLogin \in DOMAIN users
    BY <1>4 DEF CheckLogin, CreateUser, PastMigrations
  <2>2. phase[r] = "done" /\ UNCHANGED <<vars, users, command>>
    BY <1>0, <1>4 DEF CheckLogin, CreateUser, PastMigrations, StartInv
  <2>3. s \in Starting
    BY DEF Starting, PastMigrations
  <2> QED
    BY <1>0, <1>2, <2>1, <2>2, <2>3, StartStep DEF vars, Inv, TypeOK, AccountTypes
<1>5. CASE InsertUser(r)
  <2>1. phase[r] = "done" /\ UNCHANGED <<vars, command>>
    BY <1>0, <1>5 DEF InsertUser, PastMigrations, StartInv
  <2>2. Inv' /\ DoneInv'
    BY <1>0, <1>2, <2>1 DEF vars, Inv, TypeOK
  <2>3. CASE DefaultLogin \in DOMAIN users
    BY <1>0, <1>5, <2>1, <2>2, <2>3, StartStep
       DEF InsertUser, Starting, vars, AccountTypes, PastMigrations
  <2>4. CASE DefaultLogin \notin DOMAIN users
    <3>1. StartGoes(r, "serving") /\ SetPassword(DefaultLogin, DefaultPassword)
      BY <1>5, <2>4 DEF InsertUser
    <3> QED
      BY <1>0, <2>1, <2>2, <3>1, SetPasswordType, DefaultAssumption, StartStep
         DEF Starting, vars
  <2> QED
    BY <2>3, <2>4
<1>6. CASE StopStart(r)
  <2>1. /\ StartGoes(r, "failed") /\ crashes' = crashes + 1 /\ crashes < MaxCrashes
        /\ UNCHANGED <<version, applied, phase, sql_ver, users, command>>
    BY <1>6 DEF StopStart
  <2>2. crashes' \in 0 .. MaxCrashes
    BY <1>0, <2>1, MaxCrashesAssumption DEF Inv, TypeOK
  <2>3. Inv' /\ DoneInv'
    BY <1>2, <2>1, <2>2
  <2> QED
    BY <1>0, <2>1, <2>3, StartStep DEF Starting, PastMigrations, AccountTypes
<1>7. CASE StartAgain(r)
  <2>1. Start(r) /\ UNCHANGED <<users, command>>
        /\ starting' = [starting EXCEPT ![r] = "migrating"]
    BY <1>7 DEF StartAgain, StartGoes
  <2>2. Inv' /\ DoneInv'
    BY <1>0, <2>1, RunnerStep
  <2>3. AccountTypes'
    BY <1>0, <2>1 DEF AccountTypes, Starting
  <2>4. StartInv'
    BY <1>0, <2>1, WebAssumption, OthersKeepPhase
       DEF AccountTypes, StartInv, PastMigrations
  <2> QED
    BY <2>2, <2>3, <2>4 DEF StartupInv
<1> QED
  BY <1>1, <1>3, <1>4, <1>5, <1>6, <1>7 DEF OnStartup

LEMMA CommandInv ==
    ASSUME StartupInv, NEW o \in Operators,
           \/ \E cmd \in Command : CheckCommand(o, cmd)
           \/ WriteCommand(o) \/ StopCommand(o)
    PROVE  StartupInv'
<1>1. UNCHANGED <<vars, starting>>
  BY DEF CheckCommand, WriteCommand, StopCommand
<1>2. Inv' /\ DoneInv'
  BY <1>1 DEF StartupInv, Inv, TypeOK, RunnersInv, Recorded, SchemaMatchesVersion,
              DoneInv, vars
<1>3. /\ command' \in [Operators -> Command \cup {NoCommand}]
  BY DEF CheckCommand, WriteCommand, StopCommand, StartupInv, AccountTypes
<1>4. /\ DOMAIN users \subseteq DOMAIN users' /\ DOMAIN users' \subseteq Logins
      /\ users' \in [DOMAIN users' -> Passwords]
  <2>1. CASE UNCHANGED users
    BY <2>1 DEF StartupInv, AccountTypes
  <2>2. CASE command[o] # NoCommand /\ SetPassword(command[o].login, command[o].password)
    <3>1. command[o] \in Command
      BY <2>2 DEF StartupInv, AccountTypes
    <3>2. command[o].login \in Logins /\ command[o].password \in Passwords
      BY <3>1 DEF Command
    <3> QED
      BY <2>2, <3>2, SetPasswordType DEF StartupInv
  <2> QED
    BY <2>1, <2>2 DEF CheckCommand, WriteCommand, StopCommand
<1> QED
  BY <1>1, <1>2, <1>3, <1>4 DEF StartupInv, AccountTypes, StartInv, vars

LEMMA StepStartupInv ==
    StartupInv /\ [StartupNext]_<<vars, startupVars>> => StartupInv'
<1> SUFFICES ASSUME StartupInv, [StartupNext]_<<vars, startupVars>> PROVE StartupInv'
  OBVIOUS
<1>1. ASSUME NEW r \in Runners, ((Run(r) \/ Start(r)) /\ r \notin Web) \/ Crash(r),
             UNCHANGED startupVars
      PROVE  StartupInv'
  <2>1. Inv' /\ DoneInv'
    BY <1>1, RunnerStep DEF StartupInv
  <2>2. AccountTypes' /\ StartInv'
    BY <1>1, WebAssumption, OthersKeepPhase
       DEF startupVars, StartupInv, AccountTypes, StartInv
  <2> QED
    BY <2>1, <2>2 DEF StartupInv
<1>2. CASE UNCHANGED <<vars, startupVars>>
  BY <1>2 DEF vars, startupVars, StartupInv, Inv, TypeOK, RunnersInv, Recorded,
              SchemaMatchesVersion, DoneInv, AccountTypes, StartInv
<1> QED
  BY <1>1, <1>2, OnStartupInv, CommandInv DEF StartupNext

LEMMA StartupInvariance == StartupSpec => []StartupInv
BY InitStartupInv, StepStartupInv, PTL DEF StartupSpec

\* The types of the tables and of every process in its start (main.py on_startup).
THEOREM StartupTypes == StartupSpec => []StartupTypeOK
<1>1. StartupInv => StartupTypeOK
  BY DEF StartupInv, Inv, AccountTypes, StartupTypeOK
<1> QED
  BY <1>1, StartupInvariance, PTL

\* The schema is that of the recorded version, or one script ahead of it, also
\* while processes start, stop and start again (run_migration).
THEOREM StartupSchema == StartupSpec => []SchemaMatchesVersion
<1>1. StartupInv => SchemaMatchesVersion
  BY DEF StartupInv, Inv
<1> QED
  BY <1>1, StartupInvariance, PTL

\* The recorded version only grows, also when a process that was slow or has
\* been started again records after a faster one (run_migration).
THEOREM StartupVersionGrows == StartupSpec => VersionNeverGoesBack
<1>1. StartupInv /\ [StartupNext]_<<vars, startupVars>> => VersionKeptOrGrows
  <2> SUFFICES ASSUME StartupInv, StartupNext, version' # version
               PROVE  VersionKeptOrGrows
    BY DEF VersionKeptOrGrows, vars
  <2>1. Next
    BY WebAssumption
       DEF StartupNext, OnStartup, MigrationsEnd, CheckLogin, CreateUser, InsertUser,
           StopStart, StartAgain, CheckCommand, WriteCommand, StopCommand, Next, vars
  <2> QED
    BY <2>1, StepVersion DEF StartupInv
<1>2. VersionKeptOrGrows =>
          [version # NoTable => version' # NoTable /\ version' >= version]_version
  BY DEF VersionKeptOrGrows
<1> QED
  BY <1>1, <1>2, StartupInvariance, PTL DEF StartupSpec, VersionNeverGoesBack

\* However many processes start, migrate and create users at once, and wherever
\* they are stopped, requests are only served on a complete schema and with the
\* default user there (main.py, line 56).
THEOREM ServedWhenReady == StartupSpec => []ServingMeansReady
<1>1. StartupInv => ServingMeansReady
  <2> SUFFICES ASSUME StartupInv, NEW r \in Web, starting[r] = "serving"
               PROVE  /\ applied = Versions
                      /\ r \in Configured => DefaultLogin \in DOMAIN users
    BY DEF ServingMeansReady
  <2>1. phase[r] = "done" /\ (r \in Configured => DefaultLogin \in DOMAIN users)
    BY DEF StartupInv, StartInv, PastMigrations
  <2>2. version = LastVersion
    BY <2>1, WebAssumption DEF StartupInv, DoneInv
  <2>3. applied = Versions
    BY <2>2, LastVersionAssumption, NoTableAssumption
       DEF StartupInv, Inv, TypeOK, SchemaMatchesVersion, Versions
  <2> QED
    BY <2>1, <2>3
<1> QED
  BY <1>1, StartupInvariance, PTL

\* No start and no second creation of a login changes its password.
THEOREM PasswordsKept == StartupSpec => StartsKeepPasswords
<1> DEFINE Kept ==
      \A l \in DOMAIN users :
          /\ l \in DOMAIN users'
          /\ users'[l] # users[l] =>
                 \E o \in Operators : /\ command[o] # NoCommand /\ command'[o] = NoCommand
                                      /\ command[o].op \in {"reset", "change"}
                                      /\ command[o].login = l
<1>1. StartupInv /\ [StartupNext]_<<vars, startupVars>> => [Kept]_users
  <2> SUFFICES ASSUME StartupInv, StartupNext, users' # users PROVE Kept
    BY DEF startupVars
  <2>0. AccountTypes
    BY DEF StartupInv
  <2>1. CASE \E r \in Web : OnStartup(r) \/ StopStart(r) \/ StartAgain(r)
    <3>1. DefaultLogin \notin DOMAIN users /\ SetPassword(DefaultLogin, DefaultPassword)
      BY <2>1 DEF OnStartup, StopStart, StartAgain, MigrationsEnd, CheckLogin,
                  CreateUser, InsertUser, startupVars
    <3> QED
      BY <2>0, <3>1, SetPasswordType, DefaultAssumption
  <2>2. ASSUME NEW o \in Operators, WriteCommand(o) PROVE Kept
    <3>1. /\ command[o] \in Command /\ command[o] # NoCommand
          /\ command'[o] = NoCommand
          /\ SetPassword(command[o].login, command[o].password)
          /\ command[o].op = "create" => command[o].login \notin DOMAIN users
      BY <2>0, <2>2 DEF WriteCommand, AccountTypes
    <3>2. /\ command[o].login \in Logins /\ command[o].password \in Passwords
          /\ command[o].op \in {"create", "reset", "change"}
      BY <3>1 DEF Command
    <3>3. \A l \in DOMAIN users : /\ l \in DOMAIN users'
                                  /\ l # command[o].login => users'[l] = users[l]
      BY <2>0, <3>1, <3>2, SetPasswordType
    <3> QED
      BY <3>1, <3>2, <3>3
  <2> QED
    BY <2>1, <2>2 DEF StartupNext, CheckCommand, StopCommand, startupVars
<1> QED
  BY <1>1, StartupInvariance, PTL DEF StartupSpec, StartsKeepPasswords
=============================================================================
