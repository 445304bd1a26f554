------------------------------ MODULE Startup ------------------------------
(***************************************************************************)
(* The start of the web processes, src/app/main.py on_startup: migrations, *)
(* then the default user of lib/default_admin_user.py; and the requests    *)
(* and commands that create users and change their passwords meanwhile:    *)
(* domain/auth/, lib/cli.py.  Several processes start at once; each checks *)
(* for a user in one query and inserts it in another.                      *)
(***************************************************************************)
EXTENDS Migrations

CONSTANTS
    Web,            \* the runners that are web processes; the others are commands
    Configured,     \* those with DEFAULT_ADMIN_USER and its password
    Operators,      \* account commands and requests in progress at once
    Logins, DefaultLogin,
    Passwords, DefaultPassword,
    NoCommand       \* no command in progress

ASSUME WebAssumption == Web \subseteq Runners /\ Configured \subseteq Web
ASSUME DefaultAssumption == DefaultLogin \in Logins /\ DefaultPassword \in Passwords

VARIABLES
    starting,       \* where on_startup is in each web process
    users,          \* table user_login: login -> password
    command         \* the command in progress, its check answered

startupVars == <<starting, users, command>>

Command == [op : {"create"}, login : Logins, password : Passwords]
               \cup [op : {"reset"}, login : Logins, password : Passwords]
               \cup [op : {"change"}, login : Logins, password : Passwords]
ASSUME NoCommandAssumption == NoCommand \notin Command

Starting == {"migrating", "check login", "create user", "insert user",
             "serving", "failed"}

StartupTypeOK ==
    /\ TypeOK
    /\ starting \in [Web -> Starting]
    /\ DOMAIN users \subseteq Logins /\ users \in [DOMAIN users -> Passwords]
    /\ command \in [Operators -> Command \cup {NoCommand}]

StartupInit ==
    /\ Init
    /\ starting = [r \in Web |-> "migrating"]
    /\ users = [l \in {} |-> DefaultPassword]
    /\ command = [o \in Operators |-> NoCommand]

\* Table user_login is there: script 00 has run.
UsersTable == 0 \in applied

SetPassword(login, password) ==
    users' = [l \in DOMAIN users \cup {login} |-> IF l = login THEN password ELSE users[l]]

-----------------------------------------------------------------------------
(* The start of a web process.                                             *)

StartGoes(r, s) == starting' = [starting EXCEPT ![r] = s]

\* A mutated form: a start goes on without a schema.
MigrationsEndAnyhow(r) ==
    /\ starting[r] = "migrating"
    /\ phase[r] \in Ended
    /\ StartGoes(r, IF r \in Configured /\ phase[r] = "done" THEN "check login" ELSE "serving")
    /\ UNCHANGED <<vars, users, command>>

\* run_migrations returns, or raises and ends the start.  Without a default user
\* in the environment nothing is left to do.
MigrationsEnd(r) ==
    /\ starting[r] = "migrating"
    /\ phase[r] \in Ended
    /\ StartGoes(r, CASE phase[r] # "done" -> "failed"
                      [] phase[r] = "done" /\ r \in Configured -> "check login"
                      [] phase[r] = "done" /\ r \notin Configured -> "serving")
    /\ UNCHANGED <<vars, users, command>>

\* A mutated form: the answer of the check is not looked at.
CheckLoginIgnored(r) ==
    /\ starting[r] = "check login"
    /\ StartGoes(r, "insert user")
    /\ UNCHANGED <<vars, users, command>>

\* create_default_admin_user: `select login from user_login where login = $1`.
CheckLogin(r) ==
    /\ starting[r] = "check login"
    /\ StartGoes(r, IF DefaultLogin \in DOMAIN users THEN "serving" ELSE "create user")
    /\ UNCHANGED <<vars, users, command>>

\* create_user, over a connection of its own, checks again.
CreateUser(r) ==
    /\ starting[r] = "create user"
    /\ StartGoes(r, IF DefaultLogin \in DOMAIN users THEN "serving" ELSE "insert user")
    /\ UNCHANGED <<vars, users, command>>

\* Mutated forms: the insert replaces a row there is, and is never committed.
InsertUserReplaces(r) ==
    /\ starting[r] = "insert user"
    /\ SetPassword(DefaultLogin, DefaultPassword)
    /\ StartGoes(r, "serving")
    /\ UNCHANGED <<vars, command>>
InsertUserUncommitted(r) ==
    /\ starting[r] = "insert user"
    /\ StartGoes(r, "failed")
    /\ UNCHANGED <<vars, users, command>>

\* INSERT_USER: login is unique, so the start fails when the user has come
\* since the check.
InsertUser(r) ==
    /\ starting[r] = "insert user"
    /\ IF DefaultLogin \in DOMAIN users
           THEN StartGoes(r, "failed") /\ UNCHANGED users
           ELSE StartGoes(r, "serving") /\ SetPassword(DefaultLogin, DefaultPassword)
    /\ UNCHANGED <<vars, command>>

\* The process is stopped after its migrations.
StopStart(r) ==
    /\ starting[r] \in {"check login", "create user", "insert user"}
    /\ crashes < MaxCrashes
    /\ crashes' = crashes + 1
    /\ StartGoes(r, "failed")
    /\ UNCHANGED <<version, applied, phase, sql_ver, users, command>>

\* A web process starts again, after it has failed or has been shut down.
StartAgain(r) ==
    /\ starting[r] \in {"serving", "failed"}
    /\ Start(r)
    /\ StartGoes(r, "migrating")
    /\ UNCHANGED <<users, command>>

OnStartup(r) ==
    \/ Run(r) /\ UNCHANGED startupVars
    \/ MigrationsEnd(r)
    \/ CheckLogin(r)
    \/ CreateUser(r)
    \/ InsertUser(r)

-----------------------------------------------------------------------------
(* Account commands and requests: a check, then a write.                   *)

\* create-user of the command line and signup want a free login, reset-password
\* a taken one; change_password wants its present password, and another.
Accepted(cmd) ==
    CASE cmd.op = "create" -> cmd.login \notin DOMAIN users
      [] cmd.op = "reset"  -> cmd.login \in DOMAIN users
      [] cmd.op = "change" -> cmd.login \in DOMAIN users /\ users[cmd.login] # cmd.password

\* signup and change_password are answered by a web process.
Serving == \E r \in Web : starting[r] = "serving"

CheckCommand(o, cmd) ==
    /\ command[o] = NoCommand
    /\ UsersTable
    /\ cmd.op = "change" => Serving
    /\ Accepted(cmd)
    /\ command' = [command EXCEPT ![o] = cmd]
    /\ UNCHANGED <<vars, starting, users>>

\* The insert fails on a login taken meanwhile; users are never deleted, so
\* an update finds its row.
WriteCommand(o) ==
    /\ command[o] # NoCommand
    /\ LET cmd == command[o]
       IN  IF cmd.op = "create" /\ cmd.login \in DOMAIN users
               THEN UNCHANGED users
               ELSE SetPassword(cmd.login, cmd.password)
    /\ command' = [command EXCEPT ![o] = NoCommand]
    /\ UNCHANGED <<vars, starting>>

\* The command or its process is stopped, and its transaction rolled back.
StopCommand(o) ==
    /\ command[o] # NoCommand
    /\ command' = [command EXCEPT ![o] = NoCommand]
    /\ UNCHANGED <<vars, starting, users>>

-----------------------------------------------------------------------------
StartupNext ==
    \/ \E r \in Web : OnStartup(r) \/ StopStart(r) \/ StartAgain(r)
    \/ \E r \in Runners \ Web : (Run(r) \/ Start(r)) /\ UNCHANGED startupVars
    \/ \E r \in Runners : Crash(r) /\ UNCHANGED startupVars
    \/ \E o \in Operators : \/ \E cmd \in Command : CheckCommand(o, cmd)
                            \/ WriteCommand(o)
                            \/ StopCommand(o)

\* A start that is not stopped, and a migration given by hand, go on to their end.
StartupSpec ==
    /\ StartupInit /\ [][StartupNext]_<<vars, startupVars>>
    /\ \A r \in Web : WF_<<vars, startupVars>>(OnStartup(r))
    /\ \A r \in Runners \ Web : WF_vars(Run(r))

-----------------------------------------------------------------------------
\* A process only serves requests on a complete schema and, when it has been
\* told to, with the default user there: whatever other processes did to its
\* migrations and to the user meanwhile (main.py, line 56: the order of on_startup).
ServingMeansReady ==
    \A r \in Web : starting[r] = "serving" =>
        /\ applied = Versions
        /\ r \in Configured => DefaultLogin \in DOMAIN users

\* A login once taken keeps its password until a command for that login changes
\* it: no start, and no second creation, puts the default password back.
StartsKeepPasswords ==
    [][\A l \in DOMAIN users :
          /\ l \in DOMAIN users'
          /\ users'[l] # users[l] =>
                 \E o \in Operators : /\ command[o] # NoCommand /\ command'[o] = NoCommand
                                      /\ command[o].op \in {"reset", "change"}
                                      /\ command[o].login = l]_users

\* When a start comes to the default user and no process is stopped, the user is
\* there in the end, however many processes check and insert at once; the insert
\* of one fails only on that of another (default_admin_user.py).
DefaultUserCreated ==
    (\E r \in Configured : starting[r] = "check login")
        ~> DefaultLogin \in DOMAIN users \/ crashes > 0

\* Once the schema and the default user are complete every start ends well: what
\* an earlier start left behind, or another does at once, does not stop it.
Complete == version = LastVersion /\ DefaultLogin \in DOMAIN users
LaterStartsServe ==
    \A r \in Web : Complete /\ starting[r] = "migrating" /\ phase[r] = "check"
                       ~> starting[r] = "serving" \/ crashes > 0
=============================================================================
