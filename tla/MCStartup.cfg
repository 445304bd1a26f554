SPECIFICATION StartupSpec
CONSTANTS
    Runners = {r1, r2, r3}
    LastVersion = 2
    NoTable = NoTable
    MaxCrashes = 1
    Web = {r1, r2}
    Configured = {r1, r2}
    Operators = {o1}
    Logins = {admin}
    DefaultLogin = admin
    Passwords = {default, other}
    DefaultPassword = default
    NoCommand = NoCommand
INVARIANTS
    StartupTypeOK
    SchemaMatchesVersion
    ServingMeansReady
PROPERTIES
    VersionNeverGoesBack
    StartsKeepPasswords
    SchemaCompleted
    DefaultUserCreated
    LaterStartsServe
