SPECIFICATION Spec
CONSTANTS
    Tasks = {t1, t2}
    Payloads = {p1, p2}
    Credentials = {c0, c1}
    FirstCredentials = c0
    None = None
    BackupContent = BackupContent
    Sources = {"protocol", "fallback"}
    Kinds = {"refresh", "on_demand", "test", "credentials"}
    Faults = {"disk", "database", "crash"}
    InitialBackup = FALSE
    SecretsAvailable = TRUE
    Thresholds = {1, 2}
    MaxKeep = 1
    MinRetry = 0
    MaxAge = 0
    MaxBackoff = 0
    AgeCap = 0
    FailureCap = 2
SYMMETRY Symmetry
INVARIANTS CommitInOrder CurrentReadable FlagTracksLock LockMovesOn
PROPERTIES ImplementsLastGood CredentialsFollowCommit
