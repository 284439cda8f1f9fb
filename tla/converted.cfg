SPECIFICATION CSpec
CONSTANTS
    Tasks = {t1, t2}
    Payloads = {p1, p2}
    Credentials = {c0}
    FirstCredentials = c0
    None = None
    BackupContent = BackupContent
    Sources = {"protocol"}
    Kinds = {"refresh", "on_demand"}
    Faults = {"database", "crash"}
    InitialBackup = TRUE
    SecretsAvailable = TRUE
    Thresholds = {1}
    MaxKeep = 1
    MinRetry = 0
    MaxAge = 0
    MaxBackoff = 0
    AgeCap = 0
    FailureCap = 1
    Renderers = {r1, r2}
SYMMETRY Symmetry
INVARIANTS StaleOnlyIfOvertaken
PROPERTIES ImplementsRefresher
