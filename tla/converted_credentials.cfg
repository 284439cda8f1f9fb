SPECIFICATION CSpec
CONSTANTS
    Tasks = {t1}
    Payloads = {p1}
    Credentials = {c0}
    FirstCredentials = c0
    None = None
    BackupContent = BackupContent
    Sources = {"protocol"}
    Kinds = {"refresh", "credentials"}
    Faults = {}
    InitialBackup = TRUE
    SecretsAvailable = TRUE
    Thresholds = {1}
    MaxKeep = 1
    MinRetry = 0
    MaxAge = 0
    MaxBackoff = 0
    AgeCap = 0
    FailureCap = 1
    Renderers = {r1}
INVARIANTS LeavingBackupInvalidates
