SPECIFICATION LiveSpec
CONSTANTS
    Tasks = {t1, t2}
    Payloads = {p1}
    Credentials = {c0}
    FirstCredentials = c0
    None = None
    BackupContent = BackupContent
    Sources = {"protocol"}
    Kinds = {"refresh", "health", "auto", "save"}
    Faults = {}
    InitialBackup = FALSE
    SecretsAvailable = TRUE
    Thresholds = {1, 2}
    MaxKeep = 1
    MinRetry = 0
    MaxAge = 0
    MaxBackoff = 0
    AgeCap = 0
    FailureCap = 2
PROPERTIES EveryCallReturns ImplementsLiveLastGood UpdateAnnounced FailoverAnnounced
