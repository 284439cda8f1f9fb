SPECIFICATION Spec
CONSTANTS
    Tasks = {t1, t2}
    Payloads = {p1, p2, p3}
    Credentials = {c0}
    FirstCredentials = c0
    None = None
    BackupContent = BackupContent
    Sources = {"fallback"}
    Kinds = {"refresh", "on_demand", "credentials"}
    Faults = {}
    InitialBackup = FALSE
    SecretsAvailable = FALSE
    Thresholds = {1}
    MaxKeep = 1
    MinRetry = 1
    MaxAge = 1
    MaxBackoff = 3
    AgeCap = 3
    FailureCap = 2
SYMMETRY Symmetry
INVARIANTS RawFilesBounded
PROPERTIES OnDemandOnlyWhenDue
