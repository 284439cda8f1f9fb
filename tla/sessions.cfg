SPECIFICATION Spec
CONSTANTS
    Limit = 2
    Window = 2
    MaxKeys = 1
    Threads = {t1, t2}
    Accounts = {a0, a1}
    FirstAccount = a0
    Tokens = {s1, s2}
    Keys = {k1, k2}
    Modes = {lan, public}
    None = None
    Lifetime = 2
    MaxDelay = 1
SYMMETRY Symmetry
INVARIANTS SessionsAreCurrent ModeChangeEndsSessions AttemptsBounded
PROPERTIES RefusedOnlyAtLimit
