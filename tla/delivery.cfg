SPECIFICATION LiveSpec
CONSTANTS
    admin = admin
    p1 = p1
    p2 = p2
    config = config
    none = none
    Callers = {admin}
    Providers = {p1}
    Preferred = none
    Config = config
    None = none
    MaxVersion = 1
INVARIANTS RouterCurrent
PROPERTIES EverythingSettles
