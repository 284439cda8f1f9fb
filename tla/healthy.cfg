SPECIFICATION LiveSpec
CONSTANTS
    Nodes = {"tcp", "udp"}
    Unprobed = {"udp"}
    Plans <- MCPlans
    HoursPerDay = 2
    TicksPerHour = 1
    MinWindow = 4
    FallbackDelay = 3
    MaxCheck = 2
    MaxRefresh = 1
    AgeCap = 7
INVARIANTS LastCheckHonoured
PROPERTIES WorkingNodeServed
