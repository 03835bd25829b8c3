CONSTANTS
    Keys = {1, 2}
    NoKey = NoKey
    Mgmts = {home, away}
    Startup = home
    MaxPlans = 2
    MaxLoads = 1
    MaxSwitches = 1
SPECIFICATION FairSpec
CHECK_DEADLOCK FALSE
INVARIANTS
    TypeOK
    WaitsForSomething
PROPERTIES
    HighlightStays
    ListBecomesCurrent
