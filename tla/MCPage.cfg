CONSTANTS
    Keys = {k1, k2, k3}
    Terminals = {t1, t2}
    None = None
SPECIFICATION FairSpec
INVARIANTS
    TypeOK
    SocketsAreCurrent
PROPERTIES
    ReplaceAsks
    GoneTerminalsAreSilent
    TerminalsSettle
