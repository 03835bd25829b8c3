CONSTANTS
    Sessions = {1, 2}
    Handlers = {1, 2}
    NoSession = 0
SPECIFICATION OrderedSpec
INVARIANTS
    TypeOK
    NoLeakedDir
    ShellHasItsDir
PROPERTIES
    ImplementsSessionLife
    UnclaimedExpires
    EndedSessionLeavesNothing
    ShellsReaped
