CONSTANTS
    Mgmts = {m1, m2}
    Default = Default
    Puts = {p1, p2}
    Torn = Torn
    None = None
    Loading = Loading
SPECIFICATION SpecFew
SYMMETRY Symmetry
INVARIANTS
    TypeOK
    HeaderIsCurrent
    ShellMatchesHeader
