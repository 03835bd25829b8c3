CONSTANTS
    env = env
    k1 = k1
    k2 = k2
    Views = {v1}
    Calls = {c1, c2}
    Sections = {env}
    Entries <- EnvEntries
    First = env
    Theme = theme
    Current = current
    Texts = {x1}
    Themes = {dark, light}
    Clusters = {m1, m2}
    Unset = Unset
    Nobody = Nobody
SPECIFICATION SpecOneEdited
SYMMETRY Symmetry
INVARIANTS
    TypeOK
    ShownIsServed
    FileFollowsMemory
PROPERTIES
    ClobbersOnlyUnseen
