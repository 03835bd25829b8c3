CONSTANTS
    Writers = {tui, web}
    Names = {n1, n2}
    Inodes = {i1, i2}
    NoFile = NoFile
SPECIFICATION FairSpec
INVARIANTS
    TypeOK
    TempsAreOwned
PROPERTIES
    NamesKept
    WritesEnd
