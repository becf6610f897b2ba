SPECIFICATION FairSpec
CONSTANTS
    p1 = p1
    p2 = p2
    c1 = c1
    c2 = c2
    m1 = m1
    m2 = m2
    None = None
    Procs = {p1, p2}
    MaxID = 3
    Compared = {c1, c2}
    Mechanisms = {m1}
    Imports <- MCImports
INVARIANTS
    TypeOK
    StatusTracksClient
    ClientDialledAsStored
    InFlightDialIsCurrent
    OneDefault
    FileMirrorsMemory
    ActiveFollowsOpen
    NextIDFresh
PROPERTIES
    ReloadRestores
    ImplementsDirectory
    OperationsEnd
