SPECIFICATION Spec
CONSTANTS
    p1 = p1
    p2 = p2
    None = None
    Procs = {p1, p2}
    MaxVersion = 2
INVARIANT
    ReadyHasPackage
