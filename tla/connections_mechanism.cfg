SPECIFICATION Spec
CONSTANTS
    p1 = p1
    p2 = p2
    c1 = c1
    c2 = c2
    m1 = m1
    m2 = m2
    None = None
    Procs = {p1, p2}
    MaxID = 1
    Compared = {c1, c2}
    Mechanisms = {m1, m2}
    Imports <- MCImports
INVARIANT
    ClientDialledWithMechanism
