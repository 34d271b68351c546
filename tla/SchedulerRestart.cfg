SPECIFICATION Spec
CONSTANTS
    Definitions <- AllModes
    Cards = {c1}
    Procs = {p1, p2}
    Subs = {s1}
    Hashes = {h1}
    Auths = {a1, a2}
    Views = {v1}
    MaxGeneration = 1
    MaxRestarts = 2
    MaxVersion = 0
    Workers = 1
    Threshold = 2
    Buffer = 1
    None = None
    h1 = h1
    a1 = a1
    a2 = a2
    v1 = v1
SYMMETRY Symmetry
INVARIANTS SingleFlight Inv
CHECK_DEADLOCK FALSE
