SPECIFICATION Spec
CONSTANTS
    Definitions <- Single
    Cards = {c1}
    Procs = {p1, p2}
    Subs = {}
    Hashes = {h1}
    Auths = {a1}
    Views = {v1}
    MaxGeneration = 1
    MaxRestarts = 0
    MaxVersion = 0
    Workers = 1
    Threshold = 2
    Buffer = 1
    None = None
    h1 = h1
    a1 = a1
    a2 = a2
    v1 = v1
SYMMETRY Symmetry
PROPERTIES LastGoodKept
CHECK_DEADLOCK FALSE
