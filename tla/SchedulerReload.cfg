SPECIFICATION Spec
CONSTANTS
    Definitions <- Approvals
    Cards = {c1}
    Procs = {p1, p2}
    Subs = {}
    Hashes = {h1}
    Auths = {a1, a2}
    Views = {v1}
    MaxGeneration = 2
    MaxRestarts = 0
    MaxVersion = 0
    Workers = 1
    Threshold = 2
    Buffer = 1
    None = None
    h1 = h1
    a1 = a1
    a2 = a2
    v1 = v1
SYMMETRY Symmetry
INVARIANTS DocumentIdentity
PROPERTIES Fence
CHECK_DEADLOCK FALSE
