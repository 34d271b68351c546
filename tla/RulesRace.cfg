SPECIFICATION Spec
CONSTANTS
    RuleIDs = {r1}
    Hashes = {h1, h2}
    For <- Debounce
    Resolve = {h1, h2}
    Configs <- Same
    Buffer = 1
    MaxFaults = 0
    MaxReloads = 1
    MaxStarts = 1
    None = None
    h1 = h1
    h2 = h2
    r1 = r1
INVARIANTS LogAgrees
CHECK_DEADLOCK FALSE
