SPECIFICATION Spec
CONSTANTS
    RuleIDs = {r1}
    Hashes = {h1, h2}
    For <- Short
    Resolve = {h1}
    Configs <- Edits
    Buffer = 1
    MaxFaults = 1
    MaxReloads = 2
    MaxStarts = 1
    None = None
    h1 = h1
    h2 = h2
    r1 = r1
INVARIANTS DeadlinesKept
CHECK_DEADLOCK FALSE
