SPECIFICATION FairSpec
CONSTANTS
    RuleIDs = {r1}
    Hashes = {h1, h2}
    For <- Debounce
    Resolve = {h1, h2}
    Configs <- Same
    Buffer = 1
    MaxFaults = 1
    MaxReloads = 0
    MaxStarts = 2
    None = None
    h1 = h1
    h2 = h2
    r1 = r1
INVARIANTS LogAgrees
PROPERTIES SettlesUnlessCutOff
CHECK_DEADLOCK FALSE
