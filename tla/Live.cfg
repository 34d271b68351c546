SPECIFICATION LiveSpec
CONSTANTS
    Calls = {1, 2}
    Cards = {"k1", "k2", "k3"}
    Plugin <- OnePlugin
    Wasm = {"k1", "k2"}
    Keys = {1}
    HostCalls = 2
    HTTPRequests = 1
    CacheEntries = 2
    CacheKB = 1
    Sizes = {1}
    Concurrency = 1
    MaxRedirects = 1
    Versions = {0, 1, 2, 3}
    ModeOf <- Modes
    Sensitive = {3}
    Material <- Alternating
    MaxManifests = 1
    MaxFaults = 2
    MaxGens = 5
    MaxBoots = 1
INVARIANTS ExchangesBounded  NotClosedUnderneath  RevisionIdentifies
PROPERTIES CloseEnds Drains  
CHECK_DEADLOCK FALSE
