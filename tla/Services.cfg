SPECIFICATION ServicesSpec
CONSTANTS
    Browsers = {"b1"}
    SessionOf <- OneSession
    NoSession = "none"
    ReplaySize = 2
    ChanSize = 1
    FeedSize = 1
    MaxClients = 2
    PerSession = 2
    MaxCard = 1
    MaxLayout = 1
    MaxBoots = 2
    MaxDrops = 1
    MaxStreams = 2
    MaxFetches = 2
    Requests = {r1, r2}
    Sources = {u1, u2}
    HashSlots = 1
    Queue = 0
    Threshold = 2
    MaxTracked = 1
    WindowLen = 2
    LockLen = 3
    SudoLen = 1
    TTL = 2
    MaxCred = 1
    MaxSession = 1
    MaxTime = 3
    MaxCuts = 1
    Keys = {"1", "2", "3"}
    SizeOf <- Sizes
    Budget = 2
    Junk = "junk"
    Nothing = "nothing"
    MaxFailures = 1
    MaxAsked = 5
    Integrations = {1, 2}
    Editions = {1, 2, 3}
    Manifest <- Asked
    Offers <- Offered
    Clients = {1, 2}
    DefaultKB = 2
    MaxKB = 3
    MaxEdits = 1
    MaxText = 6
    Symbols <- PathSymbols
    MaxSegment = 2
SYMMETRY Symmetry
INVARIANTS
    SlotsAccounted  Authorised 
    AnswersIntact WithinBudget NeverWidened NothingDropped
     MatchersAgree LoadProves  
     InvokesAsWritten DigestFaithful DecodesWithinBudget ChartFaithful
CHECK_DEADLOCK FALSE
