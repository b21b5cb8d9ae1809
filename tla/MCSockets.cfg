SPECIFICATION SocketsParts
CONSTANTS
    Connections = {c1, c2, c3}
    Socket = c1
    MaxInFlight = 1
    MaxPeerRequests = 1
    RequestIds = {r1, r2}
    MaxQueuedFrames = 2
    MaxQueuedBytes = 3
    FrameSizes = {1, 2, 3}
    MaxMessageBytes = 2
    MaxRunning = 2
    MaxFrames = 3
    Accounts = {a1, a2}
    Sessions = {s1}
    Tokens = {t1}
    Roles = {r1}
    Null = Null
    Identity <- MCIdentity
    Broken = {c3}
    MaxConnectionsPerAccount = 2
    a1 = a1  a2 = a2  s1 = s1  t1 = t1  r1 = r1  r2 = r2
    c1 = c1  c2 = c2  c3 = c3
    MaxQueueSize = 2
    MaxRequests = 3
    MaxSockets = 3
    Kind <- MCKind
    Filters = {"all"}
    PageLimit = 1
    FillLimit = 2
    MaxCalls = 1
    Routes <- MCRoutes
    NarrowToken = TRUE
    MaxRotations = 2
    MaxChanges = 1
INVARIANTS
    FramesAreServed
    CapRespected
    EveryRequestIsTracked
    
    VerdictsWereTrue
    ResultsAreTrue
    
PROPERTIES
    EvictsOldestForANewcomer
CHECK_DEADLOCK FALSE
