SPECIFICATION ServerParts
CONSTANTS
    p1 = p1  p2 = p2  p3 = p3
    Connections = {c1, c2}
    MaxInFlight = 2
    MaxPeerRequests = 4
    Callers = {p1, p2, p3}
    Keys = {k1, k2}
    MaxAttempts = 2
    Window = 1
    MaxWait = 1
    MaxKeys = 1
    MaxStamps = 1
    LoginRequests = {p1, p2}
    MaxCredentials = 1
    Requests = {p1, p2, p3}
    Names = {n1, n2}
    Email = email
    Invites = {1}
    None = None
    AuditRequests = {p1, p2}
    Listeners = {l1, l2, l3}
    Throwing = {l1}
    Leaving = {l2}
    Late = {l2}
    MaxRows = 2
    Streams = {p1, p2}
    Sessions = {"c1"}
    Tokens = {}
    MaxPerScope = 1
    MaxQueue = 1
    CellRequests = {p1, p2}
    Actors = {ann, bob}
    Admins = {}
    Founder = ann
    Members = {bob}
    Stewards = {}
    Cells = {1, 2}
    Facts = {f}
    Ops = {"create", "update", "clone", "moderate", "link", "unlink", "grant", "revoke", "delete"}
    MaxAsks = 2
    FactActors = {p1, p2}
    MaxPuts = 2
    Processes = {"old", "new", "fork", "record"}
    Baselines = {"record"}
    Builds <- MCBuilds
    MaxBoots = 2
    MaxEdits = 2
    MaxHops = 3
    Browsers = {b1}
    SessionAge = 2
    MaxTime = 4
    MaxKey = 2
SYMMETRY ServerSymmetry
INVARIANTS
    AttemptsAreCapped
    CredentialsEndWithTheTrust
    OnlyOverlapPassesTheLimit
    AccountsWereLetIn
    AnnouncedOnceIfCommitted
    OnlyEntitledStreamsStay
    NoOneNamesWhatTheyNeverSaw
    RecentFactsAreKept
    SchemaIsWhatWasRecorded
    FactsAreServedInternally
    RequestsAreToldApart
    SessionsLastAsLongAsTheyShould
PROPERTIES
    SettledOnceByItsConnection
    FreedSlotWakes
    RejectedStaysRejected
CHECK_DEADLOCK FALSE
