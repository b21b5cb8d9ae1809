SPECIFICATION FairParts
CONSTANTS
    Connections = {c1}
    Socket = c1
    MaxInFlight = 1
    MaxPeerRequests = 1
    RequestIds = {r1, r2}
    MaxQueuedFrames = 2
    MaxQueuedBytes = 3
    FrameSizes = {1, 2, 3}
    MaxMessageBytes = 2
    MaxRunning = 2
    MaxFrames = 2
    Payloads = {1, 3}
    Overhead = 1
    MaxBytes = 7
    HighWater = 3
    MaxPushes = 5
    Callers = {a, b, c}
    Keys = {k1}
    MaxAttempts = 1
    Window = 2
    MaxWait = 1
    MaxKeys = 1
    MaxStamps = 2
    Servers = {"s1", "s2"}
    Added = {"r2"}
    Stuck = {"l2"}
    Raising = {"r2"}
    MaxOpened = 2
    Children = {1, 2}
    MaxKey = 3
    Walkers = {"stranger", "member"}
    BundleLimit = 1
    PageLimit = 1
    MaxChanges = 2
    MaxOptions = 2
INVARIANTS
    OrderedAndBounded
    ReadersSeeWhatTheyMay
    AssembledAsPublished
PROPERTIES
    EveryFrameSettles
    DroppedOnlyIfUnread
    NoFrameIsHeldForever
    EveryWaitEnds
    AcquiredWhileUp
CHECK_DEADLOCK FALSE
