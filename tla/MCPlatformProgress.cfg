SPECIFICATION MCProgress
CONSTANTS
    x1 = x1  x2 = x2  x3 = x3  h1 = h1  h2 = h2  y1 = y1  y2 = y2
    Bidders = {x1}
    NoBidder = NoBidder
    NoPlannedJob = NoPlannedJob
    PlannedHandlers = {h1}
    Modes = {"PAID"}
    MaxBids = 1
    MaxTurn = 1
    Purchases = {p1, p2}
    CreditBids = {b1, b2}
    Cancelled = {c1, c2, c3}
    LostDisputes = {d1}
    PackCredits = 1
    PenaltyCredits = 2
    BlockThreshold = 2
    NoHolder = NoHolder
    Keyed = {x1, x2}
    Unkeyed = {u1}
    NoIntent = NoIntent
    CreateHandlers = {h1, h2}
    NoHandler = NoHandler
    Files = {x1}
    FileKinds = {"UPLOAD"}
    Scanners = {h1, h2}
    PhotoOrders = {y1}
    Submitters = {}
    MaxAttempts = 2
    NoFile = NoFile
    Alerts = {a1}
    Severities = {"HIGH"}
    Retries = {r1}
    Senders = {h1}
    Escalators = {}
    MaxPosts = 2
    NoAlert = NoAlert
    MaxCodes = 3
    AuthCalls = {h1, h2}
    Sockets = {s1}
    MaxSends = 2
    MaxGuesses = 2
    NoCall = NoCall
PROPERTIES
    ExpiryGetsScheduled
    ScansEnd
    
    DeliveryEnds
CHECK_DEADLOCK FALSE
