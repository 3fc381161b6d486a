SPECIFICATION MCSpec
CONSTANTS
    x1 = x1  x2 = x2  x3 = x3  h1 = h1  h2 = h2  y1 = y1  y2 = y2
    Bidders = {x1, x2, x3}
    NoBidder = NoBidder
    NoPlannedJob = NoPlannedJob
    PlannedHandlers = {h1, h2}
    Modes = {"PAID"}
    MaxBids = 1
    MaxTurn = 2
    Purchases = {p1, p2}
    CreditBids = {b1, b2}
    Cancelled = {c1, c2, c3}
    LostDisputes = {d1}
    PackCredits = 1
    PenaltyCredits = 2
    BlockThreshold = 2
    NoHolder = NoHolder
    Keyed = {x1, x2}
    Unkeyed = {u1}
    NoIntent = NoIntent
    CreateHandlers = {h1, h2}
    NoHandler = NoHandler
    Files = {x1, x2}
    FileKinds = {"UPLOAD", "DOCUMENT", "EVIDENCE"}
    Scanners = {h1, h2}
    PhotoOrders = {y1, y2}
    Submitters = {y1, y2}
    MaxAttempts = 2
    NoFile = NoFile
    Alerts = {a1}
    Severities = {"WARNING", "HIGH", "CRITICAL"}
    Retries = {}
    Senders = {h1, h2}
    Escalators = {e1}
    MaxPosts = 2
    NoAlert = NoAlert
    MaxCodes = 3
    AuthCalls = {h1, h2}
    Sockets = {s1}
    MaxSends = 2
    MaxGuesses = 2
    NoCall = NoCall
SYMMETRY MCSymmetry
INVARIANTS
    PlatformTypeOK
    
    ChosenIsABidder
    StaleOnlyAfterReselection
    
    CreatedOnce
    UnknownOutcomeKept
    AccountIsSound
    ServedOnlyClean
    
    AlertsAreTold
    LimitsAreExact
    BlockedIsDisconnected
PROPERTIES EscalatedOnlyOnBreach
CHECK_DEADLOCK FALSE
