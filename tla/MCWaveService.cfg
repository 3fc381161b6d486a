SPECIFICATION Spec
CONSTANTS
    m1 = m1
    h1 = h1
    h2 = h2
    Masters = {m1}
    NoMaster = NoMaster
    NoJob = NoJob
    Handlers = {h1, h2}
    Requested = {"retry", "cancel", "withdraw", "assign", "onWay", "onSite", "propose", "complete", "dispute"}
    MaxWave = 1
    MaxAttempt = 2
    MaxHolds = 2
SYMMETRY MCSymmetry
CHECK_DEADLOCK FALSE
INVARIANTS
    AssignedIffServed
    CompensationEndsOrder
PROPERTIES
    ImplementsBooking
