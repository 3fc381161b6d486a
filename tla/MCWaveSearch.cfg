SPECIFICATION Spec
CONSTANTS
    m1 = m1
    m2 = m2
    h1 = h1
    h2 = h2
    Masters = {m1, m2}
    NoMaster = NoMaster
    NoJob = NoJob
    Handlers = {h1, h2}
    Requested = {"cancel", "withdraw", "crash"}
    MaxWave = 2
    MaxAttempt = 2
    MaxHolds = 1
SYMMETRY MCSymmetry
CHECK_DEADLOCK FALSE
INVARIANTS
    TypeOK
    OneWinner
    NothingLeftToAccept
PROPERTIES
    WavesOnlyAdvance
