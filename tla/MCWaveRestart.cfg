SPECIFICATION FairSpec
CONSTANTS
    m1 = m1
    h1 = h1
    Masters = {m1}
    NoMaster = NoMaster
    NoJob = NoJob
    Handlers = {h1}
    Requested = {"crash"}
    MaxWave = 1
    MaxAttempt = 1
    MaxHolds = 1
CHECK_DEADLOCK FALSE
PROPERTIES
    WaveTimesOut
