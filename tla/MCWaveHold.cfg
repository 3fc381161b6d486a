SPECIFICATION Spec
CONSTANTS
    m1 = m1
    h1 = h1
    Masters = {m1}
    NoMaster = NoMaster
    NoJob = NoJob
    Handlers = {h1}
    Requested = {"retry"}
    MaxWave = 1
    MaxAttempt = 2
    MaxHolds = 2
CHECK_DEADLOCK FALSE
PROPERTIES
    NoMastersReleasesHold
