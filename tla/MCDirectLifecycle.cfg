SPECIFICATION Spec
CONSTANTS
    o1 = o1
    m1 = m1
    m2 = m2
    c1 = c1
    Orders = {o1}
    Masters = {m1, m2}
    ClientOf <- MCClientOf
    NoMaster = NoMaster
    Quotes = {low, high}
    NoQuote = NoQuote
    Standings = {"ready", "offline", "barred", "planned"}
    MaxAttempt = 2
    MaxQuoteVersion = 2
SYMMETRY MasterSymmetry
INVARIANTS
    OneAnswerAtATime
    WorkIsConsented
PROPERTIES
    ConsentBindsQuote
    AnswersAreFinal
    CancelledAsShown
