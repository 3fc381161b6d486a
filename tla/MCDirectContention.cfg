SPECIFICATION FairSpec
CONSTANTS
    o1 = o1
    o2 = o2
    m1 = m1
    c1 = c1
    c2 = c2
    Orders <- MCOrders
    Masters = {m1}
    ClientOf <- MCClientOf
    NoMaster = NoMaster
    Quotes = {}
    NoQuote = NoQuote
    Standings = {"ready", "offline"}
    MaxAttempt = 2
    MaxQuoteVersion = 0
INVARIANTS
    TypeOK
    OneOrderPerMaster
    
PROPERTIES
    ExhaustionIsReal
    ImplementsBooking
    SearchEnds
