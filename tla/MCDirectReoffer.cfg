SPECIFICATION HSpec
CONSTANTS
    o1 = o1
    m1 = m1
    c1 = c1
    Orders = {o1}
    Masters = {m1}
    ClientOf <- MCClientOf
    NoMaster = NoMaster
    Quotes = {}
    NoQuote = NoQuote
    Standings = {"ready", "offline"}
    MaxAttempt = 2
    MaxQuoteVersion = 0
PROPERTY CancellerFiltered
