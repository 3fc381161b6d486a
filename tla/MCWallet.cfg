SPECIFICATION Spec
CONSTANTS
    m1 = m1
    o1 = o1
    o2 = o2
    w1 = w1
    w2 = w2
    w3 = w3
    p1 = p1
    p2 = p2
    Orders <- MCOrders
    Masters = {m1}
    MasterOf <- MCMasterOf
    CalloutOf <- MCCalloutOf
    Withdrawals <- MCWithdrawals
    RequesterOf <- MCRequesterOf
    AmountOf <- MCAmountOf
    Results = {"SUCCEEDED", "FAILED", "THROWN"}
    Operators = {p1, p2}
    NoWithdrawal = NoWithdrawal
SYMMETRY MCSymmetry
INVARIANTS
    TypeOK
    Conservation
    ResolvedOnce
    UnreviewedAnswersAreTrue
