SPECIFICATION FairSpec
CONSTANTS
    m1 = m1
    o1 = o1
    w1 = w1
    Orders = {o1}
    Masters = {m1}
    MasterOf <- MCMasterOf
    CalloutOf <- MCCalloutOf
    Withdrawals = {w1}
    RequesterOf <- MCRequesterOf
    AmountOf <- MCAmountOf
    Results = {"SUCCEEDED", "FAILED", "THROWN"}
    Operators = {p1}
    NoWithdrawal = NoWithdrawal
PROPERTY
    NoSilentPending
