\* An agreement is closed, one installment of it paid, and then the whole of it.
SPECIFICATION AgreementSpec
CONSTANTS
    g1 = g1
    Deals = {g1}
    NoDeal = NoDeal
    PartsOf <- MCPartsOf
    Messages <- MCMessages
    Listeners = {h1}
    MaxArrivals = 3
    MaxCrashes = 0
CHECK_DEADLOCK FALSE
INVARIANT TotalIsTheSum
