\* What polling alone achieves, whatever webhook and resynchronisation do or leave.
SPECIFICATION FairSpec
CONSTANTS
    Charges = {1}
    k1 = k1
    Contracts = {k1}
    ContractOf <- MCContractOf
    Amount <- MCAmount
    UpdatedValue <- MCUpdatedValue
    Webhooks = {w1}
    Cycles = {j1}
    Syncs = {s1}
    BatchSize = 2
    LatePayment = FALSE
    MaxFaults = 0
PROPERTIES  OverdueIsClosed 
