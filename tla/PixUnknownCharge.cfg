\* The bank never registers a charge whose issuance timed out.
SPECIFICATION FairSpec
CONSTANTS
    Charges = {1}
    k1 = k1
    Contracts = {k1}
    ContractOf <- MCContractOf
    Amount <- MCAmount
    UpdatedValue <- MCUpdatedValue
    Webhooks = {}
    Cycles = {j1}
    Syncs = {}
    BatchSize = 2
    LatePayment = FALSE
    MaxFaults = 0
PROPERTY UnknownIsFailed
