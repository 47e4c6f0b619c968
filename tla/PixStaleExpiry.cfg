\* A resynchronisation finds a late payment while a cycle expires the charge.
SPECIFICATION Spec
CONSTANTS
    Charges = {1}
    k1 = k1
    Contracts = {k1}
    ContractOf <- MCContractOf
    Amount <- MCAmount
    UpdatedValue <- MCUpdatedValue
    Webhooks = {}
    Cycles = {j1}
    Syncs = {s1}
    BatchSize = 2
    LatePayment = TRUE
    MaxFaults = 0
PROPERTY ConfirmedBeatsExpiry
