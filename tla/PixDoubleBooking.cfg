\* A payment the job has booked is delivered by webhook.
SPECIFICATION Spec
CONSTANTS
    Charges = {1}
    k1 = k1
    Contracts = {k1}
    ContractOf <- MCContractOf
    Amount <- MCAmount
    UpdatedValue <- MCUpdatedValue
    Webhooks = {w1}
    Cycles = {j1}
    Syncs = {}
    BatchSize = 2
    LatePayment = FALSE
    MaxFaults = 0
INVARIANT SettledOnce
