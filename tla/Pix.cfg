\* One charge and every kind of process, then two charges and their deliveries.
SPECIFICATION MCSpec
CONSTANTS
    Charges = {1, 2}
    k1 = k1
    Contracts = {k1}
    ContractOf <- MCContractOf
    Amount <- MCAmount
    UpdatedValue <- MCUpdatedValue
    Webhooks = {w1, w2}
    Cycles = {j1}
    Syncs = {s1}
    BatchSize = 2
    LatePayment = TRUE
    MaxFaults = 1
SYMMETRY MCSymmetry
CHECK_DEADLOCK FALSE
INVARIANTS NoPhantomPayment SettledIsPaid RemovalFollowsPaid ContractIsPaid DeliveryIsBooked
PROPERTIES  PaidIsFinal
ACTION_CONSTRAINT SceneSteps
