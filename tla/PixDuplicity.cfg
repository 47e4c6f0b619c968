\* Two requests that carry the same idempotency key.
SPECIFICATION Spec
CONSTANTS
    k1 = k1
    key1 = key1
    Nobody = Nobody
    AtSerasa = AtSerasa
    Requests = {r1, r2}
    Kinds = {"charge"}
    Contracts = {k1}
    ContractOf <- MCContractOf
    Keys = {key1}
    KeyOf <- MCKeyOf
    Amounts = {debt, offer}
    NoAmount = NoAmount
    MaxFaults = 0
    MaxReprices = 0
SYMMETRY MCSymmetry
CHECK_DEADLOCK FALSE
INVARIANTS OneChargePerKey
