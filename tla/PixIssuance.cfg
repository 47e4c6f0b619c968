\* Two requests for one contract, a recalculated offer and one fault; two exchanges with the bank, a change of the gateway or a process that stops.
SPECIFICATION MCSpec
CONSTANTS
    k1 = k1
    key1 = key1
    Nobody = Nobody
    AtSerasa = AtSerasa
    Requests = {r1, r2}
    Kinds = {"charge", "agreement", "document"}
    Contracts = {k1}
    ContractOf <- MCContractOf
    Keys = {key1}
    KeyOf <- MCKeyOf
    Amounts = {debt, offer}
    NoAmount = NoAmount
    MaxFaults = 1
    MaxReprices = 1
    x1 = x1
    x2 = x2
    s0 = s0
    Gateways = {g1}
    OwnerOf <- MCOwnerOf
    Environments = {"SANDBOX", "PRODUCTION"}
    Deployed = "PRODUCTION"
    Clients = {o1}
    Exchanges = {x1, x2}
    NoExchange = NoExchange
    Servers = {s0}
    ServerOf <- MCServerOf
    MaxRetries = 1
    MaxChanges = 1
    MaxRestarts = 1
SYMMETRY MCBankSymmetry
CHECK_DEADLOCK FALSE
INVARIANTS BankChargeHasRow RepeatIsSafe   TokenFits RefreshIsShared OutcomeIsTrue
PROPERTIES DeadlineIsKept
