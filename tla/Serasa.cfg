\* A removal and its webhooks; an inclusion of two contracts and a replay.
SPECIFICATION MCSpec
CONSTANTS
    o1 = o1
    o2 = o2
    o3 = o3
    i1 = i1
    i2 = i2
    i3 = i3
    i4 = i4
    c1 = c1
    c2 = c2
    Nobody = Nobody
    Ops = {o1, o2, o3}
    ActionOf <- MCActionOf
    Items = {i1, i2, i3, i4}
    OpOf <- MCOpOf
    ContractOf <- MCContractOf
    Contracts = {c1, c2}
    Workers = {w1, w2}
    Hooks = {h1, h2}
    MaxAttempts = 2
    MaxUpsets = 1
SYMMETRY MCSymmetry
CHECK_DEADLOCK FALSE
INVARIANTS PendingHasJob EffectsOnce OpenHasWork CompletedIsSent
