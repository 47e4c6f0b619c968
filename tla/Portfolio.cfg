\* Imports, pricing, removals and agreements, a scene of each.
SPECIFICATION MCSpec
CONSTANTS
    d1 = d1
    d2 = d2
    t1 = t1
    t2 = t2
    b1 = b1
    b2 = b2
    n1 = n1
    n2 = n2
    g1 = g1
    g2 = g2
    x1 = x1
    x2 = x2
    w1 = w1
    Rows = {r1, r2}
    Wallets = {w1, w2}
    Debts = {d1, d2}
    Misdigit = {}
    Terms = {t1, t2}
    Clerks = {c1}
    MaxClerical = 2
    Batches = {b1, b2}
    Files <- MCFiles
    Jobs = {x1, x2}
    Managers = {x1, x2}
    MaxManaged = 2
    MaxTries = 2
    CheckEvery = 1
    MaxStalls = 3
    MaxTroubles = 1
    Portfolios = {p1}
    Agreements = {a1}
    Percents = {0, 1}
    Ages = {0, 1}
    Layouts <- MCLayouts
    Editors = {x1, x2}
    MaxEdits = 3
    Names = {n1, n2}
    NameOf <- MCNameOf
    Letters <- MCLetters
    Removals = {v1}
    SiftTries = 2
    Strikes = {x1, x2}
    StrikeTries = 2
    SaveEvery = 2
    Approvers = {x1, x2}
    MaxApprovals = 2
    MaxMishaps = 1
    Deals = {g1, g2}
    NoDeal = NoDeal
    PartsOf <- MCPartsOf
    Messages <- MCMessages
    Listeners = {x1, x2}
    MaxArrivals = 3
    MaxCrashes = 1
SYMMETRY MCSymmetry
CHECK_DEADLOCK FALSE
INVARIANTS PortfolioTypeOK OneContractPerDebt CountsAddUp AppliedIsInTheBook  CompletedIsCancelled  CountWasReported
