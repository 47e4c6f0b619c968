\* Users, sessions and invitations, messages to debtors, and what debtors do, a scene of each.
SPECIFICATION MCSpec
CONSTANTS
    k1 = k1
    k2 = k2
    k3 = k3
    u1 = u1
    s2 = s2
    x1 = x1
    x2 = x2
    h1 = h1
    h2 = h2
    Users = {u1, u2}
    Sessions = {s1, s2}
    Invites = {i1, i2}
    Resets = {t1}
    Requests = {x1, x2}
    NoOne = NoOne
    MaxRequests = 3
    Debtors = {d1, d2, d3}
    WithPhone = {d1, d2}
    CommRules = {k1, k2, k3}
    ChannelOf <- MCChannelOf
    DueAt <- MCDueAt
    LastMinute = 2
    Pods = {x1, x2}
    BatchSize = 2
    Campaigns = {j1}
    PageSize = 2
    CampaignTries = 2
    VoiceHooks = {h1, h2}
    MaxRings = 3
    MaxBreaks = 1
    p1 = p1
    p2 = p2
    c1 = c1
    c2 = c2
    m1 = m1
    m2 = m2
    m3 = m3
    m4 = m4
    Holders = {p1, p2}
    NoHolder = NoHolder
    ByDueDate <- MCByDueDate
    HolderOf <- MCHolderOf
    Messages = {m1, m2, m3, m4, m5}
    SaysOf <- MCSaysOf
    Turns = {x1, x2}
    MaxTurns = 3
    Links = {l1}
    LinkTo <- MCLinkTo
    Visits = {x1, x2}
    MaxVisits = 2
    MaxAsks = 1
    MaxUpsets = 1
SYMMETRY MCSymmetry
CHECK_DEADLOCK FALSE
INVARIANTS BackOfficeTypeOK TokensFollowTheUser ShutStaysShut InviteeHasLink RuleRunsOnce SentIsRecorded VoiceLinkOnce ActsForTheHolder
