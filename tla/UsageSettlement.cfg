\* Two settlements of every pair of usages, with the billing lock failing open.
SPECIFICATION Spec
CONSTANTS
    Session = {s1, s2}
    t1 = t1
    t2 = t2
    t3 = t3
    t4 = t4
    r1 = r1
    r2 = r2
    p1 = p1
    p2 = p2
    p3 = p3
    u1 = u1
    u2 = u2
    u3 = u3
    NoRow = NoRow
    Clean = Clean
    Free = Free
    NoView = NoView
    NoLimit = NoLimit
    NoProvider = NoProvider
    Unowned = Unowned
    Task = {s1, s2}
    User <- MCUser
    LockKey <- MCUser
    Token <- MCToken
    RequestId <- MCRequestId
    Pass <- MCPass
    Row <- MCRow
    Passes <- MCPasses
    PassUnit <- MCPassUnit
    DailyQuota <- MCDailyQuota
    Opening <- MCOpening
    Bill <- MCBill
    CommissionPercent = 50
    MaxAttempts = 2
    FailClosed = FALSE
    RedisFails = TRUE
    Outlasts = TRUE
SYMMETRY Symmetry
INVARIANTS
    ChargedOnce
    TokensMatchUsage
    BalancesMatchLedger
    PassesMatchUsage
PROPERTIES
    OnlyOwnerFrees
CHECK_DEADLOCK FALSE
