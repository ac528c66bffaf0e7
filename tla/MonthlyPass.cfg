\* Three requests of every kind under IAM enforcement.
SPECIFICATION Spec
CONSTANTS
    Session = {s1, s2, s3}
    u1 = u1
    u2 = u2
    t1 = t1
    t2 = t2
    p1 = p1
    p2 = p2
    NoRow = NoRow
    Clean = Clean
    Free = Free
    NoView = NoView
    NoLimit = NoLimit
    Keep = Keep
    User <- MCUser
    Template <- MCTemplate
    PassId <- MCPassId
    Row <- MCRow
    Price <- MCPrice
    Limit <- MCLimit
    Opening <- MCOpening
    Request <- Guarded
    Enforced = TRUE
SYMMETRY Symmetry
INVARIANT
    QuotaAddsUp
PROPERTIES
    WithinLimit
    ImplementsService
CHECK_DEADLOCK FALSE
