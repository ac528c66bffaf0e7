\* Three concurrent requests out of every kind, no symmetry.  Requests end, so a
\* state where all have ended has no successor.
SPECIFICATION FairSpec
CONSTANTS
    Session = {s1, s2, s3}
    g1 = g1
    g2 = g2
    g3 = g3
    g4 = g4
    c1 = c1
    NoRow = NoRow
    Clean = Clean
    Free = Free
    NoView = NoView
    Nobody = Nobody
    User <- MCUser
    Gift <- MCGift
    Code <- MCCode
    Row <- MCRow
    Request <- MCRequest
    Opening <- MCOpening
INVARIANTS
    BalancesMatchLedger
    GiftsSettleOnce
PROPERTIES
    GiftsAreCovered
    ImplementsService
    RequestsEnd
CHECK_DEADLOCK FALSE
