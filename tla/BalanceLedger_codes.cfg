\* Two requests; the documented single use of a redemption code.
SPECIFICATION Spec
CONSTANTS
    Session = {s1, s2}
    g1 = g1
    g2 = g2
    g3 = g3
    g4 = g4
    c1 = c1
    NoRow = NoRow
    Clean = Clean
    Free = Free
    NoView = NoView
    Nobody = Nobody
    User <- MCUser
    Gift <- MCGift
    Code <- MCCode
    Row <- MCRow
    Request <- CodeRequest
    Opening <- MCOpening
INVARIANT
    CodesCreditOnce
CHECK_DEADLOCK FALSE
