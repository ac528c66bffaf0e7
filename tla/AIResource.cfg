\* Two requests and a probe run for one or two slots.  Requests end, so a state where
\* all have ended has no successor.
SPECIFICATION FairSpec
CONSTANTS
    r1 = r1
    r2 = r2
    j = j
    t1 = t1
    t2 = t2
    NoLease = NoLease
    Request = {r1, r2, j}
    Job = {j}
    Ticket = {t1, t2}
    Limits = {1, 2}
    MaxQueued = 2
INVARIANTS
    SlotsAreHeld
    NoIdleSlot
    HopsAreOwned
PROPERTIES
    AdmissionInOrder
    RequestsEnd
CHECK_DEADLOCK FALSE
