\* Two queued requests and a direct one for two slots, no symmetry.  Requests end, so
\* a state where all have ended has no successor.
SPECIFICATION FairSpec
CONSTANTS
    Client = {r1, r2, r3}
    Direct = {r3}
    Slot = {k1, k2}
    Empty = Empty
INVARIANTS
    HoldersKeepSlots
    WaitersKeepTheirPlace
PROPERTIES
    AdmittedInOrder
    WaitersLeave
CHECK_DEADLOCK FALSE
