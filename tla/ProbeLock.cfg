\* A short request, a long one and two probes that come back for ever, no symmetry.
SPECIFICATION FairSpec
CONSTANTS
    Reader = {u1, u2}
    Writer = {p1, p2}
    Long = {u2}
    None = None
INVARIANTS
    SoleProbe
    ProbeExcludesReaders
PROPERTY
    WritersLeave
