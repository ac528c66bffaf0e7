\* Three operations and one of a caller that asks isRedisAvailable first.
SPECIFICATION FairCircuitSpec
CONSTANTS
    c1 = c1
    c2 = c2
    c3 = c3
    g = g
    Caller = {c1, c2, c3, g}
    Gated = {g}
    Threshold = 3
    OpenTicks = 2
    Longest = 5
INVARIANTS
    FailuresOpen
    ProbesApart
PROPERTY
    Recovers
