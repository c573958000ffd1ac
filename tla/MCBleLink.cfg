SPECIFICATION FairSpec
CONSTANTS
    c1 = c1
    c2 = c2
    g1 = g1
    g2 = g2
    Caller = {c1, c2}
    Dialer = {g1, g2}
    SpuriousErrors = TRUE
    MaxDrops = 3
INVARIANTS
    OneDial
    NoOrphanLink
PROPERTIES
    Reconnects
    FastIntervalAsked
