SPECIFICATION FairSpec
CONSTANTS
    c1 = c1
    c2 = c2
    c3 = c3
    NoConn = NoConn
    Conn = {c1, c2, c3}
    Backlog = 1
    MaxFrames = 2
    MaxDisturb = 3
INVARIANTS
    NoSocketLeak
    ConnIsWatched
PROPERTIES
    FreshConnKept
    InOrder
    ServedAgain
\* connected, with the bounds used up, nothing need happen
CHECK_DEADLOCK FALSE
