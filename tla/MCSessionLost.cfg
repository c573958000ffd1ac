SPECIFICATION MCSpec
CONSTANTS
    kbd1 = kbd1
    kbd2 = kbd2
    node1 = node1
    node2 = node2
    A = A
    B = B
    C = C
    Dev = {kbd2}
    Path = {node2}
    PathOf <- MCPathOf
    KeysOf <- MCKeysOf
    MqttEnabled = FALSE
    Mod = {}
    Usage = {A}
    Rollover = Rollover
    Slots = 6
    Button = {}
    Axis = {}
    RelCode = {"wheel_hi_res"}
    Limit <- MCLimit
    Steps = {0}
    MaxPending = 1
INVARIANT
    LeftAloneOnlyWhenGone
\* the process exits
CHECK_DEADLOCK FALSE
