SPECIFICATION MCSpec
SYMMETRY MCSymmetry
CONSTANTS
    kbd1 = kbd1
    kbd2 = kbd2
    node1 = node1
    node2 = node2
    A = A
    B = B
    C = C
    Dev = {kbd1, kbd2}
    Path = {node1, node2}
    PathOf <- MCPathOf
    KeysOf <- MCKeysOf
    MqttEnabled = TRUE
    Mod = {}
    Usage = {A}
    Rollover = Rollover
    Slots = 6
    Button = {}
    Axis = {"dx"}
    RelCode = {"dx"}
    Limit <- MCLimit
    Steps = {1}
    MaxPending = 1
INVARIANTS
    ReleasedMeansNeutral
    NoStuckKeys
PROPERTY
    LocalStaysLocal
\* the process exits
CHECK_DEADLOCK FALSE
