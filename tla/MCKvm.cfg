SPECIFICATION FairSpec
CONSTANTS
    kbd1 = kbd1
    kbd2 = kbd2
    mouse1 = mouse1
    mouse2 = mouse2
    kbdNode = kbdNode
    mouseNode = mouseNode
    Dev = {kbd1, kbd2, mouse1, mouse2}
    Path = {kbdNode, mouseNode}
    PathOf <- MCPathOf
INVARIANTS
    NoLeftoverGrab
    OneReaderPerNode
    NoFdLeak
PROPERTIES
    HoldsUntilRelease
    ImplementsOwnership
    LinkDropReleases
    DeviceLossReleases
    DeviceReattached
\* the process exits
CHECK_DEADLOCK FALSE
