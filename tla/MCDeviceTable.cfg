SPECIFICATION Spec
CONSTANTS
    kbd1 = kbd1
    kbd2 = kbd2
    mouse1 = mouse1
    mouse2 = mouse2
    kbdNode = kbdNode
    pad1 = pad1
    pad2 = pad2
    mouseNode = mouseNode
    padNode = padNode
    Dev = {kbd1, kbd2, mouse1, mouse2, pad1, pad2}
    Path = {kbdNode, mouseNode, padNode}
    PathOf <- MCPathOf
INVARIANT
    AlreadyReading
\* nobody need plug in a device
CHECK_DEADLOCK FALSE
