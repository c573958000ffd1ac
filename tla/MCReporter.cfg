SPECIFICATION ReporterFairSpec
CONSTANTS
    Mod = {Shift}
    Usage = {keyA, keyB, keyC}
    Slots = 2
    Button = {Left}
    Axis = {"wheel"}
    Steps <- UnitSteps
    MaxPending = 2
    Limit <- MCLimit
    keyA = keyA
    keyB = keyB
    keyC = keyC
    Rollover = Rollover
    Shift = Shift
    Left = Left
INVARIANTS
    TargetShowsKeys
    TargetShowsButtons
    MotionLossless
PROPERTIES
    ClicksCarryMotion
    MotionDelivered
