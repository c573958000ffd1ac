SPECIFICATION Spec
CONSTANTS
    MaxKept = 2
    MaxNotifiers = 1
INVARIANT SwitchShown
CHECK_DEADLOCK FALSE
