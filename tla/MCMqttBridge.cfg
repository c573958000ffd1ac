SPECIFICATION Spec
CONSTANTS
    MaxKept = 2
    MaxNotifiers = 1
INVARIANTS
    AvailabilityShown
    GrabShownUnlessOverlap
    LinkShownUnlessCrossed
\* after Close nothing need happen
CHECK_DEADLOCK FALSE
