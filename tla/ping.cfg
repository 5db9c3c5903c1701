SPECIFICATION Spec
CONSTANTS
    L = 3
    Surplus = 2
    MaySignal = TRUE
INVARIANTS
    PingsAreCounted
PROPERTIES
    EndsUnlessMissed
CHECK_DEADLOCK FALSE
