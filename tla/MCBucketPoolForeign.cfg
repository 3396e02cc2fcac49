CONSTANTS
    MinSizes = {1, 2, 3}
    MaxSizeBound = 9
    ForeignCaps = {3}
    MaxHeld = 2

SPECIFICATION Spec

INVARIANT GetWithinCap
