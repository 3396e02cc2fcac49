CONSTANTS
    MinSizes = {1, 2, 3}
    MaxSizeBound = 9
    ForeignCaps = {}
    MaxHeld = 2

SPECIFICATION Spec

INVARIANT FindPoolIsSmallestFit
INVARIANT GetWithinCap
