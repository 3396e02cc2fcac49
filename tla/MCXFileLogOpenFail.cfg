CONSTANTS
    w1 = w1
    w2 = w2
    Writers <- MCWriters
    Level = 2
    MaxHandles = 8
    MaxHour = 3
    KeepCounts = 1
    KeepHours = 2
    OpenMayFail = TRUE
    DoSplit = TRUE
SYMMETRY WriterSymm
SPECIFICATION Spec
INVARIANT CurrentHandlesLive
