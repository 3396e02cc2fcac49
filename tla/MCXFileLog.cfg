CONSTANTS
    w1 = w1
    w2 = w2
    Writers <- MCWriters
    Level = 2
    MaxHandles = 6
    MaxHour = 3
    KeepCounts = 1
    KeepHours = 2
    OpenMayFail = FALSE
    DoSplit = TRUE
SPECIFICATION Spec
INVARIANT CurrentHandlesLive
PROPERTY CleanKeepsNewest
PROPERTY HandlesReleased
