CONSTANTS
    s1 = s1
    s2 = s2
    sl1 = sl1
    sl2 = sl2
    k1 = k1
    k2 = k2
    d1 = d1
    d2 = d2
    NoConn = NoConn
    NoDb = NoDb
    Sessions <- MCSessions
    Slices <- MCSlices
    ConnsOf <- MCConnsOf
    Dbs <- MCDbs
    OtherDb = d2
    QPSLimit = TRUE
    SupportLimitTx = TRUE
    SupportMultiQuery = TRUE
    KeepSession = TRUE
    ReadOnlyUser = FALSE
    MaxTokens = 1
    MaxPieces = 2

SYMMETRY SessionSymm

SPECIFICATION Spec

INVARIANT PoolConserved
