CONSTANTS
    n1 = n1
    u1 = u1
    p1 = p1
    p2 = p2
    c1 = c1
    c2 = c2
    sl1 = sl1
    NoNs = NoNs
    NoConn = NoConn
    Names <- MCNames
    Users <- MCUsers
    Passwords <- MCPasswords
    InitNs <- MCInitNs
    InitUsers <- MCInitUsers
    Sessions <- MCSessions
    Slices <- MCSlices
    KeepSession <- MCKeepSession
    MaxReload = 1
    SerialAdmin = TRUE
    Admins = {}
    MaxClientConns = 2

SYMMETRY Symm

SPECIFICATION SessionSpec
INVARIANT StashedConnHeldWhileInUse
