CONSTANTS
    n1 = n1
    n2 = n2
    u1 = u1
    p1 = p1
    p2 = p2
    a1 = a1
    a2 = a2
    NoNs = NoNs
    Names <- MCOneName
    Users <- MCUsers
    Passwords <- MCPasswords
    InitNs <- MCOneName
    InitUsers <- MCInitUsers
    MaxReload = 2
    SerialAdmin = FALSE
    Admins <- MCAdmins
    Cfg <- MCCfg

SPECIFICATION RegistrySpec
SYMMETRY AdminSymm

PROPERTY ChangeIndexGrows
