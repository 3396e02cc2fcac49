CONSTANTS
    MaxCloseCalls = 1
    MaxConns = 5

SPECIFICATION Spec

CHECK_DEADLOCK FALSE

PROPERTY CloseReturns
