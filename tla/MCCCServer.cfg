CONSTANTS
    MaxCloseCalls = 3
    MaxConns = 5

SPECIFICATION Spec

CHECK_DEADLOCK FALSE

PROPERTY RunStops
