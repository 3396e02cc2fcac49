CONSTANTS
    StmtIDWidth = 2
    MaxPrepares = 5

SPECIFICATION Spec

INVARIANT OpenStmtsResolve
CHECK_DEADLOCK FALSE
