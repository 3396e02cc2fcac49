CONSTANTS
    a = a
    b = b
    DataLink = b
    Names = {a, b}

SPECIFICATION Spec

INVARIANT ListingsAgree
