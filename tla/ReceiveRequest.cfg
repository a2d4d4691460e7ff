SPECIFICATION Spec
CONSTANTS
    Capacity = 7
    Modulus = 16
    Stream <- MCStream
CHECK_DEADLOCK FALSE
INVARIANTS
    TypeOK
    RecvHasRoom
    WholeRequest
PROPERTY
    Returns
