\* Every condition, every kind of loop.
CONSTANTS
    x = x
    y = y
    A = A
    B = B
    T = T
    none = none
    Var <- MCVar
    Class <- MCClass
    SubOf <- MCSubOf
    Traversable = T
    None = none
    Limit = 6
    ArmCap = 3
    Loops <- MCLoops
SPECIFICATION Spec
CHECK_DEADLOCK FALSE
INVARIANT
    Covered
