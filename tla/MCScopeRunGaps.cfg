\* A variable defined before a break out of a loop, and read after it.
CONSTANTS
    x = x
    y = y
    Var <- MCVar
    Scopes <- MCBreaks
SPECIFICATION Spec
CHECK_DEADLOCK FALSE
INVARIANTS
    DefiniteIsUndefined
