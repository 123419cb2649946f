\* Scopes with every kind of statement.
CONSTANTS
    x = x
    y = y
    Var <- MCVar
    Scopes <- MCScopes
SPECIFICATION Spec
CHECK_DEADLOCK FALSE
INVARIANTS
    DefiniteIsRight
    UndefinedIsReported
