\* Three functions, three rounds.
CONSTANTS
    f = f
    g = g
    h = h
    one = one
    int = int
    A = A
    null = null
    mixed = mixed
    Function <- MCFunction
    Atom <- MCAtom
    Base <- MCBase
    Null = null
    Mixed = mixed
    Projects <- MCProjects
    Rounds = 3
    MaxDepth = 4
SPECIFICATION Spec
CHECK_DEADLOCK FALSE
INVARIANTS
    SeenIsCovered
