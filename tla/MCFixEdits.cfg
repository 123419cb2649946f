\* Three repairs of one file.
CONSTANTS
    Token <- MCToken
    Source <- MCSource
    Fixes <- MCFixes
    Docblocks <- MCDocblocks
    MaxFixes = 3
SPECIFICATION Spec
CHECK_DEADLOCK FALSE
INVARIANTS
    WritesWanted
    RefusesClashes
