\* A run, a baseline generated from it, and a run after part has been repaired.
CONSTANTS
    none = none
    parseError = parseError
    None = none
    ParseError = parseError
    Id <- MCId
    Keys <- MCKeys
    Inputs <- MCInputs
    Broken = 1
    ReportUnmatched = TRUE
SPECIFICATION Spec
CHECK_DEADLOCK FALSE
INVARIANTS
    ErrorsAreMalformed
    SuppressesMarked
    AsLinearScan
    StaleEntriesAreIdle
    BaselineHides
