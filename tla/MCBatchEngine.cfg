\* Either engine on every project of up to four files.
CONSTANTS
    fn = fn
    nsfn = nsfn
    b = b
    int = int
    str = str
    none = none
    Name <- MCName
    Builtin <- MCBuiltin
    Global <- MCGlobal
    Type <- MCType
    Inputs <- MCInputs
    None = none
    StreamBatch = 2
    Threshold = 2
SPECIFICATION Spec
CHECK_DEADLOCK FALSE
PROPERTIES
    KeepsPromise
