SPECIFICATION Spec
CONSTANTS
    fA = fA  fB = fB  stub = stub  config = config  baseline = baseline
    dir = dir  none = none
    File <- MCFile
    Stub <- MCStub
    ConfigFile = config
    BaselineFile = baseline
    Elsewhere = dir
    Text <- MCText
    Empty = ""
    Setting <- MCSetting
    None = none
    Texts <- MCTexts
    Loads <- MCLoads
    HasBaseline <- MCHasBaseline
    Selected <- MCSelected
    Matched <- MCMatched
    Aux <- MCAux
    Watched <- MCWatched
    ReadsReported = TRUE
    EditsWhenUnwatched = FALSE
    MaxEdits = 2
    MaxQueue = 1
INVARIANTS TypeOK NoChangeForgotten NoReloadForgotten
PROPERTY Settles
CHECK_DEADLOCK FALSE
