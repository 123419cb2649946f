CONSTANTS
    Inputs <- MCInputs
    Resume <- MCResume
    MaxDepth = 12
    FrameSize = 13
    none = none
    None = none
    Word <- MCWord
    Digits = {"1"}
    Texts <- MCTexts
    Scraps <- MCScraps
SPECIFICATION FrontSpec
CHECK_DEADLOCK FALSE
INVARIANTS
    AsWritten
    Total
    AsGrammar
    ReadsValid
    DistinctSpans
    DropsAreReported
    Recovers
    StackBounded
PROPERTIES
    Parses
