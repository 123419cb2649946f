\* Editors who never stop, writes that fail, kills; three rounds.
CONSTANTS
    one = one
    two = two
    three = three
    torn = torn
    mixed = mixed
    none = none
    Path = {1, 2}
    Base <- MCBase
    Repair <- MCRepair
    Lossy <- MCLossy
    Torn = torn
    Mixed = mixed
    None = none
    Offers <- MCOffers
    Needs <- MCNeeds
    Clashes <- MCClashes
    MaxRounds = 3
    WritesFail = TRUE
    Killable = TRUE
    Edited = TRUE
SPECIFICATION Spec
CHECK_DEADLOCK FALSE
INVARIANTS
    TypeOK
    TornOnlyInFlight
    ReportIsOfRepaired
PROPERTIES
    OnlyRacesLose
    Ends
