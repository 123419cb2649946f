SPECIFICATION Spec
CONSTANTS
    r1 = r1  r2 = r2  r3 = r3  none = none  torn = torn
    Run = {r1, r2, r3}
    Root = {"x"}
    Project = {"p1", "p2"}
    Inputs = {"i"}
    Ignore <- MCIgnore
    ConfigText = {"c1"}
    BaselineText = {"b1", "b2", "bad"}
    Digest <- MCDigest
    None = none
    Torn = torn
    InputsOf <- MCInputsOf
    Merged <- MCMerged
    IgnoreKey <- MCIgnoreKey
    Hash <- MCHash
    Level <- MCLevel
    Count <- MCCount
    MaxEntries = 1
    MaxEdits = 1
    MaxClears = 1
SYMMETRY RunSymmetry
INVARIANTS TypeOK ReportIsOwn Bounded NextRunHits
CHECK_DEADLOCK FALSE
