SPECIFICATION Spec
CONSTANTS
    r1 = r1  r2 = r2  r3 = r3  none = none  torn = torn
    Run = {r1, r2, r3}
    Root = {"x"}
    Project = {"p1", "p2"}
    Inputs = {"i"}
    Ignore <- MCIgnore
    ConfigText = {"c1", "c2"}
    BaselineText = {"b1"}
    Digest <- MCDigest
    None = none
    Torn = torn
    InputsOf <- MCInputsOf
    Merged <- MCMergedOwn
    IgnoreKey <- MCIgnoreKeyPart
    Hash <- MCHash
    Level <- MCLevel
    Count <- MCCount
    MaxEntries = 1
    MaxEdits = 1
    MaxClears = 0
SYMMETRY RunSymmetry
INVARIANT ReportIsOwn
CHECK_DEADLOCK FALSE
