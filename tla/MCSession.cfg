SPECIFICATION Spec
CONSTANTS
    None = None
    Path = {1, 2, 3}
    Symbol <- MCSymbol
    Content <- MCContent
    Empty = "empty"
    Surface <- MCSurface
    ArgType <- MCArgType
    Input <- MCInput
    Reflects <- MCReflects
    Consts <- MCConsts
    Reads <- MCReads
    BodyReads <- MCBodyReads
    Args <- MCArgs
    Reaches <- MCReaches
    Imports <- MCImports
    Mentions <- MCImports
    Untyped <- MCUntyped
    Builtin <- MCBuiltin
    Alias <- MCAlias
    TypeAlias <- MCTypeAlias
    Infers <- MCInfers
    Discovery <- MCDiscovery
    Role <- MCRole
    Versions <- MCVersions
    StubText = {"empty", "stub"}
    MaxDrift = 2
INVARIANTS
    TypeOK
    BatchEquivalent
    FreshReport
    DepsCurrent
    LocatedAtLiveFiles
PROPERTY
    QuietPassReusesAll
