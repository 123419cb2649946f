SPECIFICATION Spec
CONSTANTS
    None = None
    Path = {1, 2, 3}
    Symbol <- MCSymbol
    Content <- MCContent
    Empty = "empty"
    Surface <- MCSurface
    ArgType = {"int"}
    Input = {"level5"}
    Reflects <- MCReflects
    Consts <- MCNone
    Reads <- MCReads
    BodyReads <- MCNone
    Args <- MCNoArgs
    Reaches <- MCNoSymbols
    Imports <- MCAToB
    Mentions <- MCNoSymbols
    Untyped = {}
    Builtin <- MCNoBuiltin
    Alias <- MCNames
    TypeAlias <- MCNames
    Infers <- MCInfers
    Discovery = {"all"}
    Role <- MCRole
    Versions <- MCVersions
    StubText = {"empty"}
    MaxDrift = 2
INVARIANT
    BatchEquivalent
