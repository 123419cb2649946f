------------------------------ MODULE MCSession ------------------------------
(***************************************************************************)
(* A small project for TLC.  File 1 is a library that declares class A,    *)
(* with one of two bodies; file 2 declares B extending A, or another B     *)
(* together with a second, untyped A and a constant K; file 3 is a client  *)
(* that declares nothing and walks the body of A.                          *)
(***************************************************************************)
EXTENDS SessionScope

MCSymbol == {"A", "B", "K"}
MCContent == {"empty", "a1", "a1body", "b1", "b2", "main", "stub"}
MCSurface == {"sA1", "sA2", "sB1", "sB2", "sStub"}
MCArgType == {"int", "string"}
MCInput == {"infer", "plain"}
MCDiscovery == {"all", "scanLibrary"}

S(k) == <<"surface", k>>
B(k) == <<"body", k>>
Scan == <<"global", None>>

Row(a, b, k) == [s \in MCSymbol |-> CASE s = "A" -> a [] s = "B" -> b [] OTHER -> k]

MCReflects ==
    [c \in MCContent |->
       CASE c \in {"a1", "a1body"} -> Row("sA1", None, None)
         [] c = "b1" -> Row(None, "sB1", None)
         [] c = "b2" -> Row("sA2", "sB2", None)
         [] c = "stub" -> Row(None, "sStub", None)
         [] OTHER -> Row(None, None, None)]

MCConsts == [c \in MCContent |-> IF c = "b2" THEN {"K"} ELSE {}]

MCReads ==
    [c \in MCContent |->
       CASE c = "main" -> {S("B"), B("A")}
         [] c = "a1body" -> {B("B")}
         [] c = "b1" -> {Scan, B("B")}
         [] c = "b2" -> {S("K")}
         [] OTHER -> {}]

MCBodyReads == [c \in MCContent |-> IF c = "a1body" THEN {S("K")} ELSE {}]

MCArgs ==
    [c \in MCContent |->
       CASE c = "b1" -> Row("int", None, None)
         [] c = "main" -> Row("string", None, None)
         [] OTHER -> Row(None, None, None)]

MCReaches == [s \in MCSurface |-> IF s = "sB1" THEN {"A"} ELSE {}]
\* The type alias B imports comes from A, and B mentions a name A that the
\* second inputs configure as an alias.
MCImports == MCReaches
MCUntyped == {"sA2"}

\* The second set of inputs knows a builtin B, turns inference off and
\* registers a facade alias K.
MCBuiltin ==
    [i \in MCInput |-> IF i = "plain" THEN Row(None, "sStub", None)
                                      ELSE Row(None, None, None)]
MCAlias == [i \in MCInput |-> IF i = "plain" THEN {"K"} ELSE {}]
MCTypeAlias == [i \in MCInput |-> IF i = "plain" THEN {"A"} ELSE {}]
MCInfers == [i \in MCInput |-> i = "infer"]

MCRole ==
    [d \in MCDiscovery |->
       [p \in Path |-> IF d = "all" THEN "analyze"
                       ELSE CASE p = 1 -> "scan" [] p = 2 -> "skip"
                              [] OTHER -> "analyze"]]

MCVersions ==
    [p \in Path |-> CASE p = 1 -> {"a1", "a1body"}
                      [] p = 2 -> {"b1", "b2"}
                      [] OTHER -> {"main"}]
=============================================================================
