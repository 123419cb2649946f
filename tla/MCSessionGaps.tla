---------------------------- MODULE MCSessionGaps ----------------------------
(***************************************************************************)
(* Two small projects on which the session and the batch engine disagree.  *)
(* Class B imports a type alias of class A ("phpstan-import-type"), or     *)
(* extends it; the client main looks up B only.                            *)
(***************************************************************************)
EXTENDS Session

MCSymbol == {"A", "B"}
MCContent == {"empty", "a1", "a2", "b", "main"}
MCSurface == {"sA0", "sA1", "sA2", "sB"}

Row(a, b) == [s \in MCSymbol |-> IF s = "A" THEN a ELSE b]
NoRow == Row(None, None)

MCReflects ==
    [c \in MCContent |->
       CASE c = "a1" -> Row("sA1", None)
         [] c = "a2" -> Row("sA2", None)
         [] c = "b"  -> Row(None, "sB")
         [] OTHER -> NoRow]

MCReads ==
    [c \in MCContent |-> IF c = "main" THEN {<<"surface", "B">>} ELSE {}]

MCNone == [c \in MCContent |-> {}]
MCNoArgs == [c \in MCContent |-> NoRow]
MCAToB == [s \in MCSurface |-> IF s = "sB" THEN {"A"} ELSE {}]
MCNoSymbols == [s \in MCSurface |-> {}]
MCBuiltinA == [i \in {"level5"} |-> Row("sA0", None)]
MCNoBuiltin == [i \in {"level5"} |-> NoRow]
MCNames == [i \in {"level5"} |-> {}]
MCInfers == [i \in {"level5"} |-> FALSE]

\* Under "scanLibrary" file 1 is listed in scanFiles instead of paths.
MCRole ==
    [d \in Discovery |->
       [p \in Path |-> IF d = "scanLibrary" /\ p = 1 THEN "scan" ELSE "analyze"]]

MCVersions ==
    [p \in Path |-> CASE p = 1 -> {"a1", "a2"} [] p = 2 -> {"b"} [] OTHER -> {"main"}]
=============================================================================
