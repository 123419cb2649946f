---------------------------- MODULE MCBatchEngine ----------------------------
(***************************************************************************)
(* Four files in batches of two, the last one possibly a stub: a global    *)
(* function, one of a namespace that calls fall back from, and a builtin.  *)
(***************************************************************************)
EXTENDS BatchEngine

CONSTANTS fn, nsfn, b, int, str, none

MCName == {fn, nsfn, b}
MCBuiltin == {b}
MCGlobal == [k \in MCName |-> IF k = nsfn THEN fn ELSE k]
MCType == {int, str}

Call(k, t) == [l \in MCName |-> IF l = k THEN t ELSE none]
NoCall == [l \in MCName |-> none]

F(declares, calls, analyze) == [declares |-> declares, calls |-> calls, analyze |-> analyze]

Kinds == {F({}, Call(nsfn, int), TRUE), F({fn}, Call(nsfn, str), TRUE), F({nsfn, b}, NoCall, TRUE),
          F({nsfn}, Call(fn, int), FALSE), F({b, fn}, Call(fn, str), FALSE)}
Stubs == {F({fn, b}, NoCall, FALSE), F({nsfn}, Call(nsfn, int), FALSE)}

MCInputs ==
    {[files |-> s, stubs |-> 0] : s \in UNION {[1..m -> Kinds] : m \in 0..3}}
    \cup {[files |-> s \o <<t>>, stubs |-> 1] :
            s \in UNION {[1..m -> Kinds] : m \in 2..3}, t \in Stubs}
    \cup {[files |-> <<s, t, u>>, stubs |-> 2] : s \in Kinds, t \in Stubs, u \in Stubs}
=============================================================================
