----------------------------- MODULE MCFlowLoops -----------------------------
(***************************************************************************)
(* Two variables; a condition of every kind and all ways to combine two of *)
(* them, in a body of one statement; bodies of two statements with simpler *)
(* conditions; every kind of loop.                                         *)
(***************************************************************************)
EXTENDS FlowLoops

CONSTANTS x, y, A, B, T, none

MCVar   == {x, y}
MCClass == {A, B, T}
\* B is a subclass of A, T is traversable.
MCSubOf == [c \in MCClass |-> IF c = B THEN {A, B} ELSE {c}]

C(op, v)      == [op |-> op, var |-> v]
Is(kind, v)   == [op |-> "is", var |-> v, kind |-> kind]
IsA(c, v)     == [op |-> "instanceof", var |-> v, class |-> c]
In(values, v) == [op |-> "in", var |-> v, values |-> values]
Not(c)        == [op |-> "not", of |-> c]
Both(c, d)    == [op |-> "and", left |-> c, right |-> d]
OneOf(c, d)     == [op |-> "or", left |-> c, right |-> d]
Unknown == [op |-> "unknown"]
Always  == [op |-> "always"]

\* Tests that narrow every type soundly; the others are in MCNarrowed.
Kind(v)  == {Is(kind, v) : kind \in {"null", "int", "string", "object"}}
Tests(v) ==
    {C(op, v) : op \in {"null", "false", "truthy", "below"}}
    \cup {IsA(A, v), IsA(B, v), In({"zero", "one"}, v), In({"false", "one"}, v)}
Signed(tests) == tests \cup {Not(c) : c \in tests}
Pairs(l, r) == {Both(c, d) : c \in l, d \in r} \cup {OneOf(c, d) : c \in l, d \in r}
Some(v) == {C("null", v), C("truthy", v), IsA(A, v), In({"zero", "one"}, v)}
Combined(some) == Signed(Pairs(some, Signed(some)))
Conds    == Signed(Tests(x) \cup Kind(x)) \cup Combined(Some(x) \cup {Is("int", x)})
Kindless == Signed(Tests(x)) \cup Combined(Some(x))
Few(v) == Signed({C("null", v), C("truthy", v), IsA(A, v)})

Stmt(cond, to, from, arms, exit) ==
    [cond |-> cond, to |-> to, from |-> from, arms |-> arms, exit |-> exit]
Set(cond, v, arms) == Stmt(cond, v, none, arms, none)
Copy(cond, v, w)   == Stmt(cond, v, w, {}, none)
Exit(cond, how)    == Stmt(cond, none, none, {}, how)

Env(s, t) == [v \in MCVar |-> IF v = x THEN s ELSE t]
Loop(kind, cond, before, body) ==
    [kind |-> kind, cond |-> cond, before |-> before, body |-> body,
     each |-> y, value |-> {A, "null"}]

Known == {{"null", A}, {"bool", "null", "string"}, {"int"}, {"zero", "false"}, {A, B, T, "object"},
          {"one"}, {"array", "int", "truthy-string"}}
Mixed == {"mixed"}

\* One statement under any condition; a while that tests it.
Each(starts, conds) ==
    {Loop("foreach", Unknown, Env(s, {"null"}), <<st>>) :
        s \in starts,
        st \in UNION {{Set(c, y, {"one"}), Set(c, x, {B, "null"}), Exit(c, "return")} : c \in conds}}
    \cup {Loop("while", c, Env(s, {"one"}), <<Set(Always, y, {A})>>) : s \in starts, c \in conds}
Wide == Each(Known, Conds) \cup Each({Mixed}, Kindless)

\* Two statements; only the first one may go on with the loop or leave it.
Deep == {Loop(k, Unknown, Env(s, {"null", A}), <<st, tt>>) :
            k \in {"while", "foreach"}, s \in Known \cup {Mixed},
            st \in UNION {{Set(c, y, {A, "null"}), Exit(c, "break"), Exit(c, "continue"), Exit(c, "return")} :
                            c \in Few(x) \cup {Unknown}},
            tt \in UNION {{Copy(c, x, y), Set(c, y, {"one"})} : c \in {C("null", y), Not(C("null", y)), IsA(A, y), Always}}}
        \cup {Loop("do", Unknown, Env(s, {"one"}), <<Set(Unknown, x, t), Set(Unknown, y, {A})>>) :
            s \in Known, t \in {{B, "null"}, {"one"}}}
MCLoops == Wide \cup Deep

\* What the condition of a while says of the variables before the loop is taken
\* for what it says in every round.
MCStale == {Loop("while", Not(C("null", x)), Env({A, "null"}, {"one"}), <<Set(Always, x, {T, "null"})>>)}

\* Tests that narrow a type to less than what it may hold: $x == null, is_int of
\* 0|int<0,max> and of int|mixed, get_class of a class with a subclass.
MCNarrowed == {Loop("foreach", Unknown, Env(s, {"null"}), <<Set(c, y, {"one"})>>) :
              s \in {{"zero", "nonnegative"}, {"int", "mixed"}, {A, "null"}},
              c \in {C("loose", x), Is("int", x), Not([op |-> "class", var |-> x, class |-> A])}}

MCGaps == MCStale \cup MCNarrowed
=============================================================================
