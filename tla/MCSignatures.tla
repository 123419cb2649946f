---------------------------- MODULE MCSignatures ----------------------------
(***************************************************************************)
(* Three functions with bodies out of a dozen, which call each other and   *)
(* themselves in every way; the top level calls two of them.               *)
(***************************************************************************)
EXTENDS Signatures, TLC

CONSTANTS f, g, h, one, int, A, null, mixed

MCFunction == {f, g, h}
MCAtom == {one, int, A, null}
MCBase == [a \in MCAtom |-> IF a = one THEN int ELSE a]

V(a) == [k |-> "value", a |-> a]
X == [k |-> "param"]
Via(how, fn, arg) == [k |-> "call", f |-> fn, how |-> how, arg |-> arg]
C(fn, arg) == Via("plain", fn, arg)
S(s, e) == [s |-> s, e |-> e]
Ret(e) == S("return", e)

\* The bodies of a function that may call n.
Bodies(n) ==
    {<<Ret(V(one))>>, <<Ret(X)>>, <<Ret(C(n, X))>>,
     <<S("if", V(one)), Ret(C(n, V(null)))>>,
     <<S("ifnull", V(null)), Ret(C(n, X))>>,
     <<S("ifnull", C(n, X)), Ret(V(A))>>,
     <<S("if", C(n, V(A))), S("ifnull", V(one)), Ret(X)>>,
     <<S("assign", C(n, X)), Ret(V(A))>>}

Mains == {{<<f, null, "plain">>, <<f, A, "plain">>}, {<<f, one, "plain">>},
          {<<f, A, "plain">>, <<g, null, "plain">>}}

Project(bf, bg, bh, m) == [body |-> (f :> bf @@ g :> bg @@ h :> bh), main |-> m]

Plain ==
    {Project(bf, bg, bh, m) :
        bf \in Bodies(g), bg \in Bodies(h) \cup Bodies(f), bh \in Bodies(f) \cup Bodies(h), m \in Mains}

\* h, and g too, is called in one way or in two.
TwoWays ==
    {Project(<<S("ifnull", Via(u, g, V(a))), Ret(Via(w, h, b))>>, bg, bh, {<<f, x, "plain">>, <<h, A, v>>}) :
        u \in {"plain", "spread"}, w \in How, v \in How, a \in {one, null}, b \in {X, V(A)},
        x \in {null, one}, bg \in {<<Ret(V(A))>>, <<S("ifnull", V(null)), Ret(C(h, X))>>},
        bh \in {<<Ret(X)>>, <<S("ifnull", V(null)), Ret(V(A))>>}}

\* $x = new A; return $x;
Reassigning == <<S("assign", V(A)), Ret(X)>>
Reassigns ==
    {Project(Reassigning, bg, <<Ret(V(one))>>, {<<f, one, "plain">>, <<g, null, "plain">>}) : bg \in Bodies(f)}

MCProjects == Plain \cup TwoWays \cup Reassigns

\* f(1) beside f(...[null]), C::f(null) or $f(null).
MCPartlySeen ==
    {Project(<<Ret(X)>>, <<Ret(V(A))>>, <<Ret(V(one))>>, {<<f, one, "plain">>, <<f, null, how>>}) :
        how \in How \ {"plain"}}
=============================================================================
