----------------------------- MODULE Definedness -----------------------------
(***************************************************************************)
(* Which reads of a variable may meet an undefined one: the flow analysis  *)
(* of definedness.rs over the body of a scope.                             *)
(*                                                                         *)
(* A node of the syntax tree is [k, v, sub]: its kind, the variable it is  *)
(* about, its children.  A place is the path of child numbers to a node.   *)
(***************************************************************************)
EXTENDS Integers, SequencesExt

CONSTANT Var    \* the variables of a scope

Leaving == {"return", "break", "continue", "throw"}

-----------------------------------------------------------------------------
Def == {"absent", "maybe", "definite"}

\* Faulty: a variable some branch defines is defined.
MergeEager(envs) ==
    [v \in Var |-> IF \E e \in envs : e[v] = "definite" THEN "definite"
                   ELSE IF \E e \in envs : e[v] # "absent" THEN "maybe" ELSE "absent"]

\* Faulty: a variable some branch lacks is undefined.
MergeStrict(envs) ==
    [v \in Var |-> IF \E e \in envs : e[v] = "absent" THEN "absent"
                   ELSE IF \E e \in envs : e[v] = "maybe" THEN "maybe" ELSE "definite"]

\* merge: definite in every branch, or present in some.
Merge(envs) ==
    [v \in Var |-> IF \A e \in envs : e[v] = "definite" THEN "definite"
                   ELSE IF \E e \in envs : e[v] # "absent" THEN "maybe" ELSE "absent"]

Bound(r, v) == [env |-> [w \in Var |-> IF w = v THEN "definite" ELSE r.env[w]], out |-> r.out]

\* check_read.
CheckRead(r, at, v) ==
    IF r.env[v] = "definite" THEN r
    ELSE [r EXCEPT !.out = @ \cup {[at |-> at, v |-> v, definite |-> r.env[v] = "absent"]}]

\* The branches that flow on are merged; the reads in all of them are reported.
Join(r, branches, flowing) ==
    [env |-> IF flowing = {} THEN r.env ELSE Merge({branches[b].env : b \in flowing}),
     out |-> r.out \cup UNION {branches[b].out : b \in DOMAIN branches}]

HasElse(s) == Len(s.sub) % 2 = 1

\* always_terminates.
RECURSIVE AlwaysTerminates(_)
AlwaysTerminates(s) ==
    \/ s.k \in Leaving
    \/ s.k \in {"block", "catch"} /\ s.sub # <<>> /\ AlwaysTerminates(Last(s.sub))
    \/ /\ s.k = "if" /\ HasElse(s)
       /\ \A i \in DOMAIN s.sub : (i % 2 = 0 \/ i = Len(s.sub)) => AlwaysTerminates(s.sub[i])

\* stmts_have_escape_hatch: eval and the like can define any variable.
RECURSIVE Escapes(_)
Escapes(s) == s.k = "eval" \/ \E i \in DOMAIN s.sub : Escapes(s.sub[i])

RECURSIVE Exec(_, _, _)

\* exec_block: the children from..to, one after the other.
ExecSubs(s, at, r, from, to) ==
    FoldLeft(LAMBDA acc, i : Exec(s.sub[i], Append(at, i), acc), r, [j \in 1 .. to - from + 1 |-> from + j - 1])

ExecBlock(s, at, r) == ExecSubs(s, at, r, 1, Len(s.sub))

\* exec_if: the first test is read before the branches part, the others in the
\* branch they lead to.  Without an else there is a path that assigns nothing.
ExecIf(s, at, r) ==
    LET base == Exec(s.sub[1], Append(at, 1), r)
        Branch(i) ==
            IF i = 2 \/ i % 2 = 1 THEN Exec(s.sub[i], Append(at, i), base)
            ELSE ExecSubs(s, at, base, i - 1, i)
        bodies == {i \in DOMAIN s.sub : i % 2 = 0} \cup (IF HasElse(s) THEN {Len(s.sub)} ELSE {})
        branches == [i \in bodies \cup (IF HasElse(s) THEN {} ELSE {0})
                       |-> IF i = 0 THEN base ELSE Branch(i)]
    IN Join(base, branches, {i \in DOMAIN branches : i = 0 \/ ~AlwaysTerminates(s.sub[i])})

\* exec_loop: a body that may run zero times; of a foreach, after it has bound.
ExecLoop(base, bodyEnv, body, at) ==
    Join(base, <<base, Exec(body, at, bodyEnv)>>, {1, 2})

\* A switch: every case starts where the switch does.
ExecSwitch(s, at, r) ==
    LET base == Exec(s.sub[1], Append(at, 1), r)
        Tests(c) == IF s.sub[c].k = "case" THEN 1 ELSE 0
        Case(c) == ExecSubs(s.sub[c], Append(at, c), base, Tests(c) + 1, Len(s.sub[c].sub))
        tested == FoldLeft(LAMBDA acc, c : ExecSubs(s.sub[c], Append(at, c), acc, 1, Tests(c)),
                           base, [i \in 1 .. Len(s.sub) - 1 |-> i + 1])
    IN [Join(base, [c \in DOMAIN s.sub |-> IF c = 1 THEN base ELSE Case(c)], DOMAIN s.sub)
          EXCEPT !.out = @ \cup tested.out]

\* A try: what its body defines counts; the catches that flow on are branches.
ExecTry(s, at, r) ==
    LET body == Exec(s.sub[1], Append(at, 1), r)
        catches == {i \in DOMAIN s.sub : s.sub[i].k = "catch"}
        branches == [i \in {1} \cup catches |->
                       IF i = 1 THEN body
                       ELSE ExecBlock(s.sub[i], Append(at, i), Bound(body, s.sub[i].v))]
        merged == Join(body, branches, {1} \cup {i \in catches : ~AlwaysTerminates(s.sub[i])})
    IN IF Last(s.sub).k = "finally" THEN ExecBlock(Last(s.sub), Append(at, Len(s.sub)), merged)
       ELSE merged

\* exec_stmt and read_expr.
Exec(s, at, r) ==
    CASE s.k = "var" -> CheckRead(r, at, s.v)
      [] s.k \in {"assign", "arg", "global", "static"} -> Bound(ExecBlock(s, at, r), s.v)
      [] s.k = "unset" -> Bound(r, s.v)
      [] s.k \in {"isset", "lit", "eval"} -> r
      [] s.k \in {"coalesce"} -> ExecBlock(s, at, r)
      [] s.k \in {"both", "and", "block"} -> ExecBlock(s, at, r)
      [] s.k \in Leaving -> ExecBlock(s, at, r)
      [] s.k = "if" -> ExecIf(s, at, r)
      [] s.k = "do" -> ExecBlock(s, at, r)
      [] s.k \in {"while", "for"} ->
           LET n == Len(s.sub)
               base == ExecSubs(s, at, r, 1, n - 1)
           IN ExecLoop(base, base, s.sub[n], Append(at, n))
      [] s.k = "foreach" ->
           LET base == Exec(s.sub[1], Append(at, 1), r)
           IN ExecLoop(base, Bound(base, s.v), s.sub[2], Append(at, 2))
      [] s.k = "switch" -> ExecSwitch(s, at, r)
      [] s.k = "try" -> ExecTry(s, at, r)

\* analyze_scope.
UndefinedVariables(s) ==
    IF Escapes(s) THEN {}
    ELSE Exec(s, <<>>, [env |-> [v \in Var |-> "absent"], out |-> {}]).out
=============================================================================
