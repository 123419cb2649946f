------------------------------ MODULE Narrowing ------------------------------
(***************************************************************************)
(* What a condition tells of the variables it tests: the facts that        *)
(* collect_facts (flow.rs) reads off it for the branch where it holds and  *)
(* for the one where it does not, and how they narrow the types; beside    *)
(* them, what PHP makes of the condition.                                  *)
(*                                                                         *)
(* A type is the set of the arms of a union, the empty set is never; ?T is *)
(* written T|null.  A value is one of the literals, an array or an object, *)
(* which stands as the class it was made from.                             *)
(***************************************************************************)
EXTENDS Integers, SequencesExt, FiniteSetsExt

CONSTANTS
    Var,            \* the variables
    Class,          \* the classes, all of them indexed
    SubOf,          \* SubOf[c]: c and the classes above it
    Traversable     \* the class of what may be iterated over

Numbers  == {"minus", "zero", "one"}
Literals == Numbers \cup {"true", "false"}
Ranges   == {"negative", "nonnegative"}
Arm      == Literals \cup Ranges \cup Class \cup
            {"null", "bool", "int", "string", "truthy-string", "array", "iterable", "object", "mixed"}
Value    == Literals \cup Class \cup {"null", "empty", "text", "array"}
Kinds    == {"null", "bool", "int", "string", "array", "iterable", "object"}

ASSUME NarrowingAssumption ==
    /\ Traversable \in Class
    /\ SubOf \in [Class -> SUBSET Class] /\ \A c \in Class : c \in SubOf[c]

(***************************************************************************)
(* A condition is one of these tests of a variable v, the always true one, *)
(* one that nothing is known of, or made from others with not, and, or:    *)
(*   null, loose      $v === null, $v == null                              *)
(*   false            $v === false                                         *)
(*   truthy           $v                                                   *)
(*   is               is_int($v) and so on                                 *)
(*   instanceof       $v instanceof C                                      *)
(*   class            get_class($v) === C::class                           *)
(*   in               in_array($v, [...], true)                            *)
(*   below            $v < 0                                               *)
(***************************************************************************)

-----------------------------------------------------------------------------
\* TYPES

\* generalize_literal.
Generalize(a) ==
    CASE a \in Numbers           -> "int"
      [] a \in {"true", "false"} -> "bool"
      [] OTHER                   -> a

\* absorb_literals: literals go where their base is.
Absorb(t) == {a \in t : a \in Literals => Generalize(a) \notin t}

Union(ts) == Absorb(UNION ts)

\* assignable_atom: what takes a value of arm a.  A type that is not known well
\* enough is taken by what it may turn out to be.
TakenBy(a) ==
    {a, "mixed"} \cup
    CASE a = "int"                        -> Ranges
      [] a \in {"zero", "one", "nonnegative"} -> {"int", "nonnegative"}
      [] a = "minus"                      -> {"int", "negative"}
      [] a = "negative"                   -> {"int"}
      [] a \in {"true", "false"}          -> {"bool"}
      [] a \in {"string", "truthy-string"} -> {"string", "truthy-string"}
      [] a = "array"                      -> {"iterable"}
      [] a \in Class                      -> SubOf[a] \cup {"iterable", "object"}
      [] a = "mixed"                      -> Arm
      [] OTHER                            -> {}

\* is_assignable: every arm of the one type is taken by an arm of the other.
Assignable(t, target) == \A a \in t : TakenBy(a) \cap target # {}

\* narrow_to: the narrower of what was known and what the condition says.
NarrowTo(cur, t) ==
    IF cur = {"mixed"} \/ Assignable(t, cur) THEN t
    ELSE IF Assignable(cur, t) THEN cur ELSE t

\* merge.
Merged(envs) == [v \in Var |-> Union({env[v] : env \in envs})]

\* strip_false and strip_falsy.
StripFalse(t) == Absorb({IF a = "bool" THEN "true" ELSE a : a \in t \ {"false"}})
StripFalsy(t) ==
    Absorb({IF a = "string" THEN "truthy-string" ELSE a : a \in StripFalse(t) \ {"null"}})

\* subtract_union: a union loses some of its arms, but never all.
Subtract(t, removed) == IF t \subseteq removed THEN t ELSE t \ removed

\* predicate_matches: the arms that are of a kind for sure.
OfKind(kind) ==
    CASE kind = "string"   -> {"string", "truthy-string"}
      [] kind = "int"      -> {"int"} \cup Numbers
      [] kind = "bool"     -> {"bool", "true", "false"}
      [] kind = "object"   -> {"object"} \cup Class
      [] kind = "iterable" -> {"iterable", "array"}
      [] OTHER             -> {kind}

\* narrow_to_predicate.
NarrowToKind(t, kind) ==
    IF t \cap OfKind(kind) = {} THEN {kind} ELSE t \cap OfKind(kind)

-----------------------------------------------------------------------------
\* FACTS

IsInt(t) == Cardinality(t) = 1 /\ t \subseteq {"int"} \cup Numbers \cup Ranges

\* What a single test says of its variable: a type, or nothing.
WhenTrue(c, t) ==
    CASE c.op \in {"null", "loose"} -> {{"null"}}
      [] c.op = "false"             -> {{"false"}}
      [] c.op = "truthy"            -> {StripFalsy(t)}
      [] c.op = "is"                -> {NarrowToKind(t, c.kind)}
      [] c.op \in {"instanceof", "class"} -> {{c.class}}
      [] c.op = "in"                -> {c.values}
      [] c.op = "below"             ->
           IF IsInt(t) THEN {{"negative"}} ELSE {}
      [] OTHER                      -> {}

WhenFalse(c, t) ==
    CASE c.op \in {"null", "loose"} -> {t \ {"null"}}
      [] c.op = "false"             -> {StripFalse(t)}
      [] c.op = "is"                ->
           IF c.kind = "null" THEN {t \ {"null"}} ELSE {Subtract(t, OfKind(c.kind))} \ {t}
      [] c.op = "instanceof"        ->
           {Subtract(t, {a \in Class : c.class \in SubOf[a]})} \ {t}
      [] c.op = "class"             -> {Subtract(t, {c.class})} \ {t}
      [] c.op = "in"                -> {Subtract(t, c.values)} \ {t}
      [] c.op = "below"             ->
           IF IsInt(t) THEN {{"nonnegative"}} ELSE {}
      [] OTHER                      -> {}

\* One of two conditions holds: what both say of a variable.
Either(l, r) ==
    LET both == SelectSeq(l, LAMBDA f : \E i \in DOMAIN r : r[i].var = f.var)
        Other(v) == r[CHOOSE i \in DOMAIN r : r[i].var = v /\ \A j \in 1 .. i - 1 : r[j].var # v]
    IN [i \in DOMAIN both |->
            [var |-> both[i].var, type |-> Union({both[i].type, Other(both[i].var).type})]]

\* narrow_facts.
RECURSIVE Facts(_, _, _)
Facts(c, truthy, env) ==
    CASE c.op = "not"                      -> Facts(c.of, ~truthy, env)
      [] c.op = (IF truthy THEN "and" ELSE "or") ->
           Facts(c.left, truthy, env) \o Facts(c.right, truthy, env)
      [] c.op = "or" /\ truthy             ->
           Either(Facts(c.left, TRUE, env), Facts(c.right, TRUE, env))
      \* one of both fails, and nobody knows which
      [] c.op = "and" /\ ~truthy           -> <<>>
      [] c.op \in {"always", "unknown"}    -> <<>>
      [] OTHER ->
           LET said == IF truthy THEN WhenTrue(c, env[c.var]) ELSE WhenFalse(c, env[c.var])
           IN SetToSeq({[var |-> c.var, type |-> t] : t \in said})

\* apply_facts_to.
Apply(facts, env) ==
    FoldLeft(LAMBDA e, f : [e EXCEPT ![f.var] = NarrowTo(@, f.type)], env, facts)

\* rec_under: the types where the condition has come out as truthy.
Under(env, c, truthy) == Apply(Facts(c, truthy, env), env)

-----------------------------------------------------------------------------
\* PHP

\* The arms that are right about a value.
Covering(x) ==
    {x, "mixed"} \cup
    CASE x \in {"zero", "one"}    -> {"int", "nonnegative"}
      [] x = "minus"              -> {"int", "negative"}
      [] x \in {"true", "false"}  -> {"bool"}
      [] x = "empty"              -> {"string"}
      [] x = "text"               -> {"string", "truthy-string"}
      [] x = "array"              -> {"iterable"}
      [] x \in Class              ->
           SubOf[x] \cup {"object"} \cup (IF Traversable \in SubOf[x] THEN {"iterable"} ELSE {})
      [] OTHER                    -> {}

Covers(env, held) == \A v \in Var : Covering(held[v]) \cap env[v] # {}

Falsy == {"null", "false", "zero", "empty"}

\* How a condition may come out; an array may be empty or not.
RECURSIVE Outcomes(_, _)
Outcomes(c, held) ==
    CASE c.op = "not" -> {~b : b \in Outcomes(c.of, held)}
      [] c.op = "and" -> {a /\ b : a \in Outcomes(c.left, held), b \in Outcomes(c.right, held)}
      [] c.op = "or"  -> {a \/ b : a \in Outcomes(c.left, held), b \in Outcomes(c.right, held)}
      [] c.op = "always"  -> {TRUE}
      [] c.op = "unknown" -> BOOLEAN
      [] OTHER ->
           LET it == held[c.var]
           IN CASE c.op = "null"       -> {it = "null"}
                [] c.op = "false"      -> {it = "false"}
                [] c.op = "loose"      -> IF it = "array" THEN BOOLEAN ELSE {it \in Falsy}
                [] c.op = "truthy"     -> IF it = "array" THEN BOOLEAN ELSE {it \notin Falsy}
                [] c.op = "is"         -> {c.kind \in Covering(it)}
                [] c.op = "instanceof" -> {c.class \in Covering(it)}
                [] c.op = "class"      -> {it = c.class}
                [] c.op = "in"         -> {it \in c.values}
                [] c.op = "below"      -> IF it \in Numbers THEN {it = "minus"} ELSE BOOLEAN

\* The types recorded at the operands of a condition cover the values there: the
\* right one is only reached, and only typed, as the left one came out.
RECURSIVE OperandsCovered(_, _, _)
OperandsCovered(c, env, held) ==
    /\ Covers(env, held)
    /\ c.op = "not" => OperandsCovered(c.of, env, held)
    /\ c.op \in {"and", "or"} =>
         /\ OperandsCovered(c.left, env, held)
         /\ (c.op = "and") \in Outcomes(c.left, held) =>
              OperandsCovered(c.right, Under(env, c.left, c.op = "and"), held)
=============================================================================
