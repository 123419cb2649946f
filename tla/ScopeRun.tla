------------------------------- MODULE ScopeRun -------------------------------
(***************************************************************************)
(* What the definedness analysis says of a scope, beside what happens when *)
(* PHP executes it.  The answer is computed when the scope is chosen; the  *)
(* actions execute the scope, node by node, with every test going either   *)
(* way.  They are PHP's, not the repository's.                             *)
(***************************************************************************)
EXTENDS Definedness

CONSTANT Scopes     \* the bodies: nodes of kind "block"

VARIABLES
    scope,      \* the body
    reported,   \* the analyzer's answer: {[at, v, definite]}
    defined,    \* the variables that exist
    todo,       \* what is left to do, the next first: <<[do, at]>>
    read,       \* the last read: [at, found]
    missed      \* the reads that have met an undefined variable

vars == <<scope, reported, defined, todo, read, missed>>

NoRead == [at |-> <<>>, found |-> FALSE]

NodeAt(at) == FoldLeft(LAMBDA s, i : s.sub[i], scope, at)

Task(do, at) == [do |-> do, at |-> at]
Child(at, i) == Task("node", Append(at, i))
Children(at, from, to) == [j \in 1 .. to - from + 1 |-> Child(at, from + j - 1)]

Init ==
    /\ scope \in Scopes
    /\ reported = UndefinedVariables(scope)
    /\ defined = {}
    /\ todo = <<Task("node", <<>>)>>
    /\ read = NoRead
    /\ missed = {}

-----------------------------------------------------------------------------
\* The next thing to do is of this kind; the rest of what is left.
HeadIs(do, kinds) == todo # <<>> /\ todo[1].do = do /\ NodeAt(todo[1].at).k \in kinds
At == todo[1].at
Node == NodeAt(At)
Arity == Len(Node.sub)

\* Whatever replaces the head of the list.
Do(tasks) == todo' = tasks \o Tail(todo)

Read ==
    /\ HeadIs("node", {"var"})
    /\ read' = [at |-> At, found |-> Node.v \in defined]
    /\ missed' = IF read'.found THEN missed ELSE missed \cup {At}
    /\ Do(<<>>)
    /\ UNCHANGED <<scope, reported, defined>>

\* The children first, then the node itself.
Operands ==
    /\ HeadIs("node", {"assign", "both", "block", "coalesce", "isset", "lit", "eval",
                      "arg", "global", "static", "unset"} \cup Leaving)
    /\ Do(Children(At, 1, Arity) \o <<Task("self", At)>>)
    /\ UNCHANGED <<scope, reported, defined, read, missed>>

\* An argument may be taken by reference, or not.
Self ==
    /\ todo # <<>> /\ todo[1].do = "self"
    /\ defined' \in CASE Node.k \in {"assign", "global", "static"} -> {defined \cup {Node.v}}
                      [] Node.k = "arg"   -> {defined, defined \cup {Node.v}}
                      [] Node.k = "unset" -> {defined \ {Node.v}}
                      [] Node.k = "eval"  -> SUBSET Var
                      [] OTHER            -> {defined}
    /\ Do(IF Node.k \in Leaving THEN <<Task(Node.k, At)>> ELSE <<>>)
    /\ UNCHANGED <<scope, reported, read, missed>>

\* The right operand is evaluated or not.
And ==
    /\ HeadIs("node", {"and"})
    /\ \E n \in {1, 2} : Do(Children(At, 1, n))
    /\ UNCHANGED <<scope, reported, defined, read, missed>>

\* Tests are evaluated until one holds.
If ==
    /\ HeadIs("node", {"if"})
    /\ \E n \in 1 .. Arity \div 2 :
         \/ Do([i \in 1 .. n |-> Child(At, 2 * i - 1)] \o <<Child(At, 2 * n)>>)
         \/ /\ n = Arity \div 2
            /\ Do([i \in 1 .. n |-> Child(At, 2 * i - 1)]
                  \o (IF HasElse(Node) THEN <<Child(At, Arity)>> ELSE <<>>))
    /\ UNCHANGED <<scope, reported, defined, read, missed>>

\* A loop: its head, a test, and after its body, which it keeps coming back to.
Loop ==
    /\ HeadIs("node", {"while", "for", "foreach", "do"})
    /\ Do(CASE Node.k = "do"      -> <<Child(At, 1), Task("again", At)>>
            [] Node.k = "for"     -> <<Child(At, 1), Child(At, 2), Task("test", At)>>
            [] OTHER              -> <<Child(At, 1), Task("test", At)>>)
    /\ UNCHANGED <<scope, reported, defined, read, missed>>

BodyOf(s) == IF s.k = "do" THEN 1 ELSE Len(s.sub)

Test ==
    /\ todo # <<>> /\ todo[1].do = "test"
    /\ \/ Do(<<>>) /\ UNCHANGED defined
       \/ /\ Do(<<Child(At, BodyOf(Node)), Task("again", At)>>)
          /\ defined' = IF Node.k = "foreach" THEN defined \cup {Node.v} ELSE defined
    /\ UNCHANGED <<scope, reported, read, missed>>

Again ==
    /\ todo # <<>> /\ todo[1].do = "again"
    /\ Do(CASE Node.k = "while"   -> <<Child(At, 1), Task("test", At)>>
            [] Node.k = "for"     -> <<Child(At, 3), Child(At, 2), Task("test", At)>>
            [] Node.k = "do"      -> <<Child(At, 2), Task("test", At)>>
            [] Node.k = "foreach" -> <<Task("test", At)>>)
    /\ UNCHANGED <<scope, reported, defined, read, missed>>

\* A switch: tests are evaluated up to the one that holds; its case is executed
\* and, unless something leaves, those after it.
Switch ==
    /\ HeadIs("node", {"switch"})
    /\ LET cases == {c \in DOMAIN Node.sub : Node.sub[c].k = "case"}
           Tests(c) == [i \in 1 .. Cardinality({d \in cases : d <= c}) |->
                          Task("node", At \o <<SetToSortSeq(cases, <)[i], 1>>)]
           From(c) == FlattenSeq([i \in 1 .. Arity - c + 1 |->
                        LET d == c + i - 1
                        IN Children(Append(At, d), IF d \in cases THEN 2 ELSE 1, Len(Node.sub[d].sub))])
           defaults == DOMAIN Node.sub \ (cases \cup {1})
       IN \/ \E c \in cases : Do(<<Child(At, 1)>> \o Tests(c) \o From(c) \o <<Task("end", At)>>)
          \/ \E d \in defaults : Do(<<Child(At, 1)>> \o Tests(Arity) \o From(d) \o <<Task("end", At)>>)
          \/ defaults = {} /\ Do(<<Child(At, 1)>> \o Tests(Arity))
    /\ UNCHANGED <<scope, reported, defined, read, missed>>

HasFinally(s) == Last(s.sub).k = "finally"
Finally(at) ==
    IF HasFinally(NodeAt(at)) THEN <<Child(at, Len(NodeAt(at).sub))>> ELSE <<>>

Try ==
    /\ HeadIs("node", {"try"})
    /\ Do(<<Child(At, 1), Task("tried", At)>> \o Finally(At))
    /\ UNCHANGED <<scope, reported, defined, read, missed>>

\* The body of a try, of a catch or of a finally, as it ends.
EndOf ==
    /\ \/ todo # <<>> /\ todo[1].do \in {"tried", "caught", "end"} /\ Do(<<>>)
       \/ HeadIs("node", {"catch", "finally"}) /\ Do(Children(At, 1, Arity))
    /\ UNCHANGED <<scope, reported, defined, read, missed>>

\* Something leaves: what is left is dropped up to what takes it.
Leave ==
    /\ todo # <<>> /\ todo[1].do \in Leaving
    /\ LET how == todo[1].do
           rest == Tail(todo)
           t == rest[1]
           s == NodeAt(t.at)
       IN IF rest = <<>> THEN todo' = <<>> /\ UNCHANGED defined
          ELSE \/ /\ t.do \in {"again", "end"} /\ how \in {"break", "continue"}
                  /\ todo' = IF how = "continue" /\ t.do = "again" THEN rest ELSE Tail(rest)
                  /\ UNCHANGED defined
               \/ /\ t.do = "tried" /\ how = "throw"
                  /\ \E c \in {d \in DOMAIN s.sub : s.sub[d].k = "catch"} :
                       /\ todo' = <<Child(t.at, c), Task("caught", t.at)>> \o Tail(rest)
                       /\ defined' = defined \cup {s.sub[c].v}
               \/ /\ t.do \in {"tried", "caught"}
                  /\ todo' = Finally(t.at) \o <<todo[1]>>
                             \o SubSeq(rest, 2 + Len(Finally(t.at)), Len(rest))
                  /\ UNCHANGED defined
               \/ /\ t.do \notin {"tried", "caught"}
                  /\ ~(t.do \in {"again", "end"} /\ how \in {"break", "continue"})
                  /\ todo' = <<todo[1]>> \o Tail(rest)
                  /\ UNCHANGED defined
    /\ UNCHANGED <<scope, reported, read, missed>>

Next ==
    \/ Read \/ Operands \/ Self \/ And \/ If
    \/ Loop \/ Test \/ Again
    \/ Switch \/ Try \/ EndOf \/ Leave

Spec == Init /\ [][Next]_vars

-----------------------------------------------------------------------------
\* A read that finds the variable on a path on which it did not miss it before.
Finds == read.found /\ read.at \notin missed

\* "under-reporting rather than false positives": no path leads to a read that
\* is called definitely undefined with the variable there, but for a path on
\* which the read has met the undefined variable already.  What a loop carries
\* around and what a branch defines before a break violate it.
DefiniteIsUndefined ==
    Finds => \A u \in reported : u.at = read.at => ~u.definite

-----------------------------------------------------------------------------
\* The places of a scope, and the scopes in which the answer is known to be
\* wrong or incomplete.
RECURSIVE Places(_)
Places(s) == {<<>>} \cup UNION {{<<i>> \o p : p \in Places(s.sub[i])} : i \in DOMAIN s.sub}

All == Places(scope)
Of(kinds) == {p \in All : NodeAt(p).k \in kinds}
Kind(p) == NodeAt(p).k

Loops == {"while", "for", "foreach", "do"}
Breaking == {"break", "continue"}
Definitions == Of({"assign", "arg", "global", "static", "foreach", "catch"})

Under(a, p) == IsStrictPrefix(a, p)
Inside(a, p) == IsPrefix(a, p)
First(p) == Append(p, 1)

\* p comes before q in the text.
Earlier(p, q) ==
    \/ Under(p, q)
    \/ \E i \in DOMAIN p \cap DOMAIN q : p[i] < q[i] /\ \A j \in 1 .. i - 1 : p[j] = q[j]

\* Where d defines: between the subject and the body, before the body, at the end.
Moment(d) == Append(d, CASE Kind(d) = "foreach" -> 2
                         [] Kind(d) = "catch"   -> 0
                         [] OTHER               -> Len(NodeAt(d).sub) + 1)

\* A break or continue (a return) in a that is not taken in a.
Escaping(a, kinds) ==
    \E l \in Of(kinds) :
        /\ Inside(a, l)
        /\ Kind(l) \in Breaking => ~\E t \in Of(Loops \cup {"switch"}) : Inside(a, t) /\ Under(t, l)

\* p and q are in different branches of an if or cases of a switch.
Apart(p, q) ==
    \E s \in Of({"if", "switch"}) :
        /\ Under(s, p) /\ Under(s, q)
        /\ p[Len(s) + 1] # q[Len(s) + 1] /\ 1 \notin {p[Len(s) + 1], q[Len(s) + 1]}

\* A loop brings a definition to a read that comes before it, or that the same
\* round does not come to.
Carried ==
    \E l \in Of(Loops), r \in Of({"var"}), d \in Definitions :
        /\ Under(l, r) /\ Under(l, d)
        /\ Kind(l) \in {"for", "foreach"} => ~Inside(First(l), r) /\ ~Inside(First(l), d)
        /\ NodeAt(r).v = NodeAt(d).v
        /\ Earlier(r, Moment(d)) \/ Apart(r, d)

\* The branches that leave, which are not merged: of an if, and catches.
LeavingBranches ==
    {b \in All \ {<<>>} :
        LET s == NodeAt(Front(b))
        IN /\ \/ Kind(b) = "catch"
              \/ s.k = "if" /\ Last(b) % 2 = 0
              \/ s.k = "if" /\ HasElse(s) /\ Last(b) = Len(s.sub)
           /\ AlwaysTerminates(NodeAt(b))}

\* What such a branch defines is there for what a loop or a switch that it
\* breaks out of, or a try that it throws in, or a finally, goes on with.
Dropped ==
    \E b \in LeavingBranches, d \in Definitions :
        /\ Inside(b, d)
        /\ \/ \E t \in Of(Loops \cup {"switch"}) : Under(t, b) /\ Escaping(b, Breaking)
           \/ \E t \in Of({"try"}) :
                /\ Under(t, b)
                /\ \/ HasFinally(NodeAt(t))
                   \/ Inside(First(t), b) /\ Escaping(b, {"throw"})

\* The test of an elseif or of a case defines: only its own branch knows.
TestsDefine ==
    \E d \in Definitions :
        \/ \E c \in Of({"case"}) : Inside(First(c), d)
        \/ \E i \in Of({"if"}) :
             /\ Under(i, d)
             /\ d[Len(i) + 1] \in {n \in 3 .. Len(NodeAt(i).sub) - 1 : n % 2 = 1}

\* A case that defines runs into the next one.
FallsThrough ==
    \E c \in Of({"case", "default"}), d \in Definitions :
        /\ Under(c, d)
        /\ Last(NodeAt(c).sub).k \notin Leaving
        /\ Last(c) < Len(NodeAt(Front(c)).sub)

\* Elsewhere no read is called definitely undefined that may find the variable,
\* whatever tests, loops, cases and catches lead to it.
DefiniteIsRight ==
    (Finds /\ \E u \in reported : u.at = read.at /\ u.definite)
        => Carried \/ Dropped \/ TestsDefine \/ FallsThrough

\* Where the analyzer is lenient on purpose: what a skipped operand or argument
\* would have defined, what a try body that throws has not, what is unset.
Lenient == Of({"and", "coalesce", "arg", "throw", "unset", "eval"}) # {}

\* The update of a for defines: it counts before the body, and if there is no
\* round at all.
SkippedUpdate == \E f \in Of({"for"}), d \in Definitions : Inside(Append(f, 3), d)

\* A do whose body, or a try with a finally whose body, is left before its end:
\* the whole body counts as done.
LeftEarly ==
    \/ \E p \in Of({"do"}) : Escaping(First(p), Breaking)
    \/ \E p \in Of({"try"}) :
         HasFinally(NodeAt(p)) /\ Escaping(First(p), Breaking \cup {"return"})

\* Elsewhere no undefined variable is read unless the analyzer says that it may
\* be undefined.
UndefinedIsReported ==
    (read.at # <<>> /\ ~read.found /\ ~\E u \in reported : u.at = read.at)
        => Lenient \/ SkippedUpdate \/ LeftEarly
=============================================================================
