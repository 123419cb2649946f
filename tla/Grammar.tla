------------------------------ MODULE Grammar ------------------------------
(***************************************************************************)
(* What the parser has to do: group operators as PHP's grammar does; read  *)
(* what is valid whole and without a diagnostic; and report whatever it    *)
(* drops.  PHP's grammar is stated on finished trees, not by the numbers   *)
(* the parser works with.                                                  *)
(***************************************************************************)
EXTENDS FrontEnd

CONSTANTS
    Resume,         \* the statements with which inputs end that begin with
                    \* garbage; the others are one valid statement each
    FrameSize       \* how many tasks there may be per level of nesting

\* The %left, %right and %precedence lines of zend_language_parser.y, the
\* weakest first.
Levels == <<
    {<<"prefix", "throw">>}, {<<"group", "fn">>}, {<<"prefix", "include">>},
    {<<"infix", "or">>}, {<<"infix", "xor">>}, {<<"infix", "and">>},
    {<<"prefix", "print">>}, {<<"prefix", "yield">>}, {<<"prefix", "yield from">>},
    {<<"infix", "=">>, <<"infix", "+=">>}, {<<"infix", "?">>}, {<<"infix", "??">>},
    {<<"infix", "||">>}, {<<"infix", "&&">>}, {<<"infix", "|">>}, {<<"infix", "^">>}, {<<"infix", "&v">>, <<"infix", "&">>},
    {<<"infix", "==">>}, {<<"infix", "<">>}, {<<"infix", "|>">>}, {<<"infix", ".">>},
    {<<"infix", "<<">>}, {<<"infix", "+">>}, {<<"infix", "*">>},
    {<<"prefix", "!">>}, {<<"infix", "instanceof">>},
    {<<"prefix", "+">>, <<"prefix", "~">>, <<"prefix", "@">>, <<"prefix", "cast">>},
    {<<"infix", "**">>}, {<<"prefix", "clone">>}>>

RightAssociative == {"??", "**"}

IsOperator(n) == \E l \in DOMAIN Levels : <<n.kind, n.op>> \in Levels[l]
Rank(n) == CHOOSE l \in DOMAIN Levels : <<n.kind, n.op>> \in Levels[l]

\* With n read and m's operator next, or the other way around: n is complete.
Reduces(n, m) == Rank(n) > Rank(m) \/ (Rank(n) = Rank(m) /\ m.op \notin RightAssociative)

RECURSIVE Ending(_), Beginning(_), Within(_)
\* The operators whose last operand ends where n ends; instanceof ends in a
\* class, which is not an expression.
Ending(n) == IF IsOperator(n) /\ n.op # "instanceof" THEN {n} \cup Ending(Last(n.sub)) ELSE {}
\* The infix operators whose first operand begins where n begins.
Beginning(n) == IF IsOperator(n) /\ n.kind = "infix" THEN {n} \cup Beginning(n.sub[1]) ELSE {}
Within(n) == {n} \cup UNION {Within(n.sub[i]) : i \in DOMAIN n.sub}

All == UNION {Within(nodes[i]) : i \in DOMAIN nodes}
Spans(n) == {<<m.from, m.to>> : m \in {k \in Within(n) : k.kind \notin {"stmt", "error"}}}

Assigning == {"=", "+="}

\* What assigns has a variable to its left, so nothing else can take it.
Grouped(n) ==
    /\ n.kind = "infix" => \A m \in Ending(n.sub[1]) : n.op \notin Assigning /\ Reduces(m, n)
    /\ \A m \in Beginning(Last(n.sub)) : m.op \in Assigning \/ ~Reduces(n, m)

\* ++ takes a variable, no operation.
Increments(n) == n.kind = "prefix" /\ n.op = "++" => n.sub[1].kind # "infix"

Valid == ~IsSuffix(Resume, tokens)

\* What is parsed without a diagnostic is grouped as PHP's precedence and
\* associativity have it, however operators of either arity follow each other.
AsGrammar ==
    Done /\ errors = {} => \A n \in All : (IsOperator(n) => Grouped(n)) /\ Increments(n)

\* A valid statement, however its parts nest, is read to its end as one, with
\* no diagnostic.
ReadsValid ==
    Done /\ Valid => /\ errors = {} /\ Len(nodes) = 1
                     /\ nodes[1].from = (IF tokens[1] = "<?" THEN 4 ELSE 2)
                     /\ nodes[1].to = 2 * Len(tokens) - 1

\* No two expressions have the same span (the type map is keyed by it), the
\* nodes that stand for errors excepted.
DistinctSpans ==
    Done => \A n \in All :
        /\ \A i, j \in DOMAIN n.sub : i # j => Spans(n.sub[i]) \cap Spans(n.sub[j]) = {}
        /\ n.kind \notin {"stmt", "error"} =>
              \A i \in DOMAIN n.sub : <<n.from, n.to>> \notin Spans(n.sub[i])

\* What may take all the statements that follow for its own, as its inside or
\* for the operands it lacks: these, and anything nested deep enough.
Takes == {"{", "class", "enum", "abstract", "function", "match", "switch", "use", "try", "do", "?"}
Garbage == 1 .. Len(tokens) - Len(Resume)
Shallow == /\ \A i \in Garbage : tokens[i] \notin Takes
           /\ \A i \in Garbage : Cardinality({j \in Garbage : tokens[j] = tokens[i]}) <= 3

\* After a broken statement the parser finds its feet again: of the statements
\* that follow at least the last is read as it stands.
Recovers ==
    Done /\ ~Valid /\ Shallow =>
        \E n \in All : n.kind = "stmt" /\ n.op = "echo" /\ n.from = 2 * (Len(tokens) - 3)

\* The call stack grows with the nesting that MAX_DEPTH caps, and with nothing
\* else.
StackBounded == Len(todo) <= FrameSize * (depth + 1)
=============================================================================
