------------------------------ MODULE MCScopeRun ------------------------------
(***************************************************************************)
(* Scopes of two statements and a read: a test, a loop, a switch or a try  *)
(* over statements that define a variable, read it or leave.               *)
(***************************************************************************)
EXTENDS ScopeRun

CONSTANTS x, y

MCVar == {x, y}

N(k, v, sub) == [k |-> k, v |-> v, sub |-> sub]
S(k, sub) == N(k, x, sub)

R == S("var", <<>>)
Lit == S("lit", <<>>)
W == S("assign", <<Lit>>)
Return == S("return", <<>>)
Break == S("break", <<>>)
Continue == S("continue", <<>>)
B(sub) == S("block", sub)

\* Expressions that may come up in a test.
Tests == {Lit, R, S("and", <<Lit, W>>), S("coalesce", <<W>>)}
Leaf == {R, W, Return, S("assign", <<R>>)}

Ifs == {S("if", <<t, l>>) : t \in Tests, l \in Leaf}
       \cup {S("if", <<Lit, l, m>>) : l \in Leaf, m \in Leaf}
       \cup {S("if", <<Lit, l, t, m>>) : t \in {Lit, R, W}, l \in Leaf, m \in Leaf}
       \cup {S("if", <<Lit, l, R, W, m>>) : l \in Leaf, m \in Leaf}

\* What may leave a body.
Exits == {S("if", <<Lit, l>>) :
            l \in {R, W, Break, Continue, Return, B(<<W, Break>>), B(<<W, Continue>>), B(<<W, Return>>)}}
Bodies == {B(<<e, l>>) : e \in Exits, l \in {R, W}} \cup {B(<<l, e>>) : e \in Exits, l \in {R, W}}

Repeats == {S("while", <<t, l>>) : t \in {Lit, W}, l \in Leaf \cup {S("arg", <<>>)}}
         \cup {S("do", <<l, R>>) : l \in Leaf}
         \cup {S("for", <<l, m, Lit, n>>) : l \in {Lit, W}, m \in {Lit, R}, n \in {R, Return}}
         \cup {S("for", <<Lit, Lit, W, n>>) : n \in {Lit, R, Break, Return}}
         \cup {N("foreach", v, <<t, R>>) : v \in {x, y}, t \in {Lit, R}}
         \cup {S("while", <<Lit, b>>) : b \in Bodies}
         \cup {S("do", <<b, t>>) : b \in Bodies, t \in {Lit, R}}
         \cup {S("for", <<Lit, Lit, m, b>>) : b \in Bodies, m \in {R, Lit}}
         \cup {N("foreach", y, <<Lit, b>>) : b \in Bodies}

Cases == {S("case", <<t, l, Break>>) : t \in {Lit, R}, l \in {R, W}}
         \cup {S("case", <<Lit, l>>) : l \in {R, W}} \cup {S("case", <<W, Break>>)}
         \cup {S("case", <<Lit, e, W>>) : e \in Exits}
         \cup {S("default", <<l, Break>>) : l \in {R, W}} \cup {S("default", <<Return>>)}
Switches == {S("switch", <<Lit, c>>) : c \in Cases}
            \cup {S("switch", <<R, c, d>>) : c \in {e \in Cases : e.k = "case"}, d \in Cases}

Catches == {N("catch", v, <<l>>) : v \in {x, y}, l \in {R, W}}
           \cup {N("catch", y, <<Return>>)}
Tries == {S("try", <<B(<<l, S("throw", <<>>)>>), c>>) : l \in {R, W}, c \in Catches}
         \cup {S("try", <<B(<<l>>), c, S("finally", <<m>>)>>) : l \in Leaf, c \in Catches, m \in {R, W}}
         \cup {S("try", <<B(<<l>>), S("finally", <<R>>)>>) : l \in Leaf}
         \cup {S("try", <<b, S("finally", <<R>>)>>) :
                 b \in {B(<<S("if", <<Lit, l>>), W>>) : l \in {W, Return, B(<<W, Return>>)}}}
         \cup {S("try", <<B(<<S("if", <<Lit, B(<<W, S("throw", <<>>)>>)>>), l>>), c>>) :
                 l \in {R, W}, c \in Catches}
         \* In a loop, with a catch that leaves it.
         \cup {S("while", <<Lit, S("try", <<B(<<S("throw", <<>>)>>), N("catch", v, <<l, m>>)>>)>>) :
                 v \in {x, y}, l \in {W, Lit}, m \in {Lit, Break, Continue}}

Others == {Lit, W, S("global", <<>>), S("static", <<>>), S("unset", <<>>), S("isset", <<>>),
           S("eval", <<>>), S("both", <<R, W>>)}

Statements == Others \cup Ifs \cup Repeats \cup Switches \cup Tries

\* A statement in each place that another one has for it.
Throw == S("throw", <<>>)
Around(t) ==
    {S("while", <<Lit, B(<<t, R>>)>>), S("while", <<Lit, B(<<R, t>>)>>),
     S("do", <<B(<<t, R>>), R>>), S("do", <<B(<<t, W>>), R>>),
     S("for", <<Lit, Lit, R, t>>), S("for", <<Lit, R, W, t>>),
     N("foreach", x, <<R, t>>), N("foreach", y, <<R, B(<<t, R>>)>>),
     S("if", <<Lit, t, W>>), S("if", <<Lit, W, t>>),
     S("if", <<Lit, Return, R, t, Return>>), S("if", <<Lit, Return, W, t, R>>),
     S("switch", <<R, S("case", <<R, t, Break>>), S("default", <<R>>)>>),
     S("switch", <<R, S("default", <<t, R>>), S("case", <<R, W, Break>>)>>),
     S("try", <<B(<<t, R>>), S("finally", <<R>>)>>), S("try", <<B(<<R>>), S("finally", <<t, R>>)>>),
     S("try", <<B(<<t, W>>), N("catch", y, <<R>>)>>),
     S("try", <<B(<<t, Throw>>), N("catch", y, <<R>>)>>),
     S("try", <<B(<<R, Throw>>), N("catch", x, <<t>>), S("finally", <<R>>)>>)}

Nested ==
    UNION {Around(t) : t \in Exits \cup Others
                         \cup {S("if", <<Lit, W, R>>), S("if", <<Lit, Return, W>>), S("while", <<R, W>>),
                               S("do", <<W, R>>), N("foreach", x, <<Lit, R>>),
                               S("switch", <<Lit, S("case", <<Lit, W>>), S("default", <<R>>)>>),
                               S("try", <<B(<<Return>>), S("finally", <<W>>)>>)}}

MCScopes == {B(<<s, R>>) : s \in Statements \cup Nested}
            \cup {B(<<s, t, R>>) : s \in {S("if", <<Lit, W>>), S("while", <<Lit, W>>), S("unset", <<>>)},
                                  t \in Statements}
            \cup {B(<<t, s, R>>) : s \in {S("if", <<Lit, W, R>>), S("do", <<W, Lit>>)}, t \in Statements}

\* foreach (...) { if (...) { $x = ...; break; } } use $x;
MCBreaks == {B(<<N("foreach", y, <<Lit, B(<<S("if", <<Lit, B(<<W, Break>>)>>)>>)>>), R>>)}

\* while (...) { if (...) use $x; $x = ...; }
MCCarried == {B(<<S("while", <<Lit, B(<<S("if", <<Lit, R>>), W>>)>>), Lit>>)}

=============================================================================
