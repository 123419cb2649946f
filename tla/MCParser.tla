------------------------------ MODULE MCParser ------------------------------
(***************************************************************************)
(* Expressions of up to two infix operators, each operand with a prefix    *)
(* operator; valid statements in each other; garbage before statements and *)
(* in the middle of declarations.  As text: strings, heredocs and comments *)
(* in each other's interpolations, inside expressions and statements; and  *)
(* any two symbols after the beginning of anything.                        *)
(***************************************************************************)
EXTENDS Grammar

CONSTANT none

Eof == <<"eof">>
End == <<";", "eof">>
Binaries == {<<k>> : k \in {"or", "xor", "and", "=", "+=", "??", "||", "&&", "|", "^", "&v", "==", "<",
                           "|>", ".", "<<", "+", "*", "instanceof", "**"}}
           \cup {<<"?", "v", ":">>, <<"?", ":">>, <<"=", "&v">>}
Unaries == {<<>>} \cup {<<k>> : k \in {"throw", "include", "print", "yield", "yield from", "!", "~", "clone", "++"}}
            \cup {<<"fn", "(", ")", "=>">>}
\* A class name follows instanceof, a variable =&, and neither is assigned to.
Class == {<<"instanceof">>, <<"=", "&v">>}
Assigns == Class \cup {<<"=">>, <<"+=">>}
\* ++ is left out before what it would take into its operand.
Fits(u, b) == u = <<"++">> => b \notin Assigns \cup {<<"**">>}

\* Three operands and a prefix operator before the second; two, and one before the first.
MCExpressions ==
    {<<"v">> \o t[1] \o t[2] \o <<"v">> \o t[3] \o <<"v">> \o End :
        t \in {s \in Binaries \X Unaries \X Binaries :
                  /\ s[1] \in Class => s[2] = <<>> /\ s[3] \notin Assigns
                  /\ Fits(s[2], s[3])}}
    \cup {t[1] \o <<"v">> \o t[2] \o <<"v">> \o End : t \in {s \in Unaries \X Binaries : Fits(s[1], s[2])}}
MCResume == <<";", "echo", "v", ";", "echo", "v", ";", "eof">>

\* Valid statements: of S, and of S in each other.
Simple == {<<"v", ";">>, <<"echo", "v", ",", "v", ";">>, <<"return", ";">>, <<"static", "v", "=", "1", ",", "v", ";">>,
           <<"unset", "(", "v", ",", ")", ";">>, <<"use", "name", "as", "name", ",", "name", ";">>,
           <<"use", "function", "name", "{", "name", ",", "const", "name", "as", "name", "}", ";">>,
           <<"use", "name", "\\", "{", "name", ",", "}", ";">>,
           <<"const", "name", "=", "1", ";">>, <<"name", ":">>, <<"declare", "(", "name", "=", "1", ")", ";">>,
           <<"namespace", "name", ";">>, <<"halt", "(", ")", ";", "html">>, <<";">>}
If(c, s) == <<"if", "(">> \o c \o <<")">> \o s
Compound(S, e) ==
    UNION {{<<"{">> \o s \o <<"}">>,
            If(e, s),
            If(e, <<"{">> \o s \o <<"}", "elseif", "(", "v", ")">>) \o s \o <<"else">> \o s,
            If(e, <<":">>) \o s \o <<";", "elseif", "(", "v", ")", ":">> \o s \o <<";", "else", ":">> \o s \o <<"endif", ";">>,
            <<"while", "(">> \o e \o <<")">> \o s,
            <<"while", "(">> \o e \o <<")", ":">> \o s \o <<"endwhile", ";">>,
            <<"do">> \o s \o <<"while", "(">> \o e \o <<")", ";">>,
            <<"for", "(", "v", ",">> \o e \o <<";", ";">> \o e \o <<")">> \o s,
            <<"foreach", "(">> \o e \o <<"as", "v", "=>", "&v", "v", ")">> \o s,
            <<"switch", "(">> \o e \o <<")", "{", "case">> \o e \o <<":">> \o s \o s
                \o <<"default", ";">> \o s \o <<"}">>,
            <<"switch", "(", "v", ")", ":", "case">> \o e \o <<":">> \o s \o <<"endswitch", ";">>,
            <<"try", "{">> \o s \o <<"}", "catch", "(", "name", "|", "name", "v", ")", "{">> \o s
                \o <<"}", "finally", "{">> \o s \o <<"}">>,
            <<"function", "&", "name", "(", "name", "|", "name", "v", "=">> \o e
                \o <<",", "&v", "...", "v", ")", ":", "?", "name", "{">> \o s \o <<"}">>,
            <<"#[", "name", "(">> \o e \o <<")", "]", "abstract", "readonly", "class", "name", "extends", "name", "{",
              "public", "static", "v", "=">> \o e \o <<",", "v", ";", "public", "function", "name", "(",
              "public", "readonly", "name", "v", ")", "{">> \o s \o <<"}", "abstract", "function", "name", "(", ")", ";", "}">>,
            <<"class", "name", "{", "use", "name", ",", "name", "{", "name", "::", "name", "insteadof", "name", ";",
              "name", "as", "public", ";", "}", "var", "v", "{", "name", "=>">> \o e
                \o <<";", "name", "(", "name", "v", ")", "{">> \o s \o <<"}", "}", "}">>,
            <<"enum", "name", ":", "name", "implements", "name", "{", "case", "name", "=">> \o e
                \o <<";", "public", "const", "name", "name", "=">> \o e \o <<";", "}">>,
            <<"declare", "(", "name", "=", "1", ")", "{">> \o s \o <<"}">>} : s \in S}
Nested(E) ==
    UNION {{<<"(">> \o e \o <<")", "->", "name">>,
            <<"name", "::", "$", "v", "(">> \o e \o <<",", "name", ":", "v", ",", ")">>,
            <<"v", "->", "{">> \o e \o <<"}", "(", "...", "v", ")", "++">>,
            <<"[", ",", "v", "=>", "&v", "v", ",", "...">> \o e \o <<"]", "[">> \o e \o <<"]">>,
            <<"new", "v", "::", "v", "(">> \o e \o <<")">>,
            <<"new", "#[", "name", "]", "class", "(">> \o e \o <<")", "{", "public", "function", "name", "(", ")",
              "{", "return">> \o e \o <<";", "}", "}">>,
            <<"clone", "(">> \o e \o <<",", "v", ")">>,
            <<"clone", "(">> \o e \o <<")", "->", "v">>,
            <<"match", "(">> \o e \o <<")", "{", "v", ",", "v", ",", "=>">> \o e \o <<",", "default", "=>">>
                \o e \o <<"}">>,
            <<"static", "function", "&", "(", "v", "=">> \o e \o <<")", "use", "(", "&v", "v", ",", ")", "{">>
                \o <<"yield", "v", "=>", "v", ";", "}">>,
            <<"#[", "name", "]", "fn", "(", ")", "=>">> \o e,
            <<"v", "?">> \o e \o <<":", "isset", "(", "v", ",">> \o e \o <<")">>,
            <<"exit", "(">> \o e \o <<")">>, <<"exit", "(", "...", ")", "(">> \o e \o <<")">>,
            <<"backtick", "{$">> \o e \o <<"}", "text", "backtick">>,
            <<"\"", "text", "v", "->", "name", "v", "[", "+", "num", "]", "{$">> \o e \o <<"}", "${", "varname", "[">>
                \o e \o <<"]", "}", "${">> \o e \o <<"}", "${", "varname", "}", "\"">>,
            <<"<<<", "text", "end", ".", "<<<", "v", "[", "name", "]", "end">>, <<"name", "(", "...", ")">>,
            <<"$", "{">> \o e \o <<"}", "=">> \o e} : e \in E}

Exprs1 == Nested({<<"v">>, <<"yield">>, <<"exit">>})
Statements ==
    {s \o Eof : s \in Simple \cup Compound(Simple, <<"v">>) \cup Compound(Compound({<<"v", ";">>}, <<"v">>), <<"v">>)}
    \cup {e \o End : e \in Exprs1 \cup Nested(Nested({<<"v">>}))}
    \cup UNION {{s \o Eof : s \in Compound({<<"echo">> \o e \o <<";">>}, e)} : e \in Nested({<<"v">>})}
\* The scan that clone makes takes the end of a {$ or ${ for that of its call.
Miscounted(s) == {"clone", "{$"} \subseteq ToSet(s)
MCStatements == {s \in Statements : ~Miscounted(s)}

\* Garbage: a beginning of something, and tokens that need not fit.
Beginnings == {<<>>, <<"class", "name", "{">>, <<"class", "name", "{", "var", "v", "{">>,
               <<"class", "name", "{", "use", "name", "{">>, <<"function", "name", "(">>,
               <<"v", "->">>, <<"new", "name", "::">>, <<"v", "(">>, <<"match", "(", "v", ")", "{">>,
               <<"switch", "(", "v", ")", "{">>, <<"if", "(", "v", ")", ":">>, <<"use", "name", "{">>}
Stray == {"v", "1", "name", "$", "(", ")", "[", "]", "{", "}", ",", ":", "?", "=>", "->", "::", "&", "...",
          "#[", "|", "=", "+=", "+", "++", "?>", ";", "echo", "else", "case", "as", "static", "function", "fn", "class",
          "new", "clone", "yield", "public", "const", "default"}
Few == {"v", "name", "$", "(", ")", "{", "}", ",", ":", "=>", "::", "#[", "=", "?>", "function", "case", "class", "public"}
\* Strings that are not closed, in a {$ of which the rest is.
Strings == {<<"echo", "\"", "{$">>, <<"v", "=", "\"", "text", "v", "[", "name", "]", "{$", "v">>,
            <<"<<<", "v", "->", "name", "${", "varname", "}", "{$">>}
Lexed(s) == \* An & has its kind from what follows.
    [i \in DOMAIN s |-> IF s[i] \in Amp
                        THEN IF i < Len(s) /\ s[i + 1] \in {"v", "..."} THEN "&v" ELSE "&"
                        ELSE s[i]]
MCGarbage ==
    {Lexed(b \o <<x>> \o MCResume) : b \in Beginnings, x \in Stray}
    \cup {b \o <<x>> \o MCResume : b \in Strings, x \in Stray \ {"{", "}", "&"}}
    \cup {Lexed(b \o <<x, y>> \o MCResume) : b \in Beginnings, x \in Few, y \in Few}

\* Deeper than MAX_DEPTH.
Times(s, n) == FlattenSeq([i \in 1 .. n |-> s])
MCDeep == {Times(s, n) \o MCResume : n \in {8, 9, 24},
             s \in {<<"(">>, <<"{">>, <<"[">>, <<"+">>, <<"v", "=">>, <<"v", "(">>, <<"fn", "(", ")", "=>">>,
                    <<"if", "(", "v", ")">>, <<"new", "class", "{", "function", "name", "(", ")", "{">>,
                    <<"match", "(", "v", ")", "{", "v", "=>">>, <<"v", "?">>, <<"v", "[">>, <<"do">>,
                    <<"while", "(">>, <<"#[", "name", "(">>, <<"v", "->", "{">>}}

\* What nests without being counted, and a sign that takes too much: ++$a ** 2.
MCUncounted == {Times(s, 24) \o MCResume : s \in {<<"$">>, <<"function", "name", "(", "v", "{", "name", "(", "v", "{", "name", "(">>}}
\* A ${ that is not closed has the span of what is in it.
MCUnclosed == {<<"echo", "\"", "${", "varname", "[", "1", "]">> \o MCResume}
\* clone("{$x}", $y)
MCClone == {<<"clone", "(", "\"", "{$", "v", "}", "\"", ",", "v", ")", ";", "eof">>}
MCGaps == MCUncounted \cup MCUnclosed \cup MCClone \cup {<<"++", "v", "**", "v", ";", "eof">>}

MCInputs == MCExpressions \cup MCStatements \cup MCGarbage \cup MCDeep

-----------------------------------------------------------------------------
\* Texts.
MCWord == Keyword \cup {"int", "name", "b", "php", "from", "set", "EOT"}

Lx(kind, chars) == <<[kind |-> kind, chars |-> chars]>>
P(c) == Lx(c, <<c>>)
W(word) == Lx(word, <<word>>)
Nm == W("name")
V  == Lx("v", <<"$", "name">>)
Sp == Lx("", <<" ">>)
Trivia == {Lx("", <<"/", "/", "\"", "{", "\n">>), Lx("", <<"#", "'", "\r">>), Lx("", <<"/", "*", "backtick", "*", "*", "/">>)}
Txt(chars) == Lx("text", chars)
Php == Lx("<?", <<"<", "?", "php", " ">>)

Curly(e) == Lx("{$", <<"{">>) \o e \o P("}")
Quoted(s) == Lx("\"", <<"\"">>) \o s \o Lx("\"", <<"\"">>)
Shell(s) == P("backtick") \o s \o P("backtick")
Heredoc(s) == Lx("<<<", <<"<", "<", "<", " ", "EOT", "\n">>) \o s \o Lx("end", <<" ", "EOT">>)

\* What may stand in {$...}, made of any expression.
Inside(e) == {V \o P("[") \o e \o P("]"), V \o Lx("->", <<"-", ">">>) \o P("{") \o e \o P("}")}

\* Strings that hold e, which begins with a variable.
Strings1(e) ==
    {Quoted(Txt(<<"name", "\\", "\"", " ">>) \o Curly(e) \o Txt(<<" ", "'", "EOT">>)),
     Quoted(Txt(<<"\\", "\\">>) \o Curly(e) \o V \o Txt(<<"\\", "$", "name", "{", " ", "$">>)),
     Shell(Txt(<<"\"">>) \o Curly(e) \o Txt(<<"\n">>)),
     Heredoc(Curly(e) \o Txt(<<"\n">>)),
     Heredoc(Txt(<<"\"", "\\", "\n">>) \o Curly(e) \o Txt(<<"'", "EOT", "\n">>)),
     Quoted(Lx("${", <<"$", "{">>) \o e \o P("}")),
     Quoted(Lx("${", <<"$", "{">>) \o Lx("varname", <<"name">>) \o P("[") \o e \o P("]") \o P("}") \o Txt(<<"]">>))}

\* Strings without anything in braces.
Plain ==
    {Lx("1", <<"\"", "\\", "\"", "$", "1", "{", "\"">>), Lx("1", <<"b", "'", "\\", "\\", "'">>),
     Lx("1", <<"'", "$", "name", "\\", "'", "'">>),
     Lx("\"", <<"b", "\"">>) \o V \o Lx("->", <<"?", "-", ">">>) \o Lx("name", <<"class">>) \o Lx("\"", <<"\"">>),
     Quoted(V \o Lx("->", <<"-", ">">>) \o Nm \o Txt(<<"-", ">">>) \o V \o Txt(<<"?", "-", ">">>)),
     Quoted(V \o P("[") \o Lx("+", <<"-">>) \o Lx("num", <<"1">>) \o P("]") \o V \o P("[") \o Nm \o P("]")
            \o V \o P("[") \o V \o P("]") \o Txt(<<"[">>)),
     Quoted(Lx("${", <<"$", "{">>) \o Lx("varname", <<"name">>) \o P("}")),
     Lx("<<<", <<"b", "<", "<", "<", "'", "EOT", "'", "\n">>) \o Txt(<<"$", "name", "{", "$", "\\", "\n">>) \o Lx("end", <<"EOT">>),
     Lx("<<<", <<"<", "<", "<", "\"", "EOT", "\"", "\r", "\n">>) \o Txt(<<"name", "EOT", "\n", "'", "EOT", "\n", "\n">>) \o Lx("end", <<"EOT">>),
     Lx("<<<", <<"<", "<", "<", "EOT", "\n">>) \o Lx("end", <<"EOT">>)}

Op(kind, chars) == Lx(kind, chars)
OpTexts == {Op("+", <<"-">>), Op("*", <<"/">>), Op("**", <<"*", "*">>), Op("+=", <<"*", "*", "=">>), Op(".", <<".">>),
            Op("==", <<"!", "=", "=">>), Op("==", <<"<", "=", ">">>), Op("<", <<"<", "=">>), Op("<<", <<"<", "<">>),
            Op("+=", <<"<", "<", "=">>), Op("<<", <<">", ">">>), Op("??", <<"?", "?">>), Op("+=", <<"?", "?", "=">>),
            Op("|>", <<"|", ">">>), Op("||", <<"|", "|">>), Op("&&", <<"&", "&">>), Op("+=", <<"&", "=">>), Op("&v", <<"&">>), Op("^", <<"^">>),
            Op("+=", <<".", "=">>), Op("=", <<"=">>), Op("xor", <<" ", "xor", " ">>)}

\* Expressions around e.
Around(e) ==
    {Lx("cast", <<"(", " ", "int", " ", ")">>) \o e, P("(") \o Sp \o e \o P(")"),
     Lx("1", <<"1", ".">>) \o P(".") \o Lx("1", <<".", "1">>) \o P(".") \o Sp \o Lx("1", <<"1", ".", "1">>) \o P(".") \o Sp \o e,
     V \o Lx("->", <<"-", ">">>) \o Lx("name", <<"class">>) \o P("(") \o Lx("...", <<".", ".", ".">>) \o e \o P(")"),
     Lx("name", <<"\\", "name", "\\", "class">>) \o P("(") \o e \o P(")"),
     Lx("name", <<"name", "\\", "halt">>) \o Lx("::", <<":", ":">>) \o Lx("name", <<"enum">>) \o Sp \o P("(") \o e \o P(")"),
     W("function") \o Sp \o P("&") \o P("(") \o Lx("&v", <<"&">>) \o Lx("...", <<".", ".", ".">>) \o V \o P(")") \o P("{")
        \o W("return") \o Sp \o e \o P(";") \o P("}"),
     Lx("#[", <<"#", "[">>) \o Nm \o P("]") \o W("fn") \o P("(") \o P(")") \o Lx("=>", <<"=", ">">>) \o e,
     P("[") \o Lx("&v", <<"&">>) \o Sp \o V \o P(",") \o e \o P("]"), P("@") \o P("!") \o e,
     V \o Lx("++", <<"+", "+">>) \o P("+") \o Sp \o Lx("++", <<"-", "-">>) \o V}
    \cup {Lx("yield from", <<"yield">> \o t[1].chars \o <<"from">>) \o Sp \o e : t \in Trivia}
    \cup {V \o Lx("->", <<"-", ">">>) \o t \o Lx("name", <<"class">>) \o t \o P(".") \o t \o e : t \in Trivia}
    \cup {V \o Lx("doc", <<"/", "*", "*", " ", "*", "/">>) \o o \o V : o \in OpTexts}

\* Statements around e.
Stmts1(e) ==
    {P("{") \o Lx("?>", <<"?", ">", "\n">>) \o Lx("html", <<" ", "\"", "name">>) \o Php \o e \o P(";")
        \o Lx("?>", <<"?", ">">>) \o Lx("<?=", <<"<", "?", "=">>) \o e \o P(";") \o Lx("?>", <<"?", ">", "\r", "\n">>)
        \o Lx("html", <<"\n", "<">>) \o Lx("<?", <<"<", "?">>) \o P("}"),
     W("enum") \o Sp \o Nm \o P("{") \o W("case") \o Sp \o Nm \o P("=") \o Sp \o e \o P(";") \o P("}"),
     W("class") \o Sp \o Nm \o P("{") \o Lx("public", <<"public", "(", "set", ")">>) \o Sp \o V \o P("=") \o Sp \o e
        \o P(";") \o P("}"),
     W("halt") \o P("(") \o P(")") \o P(";") \o Lx("html", <<"\"", "<", "?">>)}

Ended(es) == {Php \o e \o P(";") : e \in es}
Level1 == Strings1(V) \cup Plain
Level2 == UNION {Strings1(i) : i \in UNION {Inside(e) : e \in Level1}}
MCTexts ==
    Ended(Level1 \cup Level2 \cup UNION {Around(e) : e \in Level1 \cup {V}}
          \cup UNION {Strings1(i) : i \in UNION {Inside(e) : e \in Around(V)}})
    \cup {Php \o s : s \in UNION {Stmts1(e) : e \in Level1}}

\* Scraps: anything after the beginning of anything.
Contexts == {<<>>, <<"<", "?", "php", " ">>} \cup
    {<<"<", "?", "php", " ">> \o s : s \in
        {<<"\"", "$", "name">>, <<"\"", "$", "name", "[">>, <<"\"", "$", "{">>, <<"\"", "{", "$", "name">>, <<"backtick">>,
         <<"$", "name", "-", ">">>, <<"<", "<", "<", "EOT", "\n">>, <<"<", "<", "<", "'", "EOT", "'", "\n">>,
         <<"halt", "(", ")">>}}
Symbols == {"\"", "'", "backtick", "$", "{", "}", "[", "]", "\\", "-", ">", "?", "<", "\n", "EOT", "1", "/", "*", "#", ";", "NUL"}
IsText(s) == \A i \in 1 .. Len(s) - 1 : s[i] \in MCWord \cup {"1"} => s[i + 1] \notin MCWord \cup {"1"}
MCScraps == {s \in {c \o t : c \in Contexts, t \in UNION {[1 .. n -> Symbols] : n \in 0 .. 2}} : IsText(s)}

=============================================================================
