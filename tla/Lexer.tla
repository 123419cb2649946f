------------------------------- MODULE Lexer -------------------------------
(***************************************************************************)
(* The scanner of php-lexer/src/lexer.rs: a stack of start conditions over *)
(* a text, each of whose steps consumes a token or a blank, or only        *)
(* changes the condition.                                                  *)
(*                                                                         *)
(* A label and a run of digits are one symbol of a text each, everything   *)
(* else is a symbol per character; a space stands for a tab, too.  Tokens  *)
(* are of the kinds the parser tells apart.  Left out: exponents, radix    *)
(* prefixes and overflow of numbers; the case of words.  The symbol        *)
(* "backtick" is that character.                                           *)
(***************************************************************************)
EXTENDS Integers, SequencesExt, FiniteSetsExt

CONSTANTS
    Word,       \* the labels
    Digits,     \* the runs of digits
    Keyword     \* the labels that are keywords, each a kind of token

LexerAssumption ==
    /\ Keyword \subseteq Word /\ Word \cap Digits = {}
    /\ "end-of-text" \notin Word \cup Digits

VARIABLES
    text,
    at,         \* the next symbol
    modes,      \* states, innermost last: <<name, ...>>
    lexed,      \* the tokens: [kind, from, to], to being the symbol behind
    reports,    \* where a diagnostic was made
    halting     \* halt_seen

vars == <<text, at, modes, lexed, reports, halting>>

Blank   == {" ", "\n", "\r"}
Newline == {"\n", "\r"}
Quote   == {"'", "\""}

\* What opens which mode, and has to be closed.
Scripting == <<"scripting">>
StringOf(quote) == <<"string", quote>>
HeredocOf(label, nowdoc) == <<"heredoc", label, nowdoc>>

Init ==
    /\ at = 1 /\ modes = <<<<"initial">>>> /\ lexed = <<>> /\ reports = {} /\ halting = FALSE

Done == at > Len(text)

-----------------------------------------------------------------------------
\* Looking ahead.
Sym(i) == IF i \in DOMAIN text THEN text[i] ELSE "end-of-text"
C(n) == Sym(at + n)
Spells(i, s) == \A k \in DOMAIN s : Sym(i + k - 1) = s[k]

\* The first of some places, or the end.
First(places) == IF places = {} THEN Len(text) + 1 ELSE Min(places)

From(i) == i .. Len(text)

\* Faulty: whatever comes after a backslash is escaped.
EscapedByAny(start, i) == i > start /\ Sym(i - 1) = "\\"

\* Reading from start, a backslash takes the next symbol along.
Escaped(start, i) ==
    LET taken[k \in start .. i] == k > start /\ Sym(k - 1) = "\\" /\ ~taken[k - 1]
    IN  taken[i]

\* $name, ${ or {$
Interpolates(i) ==
    \/ Sym(i) = "$" /\ Sym(i + 1) \in Word \cup {"{"}
    \/ Sym(i) = "{" /\ Sym(i + 1) = "$"

LineAfter(i) == IF Spells(i, <<"\r", "\n">>) THEN i + 2 ELSE IF Sym(i) \in Newline THEN i + 1 ELSE i
BlankAfter(i) == IF Sym(i) = " " THEN i + 1 ELSE LineAfter(i)
NoSpace(i) == First({k \in From(i) : Sym(k) # " "})

EndOfLine(i) == First({k \in From(i) : Sym(k) \in Newline})
EndOfCode(i) == First({k \in From(i) : Sym(k) \in Newline \/ Spells(k, <<"?", ">">>)})
EndOfComment(i) == Min({Len(text) + 1, First({k \in From(i) : Spells(k, <<"*", "/">>)}) + 2})

\* Behind blanks and comments: skip_ws_and_comments.
SkipTrivia(i) ==
    LET behind[k \in i .. Len(text) + 1] ==
            CASE Sym(k) \in Blank -> behind[k + 1]
              [] Spells(k, <<"/", "/">>) -> behind[EndOfCode(k + 2)]
              [] Sym(k) = "#" /\ Sym(k + 1) # "[" -> behind[EndOfLine(k + 1)]
              [] Spells(k, <<"/", "*">>) -> behind[EndOfComment(k + 2)]
              [] OTHER -> k
    IN  behind[i]

\* Behind the further parts of a qualified name.
NameEnd(i) ==
    First({k \in From(i) : (k - i) % 2 = 0 /\ ~(Sym(k) = "\\" /\ Sym(k + 1) \in Word)})

-----------------------------------------------------------------------------
\* What a step does.
In(names) == ~Done /\ Last(modes)[1] \in names

Token(kind, from, to) == [kind |-> kind, from |-> from, to |-> to]
Emit(kind, to) == lexed' = Append(lexed, Token(kind, at, to)) /\ at' = to
Skip(to) == at' = to /\ UNCHANGED lexed
Push(mode) == modes' = Append(modes, mode)
Pop == modes' = Front(modes)
Become(mode) == modes' = Append(Front(modes), mode)
Report(broken) == reports' = IF broken THEN reports \cup {at} ELSE reports
Quietly == UNCHANGED <<text, reports, halting>>
Plainly == UNCHANGED modes /\ Quietly

-----------------------------------------------------------------------------
\* Outside PHP: everything up to the next open tag.
Html ==
    /\ In({"initial"})
    /\ LET open == First({i \in From(at) : Spells(i, <<"<", "?">>)})
           html == IF open > at THEN <<Token("html", at, open)>> ELSE <<>>
           tag  == CASE Sym(open + 2) = "="   -> Token("<?=", open, open + 3)
                     [] Sym(open + 2) = "php" -> Token("<?", open, BlankAfter(open + 3))
                     [] OTHER                 -> Token("<?", open, open + 2)
       IN  IF open > Len(text)
           THEN lexed' = lexed \o html /\ at' = open /\ UNCHANGED modes
           ELSE lexed' = lexed \o html \o <<tag>> /\ at' = tag.to /\ Become(Scripting)
    /\ Quietly

-----------------------------------------------------------------------------
\* Blanks and comments, in scripting and before the name of a property.
BlankStep ==
    /\ In({"scripting", "property"})
    /\ C(0) \in Blank
    /\ Skip(at + 1) /\ Plainly

BeginsLineComment == \/ C(0) = "/" /\ C(1) = "/"
                     \/ C(0) = "#" /\ C(1) # "["
BeginsComment == C(0) = "/" /\ C(1) = "*"

LineComment ==
    /\ In({"scripting", "property"})
    /\ BeginsLineComment
    /\ Skip(EndOfCode(at)) /\ Plainly

BlockComment ==
    /\ In({"scripting", "property"})
    /\ BeginsComment
    /\ LET end == EndOfComment(at + 2)
       IN  /\ Report(~(end >= at + 4 /\ Spells(end - 2, <<"*", "/">>)))
           /\ IF end >= at + 4 /\ C(2) = "*" /\ C(3) \in Blank
              THEN Emit("doc", end) ELSE Skip(end)
    /\ UNCHANGED <<text, modes, halting>>

-----------------------------------------------------------------------------
\* Scripting.
CloseTag ==
    /\ In({"scripting"})
    /\ C(0) = "?" /\ C(1) = ">"
    /\ Emit("?>", LineAfter(at + 2)) /\ Become(<<"initial">>) /\ Quietly

Attribute ==
    /\ In({"scripting"})
    /\ C(0) = "#" /\ C(1) = "["
    /\ Emit("#[", at + 2) /\ Plainly

\* The label behind <<<, in quotes or not, with the end of a line behind it.
Label(lt) == LET i == NoSpace(lt + 3) IN IF Sym(i) \in Quote THEN i + 1 ELSE i
BehindLabel(lt) == IF Sym(Label(lt) - 1) \in Quote THEN Label(lt) + 2 ELSE Label(lt) + 1
IsHeredoc(lt) ==
    /\ Spells(lt, <<"<", "<", "<">>)
    /\ Sym(Label(lt)) \in Word
    /\ Sym(Label(lt) - 1) \in Quote => Sym(Label(lt) + 1) = Sym(Label(lt) - 1)
    /\ Sym(BehindLabel(lt)) \in Newline

\* A b before a string or a heredoc belongs to it.
Prefix == IF C(0) = "b" THEN 1 ELSE 0

HeredocStart ==
    /\ In({"scripting"})
    /\ LET lt == at + Prefix
       IN  /\ IsHeredoc(lt)
           /\ Emit("<<<", LineAfter(BehindLabel(lt)))
           /\ Push(HeredocOf(Sym(Label(lt)), Sym(Label(lt) - 1) = "'"))
    /\ Quietly

\* 1, 1., 1.1 and .1
Number ==
    /\ In({"scripting"})
    /\ C(0) \in Digits \/ (C(0) = "." /\ C(1) \in Digits)
    /\ LET whole == IF C(0) \in Digits THEN at + 1 ELSE at
       IN  Emit("1", IF Sym(whole) # "." THEN whole
                     ELSE IF Sym(whole + 1) \in Digits THEN whole + 2 ELSE whole + 1)
    /\ Plainly

Variable ==
    /\ In({"scripting"})
    /\ C(0) = "$"
    /\ IF C(1) \in Word THEN Emit("v", at + 2) ELSE Emit("$", at + 1)
    /\ Plainly

\* Where a quoted string is over or interpolates.
StringStop(open) ==
    First({i \in From(open + 1) : ~Escaped(open + 1, i) /\ (Sym(i) = "\"" \/ Interpolates(i))})
StringEnd(open) ==
    First({i \in From(open + 1) : ~Escaped(open + 1, i) /\ Sym(i) = Sym(open)})

\* A string that interpolates is lexed piece by piece, any other at once.
StringStart ==
    /\ In({"scripting"})
    /\ LET open == at + Prefix
       IN  /\ Sym(open) \in Quote
           /\ IF Sym(open) = "\"" /\ Interpolates(StringStop(open))
              THEN Emit("\"", open + 1) /\ Push(StringOf("\"")) /\ Report(FALSE)
              ELSE /\ Emit("1", Min({StringEnd(open), Len(text)}) + 1)
                   /\ Report(StringEnd(open) > Len(text))
                   /\ UNCHANGED modes
    /\ UNCHANGED <<text, halting>>

Backtick ==
    /\ In({"scripting"})
    /\ C(0) = "backtick"
    /\ Emit("backtick", at + 1) /\ Push(StringOf("backtick")) /\ Quietly

\* An & knows whether a variable follows it.
Ampersand ==
    /\ In({"scripting"})
    /\ C(0) = "&"
    /\ LET next == SkipTrivia(at + 1)
       IN  CASE C(1) = "&" -> Emit("&&", at + 2)
             [] C(1) = "=" -> Emit("+=", at + 2)
             [] OTHER -> Emit(IF Sym(next) = "$" \/ Spells(next, <<".", ".", ".">>) THEN "&v" ELSE "&",
                              at + 1)
    /\ Plainly

CastType == {"int", "float", "string", "array", "object", "bool", "unset", "void"}

Parenthesis ==
    /\ In({"scripting"})
    /\ C(0) = "("
    /\ LET type == NoSpace(at + 1)
           close == NoSpace(type + 1)
       IN  IF Sym(type) \in CastType /\ Sym(close) = ")"
           THEN Emit("cast", close + 1) ELSE Emit("(", at + 1)
    /\ Plainly

BackslashName ==
    /\ In({"scripting"})
    /\ C(0) = "\\"
    /\ IF C(1) \in Word THEN Emit("name", NameEnd(at + 2)) ELSE Emit("\\", at + 1)
    /\ Plainly

OpenBrace ==
    /\ In({"scripting"})
    /\ C(0) = "{"
    /\ Emit("{", at + 1) /\ Push(Scripting) /\ Quietly

\* Faulty: every } leaves what it is in.
CloseBraceAlways ==
    /\ In({"scripting"})
    /\ C(0) = "}"
    /\ Emit("}", at + 1) /\ Pop /\ Quietly

\* Back to the string that a { was opened in; one too many is ignored.
CloseBrace ==
    /\ In({"scripting"})
    /\ C(0) = "}"
    /\ Emit("}", at + 1)
    /\ IF Len(modes) > 1 THEN Pop ELSE UNCHANGED modes
    /\ Quietly

Visibility == {"public", "protected", "private"}

\* Names and the keywords that depend on what follows.
Name ==
    /\ In({"scripting"})
    /\ C(0) \in Word
    /\ ~(C(0) = "b" /\ (C(1) \in Quote \/ IsHeredoc(at + 1)))
    /\ LET word == C(0)
           next == SkipTrivia(at + 1)
           qualified == C(1) = "\\" /\ C(2) \in Word
           alone == word = "enum" /\ Sym(next) \notin Word \ {"extends", "implements"}
       IN  /\ CASE qualified -> Emit("name", NameEnd(at + 1))
                [] ~qualified /\ word = "yield" /\ next > at + 1 /\ Sym(next) = "from" ->
                      Emit("yield from", next + 1)
                [] ~qualified /\ word \in Visibility /\ Spells(at + 1, <<"(", "set", ")">>) ->
                      Emit(word, at + 4)
                [] OTHER -> Emit(IF word \in Keyword /\ ~qualified /\ ~alone THEN word ELSE "name", at + 1)
           /\ halting' = (halting \/ (word = "halt" /\ ~qualified))
    /\ UNCHANGED <<text, modes, reports>>

\* The operators, each behind its kind.
Operators == {
    <<"+", "+">>, <<"+", "-">>, <<"++", "+", "+">>, <<"++", "-", "-">>,
    <<"->", "-", ">">>, <<"->", "?", "-", ">">>,
    <<"*", "*">>, <<"*", "/">>, <<"*", "%">>, <<"**", "*", "*">>,
    <<".", ".">>, <<"...", ".", ".", ".">>, <<"!", "!">>,
    <<"=", "=">>, <<"+=", "+", "=">>, <<"+=", "-", "=">>, <<"+=", "*", "=">>, <<"+=", "*", "*", "=">>,
    <<"+=", "/", "=">>, <<"+=", "%", "=">>, <<"+=", ".", "=">>, <<"+=", "|", "=">>, <<"+=", "^", "=">>,
    <<"+=", "<", "<", "=">>, <<"+=", ">", ">", "=">>, <<"+=", "?", "?", "=">>,
    <<"==", "=", "=">>, <<"==", "=", "=", "=">>, <<"==", "!", "=">>, <<"==", "!", "=", "=">>,
    <<"==", "<", "=", ">">>, <<"==", "<", ">">>, <<"=>", "=", ">">>,
    <<"<", "<">>, <<"<", "<", "=">>, <<"<", ">">>, <<"<", ">", "=">>,
    <<"<<", "<", "<">>, <<"<<", ">", ">">>,
    <<"?", "?">>, <<"??", "?", "?">>, <<":", ":">>, <<"::", ":", ":">>,
    <<"|", "|">>, <<"||", "|", "|">>, <<"|>", "|", ">">>, <<"^", "^">>,
    <<"~", "~">>, <<"@", "@">>, <<";", ";">>, <<",", ",">>, <<")", ")">>, <<"[", "[">>, <<"]", "]">>}

\* What begins no operator, or begins something else as well.
Begun ==
    \/ C(0) \in Blank \cup Word \cup Digits \cup Quote \cup {"#", "$", "backtick", "&", "(", "\\", "{", "}"}
    \/ C(0) = "?" /\ C(1) = ">"
    \/ BeginsLineComment \/ BeginsComment
    \/ C(0) = "." /\ C(1) \in Digits
    \/ IsHeredoc(at)

\* The longest operator that is here, or one character.
Here ==
    LET fitting == {o \in Operators : Spells(at, Tail(o))}
    IN  IF fitting = {} THEN <<"unknown", C(0)>>
        ELSE CHOOSE o \in fitting : \A p \in fitting : Len(p) <= Len(o)

Operator ==
    /\ In({"scripting"})
    /\ ~Begun
    /\ \E op \in {Here} :
         LET to == at + Len(op) - 1
             rest == IF halting /\ op[1] = ";" /\ to <= Len(text)
                     THEN <<Token("html", to, Len(text) + 1)>> ELSE <<>>
         IN  /\ lexed' = Append(lexed, Token(op[1], at, to)) \o rest
             /\ at' = Last(lexed').to
             /\ Report(op[1] = "unknown")
             /\ IF op[1] = "->" THEN Push(<<"property">>) ELSE UNCHANGED modes
    /\ UNCHANGED <<text, halting>>

-----------------------------------------------------------------------------
\* Behind -> every label is a name; anything else is scripting again.
Property ==
    /\ In({"property"})
    /\ ~(C(0) \in Blank \/ BeginsLineComment \/ BeginsComment)
    /\ IF C(0) \in Word THEN Emit("name", at + 1) ELSE Skip(at)
    /\ Pop /\ Quietly

-----------------------------------------------------------------------------
\* Strings and heredocs.
Mode == Last(modes)

\* A line of blanks and the label ends a heredoc.
IsClose(i) == Sym(NoSpace(i)) = Mode[2]
Closes == (at = 1 \/ Sym(at - 1) = "\n") /\ IsClose(at)

\* The text of this mode is read here, and may be interpolated.
InText == In({"string"}) \/ (In({"heredoc"}) /\ ~Mode[3] /\ ~Closes)

StringClose ==
    /\ In({"string"})
    /\ C(0) = Mode[2]
    /\ Emit(C(0), at + 1) /\ Pop /\ Quietly

\* $name with at most one ->name, ?->name or [ behind it.
SimpleVariable ==
    /\ InText
    /\ C(0) = "$" /\ C(1) \in Word
    /\ LET var == Token("v", at, at + 2)
           arrow == CASE Spells(at + 2, <<"-", ">">>) /\ C(4) \in Word -> 2
                      [] Spells(at + 2, <<"?", "-", ">">>) /\ C(5) \in Word -> 3
                      [] OTHER -> 0
           access == CASE arrow > 0 -> <<Token("->", var.to, var.to + arrow),
                                         Token("name", var.to + arrow, var.to + arrow + 1)>>
                       [] C(2) = "[" -> <<Token("[", var.to, var.to + 1)>>
                       [] OTHER -> <<>>
       IN  /\ lexed' = lexed \o <<var>> \o access
           /\ at' = Last(lexed').to
           /\ IF C(2) = "[" THEN Push(<<"offset">>) ELSE UNCHANGED modes
    /\ Quietly

DollarCurly ==
    /\ InText
    /\ C(0) = "$" /\ C(1) = "{"
    /\ Emit("${", at + 2) /\ Push(<<"varname">>) /\ Quietly

CurlyOpen ==
    /\ InText
    /\ C(0) = "{" /\ C(1) = "$"
    /\ Emit("{$", at + 1) /\ Push(Scripting) /\ Quietly

StringText ==
    /\ In({"string"})
    /\ C(0) # Mode[2] /\ ~Interpolates(at)
    /\ Emit("text", First({i \in From(at) : ~Escaped(at, i) /\ (Sym(i) = Mode[2] \/ Interpolates(i))}))
    /\ Plainly

VarOffset ==
    /\ In({"offset"})
    /\ CASE C(0) = "]" -> Emit("]", at + 1) /\ Pop
         [] C(0) = "$" /\ C(1) \in Word -> Emit("v", at + 2) /\ UNCHANGED modes
         [] C(0) = "-" -> Emit("+", at + 1) /\ UNCHANGED modes
         [] C(0) \in Digits -> Emit("num", at + 1) /\ UNCHANGED modes
         [] C(0) \in Word -> Emit("name", at + 1) /\ UNCHANGED modes
         [] OTHER -> Skip(at) /\ Pop
    /\ Quietly

\* ${name} and ${name[ name a variable, ${ anything else } is an expression.
VarName ==
    /\ In({"varname"})
    /\ IF C(0) \in Word /\ C(1) \in {"[", "}"} THEN Emit("varname", at + 1) ELSE Skip(at)
    /\ Become(Scripting) /\ Quietly

HeredocEnd ==
    /\ In({"heredoc"})
    /\ Closes
    /\ Emit("end", NoSpace(at) + 1) /\ Pop /\ Quietly

HeredocText ==
    /\ In({"heredoc"})
    /\ ~Closes
    /\ Mode[3] \/ ~Interpolates(at)
    /\ Emit("text", First({i \in From(at) :
                        \/ ~Mode[3] /\ ~Escaped(at, i) /\ Interpolates(i)
                        \/ i > at /\ Sym(i - 1) = "\n" /\ IsClose(i)}))
    /\ Plainly

Next ==
    \/ Html
    \/ BlankStep \/ LineComment \/ BlockComment \/ CloseTag \/ Attribute \/ HeredocStart \/ Number
    \/ Variable \/ StringStart \/ Backtick \/ Ampersand \/ Parenthesis \/ BackslashName
    \/ OpenBrace \/ CloseBrace \/ Name \/ Operator
    \/ Property \/ StringClose \/ SimpleVariable \/ DollarCurly \/ CurlyOpen \/ StringText
    \/ VarOffset \/ VarName \/ HeredocEnd \/ HeredocText
=============================================================================
