------------------------------- MODULE Parser -------------------------------
(***************************************************************************)
(* The recursive-descent and Pratt parser of php-parser/src/parser.rs as a *)
(* machine with an explicit stack: todo is what the functions on the call  *)
(* stack still have to do, innermost first, and each action is one         *)
(* function (or the part of it before or after a call).  A token is its    *)
(* kind; kinds that the parser treats alike share a representative.        *)
(* Left out: doc comments, and what the nodes hold beside their operands.  *)
(***************************************************************************)
EXTENDS Integers, Sequences, FiniteSets, SequencesExt

CONSTANTS
    Inputs,         \* the token sequences to parse, each ending in "eof"
    MaxDepth        \* MAX_DEPTH

VARIABLES
    tokens,
    pos,            \* the current token
    todo,           \* what is left to do, of all open calls
    nodes,          \* the finished nodes that no node holds yet
    depth,
    errors,         \* the tokens at which a diagnostic was made
    skipped         \* history: the tokens that recovery dropped

vars == <<tokens, pos, todo, nodes, depth, errors, skipped>>

Modifier == {"public", "abstract", "readonly"}
ClassKind == {"class", "enum"}
Keyword == Modifier \cup ClassKind \cup
    {"echo", "return", "if", "elseif", "else", "endif", "while", "endwhile",
     "do", "for", "foreach", "as", "switch", "case", "default", "endswitch",
     "try", "catch", "finally", "static", "unset", "declare", "namespace",
     "use", "function", "fn", "const", "var", "extends", "implements",
     "insteadof", "new", "clone", "print", "throw", "yield", "include",
     "exit", "halt", "match", "empty", "isset", "array", "or", "xor", "and", "instanceof"}
Ident == {"name"} \cup Keyword
AnyIdent == {"identifier"}  \* in a task: all of Ident
TypeName == {"name", "array", "static"}
Amp == {"&", "&v"}
StmtEnds == {";", "?>", "eof"}

----------------------------------------------------------------------------
\* What the Pratt loop knows of operators: what binds the left operand, and
\* from where on the right one ends.
OperatorInfo(k) ==
    CASE k = "or"  -> <<4, 5>>   [] k = "xor" -> <<6, 7>>  [] k = "and" -> <<8, 9>>
      [] k \in {"=", "+="} -> <<51, 11>>
      [] k = "?"  -> <<14, 13>>  [] k = "??" -> <<16, 15>>
      [] k = "||" -> <<18, 19>>  [] k = "&&" -> <<20, 21>>
      [] k = "|"  -> <<22, 23>>  [] k = "^" -> <<24, 25>>   [] k \in Amp -> <<26, 27>>
      [] k = "==" -> <<28, 29>>  [] k = "<"  -> <<30, 31>>
      [] k = "|>" -> <<32, 33>>  [] k = "."  -> <<34, 35>>
      [] k = "<<" -> <<36, 37>>  [] k = "+"  -> <<38, 39>>
      [] k = "*"  -> <<40, 41>>  [] k = "instanceof" -> <<44, 45>>
      [] k = "**" -> <<48, 47>>
      [] OTHER -> <<>>

TernaryRhsRight == 13     \* faulty: right-associative
TernaryRhs == 14
RefRhs == 50

\* The power from which on a prefix operator ends its operand.
PrefixPower(k) ==
    CASE k = "throw" -> 2
      [] k = "include" -> 3
      [] k \in {"print", "yield", "yield from"} -> 10
      [] k = "!" -> 42
      [] k \in {"+", "~", "@", "cast", "++"} -> 46
      [] k = "clone" -> 50

Prefix == {"throw", "include", "print", "yield from", "!", "+", "~", "@", "cast", "++"}

----------------------------------------------------------------------------
\* The tasks.  Stops, Set: sets of token kinds; Body, Item: tasks.
Expect(Set) == <<"expect", Set>>
Given(Set, Body) == <<"given", Set, Body>>
Expr(bp) == <<"expr", bp>>
Value(Stops) == <<"value", Stops>>
List(Item, Stops) == <<"list", Item, Stops>>
Comma(Item, Stops) == <<"comma", Item, Stops>>
Again(sep, Item) == <<"again", sep, Item>>
Loop(Item, Stops) == <<"loop", Item, Stops>>
Statement == <<"statement">>
StmtEnd == <<"stmt end">>
Open == Expect({"("})
Close == Expect({")"})
Eat(Set) == Given(Set, <<>>)
Stmts(Terms) == Loop(<<<<"marker">>>>, Terms \cup {"}", "eof"})
Block == <<Expect({"{"}), Stmts({}), Expect({"}"})>>
Parts(close) == <<"parts", close>>
Exprs == <<Expr(0), Comma(<<Expr(0)>>, StmtEnds)>>
NameList == <<Expect(AnyIdent), Again(",", <<Expect(AnyIdent)>>)>>
Condition == <<Open, Expr(0), Close>>
Params == <<Open, List(<<<<"param">>>>, {")", "eof"}), Close>>
ReturnType == Given({":"}, <<<<"type">>>>)
OptArgs == Given({"("}, <<<<"args">>>>)
ClassBody == <<Expect({"{"}), Loop(<<<<"attributes">>, <<"member">>>>, {"}", "eof"}), Expect({"}"})>>
Make(kind, op, from, base) == <<"make", kind, op, from, base>>

\* Before the first of these tokens.
Begin(toks) ==
    /\ tokens = toks
    /\ pos = 1 /\ depth = 0
    /\ todo = <<Loop(<<<<"marker">>>>, {"eof"})>>
    /\ nodes = <<>> /\ errors = {} /\ skipped = {}

Init == \E toks \in Inputs : Begin(toks)

Top == Head(todo)
Doing(task) == todo # <<>> /\ Top[1] = task
Kind == tokens[pos]
Nth(n) == IF pos + n <= Len(tokens) THEN tokens[pos + n] ELSE "eof"
Past(n) == IF pos + n <= Len(tokens) THEN pos + n ELSE Len(tokens)
Start == 2 * pos
At(Set) == Kind \in Set \/ (Set = AnyIdent /\ Kind \in Ident)

\* Replace the task at hand by others, n tokens further.
Run(tasks, n) ==
    /\ todo' = tasks \o Tail(todo)
    /\ pos' = Past(n)
    /\ UNCHANGED tokens
Quietly == UNCHANGED <<depth, errors, skipped>>
Do(tasks) == Run(tasks, 0) /\ Quietly /\ UNCHANGED nodes
Take(tasks) == Run(tasks, 1) /\ Quietly /\ UNCHANGED nodes
Report(tasks) == Run(tasks, 0) /\ errors' = errors \cup {pos} /\ UNCHANGED <<nodes, depth, skipped>>

\* A node from the nodes above base, up to the last token consumed.
SpanTo(from, p) == IF 2 * p + 1 > from THEN 2 * p + 1 ELSE from
NodeOf(kind, op, from, base, p) ==
    [kind |-> kind, op |-> op, from |-> from, to |-> SpanTo(from, p),
     sub |-> SubSeq(nodes, base + 1, Len(nodes))]
Build(kind, op, from, base) ==
    nodes' = Append(SubSeq(nodes, 1, base), NodeOf(kind, op, from, base, pos' - 1))
Leaf(kind, op) == Build(kind, op, Start, Len(nodes))
Wrap(kind, op, base) == Make(kind, op, Start, base)

----------------------------------------------------------------------------
\* The cursor and the loops that the functions share.
ExpectToken ==
    /\ Doing("expect")
    /\ IF At(Top[2]) THEN Take(<<>>) ELSE Report(<<>>)

GivenToken ==
    /\ Doing("given")
    /\ IF At(Top[2]) THEN Take(Top[3]) ELSE Do(<<>>)

OptionalValue ==
    /\ Doing("value")
    /\ Do(IF Kind \in Top[2] THEN <<>> ELSE <<Expr(0)>>)

ListItem ==
    \/ /\ Doing("list")
       /\ Do(IF Kind \in Top[3] THEN <<>> ELSE Append(Top[2], Comma(Top[2], Top[3])))
    \/ /\ Doing("comma")
       /\ IF Kind = "," THEN Take(<<List(Top[2], Top[3])>>) ELSE Do(<<>>)
    \/ /\ Doing("again")
       /\ IF Kind = Top[2] THEN Take(Append(Top[3], Top)) ELSE Do(<<>>)

ProgressAlways(before) == Kind # "eof"     \* faulty: also when the body did

ProgressNever(before) == FALSE     \* faulty: a loop may stand still

\* ensure_progress: a loop consumes a token when its body did not.
NeedsProgress(before) == pos = before /\ Kind # "eof"

LoopRound ==
    \/ /\ Doing("loop")
       /\ Do(IF Kind \in Top[3] THEN <<>> ELSE Top[2] \o <<<<"progress", pos>>, Top>>)
    \/ /\ Doing("progress")
       /\ IF NeedsProgress(Top[2])
          THEN Run(<<>>, 1) /\ skipped' = skipped \cup {pos} /\ UNCHANGED <<nodes, depth, errors>>
          ELSE Do(<<>>)

MakeNode ==
    /\ Doing("make")
    /\ Run(<<>>, 0) /\ Quietly
    /\ Build(Top[2], Top[3], Top[4], Top[5])

Leave ==
    /\ Doing("leave")
    /\ Run(<<>>, 0)
    /\ depth' = depth - 1
    /\ UNCHANGED <<nodes, errors, skipped>>

TooDeep == depth = MaxDepth

----------------------------------------------------------------------------
\* Statements.
StmtOrMarker ==
    /\ Doing("marker")
    /\ CASE Kind \in {"<?", "?>"} -> Take(<<>>)
         [] Kind = "html" -> Run(<<>>, 1) /\ Leaf("stmt", Kind) /\ Quietly
         [] Kind = "<?=" -> Take(Exprs \o <<StmtEnd, Wrap("stmt", "echo", Len(nodes))>>)
         [] Kind = "eof" -> Do(<<>>)
         [] OTHER -> Do(<<Statement>>)

IsFunctionDecl ==
    /\ Kind = "function"
    /\ Nth(1) \in Ident \/ (Nth(1) \in Amp /\ Nth(2) \in Ident)

Declares ==
    \/ IsFunctionDecl
    \/ Kind \in {"abstract", "class"}
    \/ (Kind = "readonly" /\ Nth(1) \in {"class", "abstract", "readonly"})
    \/ (Kind = "enum" /\ Nth(1) = "name")

\* What parse_statement does for each first token: how many tokens it
\* consumes at once, and what then.
StatementBody ==
    CASE Kind = ";" -> <<1, <<>>>>
      [] Kind = "{" -> <<0, Block>>
      [] Kind = "echo" -> <<1, Append(Exprs, StmtEnd)>>
      [] Kind = "return" -> <<1, <<Value(StmtEnds), StmtEnd>>>>
      [] Kind = "if" -> <<1, Append(Condition, <<"then">>)>>
      [] Kind = "while" -> <<1, Append(Condition, <<"loop body", "endwhile">>)>>
      [] Kind = "do" -> <<1, <<Statement, Expect({"while"})>> \o Append(Condition, StmtEnd)>>
      [] Kind = "for" -> <<1, <<Open, List(<<Expr(0)>>, {";"}), Expect({";"}),
                                      List(<<Expr(0)>>, {";"}), Expect({";"}),
                                      List(<<Expr(0)>>, {")"}), Close, <<"loop body", "endfor">>>>>>
      [] Kind = "foreach" -> <<1, <<Open, Expr(0), Expect({"as"}), Eat(Amp), Expr(0),
                                    Given({"=>"}, <<Eat(Amp), Expr(0)>>), Close,
                                    <<"loop body", "endforeach">>>>>>
      [] Kind = "switch" -> <<1, Append(Condition, <<"cases">>)>>
      [] Kind = "try" -> <<1, Append(Block, <<"catches">>)>>
      [] Kind = "static" /\ Nth(1) = "v" -> <<1, <<<<"static vars">>, StmtEnd>>>>
      [] Kind = "unset" -> <<1, <<Open, List(<<Expr(0)>>, {")", "eof"}), Close, StmtEnd>>>>
      [] Kind = "declare" -> <<1, <<Open, List(<<Expect(AnyIdent), Expect({"="}), Expr(0)>>, {")", "eof"}),
                                    Close, <<"declared">>>>>>
      [] Kind = "namespace" -> <<1, <<Eat(AnyIdent), <<"body">>>>>>
      [] Kind = "use" -> <<1, <<Eat({"function", "const"}), <<"use item">>, StmtEnd>>>>
      [] Kind = "#[" -> <<0, <<<<"attributes">>, <<"attributed">>>>>>
      [] Kind = "name" /\ Nth(1) = ":" -> <<2, <<>>>>
      [] Declares -> <<0, <<<<"declaration">>>>>>
      [] Kind = "const" -> <<1, <<<<"constants">>, StmtEnd>>>>
      [] Kind = "halt" -> <<1, <<Eat({"("}), Eat({")"}), StmtEnd, Eat({"html"})>>>>
      [] OTHER -> <<0, <<Expr(0), StmtEnd>>>>

ParseStatement ==
    /\ Doing("statement")
    /\ IF TooDeep
       THEN Report(<<<<"synchronize">>, Wrap("error", "stmt", Len(nodes))>>)
       ELSE LET body == StatementBody IN
            /\ Run(body[2] \o <<Wrap("stmt", Kind, Len(nodes)), <<"leave">>>>, body[1])
            /\ depth' = depth + 1
            /\ UNCHANGED <<nodes, errors, skipped>>

LoopBody ==
    /\ Doing("loop body")
    /\ IF Kind = ":"
       THEN Take(<<Stmts({Top[2]}), Expect({Top[2]}), StmtEnd>>)
       ELSE Do(<<Statement>>)

IfEnds == {"elseif", "else", "endif"}

\* What follows the condition of an if, in either syntax.
Branches ==
    \/ /\ Doing("then")
       /\ IF Kind = ":" THEN Take(<<Stmts(IfEnds), <<"else", TRUE>>>>)
                        ELSE Do(<<Statement, <<"else", FALSE>>>>)
    \/ /\ Doing("else")
       /\ LET alt == Top[2]
              End == IF alt THEN <<Expect({"endif"}), StmtEnd>> ELSE <<>>
              Branch(Terms) == IF alt THEN <<Expect({":"}), Stmts(Terms)>> ELSE <<Statement>>
          IN  CASE Kind = "elseif" -> Take(Condition \o Branch(IfEnds) \o <<Top>>)
                [] Kind = "else" -> Take(Branch({"endif"}) \o End)
                [] OTHER -> Do(End)

CaseEnds == {"case", "default", "endswitch"}

ParseSwitch ==
    \/ /\ Doing("cases")
       /\ IF Kind = ":" THEN Take(<<<<"case", TRUE>>>>) ELSE Do(<<Expect({"{"}), <<"case", FALSE>>>>)
    \/ /\ Doing("case")
       /\ LET Body == <<Eat({":", ";"}), Stmts(CaseEnds), Top>> IN
          CASE Kind \in {"}", "endswitch", "eof"} ->
                  Do(IF Top[2] THEN <<Expect({"endswitch"}), StmtEnd>> ELSE <<Expect({"}"})>>)
            [] Kind = "case" -> Take(<<Expr(0)>> \o Body)
            [] Kind = "default" -> Take(Body)
            [] OTHER -> /\ Run(<<Top>>, 1)
                        /\ errors' = errors \cup {pos} /\ skipped' = skipped \cup {pos}
                        /\ UNCHANGED <<nodes, depth>>

ParseTry ==
    /\ Doing("catches")
    /\ CASE Kind = "catch" ->
               Take(<<Open, Expect(AnyIdent), Again("|", <<Expect(AnyIdent)>>), Eat({"v"}), Close>>
                    \o Append(Block, Top))
         [] Kind = "finally" -> Take(Block)
         [] OTHER -> Do(<<>>)

StaticVars ==
    /\ Doing("static vars")
    /\ LET Item == <<Expect({"v"}), Given({"="}, <<Expr(0)>>)>>
       IN  Do(Append(Item, Again(",", Item)))

Declared ==
    /\ Doing("declared")
    /\ CASE Kind = "{" -> Do(Block)
         [] Kind = ":" -> Take(<<Stmts({"enddeclare"}), Expect({"enddeclare"}), StmtEnd>>)
         [] OTHER -> Do(<<StmtEnd>>)

\* A block, or the end of a declaration without one.
BlockOrEnd ==
    /\ Doing("body")
    /\ Do(IF Kind = "{" THEN Block ELSE <<StmtEnd>>)

UseAlias == Given({"as"}, <<Expect(AnyIdent)>>)

ParseUse ==
    \/ /\ Doing("use item")
       /\ Do(<<Eat({"function", "const"}), Expect(AnyIdent), <<"use rest">>>>)
    \/ /\ Doing("use rest")
       /\ LET group == <<List(<<Eat({"function", "const"}), Expect(AnyIdent), UseAlias>>, {"}", "eof"}),
                         Expect({"}"})>>
          IN  CASE Kind = "{" -> Take(group)
                [] Kind = "\\" /\ Nth(1) = "{" -> Run(group, 2) /\ Quietly /\ UNCHANGED nodes
                [] OTHER -> Do(<<UseAlias, Given({","}, <<<<"use item">>>>)>>)

\* eat_stmt_end
EatStmtEnd ==
    /\ Doing("stmt end")
    /\ CASE Kind = ";" -> Take(<<>>)
         [] Kind \in {"?>", "eof"} -> Do(<<>>)
         [] OTHER -> Report(<<<<"synchronize">>>>)

\* Where recovery stops without consuming anything.
Boundary == {"?>", "}", "eof"}

\* Faulty: a ";" does not end the search.
SynchronizePast ==
    /\ Doing("synchronize")
    /\ IF Kind \in Boundary THEN Do(<<>>)
       ELSE Run(<<Top>>, 1) /\ skipped' = skipped \cup {pos} /\ UNCHANGED <<nodes, depth, errors>>

Synchronize ==
    /\ Doing("synchronize")
    /\ IF Kind \in Boundary THEN Do(<<>>)
       ELSE /\ Run(IF Kind = ";" THEN <<>> ELSE <<Top>>, 1)
            /\ skipped' = skipped \cup {pos}
            /\ UNCHANGED <<nodes, depth, errors>>

----------------------------------------------------------------------------
\* Declarations.
Attributes ==
    /\ Doing("attributes")
    /\ IF Kind = "#["
       THEN Take(<<List(<<Expect(AnyIdent), OptArgs>>, {"]", "eof"}), Expect({"]"}), Top>>)
       ELSE Do(<<>>)

AtClosure == Kind \in {"function", "fn"} \/ (Kind = "static" /\ Nth(1) \in {"function", "fn"})

AttributedDecl ==
    /\ Doing("attributed")
    /\ CASE Declares -> Do(<<<<"declaration">>>>)
         [] Kind = "const" -> Take(<<<<"constants">>, StmtEnd>>)
         [] AtClosure -> Do(<<Expr(0), StmtEnd>>)
         [] OTHER -> Report(<<Expr(0), StmtEnd>>)

\* parse_function_decl and the first half of parse_class_like
Declaration ==
    /\ Doing("declaration")
    /\ IF Kind = "function"
       THEN Take(<<Eat(Amp), Expect(AnyIdent)>> \o Params \o <<ReturnType>> \o Block)
       ELSE Do(<<<<"modifiers">>, <<"class">>>>)

ParseClass ==
    /\ Doing("class")
    /\ LET Named == <<Expect(AnyIdent)>> \o (IF Kind = "enum" THEN <<ReturnType>> ELSE <<>>)
                    \o <<Given({"extends"}, NameList), Given({"implements"}, NameList)>> \o ClassBody
       IN  IF Kind \in ClassKind THEN Take(Named)
           ELSE /\ Run(Named, 1)
                /\ errors' = errors \cup {pos} /\ skipped' = skipped \cup {pos}
                /\ UNCHANGED <<nodes, depth>>

Modifiers ==
    /\ Doing("modifiers")
    /\ IF Kind \in Modifier \cup {"static"} THEN Take(<<Top>>) ELSE Do(<<>>)

Constants ==
    /\ Doing("constants")
    /\ LET Item == <<Expect(AnyIdent), Expect({"="}), Expr(0)>>
       IN  Do(Append(Item, Again(",", Item)))

ParseParam ==
    \/ /\ Doing("param")
       /\ Do(<<<<"attributes">>, <<"modifiers">>, <<"param type">>, Eat(Amp), Eat({"..."}),
               Expect({"v"}), Given({"="}, <<Expr(0)>>), Given({"{"}, <<<<"hooks">>>>)>>)
    \/ /\ Doing("param type")
       /\ Do(IF Kind \in Amp \cup {"v", "..."} THEN <<>> ELSE <<<<"type">>>>)

ParseType ==
    \/ /\ Doing("type")
       /\ IF Kind = "?" THEN Take(<<<<"type unit">>>>) ELSE Do(<<<<"type unit">>, <<"types">>>>)
    \/ /\ Doing("types")
       /\ Do(IF Kind \in {"|", "&"} THEN <<Again(Kind, <<<<"type unit">>>>)>> ELSE <<>>)
    \/ /\ Doing("type unit")
       /\ IF Kind = "(" THEN Take(<<Expect(TypeName), Again("&", <<Expect(TypeName)>>), Close>>)
                        ELSE Do(<<Expect(TypeName)>>)

ParseMember ==
    \/ /\ Doing("member")
       /\ IF Kind = "var" THEN Take(<<<<"property">>>>) ELSE Do(<<<<"modifiers">>, <<"modified">>>>)
    \/ /\ Doing("modified")
       /\ CASE Kind = "const" ->
                  Take(IF Nth(1) \in Ident /\ Nth(2) = "=" THEN <<<<"constants">>, StmtEnd>>
                       ELSE <<<<"type">>, <<"constants">>, StmtEnd>>)
            [] Kind = "function" ->
                  Take(<<Eat(Amp), Expect(AnyIdent)>> \o Params \o <<ReturnType, <<"body">>>>)
            [] Kind = "case" -> Take(<<Expect(AnyIdent), Given({"="}, <<Expr(0)>>), StmtEnd>>)
            [] Kind = "use" -> Take(Append(NameList, <<"adaptations">>))
            [] OTHER -> Do(<<<<"property">>>>)

ParseProperty ==
    \/ /\ Doing("property")
       /\ Do(IF Kind = "v" THEN <<<<"variable">>>> ELSE <<<<"type">>, <<"variable">>>>)
    \/ /\ Doing("variable")
       /\ Do(<<Expect({"v"}), Given({"="}, <<Expr(0)>>), <<"hooked">>>>)
    \/ /\ Doing("hooked")
       /\ CASE Kind = "{" -> Take(<<<<"hooks">>>>)
            [] Kind = "," -> Take(<<<<"variable">>>>)
            [] OTHER -> Do(<<StmtEnd>>)

PropertyHooks ==
    \/ /\ Doing("hooks")
       /\ Do(<<Loop(<<<<"hook">>>>, {"}", "eof"}), Expect({"}"})>>)
    \/ /\ Doing("hook")
       /\ Do(<<<<"attributes">>, <<"modifiers">>, Eat(Amp), Expect(AnyIdent),
               Given({"("}, Tail(Params)), <<"hook body">>>>)
    \/ /\ Doing("hook body")
       /\ CASE Kind = ";" -> Take(<<>>)
            [] Kind = "=>" -> Take(<<Expr(0), StmtEnd>>)
            [] Kind = "{" -> Do(Block)
            [] OTHER -> Report(<<>>)

TraitAdaptations ==
    \/ /\ Doing("adaptations")
       /\ IF Kind = "{" THEN Take(<<Loop(<<<<"adaptation">>>>, {"}", "eof"}), Expect({"}"})>>)
                        ELSE Do(<<StmtEnd>>)
    \/ /\ Doing("adaptation")
       /\ Do(<<Expect(AnyIdent), Given({"::"}, <<Expect(AnyIdent)>>), <<"adapt">>, Eat({";"})>>)
    \/ /\ Doing("adapt")
       /\ CASE Kind = "insteadof" -> Take(NameList)
            [] Kind = "as" -> Take(<<<<"modifiers">>, Eat(AnyIdent)>>)
            [] OTHER -> Report(<<>>)

----------------------------------------------------------------------------
\* Expressions.
\* Faulty: depth is restored before the operators are read.
ParseExprShallow ==
    /\ Doing("expr")
    /\ Run(<<<<"prefix">>, <<"leave">>, <<"infix", Top[2]>>>>, 0)
    /\ depth' = depth + 1
    /\ UNCHANGED <<nodes, errors, skipped>>

ParseExpr ==
    /\ Doing("expr")
    /\ IF TooDeep
       THEN /\ Run(<<>>, 1)
            /\ errors' = errors \cup {pos}
            /\ Leaf("error", "too deep")
            /\ UNCHANGED <<depth, skipped>>
       ELSE /\ Run(<<<<"prefix">>, <<"infix", Top[2]>>, <<"leave">>>>, 0)
            /\ depth' = depth + 1
            /\ UNCHANGED <<nodes, errors, skipped>>

\* The last finished node becomes the first operand of the next one.
Left == Last(nodes)
Extend(kind, op) == Make(kind, op, Left.from, Len(nodes) - 1)

\* The loop of parse_expr with parse_infix.
ParseInfix ==
    /\ Doing("infix")
    /\ LET info == OperatorInfo(Kind)
           Next1(tasks) == Take(tasks \o <<Extend("infix", Kind), Top>>)
       IN  IF info = <<>> \/ info[1] <= Top[2] THEN Do(<<>>)
           ELSE CASE Kind = "?" /\ Nth(1) = ":" -> Next1(<<Eat({":"}), Expr(TernaryRhs)>>)
                  [] Kind = "?" /\ Nth(1) # ":" -> Next1(<<Expr(0), Expect({":"}), Expr(TernaryRhs)>>)
                  [] Kind = "instanceof" -> Next1(<<<<"class ref">>>>)
                  [] Kind = "=" /\ Nth(1) \in Amp ->
                        Take(<<Eat(Amp), Expr(RefRhs), Extend("infix", "=&"), Top>>)
                  [] OTHER -> Next1(<<Expr(info[2])>>)

Items(close) == List(<<<<"item">>>>, {close, "eof"})
Group(op, tasks) == tasks \o <<Wrap("group", op, Len(nodes)), <<"postfix">>>>
Closure == <<Eat(Amp)>> \o Params
           \o <<Given({"use"}, <<Open, List(<<Eat(Amp), Expect({"v"})>>, {")", "eof"}), Close>>), ReturnType>>
           \o Block
Arrow == <<Eat(Amp)>> \o Params \o <<ReturnType, Expect({"=>"}), Expr(0)>>
ClosureOf(k) == IF k = "fn" THEN Arrow ELSE Closure

\* Whether clone is followed by the arguments of a call: the scan up to the
\* matching bracket.
Nesting(n) ==
    LET Among(Set) == Cardinality({i \in pos + 1 .. pos + n : tokens[i] \in Set})
    IN  Among({"(", "[", "{", "#["}) - Among({")", "]", "}"})
CloneIsCall ==
    /\ Nth(1) = "("
    /\ \/ Nth(2) = ")"
       \/ (Nth(2) \in Ident /\ Nth(3) = ":")
       \/ \E n \in 2 .. Len(tokens) - pos :
             /\ Nth(n) \in {",", "..."} /\ Nesting(n) = 1
             /\ \A m \in 1 .. n : Nesting(m) > 0

NoOperandAtEnds == Nth(1) \in {";", ")", "]", "}", "?>", "eof"}     \* faulty

NoOperand ==
    \/ Nth(1) \in {";", ")", "]", "}", "?>", "eof", ",", ":", "=>"}
    \/ (OperatorInfo(Nth(1)) # <<>> /\ Nth(1) # "+")

Atom == {"v", "1", "name", "readonly"}

\* clone(...) and exit(...) call the function of that name, which has no width.
CallNamed(tasks) ==
    /\ Run(tasks, 1) /\ Quietly
    /\ nodes' = Append(nodes, [kind |-> "atom", op |-> "name", from |-> Start, to |-> Start, sub |-> <<>>])

ParsePrefix ==
    /\ Doing("prefix")
    /\ CASE Kind \in Atom -> Run(<<<<"postfix">>>>, 1) /\ Leaf("atom", Kind) /\ Quietly
         [] Kind = "$" -> Do(<<<<"variable variable">>, <<"postfix">>>>)
         [] Kind = "(" -> Take(Group(Kind, <<Expr(0), Close>>))
         [] Kind = "[" -> Take(Group(Kind, <<Items("]"), Expect({"]"})>>))
         [] Kind = "array" -> Take(Group(Kind, <<Open, Items(")"), Close>>))
         [] Kind \in Prefix -> Take(<<Expr(PrefixPower(Kind)), Wrap("prefix", Kind, Len(nodes)), <<"postfix">>>>)
         [] Kind = "clone" /\ CloneIsCall -> CallNamed(Group("call", <<<<"arguments">>>>))
         [] Kind = "clone" /\ ~CloneIsCall ->
               Take(<<Expr(PrefixPower(Kind)), Wrap("prefix", Kind, Len(nodes)), <<"postfix">>>>)
         [] Kind = "yield" ->
               Take(IF NoOperand THEN Group("yield", <<>>)
                    ELSE <<Expr(PrefixPower(Kind)), Given({"=>"}, <<Expr(PrefixPower(Kind))>>),
                           Wrap("prefix", Kind, Len(nodes)), <<"postfix">>>>)
         [] Kind = "exit" ->
               CASE Nth(1) # "(" -> Take(Group(Kind, <<>>))
                 [] Nth(1) = "(" /\ Nth(2) = "..." /\ Nth(3) = ")" ->
                       CallNamed(Group("call", <<<<"arguments">>>>))
                 [] OTHER -> Take(Group(Kind, <<Open, Value({")"}), Close>>))
         [] Kind \in {"\"", "backtick"} -> Take(Group(Kind, <<Parts(Kind), Expect({Kind})>>))
         [] Kind = "<<<" -> Take(Group(Kind, <<Parts("end"), Expect({"end"}), <<"collapse", Len(nodes)>>>>))
         [] Kind = "match" ->
               Take(Group(Kind, Condition \o <<Expect({"{"}), List(<<<<"arm">>>>, {"}", "eof"}), Expect({"}"})>>))
         [] Kind = "empty" -> Take(Group(Kind, Condition))
         [] Kind = "isset" -> Take(Group(Kind, <<Open, List(<<Expr(0)>>, {")", "eof"}), Close>>))
         [] Kind \in {"function", "fn"} -> Take(Group(Kind, ClosureOf(Kind)))
         [] Kind = "static" /\ Nth(1) \in {"function", "fn"} ->
               Run(Group(Nth(1), ClosureOf(Nth(1))), 2) /\ Quietly /\ UNCHANGED nodes
         [] Kind = "static" /\ Nth(1) \notin {"function", "fn"} ->
               Run(<<<<"postfix">>>>, 1) /\ Leaf("atom", Kind) /\ Quietly
         [] Kind = "new" -> Take(<<<<"attributes">>, <<"new", pos, Len(nodes)>>, <<"postfix">>>>)
         [] Kind = "#[" -> Do(<<<<"attributes">>, <<"decorated", pos, Len(nodes)>>>>)
         [] OTHER -> /\ Run(<<<<"postfix">>>>, 1)
                     /\ errors' = errors \cup {pos}
                     /\ Leaf("error", Kind)
                     /\ UNCHANGED <<depth, skipped>>

\* What an attribute in an expression stands before.
Decorated ==
    /\ Doing("decorated")
    /\ LET k == IF Kind = "static" THEN Nth(1) ELSE Kind IN
       IF AtClosure
       THEN /\ Run(ClosureOf(k) \o <<Make("group", k, 2 * Top[2], Top[3]), <<"postfix">>>>,
                   IF Kind = "static" THEN 2 ELSE 1)
            /\ Quietly /\ UNCHANGED nodes
       ELSE /\ Run(<<<<"prefix">>, <<"postfix">>>>, 0)
            /\ errors' = errors \cup {pos}
            /\ nodes' = SubSeq(nodes, 1, Top[3])
            /\ UNCHANGED <<depth, skipped>>

MatchArm ==
    /\ Doing("arm")
    /\ LET Result == <<Expect({"=>"}), Expr(0)>> IN
       IF Kind = "default" THEN Take(<<Eat({","})>> \o Result)
       ELSE Do(<<Expr(0), Comma(<<Expr(0)>>, {"=>"})>> \o Result)

\* An array item; one that is left out is only its comma.
ArrayItem ==
    /\ Doing("item")
    /\ CASE Kind = "," -> Do(<<>>)
         [] Kind \in Amp \cup {"..."} -> Take(<<Expr(0)>>)
         [] OTHER -> Do(<<Expr(0), Given({"=>"}, <<Eat(Amp), Expr(0)>>)>>)

ParseArgs ==
    \/ /\ Doing("arguments")
       /\ Do(<<Open, <<"args">>>>)
    \/ /\ Doing("args")
       /\ IF Kind = "..." /\ Nth(1) = ")"
          THEN Run(<<>>, 2) /\ Leaf("atom", "...") /\ Quietly
          ELSE Do(<<List(<<<<"arg">>>>, {")", "eof"}), Close>>)
    \/ /\ Doing("arg")
       /\ Run(<<Eat({"..."}), Expr(0)>>, IF Kind \in Ident /\ Nth(1) = ":" THEN 2 ELSE 0)
       /\ Quietly /\ UNCHANGED nodes

\* A variable, an expression in braces or another $, after a $.
AfterDollar ==
    /\ Doing("after dollar")
    /\ CASE Kind = "{" -> Take(<<Expr(0), Expect({"}"})>>)
         [] Kind = "v" -> Run(<<>>, 1) /\ Leaf("atom", Kind) /\ Quietly
         [] Kind = "$" -> Do(<<<<"variable variable">>>>)
         [] OTHER -> /\ Run(<<>>, 0)
                     /\ errors' = errors \cup {pos}
                     /\ Build("error", "$", Start - 2, Len(nodes))
                     /\ UNCHANGED <<depth, skipped>>

\* Faulty: the span begins after the $.
VariableVariableAfter ==
    /\ Doing("variable variable")
    /\ Take(<<<<"after dollar">>, Make("group", "$", Start + 2, Len(nodes))>>)

VariableVariable ==
    /\ Doing("variable variable")
    /\ Take(<<<<"after dollar">>, Wrap("group", "$", Len(nodes))>>)

MemberName ==
    /\ Doing("member name")
    /\ CASE Kind \in Ident \cup {"v"} -> Take(<<>>)
         [] Kind = "{" -> Take(<<Expr(0), Expect({"}"})>>)
         [] Kind = "$" -> Do(<<<<"variable variable">>>>)
         [] OTHER -> Report(<<>>)

\* After "::", of an expression that may be called or of a class reference.
StaticMember ==
    /\ Doing("static member")
    /\ LET called == Top[2]
           Call == IF called THEN <<OptArgs>> ELSE <<>>
           base == Len(nodes) - 1
           Whole == Make("postfix", "::", Left.from, base)
       IN  CASE Kind \in Ident \cup {"v"} -> Take(Append(Call, Whole))
             [] Kind = "{" -> Take(<<Expr(0), Expect({"}"})>> \o Append(Call, Whole))
             [] Kind = "$" -> Take(<<<<"after dollar">>>>
                                   \o (IF called THEN <<<<"static call", pos>>>> ELSE <<>>)
                                   \o <<Whole>>)
             [] OTHER -> /\ Run(<<>>, 0)
                         /\ errors' = errors \cup {pos}
                         /\ IF called THEN Build("error", "::", Left.from, base)
                                      ELSE Build("postfix", "::", Left.from, base)
                         /\ UNCHANGED <<depth, skipped>>

\* A call of the method a $-expression names; the name is a node of its own
\* that begins at the $.
StaticCall ==
    /\ Doing("static call")
    /\ IF Kind = "("
       THEN Do(<<Make("group", "$", 2 * Top[2], Len(nodes) - 1), OptArgs>>)
       ELSE Do(<<>>)

ParsePostfix ==
    /\ Doing("postfix")
    /\ CASE Kind = "(" -> Take(<<<<"args">>, Extend("postfix", "("), Top>>)
         [] Kind = "[" -> Take(<<Value({"]"}), Expect({"]"}), Extend("postfix", "["), Top>>)
         [] Kind = "->" -> Take(<<<<"member name">>, OptArgs, Extend("postfix", "->"), Top>>)
         [] Kind = "::" -> Take(<<<<"static member", TRUE>>, Top>>)
         [] Kind = "++" -> Take(<<Extend("postfix", "++"), Top>>)
         [] OTHER -> Do(<<>>)

\* The parts of a string: text, variables with at most one access, {$...} and
\* ${...}.
InterpParts ==
    /\ Doing("parts")
    /\ CASE Kind = "text" -> Run(<<Top>>, 1) /\ Leaf("atom", Kind) /\ Quietly
         [] Kind = "v" -> Run(<<<<"access">>, Top>>, 1) /\ Leaf("atom", Kind) /\ Quietly
         [] Kind = "{$" -> Take(<<Expr(0), Expect({"}"}), Top>>)
         [] Kind = "${" /\ Nth(1) = "varname" ->
               /\ Run(<<Given({"["}, <<Expr(0), Expect({"]"}), Wrap("postfix", "[", Len(nodes))>>),
                        Expect({"}"}), Wrap("group", Kind, Len(nodes)), Top>>, 2)
               /\ Build("atom", "varname", Start + 2, Len(nodes))
               /\ Quietly
         [] Kind = "${" /\ Nth(1) # "varname" ->
               Take(<<Expr(0), Wrap("group", "$", Len(nodes)), Expect({"}"}), Wrap("group", Kind, Len(nodes)), Top>>)
         [] OTHER -> Do(<<>>)

InterpAccess ==
    \/ /\ Doing("access")
       /\ CASE Kind = "->" -> Run(<<Extend("postfix", Kind)>>, 2) /\ Quietly /\ UNCHANGED nodes
            [] Kind = "[" -> Take(<<<<"offset">>, Expect({"]"}), Extend("postfix", Kind)>>)
            [] OTHER -> Do(<<>>)
    \/ /\ Doing("offset")
       /\ CASE Kind \in {"num", "name", "v"} -> Run(<<>>, 1) /\ Leaf("atom", Kind) /\ Quietly
            [] Kind = "+" -> Run(<<>>, 2) /\ Leaf("atom", "num") /\ Quietly
            [] OTHER -> /\ Run(<<>>, 0)
                        /\ errors' = errors \cup {pos}
                        /\ Leaf("error", Kind)
                        /\ UNCHANGED <<depth, skipped>>

\* A heredoc of text alone is a plain string.
CollapseHeredoc ==
    /\ Doing("collapse")
    /\ Run(<<>>, 0) /\ Quietly
    /\ nodes' = IF Len(nodes) = Top[2] + 1 /\ Last(nodes).op = "text" THEN Front(nodes) ELSE nodes

ParseNew ==
    /\ Doing("new")
    /\ LET Whole == Make("group", "new", 2 * Top[2], Top[3])
           Class == <<OptArgs, Given({"extends"}, <<Expect(AnyIdent)>>), Given({"implements"}, NameList)>>
                    \o ClassBody \o <<Whole>>
           Named == <<<<"class ref">>, OptArgs, Whole>>
           ahead == CHOOSE n \in 0 .. Len(tokens) : Nth(n) \notin {"abstract", "readonly"}
                                                    /\ \A m \in 0 .. n - 1 : Nth(m) \in {"abstract", "readonly"}
       IN  CASE Nth(ahead) = "class" -> Run(Class, ahead + 1) /\ Quietly /\ UNCHANGED nodes
             [] Nth(ahead) # "class" /\ pos > Top[2] + 1 -> Report(Named)
             [] OTHER -> Do(Named)

ClassRef ==
    \/ /\ Doing("class ref")
       /\ LET Rest == <<<<"class member">>>> IN
          CASE Kind \in {"name", "static", "v"} -> Run(Rest, 1) /\ Leaf("atom", Kind) /\ Quietly
            [] Kind = "$" -> Do(<<<<"variable variable">>>> \o Rest)
            [] Kind = "(" -> Take(<<Expr(0), Close, Wrap("group", "(", Len(nodes))>> \o Rest)
            [] OTHER -> /\ Run(Rest, 0)
                        /\ errors' = errors \cup {pos}
                        /\ Leaf("error", Kind)
                        /\ UNCHANGED <<depth, skipped>>
    \/ /\ Doing("class member")
       /\ CASE Kind = "->" -> Take(<<<<"member name">>, Extend("postfix", "->"), Top>>)
            [] Kind = "::" -> Take(<<<<"static member", FALSE>>, Top>>)
            [] Kind = "[" -> Take(<<Value({"]"}), Expect({"]"}), Extend("postfix", "["), Top>>)
            [] OTHER -> Do(<<>>)

Next ==
    \/ ExpectToken \/ GivenToken \/ OptionalValue \/ ListItem \/ LoopRound \/ MakeNode \/ Leave
    \/ StmtOrMarker \/ ParseStatement \/ LoopBody \/ Branches \/ ParseSwitch \/ ParseTry
    \/ StaticVars \/ Declared \/ BlockOrEnd \/ ParseUse \/ EatStmtEnd \/ Synchronize
    \/ Attributes \/ AttributedDecl \/ Declaration \/ ParseClass \/ Modifiers \/ Constants
    \/ ParseParam \/ ParseType \/ ParseMember \/ ParseProperty \/ PropertyHooks \/ TraitAdaptations
    \/ ParseExpr \/ ParseInfix \/ ParsePrefix \/ Decorated \/ MatchArm \/ ArrayItem \/ ParseArgs
    \/ AfterDollar \/ VariableVariable \/ MemberName \/ StaticMember \/ StaticCall
    \/ InterpParts \/ InterpAccess \/ CollapseHeredoc
    \/ ParsePostfix \/ ParseNew \/ ClassRef

Done == todo = <<>>

-----------------------------------------------------------------------------
\* Recovery drops nothing silently: a run of dropped tokens begins at a token
\* with a diagnostic.
DropsAreReported == \A i \in skipped : i \in errors \/ i - 1 \in skipped
=============================================================================
