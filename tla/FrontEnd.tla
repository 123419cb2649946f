------------------------------ MODULE FrontEnd ------------------------------
(***************************************************************************)
(* The lexer and the parser one after the other, as Parser::new calls      *)
(* them: a text becomes tokens, of which the parser is given all but the   *)
(* doc comments.  Some inputs are tokens, which only the parser sees, and  *)
(* some are scraps of text, which only the lexer sees.                     *)
(***************************************************************************)
EXTENDS Parser

CONSTANTS
    Word, Digits,   \* as in Lexer
    Texts,          \* what somebody wrote: sequences of tokens, [kind, chars],
                    \* whose kind is "" for blanks and comments
    Scraps,         \* sequences of symbols
    None            \* nothing in particular

VARIABLES
    text, at, modes, lexed, reports, halting,   \* the lexer's
    written         \* the kinds of the tokens that were written

lexerVars == <<text, at, modes, lexed, reports, halting>>
frontVars == <<vars, lexerVars, written>>

L == INSTANCE Lexer

Kinds(s) == [i \in DOMAIN s |-> s[i].kind]
Chars(s) == FlattenSeq([i \in DOMAIN s |-> s[i].chars])

IsSequence(s) == s \in Seq(Range(s))
IsInput(s) == IsSequence(s) /\ s # <<>> /\ Last(s) = "eof"

ASSUME FrontEndAssumption ==
    /\ L!LexerAssumption
    /\ \A s \in Texts : IsSequence(Chars(s))
    /\ \A s \in Scraps : IsSequence(s)
    /\ \A s \in Inputs : IsInput(s)
    /\ MaxDepth \in Nat

FrontInit ==
    /\ L!Init
    /\ \/ Init /\ text = <<>> /\ written = None
       \/ /\ \E s \in Texts : /\ text = Chars(s)
                              /\ written = SelectSeq(Kinds(s), LAMBDA k : k # "")
          /\ Begin(<<>>)
       \/ text \in Scraps /\ written = None /\ Begin(<<>>)

\* The lexer runs to the end of the text.
Lex == ~L!Done /\ L!Next /\ UNCHANGED <<vars, written>>

\* Parser::new goes over the tokens and keeps all but the doc comments.
Handed ==
    LET upTo[n \in 0 .. Len(lexed)] ==
            IF n = 0 THEN <<>>
            ELSE IF lexed[n].kind = "doc" THEN upTo[n - 1] ELSE Append(upTo[n - 1], lexed[n].kind)
    IN  upTo[Len(lexed)]

HandOver ==
    /\ L!Done /\ tokens = <<>> /\ written # None
    /\ tokens' = Append(Handed, "eof")
    /\ UNCHANGED <<pos, todo, nodes, depth, errors, skipped, lexerVars, written>>

Parse == L!Done /\ tokens # <<>> /\ Next /\ UNCHANGED <<lexerVars, written>>

FrontNext == Lex \/ HandOver \/ Parse

\* A single thread that never blocks.
FrontSpec == FrontInit /\ [][FrontNext]_frontVars /\ WF_frontVars(FrontNext)

-----------------------------------------------------------------------------
\* Whatever strings, heredocs, comments and interpolations are written in each
\* other, the lexer makes of them the tokens that were meant, without a
\* diagnostic, and comes back out of all of them.
AsWritten ==
    L!Done /\ written # None =>
        /\ Kinds(lexed) = written
        /\ reports = {}
        /\ modes = <<L!Scripting>>

\* A blank or a comment from i to the symbol before j; a comment that nothing
\* ends has been reported.
Skippable(i, j) ==
    \/ L!Sym(i) \in L!Blank /\ j = i + 1
    \/ /\ \/ L!Sym(i) = "#" /\ L!Sym(i + 1) # "["
          \/ L!Spells(i, <<"/", "/">>)
       /\ \A k \in i .. j - 1 : L!Sym(k) \notin L!Newline
    \/ /\ L!Spells(i, <<"/", "*">>)
       /\ \/ j >= i + 4 /\ L!Spells(j - 2, <<"*", "/">>)
          \/ j = Len(text) + 1 /\ i \in reports

\* Nothing but these: from i on, each leads to the next, and the last one to j.
IsTrivia(i, j) ==
    \/ i = j
    \/ i < j /\ \E stops \in SUBSET (i + 1 .. j - 1) :
                  \A k \in {i} \cup stops : \E l \in stops \cup {j} : k < l /\ Skippable(k, l)

EndOf(i) == IF i = 0 THEN 1 ELSE lexed[i].to

\* "Total: never panics; returns the token stream": on any text at all there is
\* always a mode to read on in, and no symbol is lost or used twice; what is
\* between two tokens is blank or a comment.
Total ==
    /\ modes # <<>>
    /\ \A i \in DOMAIN lexed : lexed[i].from < lexed[i].to /\ IsTrivia(EndOf(i - 1), lexed[i].from)
    /\ at <= Len(text) + 1 /\ IsTrivia(EndOf(Len(lexed)), at)

\* Both come to an end, on every input.
Parses == <>(L!Done /\ (Done \/ (tokens = <<>> /\ written = None)))
=============================================================================
