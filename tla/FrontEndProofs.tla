--------------------------- MODULE FrontEndProofs ---------------------------
(***************************************************************************)
(* What the lexer and the parser do on every text and every list of        *)
(* tokens.  LexInv says that the tokens so far tile the text up to the     *)
(* cursor, with blanks and comments between them; each lexer action keeps  *)
(* it.  DropInv says what every open loop of the parser still owes: it has *)
(* moved on, or reported something where it stands, or it still has to do  *)
(* a task that surely will.                                                *)
(***************************************************************************)
EXTENDS FrontEnd, TLAPS, SequenceTheorems, WellFoundedInduction

LEMMA SeqIs ==
    ASSUME NEW S, NEW s \in Seq(S)
    PROVE  IsSequence(s)
<1>1. Len(s) \in Nat /\ s \in [1 .. Len(s) -> S]
  OBVIOUS
<1>2. \A i \in 1 .. Len(s) : s[i] \in Range(s)
  BY <1>1 DEF Range
<1>3. s \in [1 .. Len(s) -> Range(s)]
  BY <1>1, <1>2
<1> QED BY <1>1, <1>3 DEF IsSequence

LEMMA SeqAppend ==
    ASSUME NEW s, IsSequence(s), NEW x
    PROVE  /\ IsSequence(Append(s, x)) /\ Len(Append(s, x)) = Len(s) + 1
           /\ Append(s, x)[Len(s) + 1] = x
           /\ \A i \in 1 .. Len(s) : Append(s, x)[i] = s[i]
           /\ Append(s, x) # <<>>
<1>1. s \in Seq(Range(s) \cup {x})
  BY DEF IsSequence
<1>2. Append(s, x) \in Seq(Range(s) \cup {x})
  BY <1>1
<1> QED BY <1>1, <1>2 DEF IsSequence, Range

LEMMA SeqConcat ==
    ASSUME NEW s, IsSequence(s), NEW t, IsSequence(t)
    PROVE  /\ IsSequence(s \o t) /\ Len(s \o t) = Len(s) + Len(t)
           /\ \A i \in 1 .. Len(s) : (s \o t)[i] = s[i]
           /\ \A i \in 1 .. Len(t) : (s \o t)[Len(s) + i] = t[i]
<1>1. s \in Seq(Range(s) \cup Range(t)) /\ t \in Seq(Range(s) \cup Range(t))
  BY DEF IsSequence
<1>2. s \o t \in Seq(Range(s) \cup Range(t))
  BY <1>1
<1>3. /\ Len(s \o t) = Len(s) + Len(t)
      /\ \A i \in 1 .. Len(s) : (s \o t)[i] = s[i]
      /\ \A i \in 1 .. Len(t) : (s \o t)[Len(s) + i] = t[i]
  BY <1>1, ConcatProperties
<1> QED BY <1>2, <1>3, SeqIs

\* What is trivia stays it.
LEMMA TriviaStays ==
    ASSUME NEW i, NEW j, IsTrivia(i, j), text' = text, reports \subseteq reports'
    PROVE  IsTrivia(i, j)'
<1>1. ASSUME NEW k, NEW l, Skippable(k, l)
      PROVE  Skippable(k, l)'
  BY <1>1 DEF Skippable, L!Sym, L!Spells
<1> QED BY <1>1 DEF IsTrivia

LEMMA TriviaGrows ==
    ASSUME NEW i \in Nat, NEW j \in Nat, NEW k \in Nat, IsTrivia(i, j)', j < k, Skippable(j, k)'
    PROVE  IsTrivia(i, k)'
<1>1. CASE i = j
  <2>1. {} \in SUBSET (i + 1 .. k - 1)
    OBVIOUS
  <2>2. \A m \in {i} \cup {} : \E l \in {} \cup {k} : m < l /\ Skippable(m, l)'
    BY <1>1
  <2>3. i < k
    BY <1>1
  <2> QED BY <2>1, <2>2, <2>3 DEF IsTrivia
<1>2. CASE i # j
  <2>1. PICK stops \in SUBSET (i + 1 .. j - 1) :
                \A m \in {i} \cup stops : \E l \in stops \cup {j} : m < l /\ Skippable(m, l)'
    BY <1>2 DEF IsTrivia
  <2>2. i < j
    BY <1>2 DEF IsTrivia
  <2>3. stops \cup {j} \in SUBSET (i + 1 .. k - 1)
    BY <2>2
  <2>4. ASSUME NEW m \in {i} \cup (stops \cup {j})
        PROVE  \E l \in (stops \cup {j}) \cup {k} : m < l /\ Skippable(m, l)'
    <3>1. CASE m = j
      BY <3>1
    <3>2. CASE m # j
      BY <2>1, <3>2
    <3> QED BY <3>1, <3>2
  <2>5. i < k
    BY <2>2
  <2> HIDE <2>1
  <2> QED BY <2>3, <2>4, <2>5 DEF IsTrivia
<1> QED BY <1>1, <1>2

-----------------------------------------------------------------------------
\* The least of some numbers.
LEMMA MinIn ==
    ASSUME NEW S \in SUBSET Nat, S # {}
    PROVE  L!Min(S) \in S /\ \A y \in S : L!Min(S) <= y
<1> DEFINE less == {ss \in Nat \X Nat : ss[1] < ss[2]}
<1>1. IsWellFoundedOn(less, Nat)
  <2>1. OpToRel(<, Nat) = less
     BY DEF OpToRel
  <2> QED BY <2>1, NatLessThanWellFounded
<1> HIDE DEF less
<1>2. PICK x \in S : \A y \in S : ~ (<<y, x>> \in less)
  BY <1>1, WFMin
<1>3. ASSUME NEW y \in S
      PROVE  x <= y
  <2>1. ~ (y < x)
    BY <1>2 DEF less
  <2> QED BY <2>1
<1> DEFINE m == CHOOSE z \in S : \A y \in S : z <= y
<1>4. m \in S /\ \A y \in S : m <= y
  BY <1>3
<1>5. L!Min(S) = m
  BY DEF L!Min
<1> HIDE DEF m
<1> QED BY <1>4, <1>5

LEMMA FirstIs ==
    ASSUME IsSequence(text), NEW from \in Nat, NEW S \in SUBSET (from .. Len(text)), from <= Len(text) + 1
    PROVE  /\ L!First(S) \in from .. Len(text) + 1
           /\ L!First(S) <= Len(text) => L!First(S) \in S
           /\ \A i \in from .. L!First(S) - 1 : i \notin S
<1>1. Len(text) \in Nat
  BY DEF IsSequence
<1>2. CASE S = {}
  BY <1>1, <1>2 DEF L!First
<1>3. CASE S # {}
  <2>1. L!Min(S) \in S /\ \A y \in S : L!Min(S) <= y
    BY <1>1, <1>3, MinIn
  <2>2. L!First(S) = L!Min(S)
    BY <1>3 DEF L!First
  <2>3. \A y \in S : y \in Nat /\ y >= from /\ y <= Len(text)
    BY <1>1
  <2> DEFINE m == L!Min(S)
  <2>4. m \in S /\ \A y \in S : m <= y
    BY <2>1
  <2>5. L!First(S) = m
    BY <2>2
  <2> HIDE DEF m
  <2>6. m \in from .. Len(text) + 1
    BY <1>1, <2>3, <2>4
  <2>7. \A i \in from .. m - 1 : i \notin S
    BY <1>1, <2>3, <2>4, <2>6
  <2> QED BY <2>4, <2>5, <2>6, <2>7
<1> QED BY <1>2, <1>3

\* What is a symbol of the text, and not its end.
LEMMA SymIs ==
    ASSUME IsSequence(text), NEW i
    PROVE  /\ Len(text) \in Nat /\ DOMAIN text = 1 .. Len(text)
           /\ L!Sym(i) # "end-of-text" => i \in 1 .. Len(text)
           /\ L!Sym(i) \in Word \cup Digits => i \in 1 .. Len(text)
<1>1. text \in Seq(Range(text))
  BY DEF IsSequence
<1>2. DOMAIN text = 1 .. Len(text) /\ Len(text) \in Nat
  BY <1>1
<1>3. "end-of-text" \notin Word /\ "end-of-text" \notin Digits
  BY FrontEndAssumption DEF L!LexerAssumption
<1>4. L!Sym(i) # "end-of-text" => i \in DOMAIN text
  BY DEF L!Sym
<1> QED BY <1>2, <1>3, <1>4

-----------------------------------------------------------------------------
\* Tokens one behind the other.
Chunk(s, from, to) ==
    /\ IsSequence(s)
    /\ \A i \in DOMAIN s : /\ s[i].from \in Nat /\ s[i].to \in Nat /\ s[i].from < s[i].to
                           /\ s[i].from = (IF i = 1 THEN from ELSE s[i - 1].to)
    /\ to = IF s = <<>> THEN from ELSE s[Len(s)].to

LexedOK == IsSequence(lexed) /\ \A i \in DOMAIN lexed : lexed[i].from \in Nat /\ lexed[i].to \in Nat

Gaps == \A i \in DOMAIN lexed : lexed[i].from < lexed[i].to /\ IsTrivia(EndOf(i - 1), lexed[i].from)

Bottom(mode) == mode[1] \in {"initial", "scripting"}
Labelled(mode) == mode[1] = "heredoc" => mode[2] \in Word

ModesOK ==
    /\ IsSequence(modes) /\ modes # <<>> /\ Bottom(modes[1])
    /\ \A i \in DOMAIN modes : Labelled(modes[i])

LexInv ==
    /\ IsSequence(text)
    /\ at \in 1 .. Len(text) + 1
    /\ LexedOK
    /\ Gaps
    /\ IsTrivia(EndOf(Len(lexed)), at)
    /\ ModesOK

Reads == \E more : Chunk(more, at, at') /\ lexed' = lexed \o more

Skips ==
    /\ at < at' /\ lexed' = lexed
    /\ \E from \in {at}, to \in {at'} : Skippable(from, to)'

LexStep ==
    /\ text' = text /\ reports \subseteq reports'
    /\ at' \in 1 .. Len(text) + 1
    /\ Reads \/ Skips
    /\ ModesOK'

LEMMA StepKeepsLexInv ==
    ASSUME LexInv, LexStep
    PROVE  LexInv'
<1>1. IsSequence(text)' /\ (at \in 1 .. Len(text) + 1)' /\ ModesOK'
  BY DEF LexInv, LexStep, IsSequence
<1>2. /\ Len(lexed) \in Nat /\ DOMAIN lexed = 1 .. Len(lexed) /\ Len(text) \in Nat
      /\ at \in Nat /\ at' \in Nat /\ IsSequence(lexed)
  BY DEF LexInv, LexedOK, IsSequence, LexStep
<1>3. EndOf(Len(lexed)) \in Nat
  BY <1>2 DEF LexInv, LexedOK, EndOf
<1>4. ASSUME NEW x, NEW y, IsTrivia(x, y)
      PROVE  IsTrivia(x, y)'
  BY <1>4, TriviaStays DEF LexStep
<1>5. \A x \in Nat : IsTrivia(x, x)'
  BY DEF IsTrivia
<1>6. CASE Reads
  <2>1. PICK more : Chunk(more, at, at') /\ lexed' = lexed \o more
    BY <1>6 DEF Reads
  <2>2. IsSequence(more) /\ Len(more) \in Nat /\ DOMAIN more = 1 .. Len(more)
    BY <2>1 DEF Chunk, IsSequence
  <2>3. /\ IsSequence(lexed') /\ Len(lexed') = Len(lexed) + Len(more)
        /\ \A i \in 1 .. Len(lexed) : lexed'[i] = lexed[i]
        /\ \A i \in 1 .. Len(more) : lexed'[Len(lexed) + i] = more[i]
    BY <1>2, <2>1, <2>2, SeqConcat
  <2>4. DOMAIN lexed' = 1 .. Len(lexed) + Len(more)
    BY <1>2, <2>2, <2>3 DEF IsSequence
  <2>5. \A i \in 1 .. Len(lexed) + Len(more) : i \in 1 .. Len(lexed) \/ i - Len(lexed) \in 1 .. Len(more)
    BY <1>2, <2>2
  <2>6. LexedOK'
    <3>1. ASSUME NEW i \in DOMAIN lexed'
          PROVE  lexed'[i].from \in Nat /\ lexed'[i].to \in Nat
      <4>1. CASE i \in 1 .. Len(lexed)
        BY <1>2, <2>3, <4>1 DEF LexInv, LexedOK
      <4>2. CASE i - Len(lexed) \in 1 .. Len(more)
        <5>1. lexed'[i] = more[i - Len(lexed)]
          BY <1>2, <2>2, <2>3, <2>4, <4>2
        <5> QED BY <2>1, <2>2, <4>2, <5>1 DEF Chunk
      <4> QED BY <2>4, <2>5, <4>1, <4>2
    <3> QED BY <2>3, <3>1 DEF LexedOK, IsSequence
  <2>7. Gaps'
    <3>1. ASSUME NEW i \in 1 .. Len(lexed)
          PROVE  (lexed[i].from < lexed[i].to /\ IsTrivia(EndOf(i - 1), lexed[i].from))'
      <4>1. lexed[i].from < lexed[i].to /\ IsTrivia(EndOf(i - 1), lexed[i].from)
        BY <1>2 DEF LexInv, Gaps
      <4>2. EndOf(i - 1)' = EndOf(i - 1) /\ lexed'[i] = lexed[i]
        BY <1>2, <2>3 DEF EndOf
      <4> QED BY <1>4, <4>1, <4>2
    <3>2. ASSUME NEW k \in 1 .. Len(more), NEW i \in Nat, i = Len(lexed) + k
          PROVE  (lexed[i].from < lexed[i].to /\ IsTrivia(EndOf(i - 1), lexed[i].from))'
      <4>1. lexed'[i] = more[k]
        BY <2>3, <3>2
      <4>2. more[k].from \in Nat /\ more[k].from < more[k].to
        BY <2>1, <2>2 DEF Chunk
      <4>3. CASE k = 1
        <5>1. more[k].from = at
          BY <2>1, <2>2, <4>3 DEF Chunk
        <5>2. EndOf(i - 1)' = EndOf(Len(lexed))
          BY <1>2, <2>3, <3>2, <4>3 DEF EndOf
        <5>3. IsTrivia(EndOf(Len(lexed)), at)
          BY DEF LexInv
        <5> QED BY <1>4, <4>1, <4>2, <5>1, <5>2, <5>3
      <4>4. CASE k # 1
        <5>1. more[k].from = more[k - 1].to
          BY <2>1, <2>2, <4>4 DEF Chunk
        <5>2. lexed'[i - 1] = more[k - 1] /\ i - 1 # 0
          <6>1. k - 1 \in 1 .. Len(more) /\ i - 1 = Len(lexed) + (k - 1) /\ i - 1 # 0
            BY <1>2, <2>2, <3>2, <4>4
          <6> QED BY <2>3, <6>1
        <5>3. EndOf(i - 1)' = more[k].from
          BY <5>1, <5>2 DEF EndOf
        <5> QED BY <1>5, <4>1, <4>2, <5>3
      <4> QED BY <4>3, <4>4
    <3>3. ASSUME NEW i \in DOMAIN lexed'
          PROVE  (lexed[i].from < lexed[i].to /\ IsTrivia(EndOf(i - 1), lexed[i].from))'
      <4>1. CASE i \in 1 .. Len(lexed)
        BY <3>1, <4>1
      <4>2. CASE i - Len(lexed) \in 1 .. Len(more)
        <5>1. i \in Nat /\ i = Len(lexed) + (i - Len(lexed))
          BY <1>2, <2>2, <2>4
        <5> QED BY <3>2, <4>2, <5>1
      <4> QED BY <2>4, <2>5, <4>1, <4>2
    <3> QED BY <3>3 DEF Gaps
  <2>8. IsTrivia(EndOf(Len(lexed)), at)'
    <3>1. CASE more = <<>>
      <4>1. Len(more) = 0 /\ at' = at
        BY <2>1, <3>1 DEF Chunk
      <4>2. EndOf(Len(lexed))' = EndOf(Len(lexed))
        BY <1>2, <2>3, <4>1 DEF EndOf
      <4> QED BY <1>4, <4>1, <4>2 DEF LexInv
    <3>2. CASE more # <<>>
      <4>1. Len(more) \in 1 .. Len(more)
        BY <2>2, <3>2 DEF IsSequence
      <4>2. lexed'[Len(lexed')] = more[Len(more)] /\ Len(lexed') # 0
        <5>1. lexed'[Len(lexed) + Len(more)] = more[Len(more)]
          BY <2>3, <4>1
        <5> QED BY <1>2, <2>2, <2>3, <4>1, <5>1
      <4>3. at' = more[Len(more)].to
        BY <2>1, <3>2 DEF Chunk
      <4>4. EndOf(Len(lexed))' = at'
        BY <4>2, <4>3 DEF EndOf
      <4> QED BY <1>2, <1>5, <4>4
    <3> QED BY <3>1, <3>2
  <2> QED BY <1>1, <2>6, <2>7, <2>8 DEF LexInv, LexStep
<1>7. CASE Skips
  <2> USE DEF Skips
  <2>1. LexedOK'
    BY <1>7 DEF LexInv, LexedOK, IsSequence
  <2>2. \A i : EndOf(i)' = EndOf(i)
    BY <1>7 DEF EndOf
  <2>3. Gaps'
    <3>1. ASSUME NEW i \in DOMAIN lexed
          PROVE  (lexed[i].from < lexed[i].to /\ IsTrivia(EndOf(i - 1), lexed[i].from))'
      BY <1>4, <1>7, <2>2 DEF LexInv, Gaps
    <3> QED BY <1>7, <3>1 DEF Gaps
  <2>4. IsTrivia(EndOf(Len(lexed)), at)'
    <3>1. IsTrivia(EndOf(Len(lexed)), at)
      BY DEF LexInv
    <3>2. EndOf(Len(lexed))' = EndOf(Len(lexed))
      BY <1>7, <2>2
    <3>3. ASSUME NEW i \in Nat, NEW j \in Nat, NEW k \in Nat, IsTrivia(i, j), j < k, Skippable(j, k)'
          PROVE  IsTrivia(i, k)'
      BY <1>4, <3>3, TriviaGrows
    <3>4. PICK x \in Nat, y \in Nat, z \in Nat : x = EndOf(Len(lexed)) /\ y = at /\ z = at'
      BY <1>2, <1>3
    <3>5. IsTrivia(x, z)'
      <4>1. IsTrivia(x, y) /\ y < z /\ Skippable(y, z)'
        BY <1>7, <3>1, <3>4
      <4> QED BY <3>3, <4>1
    <3> QED BY <3>2, <3>4, <3>5
  <2> QED BY <1>1, <2>1, <2>3, <2>4 DEF LexInv, LexStep
<1> QED BY <1>1, <1>6, <1>7 DEF LexInv, LexStep

-----------------------------------------------------------------------------
\* The stack of modes.
LEMMA ModesPush ==
    ASSUME ModesOK, NEW m, Labelled(m), modes' = Append(modes, m)
    PROVE  ModesOK'
<1>1. Len(modes) \in Nat /\ Len(modes) >= 1 /\ DOMAIN modes = 1 .. Len(modes) /\ IsSequence(modes)
  BY DEF ModesOK, IsSequence
<1>2. /\ IsSequence(modes') /\ Len(modes') = Len(modes) + 1 /\ modes' # <<>>
      /\ modes'[Len(modes) + 1] = m /\ \A i \in 1 .. Len(modes) : modes'[i] = modes[i]
  BY <1>1, SeqAppend
<1>3. DOMAIN modes' = 1 .. Len(modes) + 1
  BY <1>1, <1>2 DEF IsSequence
<1>4. ASSUME NEW i \in 1 .. Len(modes) + 1
      PROVE  Labelled(modes'[i])
  <2>1. CASE i = Len(modes) + 1
    BY <1>2, <2>1
  <2>2. CASE i \in 1 .. Len(modes)
    BY <1>1, <1>2, <2>2 DEF ModesOK
  <2> QED BY <1>1, <2>1, <2>2
<1>5. Bottom(modes'[1])
  BY <1>1, <1>2 DEF ModesOK
<1> QED BY <1>2, <1>3, <1>4, <1>5 DEF ModesOK, Bottom, Labelled

LEMMA ModesFront ==
    ASSUME ModesOK
    PROVE  /\ Len(modes) \in Nat /\ Len(modes) >= 1
           /\ IsSequence(L!Front(modes)) /\ Len(L!Front(modes)) = Len(modes) - 1
           /\ DOMAIN L!Front(modes) = 1 .. Len(modes) - 1
           /\ \A i \in 1 .. Len(modes) - 1 : L!Front(modes)[i] = modes[i] /\ Labelled(modes[i])
<1>1. modes \in Seq(Range(modes)) /\ modes # <<>>
  BY DEF ModesOK, IsSequence
<1>2. Len(modes) \in Nat /\ Len(modes) >= 1
  BY <1>1
<1>3. L!Front(modes) = SubSeq(modes, 1, Len(modes) - 1)
  BY DEF L!Front
<1>4. \A i \in 1 .. Len(modes) - 1 : modes[i] \in Range(modes)
  BY <1>1 DEF Range
<1>5. /\ SubSeq(modes, 1, Len(modes) - 1) \in Seq(Range(modes))
      /\ Len(SubSeq(modes, 1, Len(modes) - 1)) = IF 1 <= Len(modes) - 1 THEN Len(modes) - 1 - 1 + 1 ELSE 0
      /\ \A i \in 1 .. Len(modes) - 1 - 1 + 1 : SubSeq(modes, 1, Len(modes) - 1)[i] = modes[1 + i - 1]
  BY <1>2, <1>4, SubSeqProperties
<1> HIDE DEF L!Front
<1>6. Len(L!Front(modes)) = Len(modes) - 1
  <2>1. \A n \in Nat : n >= 1 => (IF 1 <= n - 1 THEN n - 1 - 1 + 1 ELSE 0) = n - 1
    OBVIOUS
  <2> QED BY <1>2, <1>3, <1>5, <2>1
<1>7. ASSUME NEW i \in 1 .. Len(modes) - 1
      PROVE  L!Front(modes)[i] = modes[i] /\ Labelled(modes[i])
  <2>1. i \in 1 .. Len(modes) - 1 - 1 + 1 /\ 1 + i - 1 = i /\ i \in DOMAIN modes
    BY <1>1, <1>2
  <2> QED BY <1>3, <1>5, <2>1 DEF ModesOK
<1>8. IsSequence(L!Front(modes))
  BY <1>3, <1>5, SeqIs
<1>9. DOMAIN L!Front(modes) = 1 .. Len(modes) - 1
  BY <1>6, <1>8 DEF IsSequence
<1> QED BY <1>2, <1>6, <1>7, <1>8, <1>9

LEMMA ModesPop ==
    ASSUME ModesOK, Len(modes) > 1, modes' = L!Front(modes)
    PROVE  ModesOK'
<1>1. L!Front(modes) # <<>> /\ 1 \in 1 .. Len(modes) - 1
  BY ModesFront
<1>2. Bottom(modes'[1])
  BY <1>1, ModesFront DEF ModesOK
<1>3. \A i \in DOMAIN modes' : Labelled(modes'[i])
  BY ModesFront
<1> QED BY <1>1, <1>2, <1>3, ModesFront DEF ModesOK, Bottom, Labelled

LEMMA ModesBecome ==
    ASSUME ModesOK, NEW m, Labelled(m), modes' = Append(L!Front(modes), m), Len(modes) > 1 \/ Bottom(m)
    PROVE  ModesOK'
<1>1. /\ IsSequence(modes') /\ modes' # <<>> /\ modes'[Len(L!Front(modes)) + 1] = m
      /\ \A i \in 1 .. Len(L!Front(modes)) : modes'[i] = L!Front(modes)[i]
      /\ Len(modes') = Len(L!Front(modes)) + 1
  BY ModesFront, SeqAppend
<1>2. DOMAIN modes' = 1 .. Len(modes)
  BY <1>1, ModesFront DEF IsSequence
<1>3. ASSUME NEW i \in 1 .. Len(modes)
      PROVE  Labelled(modes'[i])
  <2>1. CASE i = Len(modes)
    BY <1>1, <2>1, ModesFront
  <2>2. CASE i \in 1 .. Len(modes) - 1
    BY <1>1, <2>2, ModesFront
  <2> QED BY <2>1, <2>2, ModesFront
<1>4. Bottom(modes'[1])
  <2>1. CASE Len(modes) > 1
    <3>1. modes'[1] = modes[1]
      BY <1>1, <2>1, ModesFront
    <3> QED BY <3>1 DEF ModesOK
  <2>2. CASE Len(modes) = 1
    BY <1>1, <2>2, ModesFront
  <2> QED BY <2>1, <2>2, ModesFront
<1> QED BY <1>1, <1>2, <1>3, <1>4 DEF ModesOK, Bottom, Labelled

LEMMA ModesLast ==
    ASSUME ModesOK
    PROVE  Labelled(L!Last(modes)) /\ (~Bottom(L!Last(modes)) => Len(modes) > 1)
<1>1. Len(modes) \in Nat /\ Len(modes) >= 1 /\ DOMAIN modes = 1 .. Len(modes)
  BY ModesFront DEF ModesOK, IsSequence
<1>2. L!Last(modes) = modes[Len(modes)]
  BY DEF L!Last
<1>3. Labelled(L!Last(modes))
  BY <1>1, <1>2 DEF ModesOK
<1>4. Len(modes) = 1 => Bottom(L!Last(modes))
  BY <1>2 DEF ModesOK
<1>5. \A n \in Nat : n >= 1 /\ n # 1 => n > 1
  OBVIOUS
<1> QED BY <1>1, <1>3, <1>4, <1>5

LEMMA ModesStay == ASSUME ModesOK, modes' = modes PROVE ModesOK'
BY DEF ModesOK, Bottom, Labelled

-----------------------------------------------------------------------------
\* A step that makes tokens, or skips what is blank.
LEMMA OneToken ==
    ASSUME NEW kind, NEW from \in Nat, NEW to \in Nat, from < to
    PROVE  Chunk(<<L!Token(kind, from, to)>>, from, to)
<1>1. /\ L!Token(kind, from, to).from = from /\ L!Token(kind, from, to).to = to
  BY DEF L!Token
<1> DEFINE t == L!Token(kind, from, to)
<1> HIDE DEF t
<1>2. IsSequence(<<t>>)
  <2>1. <<t>> \in Seq({t})
    OBVIOUS
  <2> QED BY <2>1, SeqIs
<1>3. t.from = from /\ t.to = to
  BY <1>1 DEF t
<1>4. Chunk(<<t>>, from, to)
  BY <1>2, <1>3 DEF Chunk
<1> QED BY <1>4 DEF t

LEMMA MoreTokens ==
    ASSUME NEW s, NEW a \in Nat, NEW b \in Nat, NEW c \in Nat, NEW kind, Chunk(s, a, b), b < c
    PROVE  /\ Chunk(s \o <<L!Token(kind, b, c)>>, a, c)
           /\ Chunk(Append(s, L!Token(kind, b, c)), a, c)
<1> DEFINE t == L!Token(kind, b, c)
<1>1. t.from = b /\ t.to = c
  BY DEF L!Token
<1> HIDE DEF t
<1>2. /\ IsSequence(s) /\ Len(s) \in Nat /\ DOMAIN s = 1 .. Len(s)
  BY DEF Chunk, IsSequence
<1>3. s \o <<t>> = Append(s, t)
  BY <1>2 DEF IsSequence
<1>4. /\ IsSequence(Append(s, t)) /\ Len(Append(s, t)) = Len(s) + 1
      /\ Append(s, t)[Len(s) + 1] = t
      /\ \A i \in 1 .. Len(s) : Append(s, t)[i] = s[i]
      /\ Append(s, t) # <<>>
  BY <1>2, SeqAppend
<1>5. DOMAIN Append(s, t) = 1 .. Len(s) + 1
  BY <1>4 DEF IsSequence
<1> DEFINE r == Append(s, t)
<1>6. ASSUME NEW i \in 1 .. Len(s) + 1
      PROVE  /\ r[i].from \in Nat /\ r[i].to \in Nat /\ r[i].from < r[i].to
             /\ r[i].from = (IF i = 1 THEN a ELSE r[i - 1].to)
  <2>1. CASE i \in 1 .. Len(s)
    <3>1. r[i] = s[i] /\ (i # 1 => r[i - 1] = s[i - 1])
      BY <1>2, <1>4, <2>1
    <3> QED BY <1>2, <2>1, <3>1 DEF Chunk
  <2>2. CASE i = Len(s) + 1
    <3>1. r[i] = t
      BY <1>4, <2>2
    <3>2. b = IF i = 1 THEN a ELSE r[i - 1].to
      <4>1. CASE i = 1
        <5>1. s = <<>>
          BY <1>2, <2>2, <4>1 DEF IsSequence
        <5> QED BY <4>1, <5>1 DEF Chunk
      <4>2. CASE i # 1
        <5>1. i - 1 = Len(s) /\ Len(s) \in 1 .. Len(s) /\ s # <<>>
          BY <1>2, <2>2, <4>2
        <5>2. r[i - 1] = s[Len(s)]
          BY <1>4, <5>1
        <5> QED BY <4>2, <5>1, <5>2 DEF Chunk
      <4> QED BY <4>1, <4>2
    <3> QED BY <1>1, <3>1, <3>2
  <2> QED BY <1>2, <2>1, <2>2
<1>7. Chunk(r, a, c)
  BY <1>1, <1>4, <1>5, <1>6 DEF Chunk
<1> QED BY <1>3, <1>7 DEF t

\* A token to here.
Emits(to) == \E kind : L!Emit(kind, to)

LEMMA LexEmits ==
    ASSUME LexInv, NEW to \in at + 1 .. Len(text) + 1, Emits(to),
           text' = text, reports \subseteq reports', ModesOK'
    PROVE  LexStep
<1>1. at \in Nat /\ at >= 1 /\ Len(text) \in Nat /\ to \in Nat /\ at < to /\ IsSequence(lexed)
  BY DEF LexInv, IsSequence, LexedOK
<1>2. PICK kind : lexed' = Append(lexed, L!Token(kind, at, to)) /\ at' = to
  BY DEF L!Emit, Emits
<1>3. lexed' = lexed \o <<L!Token(kind, at, to)>>
  BY <1>1, <1>2 DEF IsSequence
<1>4. Chunk(<<L!Token(kind, at, to)>>, at, at')
  BY <1>1, <1>2, OneToken
<1>5. Reads
  BY <1>3, <1>4 DEF Reads
<1> QED BY <1>1, <1>2, <1>5 DEF LexStep

LEMMA LexSkips ==
    ASSUME LexInv, NEW to \in at .. Len(text) + 1, L!Skip(to),
           text' = text, reports \subseteq reports', ModesOK',
           to = at \/ \E from \in {at}, behind \in {to} : Skippable(from, behind)'
    PROVE  LexStep
<1>1. at \in Nat /\ at >= 1 /\ Len(text) \in Nat /\ to \in Nat /\ at <= to
  BY DEF LexInv, IsSequence
<1>2. lexed' = lexed /\ at' = to
  BY DEF L!Skip
<1>3. CASE to = at
  <2>1. Chunk(<<>>, at, at')
    <3>1. IsSequence(<<>>)
      <4>1. <<>> \in Seq({})
        OBVIOUS
      <4> QED BY <4>1, SeqIs
    <3> QED BY <1>2, <1>3, <3>1 DEF Chunk
  <2>2. lexed' = lexed \o <<>>
    <3>1. lexed \in Seq(Range(lexed))
      BY DEF LexInv, LexedOK, IsSequence
    <3> QED BY <1>2, <3>1, ConcatEmptySeq
  <2>3. Reads
    BY <2>1, <2>2 DEF Reads
  <2>4. at' \in 1 .. Len(text) + 1
    BY <1>1, <1>2, <1>3
  <2> QED BY <2>3, <2>4 DEF LexStep
<1>4. CASE to # at
  BY <1>1, <1>2, <1>4 DEF LexStep, Skips
<1> QED BY <1>3, <1>4

-----------------------------------------------------------------------------
\* Looking ahead.
LEMMA AtIs ==
    ASSUME LexInv, ~L!Done
    PROVE  at \in 1 .. Len(text) /\ at \in Nat /\ Len(text) \in Nat /\ IsSequence(text) /\ ModesOK
BY DEF LexInv, L!Done, IsSequence

LEMMA SpellsIs ==
    ASSUME IsSequence(text), NEW i \in Nat, NEW a, NEW b, a # "end-of-text", b # "end-of-text",
           L!Spells(i, <<a, b>>)
    PROVE  i \in 1 .. Len(text) /\ i + 1 \in 1 .. Len(text) /\ L!Sym(i) = a /\ L!Sym(i + 1) = b
<1> DEFINE s == <<a, b>>
<1>0. 1 \in DOMAIN s /\ 2 \in DOMAIN s /\ s[1] = a /\ s[2] = b
  OBVIOUS
<1>1. L!Sym(i + 1 - 1) = a /\ L!Sym(i + 2 - 1) = b
  <2>1. \A k \in DOMAIN s : L!Sym(i + k - 1) = s[k]
    BY DEF L!Spells
  <2> HIDE DEF s
  <2> QED BY <1>0, <2>1
<1>2. i + 1 - 1 = i /\ i + 2 - 1 = i + 1
  OBVIOUS
<1> QED BY <1>1, <1>2, SymIs

LEMMA NoSpaceIs ==
    ASSUME IsSequence(text), NEW i \in Nat, i <= Len(text) + 1
    PROVE  L!NoSpace(i) \in i .. Len(text) + 1
<1> DEFINE stops == {k \in i .. Len(text) : L!Sym(k) # " "}
<1>1. L!NoSpace(i) = L!First(stops)
  BY DEF L!NoSpace, L!From
<1>2. stops \in SUBSET (i .. Len(text))
  OBVIOUS
<1> HIDE DEF stops
<1> QED BY <1>1, <1>2, FirstIs

LEMMA EndOfLineIs ==
    ASSUME IsSequence(text), NEW i \in Nat, i <= Len(text) + 1
    PROVE  /\ L!EndOfCode(i) \in i .. Len(text) + 1
           /\ \A k \in i .. L!EndOfCode(i) - 1 : L!Sym(k) \notin L!Newline
<1> DEFINE stops == {k \in i .. Len(text) : L!Sym(k) \in L!Newline \/ L!Spells(k, <<"?", ">">>)}
<1>1. L!EndOfCode(i) = L!First(stops)
  BY DEF L!EndOfCode, L!From
<1>2. /\ L!EndOfCode(i) \in i .. Len(text) + 1
      /\ \A k \in i .. L!EndOfCode(i) - 1 : k \notin stops
  <2>1. stops \in SUBSET (i .. Len(text))
    OBVIOUS
  <2> HIDE DEF stops
  <2> QED BY <1>1, <2>1, FirstIs
<1>3. Len(text) \in Nat
  BY SymIs
<1>4. ASSUME NEW k \in i .. L!EndOfCode(i) - 1
      PROVE  L!Sym(k) \notin L!Newline
  <2>1. k \in i .. Len(text)
    BY <1>2, <1>3
  <2> QED BY <1>2, <2>1
<1> QED BY <1>2, <1>4

LEMMA EndOfCommentIs ==
    ASSUME IsSequence(text), NEW i \in Nat, i <= Len(text) + 1
    PROVE  /\ L!EndOfComment(i) \in i .. Len(text) + 1
           /\ \/ L!EndOfComment(i) >= i + 2 /\ L!Spells(L!EndOfComment(i) - 2, <<"*", "/">>)
              \/ L!EndOfComment(i) = Len(text) + 1
<1> DEFINE stops == {k \in i .. Len(text) : L!Spells(k, <<"*", "/">>)}
           found == L!First(stops)
           end == L!Min({Len(text) + 1, found + 2})
<1>1. L!EndOfComment(i) = end
  BY DEF L!EndOfComment, L!From
<1>2. found \in i .. Len(text) + 1 /\ (found <= Len(text) => found \in stops)
  <2>1. stops \in SUBSET (i .. Len(text))
    OBVIOUS
  <2> HIDE DEF stops
  <2> QED BY <2>1, FirstIs
<1>3. Len(text) \in Nat
  BY SymIs
<1>4. end \in {Len(text) + 1, found + 2} /\ end <= Len(text) + 1 /\ end <= found + 2
  <2>1. {Len(text) + 1, found + 2} \in SUBSET Nat
    BY <1>2, <1>3
  <2> QED BY <2>1, MinIn
<1> HIDE DEF end
<1>5. CASE found <= Len(text)
  <2>1. L!Spells(found, <<"*", "/">>)
    BY <1>2, <1>5
  <2>2. found + 1 <= Len(text)
    BY <1>2, <1>3, <2>1, SpellsIs
  <2> HIDE DEF found
  <2>3. end = found + 2
    BY <1>2, <1>3, <1>4, <2>2
  <2>4. end - 2 = found
    BY <1>2, <2>3
  <2> QED BY <1>1, <1>2, <1>3, <2>1, <2>2, <2>3, <2>4
<1>6. CASE ~(found <= Len(text))
  <2> HIDE DEF found
  <2> QED BY <1>1, <1>2, <1>3, <1>4, <1>6
<1> QED BY <1>5, <1>6

LEMMA Ahead ==
    ASSUME LexInv, ~L!Done
    PROVE  /\ at + 1 \in at + 1 .. Len(text) + 1
           /\ \A n \in Nat : L!C(n) # "end-of-text" \/ L!C(n) \in Word \cup Digits =>
                               at + (n + 1) \in at + 1 .. Len(text) + 1
<1>1. at + 1 \in at + 1 .. Len(text) + 1
  BY AtIs
<1>2. ASSUME NEW n \in Nat, L!C(n) # "end-of-text" \/ L!C(n) \in Word \cup Digits
      PROVE  at + (n + 1) \in at + 1 .. Len(text) + 1
  <2>1. at + n \in 1 .. Len(text)
    BY <1>2, AtIs, SymIs DEF L!C
  <2> QED BY <2>1, AtIs
<1> QED BY <1>1, <1>2

LEMMA LineAfterIs ==
    ASSUME IsSequence(text), NEW i \in Nat, i >= 1, i <= Len(text) + 1
    PROVE  L!LineAfter(i) \in i .. Len(text) + 1
<1>1. Len(text) \in Nat
  BY SymIs
<1>2. CASE L!Spells(i, <<"\r", "\n">>)
  <2>1. i + 1 \in 1 .. Len(text)
    BY <1>2, SpellsIs
  <2> QED BY <1>1, <1>2, <2>1 DEF L!LineAfter
<1>3. CASE ~L!Spells(i, <<"\r", "\n">>) /\ L!Sym(i) \in L!Newline
  <2>1. L!Sym(i) # "end-of-text"
    BY <1>3 DEF L!Newline
  <2>2. i \in 1 .. Len(text)
    BY <2>1, SymIs
  <2> QED BY <1>1, <1>3, <2>2 DEF L!LineAfter
<1>4. CASE ~L!Spells(i, <<"\r", "\n">>) /\ L!Sym(i) \notin L!Newline
  BY <1>1, <1>4 DEF L!LineAfter
<1> QED BY <1>2, <1>3, <1>4

LEMMA ModesPlain ==
    /\ Labelled(<<"initial">>) /\ Bottom(<<"initial">>) /\ Labelled(L!Scripting) /\ Bottom(L!Scripting)
    /\ Labelled(<<"property">>) /\ Labelled(<<"offset">>) /\ Labelled(<<"varname">>)
    /\ \A quote : Labelled(L!StringOf(quote))
    /\ \A label \in Word : \A nowdoc : Labelled(L!HeredocOf(label, nowdoc))
BY DEF Labelled, Bottom, L!Scripting, L!StringOf, L!HeredocOf

LEMMA QuietIs ==
    ASSUME L!Quietly
    PROVE  text' = text /\ reports \subseteq reports' /\ reports' = reports
BY DEF L!Quietly

LEMMA PlainIs ==
    ASSUME L!Plainly
    PROVE  text' = text /\ reports \subseteq reports' /\ modes' = modes
BY QuietIs DEF L!Plainly

LEMMA ReportIs ==
    ASSUME NEW broken, L!Report(broken)
    PROVE  reports \subseteq reports' /\ (broken => at \in reports')
BY DEF L!Report

\* A step that makes a token and stays in its mode.
LEMMA PlainEmits ==
    ASSUME LexInv, L!Plainly, NEW to \in at + 1 .. Len(text) + 1, Emits(to)
    PROVE  LexStep
BY PlainIs, ModesStay, LexEmits DEF LexInv

-----------------------------------------------------------------------------
\* Every step of the lexer.
LEMMA BlankStepSteps ==
    ASSUME LexInv, ~L!Done, L!BlankStep
    PROVE  LexStep
<1>1. L!C(0) \in L!Blank /\ L!Skip(at + 1) /\ L!Plainly
  BY DEF L!BlankStep
<1>2. text' = text /\ reports \subseteq reports' /\ ModesOK'
  BY <1>1, PlainIs, ModesStay DEF LexInv
<1>3. at + 1 \in at .. Len(text) + 1 /\ at + 0 = at
  BY AtIs
<1>4. L!Sym(at) \in L!Blank
  BY <1>1, <1>3 DEF L!C
<1>5. \E from \in {at}, behind \in {at + 1} : Skippable(from, behind)'
  BY <1>2, <1>4 DEF Skippable, L!Sym
<1> QED BY <1>1, <1>2, <1>3, <1>5, LexSkips

LEMMA LineCommentSteps ==
    ASSUME LexInv, ~L!Done, L!LineComment
    PROVE  LexStep
<1>1. L!BeginsLineComment /\ L!Skip(L!EndOfCode(at)) /\ L!Plainly
  BY DEF L!LineComment
<1>2. text' = text /\ reports \subseteq reports' /\ ModesOK'
  BY <1>1, PlainIs, ModesStay DEF LexInv
<1>3. at \in Nat /\ at <= Len(text) + 1 /\ IsSequence(text)
  BY AtIs
<1>4. /\ L!EndOfCode(at) \in at .. Len(text) + 1
      /\ \A k \in at .. L!EndOfCode(at) - 1 : L!Sym(k) \notin L!Newline
  BY <1>3, EndOfLineIs
<1>5. at + 0 = at
  BY <1>3
<1>6. \/ L!Sym(at) = "#" /\ L!Sym(at + 1) # "["
      \/ L!Sym(at) = "/" /\ L!Sym(at + 1) = "/"
  BY <1>1, <1>5 DEF L!BeginsLineComment, L!C
<1> DEFINE end == L!EndOfCode(at)
<1> HIDE DEF end
<1>7. ASSUME L!Sym(at) = "/" /\ L!Sym(at + 1) = "/"
      PROVE  L!Spells(at, <<"/", "/">>)
  BY <1>3, <1>7 DEF L!Spells
<1>8. \E from \in {at}, behind \in {end} : Skippable(from, behind)'
  <2>1. Skippable(at, end)
    BY <1>4, <1>6, <1>7 DEF Skippable, end
  <2>2. ASSUME NEW i, NEW j, Skippable(i, j)
        PROVE  Skippable(i, j)'
    BY <1>2, <2>2 DEF Skippable, L!Sym, L!Spells
  <2> QED BY <2>1, <2>2
<1> QED BY <1>1, <1>2, <1>4, <1>8, LexSkips DEF end

LEMMA BlockCommentSteps ==
    ASSUME LexInv, ~L!Done, L!BlockComment
    PROVE  LexStep
<1> DEFINE end == L!EndOfComment(at + 2)
           closed == end >= at + 4 /\ L!Spells(end - 2, <<"*", "/">>)
<1>1. at \in Nat /\ IsSequence(text) /\ ModesOK /\ Len(text) \in Nat /\ at \in 1 .. Len(text)
  BY AtIs
<1>2. L!C(0) = "/" /\ L!C(1) = "*" /\ text' = text /\ modes' = modes
  BY DEF L!BlockComment, L!BeginsComment
<1>3. L!Report(~closed) /\ (Emits(end) \/ L!Skip(end))
  BY DEF L!BlockComment, Emits
<1>4. at + 1 \in 1 .. Len(text)
  BY <1>1, <1>2, SymIs DEF L!C
<1>5. /\ end \in at + 2 .. Len(text) + 1
      /\ \/ end >= at + 2 + 2 /\ L!Spells(end - 2, <<"*", "/">>)
         \/ end = Len(text) + 1
  BY <1>1, <1>4, EndOfCommentIs
<1>6. L!Spells(at, <<"*", "/">>) = FALSE /\ L!Spells(at, <<"/", "*">>)
  <2>1. L!Sym(at) = "/" /\ L!Sym(at + 1) = "*"
    BY <1>1, <1>2 DEF L!C
  <2> QED BY <1>1, <2>1 DEF L!Spells
<1>7. reports \subseteq reports' /\ (~closed => at \in reports')
  BY <1>3, ReportIs
<1>8. ModesOK'
  BY <1>1, <1>2, ModesStay
<1>9. ASSUME NEW i, NEW j, i = at, j = end
      PROVE  Skippable(i, j)'
  <2>1. \A k, s : L!Spells(k, s)' = L!Spells(k, s)
    BY <1>2 DEF L!Spells, L!Sym
  <2>2. closed \/ (end = Len(text) + 1 /\ at \in reports')
    BY <1>1, <1>5, <1>7
  <2> QED BY <1>2, <1>5, <1>6, <1>9, <2>1, <2>2 DEF Skippable
<1>10. end \in at .. Len(text) + 1 /\ end \in at + 1 .. Len(text) + 1
  BY <1>1, <1>5
<1> HIDE DEF end, closed
<1> QED
  <2>1. CASE Emits(end)
    BY <1>2, <1>7, <1>8, <1>10, <2>1, LexEmits
  <2>2. CASE L!Skip(end)
    <3>1. \E from \in {at}, behind \in {end} : Skippable(from, behind)'
      BY <1>9
    <3> QED BY <1>2, <1>7, <1>8, <1>10, <2>2, <3>1, LexSkips
  <2> QED BY <1>3, <2>1, <2>2

LEMMA CloseTagSteps ==
    ASSUME LexInv, ~L!Done, L!CloseTag
    PROVE  LexStep
<1>1. Emits(L!LineAfter(at + 2)) /\ L!Become(<<"initial">>) /\ L!Quietly /\ L!C(1) = ">"
  BY DEF L!CloseTag, Emits
<1>2. at + 2 \in at + 1 .. Len(text) + 1
  BY <1>1, Ahead
<1>3. L!LineAfter(at + 2) \in at + 1 .. Len(text) + 1
  BY <1>2, LineAfterIs, AtIs
<1>4. ModesOK'
  BY <1>1, ModesBecome, ModesPlain, AtIs DEF L!Become
<1> QED BY <1>1, <1>3, <1>4, QuietIs, LexEmits

LEMMA AttributeSteps ==
    ASSUME LexInv, ~L!Done, L!Attribute
    PROVE  LexStep
<1>1. Emits(at + 2) /\ L!Plainly /\ L!C(1) = "["
  BY DEF L!Attribute, Emits
<1>2. at + 2 \in at + 1 .. Len(text) + 1
  BY <1>1, Ahead
<1> QED BY <1>1, <1>2, PlainEmits

LEMMA NumberSteps ==
    ASSUME LexInv, ~L!Done, L!Number
    PROVE  LexStep
<1> DEFINE whole == IF L!C(0) \in Digits THEN at + 1 ELSE at
           to == IF L!Sym(whole) # "." THEN whole
                 ELSE IF L!Sym(whole + 1) \in Digits THEN whole + 2 ELSE whole + 1
<1>1. Emits(to) /\ L!Plainly /\ (L!C(0) \in Digits \/ (L!C(0) = "." /\ L!C(1) \in Digits))
  BY DEF L!Number, Emits
<1>2. at \in Nat /\ Len(text) \in Nat /\ IsSequence(text) /\ at \in 1 .. Len(text)
  BY AtIs
<1>3. whole \in at .. at + 1 /\ whole \in Nat
  BY <1>2
<1>4. whole = at => L!Sym(whole) = "." /\ L!Sym(whole + 1) \in Digits
  BY <1>1, <1>2 DEF L!C
<1>5. \A i \in Nat : L!Sym(i) = "." \/ L!Sym(i) \in Digits => i <= Len(text)
  BY <1>2, SymIs
<1>6. to \in at + 1 .. Len(text) + 1
  <2> HIDE DEF whole
  <2>1. CASE L!Sym(whole) # "."
    BY <1>2, <1>3, <1>4, <2>1
  <2>2. CASE L!Sym(whole) = "." /\ L!Sym(whole + 1) \in Digits
    BY <1>2, <1>3, <1>5, <2>2
  <2>3. CASE L!Sym(whole) = "." /\ ~ (L!Sym(whole + 1) \in Digits)
    BY <1>2, <1>3, <1>4, <1>5, <2>3
  <2> QED BY <2>1, <2>2, <2>3
<1> HIDE DEF to
<1> QED BY <1>1, <1>6, PlainEmits

LEMMA VariableSteps ==
    ASSUME LexInv, ~L!Done, L!Variable
    PROVE  LexStep
<1>1. L!Plainly /\ ((L!C(1) \in Word /\ Emits(at + 2)) \/ Emits(at + 1))
  BY DEF L!Variable, Emits
<1>2. L!C(1) \in Word => at + 2 \in at + 1 .. Len(text) + 1
  BY Ahead
<1> QED BY <1>1, <1>2, Ahead, PlainEmits

LEMMA BacktickSteps ==
    ASSUME LexInv, ~L!Done, L!Backtick
    PROVE  LexStep
<1>1. Emits(at + 1) /\ L!Quietly /\ \E quote : L!Push(L!StringOf(quote))
  BY Zenon DEF L!Backtick, Emits
<1>2. ModesOK'
  BY <1>1, ModesPush, ModesPlain, AtIs DEF L!Push
<1> QED BY <1>1, <1>2, Ahead, QuietIs, LexEmits

LEMMA AmpersandSteps ==
    ASSUME LexInv, ~L!Done, L!Ampersand
    PROVE  LexStep
<1>1. L!Plainly /\ ((L!C(1) \in {"&", "="} /\ Emits(at + 2)) \/ Emits(at + 1))
  BY DEF L!Ampersand, Emits
<1>2. L!C(1) \in {"&", "="} => at + 2 \in at + 1 .. Len(text) + 1
  BY Ahead
<1> QED BY <1>1, <1>2, Ahead, PlainEmits

LEMMA OpenBraceSteps ==
    ASSUME LexInv, ~L!Done, L!OpenBrace
    PROVE  LexStep
<1>1. Emits(at + 1) /\ L!Quietly /\ L!Push(L!Scripting)
  BY Zenon DEF L!OpenBrace, Emits
<1>2. ModesOK'
  BY <1>1, ModesPush, ModesPlain, AtIs DEF L!Push
<1> QED BY <1>1, <1>2, Ahead, QuietIs, LexEmits

LEMMA CloseBraceSteps ==
    ASSUME LexInv, ~L!Done, L!CloseBrace
    PROVE  LexStep
<1>1. Emits(at + 1) /\ L!Quietly /\ (modes' = modes \/ (Len(modes) > 1 /\ L!Pop))
  BY Zenon DEF L!CloseBrace, Emits
<1>2. ModesOK'
  BY <1>1, ModesPop, ModesStay, AtIs DEF L!Pop
<1> QED BY <1>1, <1>2, Ahead, QuietIs, LexEmits

\* Out of what only something else can have opened.
LEMMA PopsOut ==
    ASSUME LexInv, ~Bottom(L!Last(modes)), L!Pop
    PROVE  ModesOK'
BY ModesPop, ModesLast DEF L!Pop, LexInv

LEMMA NotAtBottom ==
    ASSUME NEW names, L!In(names), "initial" \notin names, "scripting" \notin names
    PROVE  ~Bottom(L!Last(modes))
BY DEF L!In, Bottom

LEMMA SkipsNothing ==
    ASSUME LexInv, L!Skip(at), L!Quietly, ModesOK'
    PROVE  LexStep
<1>1. at \in at .. Len(text) + 1
  BY DEF LexInv, IsSequence
<1> QED BY <1>1, LexSkips, QuietIs

LEMMA PropertySteps ==
    ASSUME LexInv, ~L!Done, L!Property
    PROVE  LexStep
<1>1. L!In({"property"}) /\ L!Pop /\ L!Quietly /\ (Emits(at + 1) \/ L!Skip(at))
  BY DEF L!Property, Emits
<1>2. ModesOK'
  BY <1>1, NotAtBottom, PopsOut
<1> QED BY <1>1, <1>2, Ahead, QuietIs, LexEmits, SkipsNothing

LEMMA StringCloseSteps ==
    ASSUME LexInv, ~L!Done, L!StringClose
    PROVE  LexStep
<1>1. L!In({"string"}) /\ L!Pop /\ L!Quietly /\ Emits(at + 1)
  BY Zenon DEF L!StringClose, Emits
<1>2. ModesOK'
  BY <1>1, NotAtBottom, PopsOut
<1> QED BY <1>1, <1>2, Ahead, QuietIs, LexEmits

LEMMA DollarCurlySteps ==
    ASSUME LexInv, ~L!Done, L!DollarCurly
    PROVE  LexStep
<1>1. L!Push(<<"varname">>) /\ L!Quietly /\ Emits(at + 2) /\ L!C(1) # "end-of-text"
  BY Zenon DEF L!DollarCurly, Emits
<1>2. at + 2 \in at + 1 .. Len(text) + 1
  BY <1>1, Ahead
<1>3. ModesOK'
  BY <1>1, ModesPush, ModesPlain, AtIs DEF L!Push
<1> QED BY <1>1, <1>2, <1>3, QuietIs, LexEmits

LEMMA CurlyOpenSteps ==
    ASSUME LexInv, ~L!Done, L!CurlyOpen
    PROVE  LexStep
<1>1. L!Push(L!Scripting) /\ L!Quietly /\ Emits(at + 1)
  BY Zenon DEF L!CurlyOpen, Emits
<1>2. ModesOK'
  BY <1>1, ModesPush, ModesPlain, AtIs DEF L!Push
<1> QED BY <1>1, <1>2, Ahead, QuietIs, LexEmits

LEMMA VarOffsetSteps ==
    ASSUME LexInv, ~L!Done, L!VarOffset
    PROVE  LexStep
<1>1. /\ L!In({"offset"}) /\ L!Quietly
      /\ \/ Emits(at + 1) \/ (L!C(1) \in Word /\ Emits(at + 2)) \/ L!Skip(at)
      /\ L!Pop \/ modes' = modes
  BY DEF L!VarOffset, Emits
<1>2. ModesOK'
  BY <1>1, NotAtBottom, PopsOut, ModesStay, AtIs
<1>3. L!C(1) \in Word => at + 2 \in at + 1 .. Len(text) + 1
  BY Ahead
<1> QED BY <1>1, <1>2, <1>3, Ahead, QuietIs, LexEmits, SkipsNothing

LEMMA VarNameSteps ==
    ASSUME LexInv, ~L!Done, L!VarName
    PROVE  LexStep
<1>1. L!Become(L!Scripting) /\ L!Quietly /\ (Emits(at + 1) \/ L!Skip(at))
  BY Zenon DEF L!VarName, Emits
<1>2. ModesOK'
  BY <1>1, ModesBecome, ModesPlain, AtIs DEF L!Become
<1> QED BY <1>1, <1>2, Ahead, QuietIs, LexEmits, SkipsNothing

LEMMA ThirdSpelt ==
    ASSUME IsSequence(text), NEW i \in Nat, NEW a, NEW b, NEW c, c # "end-of-text", L!Spells(i, <<a, b, c>>)
    PROVE  i + 2 \in 1 .. Len(text) /\ L!Sym(i + 2) = c
<1> DEFINE s == <<a, b, c>>
<1>1. 3 \in DOMAIN s /\ s[3] = c
  OBVIOUS
<1>2. L!Sym(i + 3 - 1) = c
  <2>1. \A k \in DOMAIN s : L!Sym(i + k - 1) = s[k]
    BY DEF L!Spells
  <2> HIDE DEF s
  <2> QED BY <1>1, <2>1
<1>3. i + 3 - 1 = i + 2
  OBVIOUS
<1> QED BY <1>2, <1>3, SymIs

LEMMA HeredocIs ==
    ASSUME IsSequence(text), NEW lt \in Nat, lt >= 1, L!IsHeredoc(lt)
    PROVE  /\ L!Sym(L!Label(lt)) \in Word
           /\ L!BehindLabel(lt) \in lt + 1 .. Len(text)
           /\ L!LineAfter(L!BehindLabel(lt)) \in lt + 1 .. Len(text) + 1
<1>1. Len(text) \in Nat
  BY SymIs
<1>2. lt + 3 <= Len(text) + 1
  <2>1. lt + 2 \in 1 .. Len(text)
    BY ThirdSpelt DEF L!IsHeredoc
  <2> QED BY <1>1, <2>1
<1>3. L!NoSpace(lt + 3) \in lt + 3 .. Len(text) + 1
  BY <1>2, NoSpaceIs
<1>4. L!Label(lt) \in Nat /\ L!Label(lt) >= lt + 3 /\ L!Sym(L!Label(lt)) \in Word
  BY <1>1, <1>3 DEF L!Label, L!IsHeredoc
<1>5. L!BehindLabel(lt) \in Nat /\ L!BehindLabel(lt) >= lt + 1
  BY <1>4 DEF L!BehindLabel
<1>6. L!BehindLabel(lt) <= Len(text)
  <2>1. L!Sym(L!BehindLabel(lt)) # "end-of-text"
    BY DEF L!IsHeredoc, L!Newline
  <2> QED BY <1>1, <2>1, SymIs
<1>7. L!LineAfter(L!BehindLabel(lt)) \in L!BehindLabel(lt) .. Len(text) + 1
  BY <1>1, <1>5, <1>6, LineAfterIs
<1> QED BY <1>1, <1>4, <1>5, <1>6, <1>7

LEMMA PrefixIs ==
    ASSUME LexInv, ~L!Done
    PROVE  at + L!Prefix \in Nat /\ at + L!Prefix >= 1 /\ at + L!Prefix >= at
BY AtIs DEF L!Prefix

LEMMA HeredocStartSteps ==
    ASSUME LexInv, ~L!Done, L!HeredocStart
    PROVE  LexStep
<1> DEFINE lt == at + L!Prefix
           to == L!LineAfter(L!BehindLabel(lt))
<1>1. /\ L!IsHeredoc(lt) /\ Emits(to) /\ L!Quietly
      /\ \E nowdoc : L!Push(L!HeredocOf(L!Sym(L!Label(lt)), nowdoc))
  BY DEF L!HeredocStart, Emits
<1>2. lt \in Nat /\ lt >= 1 /\ lt >= at
  BY PrefixIs
<1>3. L!Sym(L!Label(lt)) \in Word /\ to \in lt + 1 .. Len(text) + 1
  BY <1>1, <1>2, HeredocIs, AtIs
<1>4. to \in at + 1 .. Len(text) + 1
  BY <1>2, <1>3, AtIs
<1>5. ModesOK'
  BY <1>1, <1>3, ModesPush, ModesPlain, AtIs DEF L!Push
<1> HIDE DEF lt, to
<1> QED BY <1>1, <1>4, <1>5, QuietIs, LexEmits

LEMMA StringStartSteps ==
    ASSUME LexInv, ~L!Done, L!StringStart
    PROVE  LexStep
<1> DEFINE open == at + L!Prefix
           end == L!StringEnd(open)
           to == L!Min({end, Len(text)}) + 1
<1>1. /\ L!Sym(open) \in L!Quote
      /\ text' = text
      /\ \E broken : L!Report(broken)
      /\ \/ Emits(open + 1) /\ \E quote : L!Push(L!StringOf(quote))
         \/ Emits(to) /\ modes' = modes
  BY Zenon DEF L!StringStart, Emits
<1>2. open \in Nat /\ open >= at /\ at \in Nat /\ Len(text) \in Nat /\ IsSequence(text) /\ ModesOK
  BY PrefixIs, AtIs
<1>3. L!Sym(open) # "end-of-text"
  BY <1>1, Zenon DEF L!Quote
<1>4. open <= Len(text)
  BY <1>2, <1>3, SymIs
<1>5. reports \subseteq reports'
  BY <1>1, ReportIs
<1>6. CASE Emits(open + 1) /\ \E quote : L!Push(L!StringOf(quote))
  <2>1. open + 1 \in at + 1 .. Len(text) + 1
    BY <1>2, <1>4
  <2>2. ModesOK'
    BY <1>2, <1>6, ModesPush, ModesPlain DEF L!Push
  <2> HIDE DEF open
  <2> QED BY <1>1, <1>5, <1>6, <2>1, <2>2, LexEmits
<1>7. CASE Emits(to) /\ modes' = modes
  <2> DEFINE stops == {i \in open + 1 .. Len(text) : ~L!Escaped(open + 1, i) /\ L!Sym(i) = L!Sym(open)}
  <2>1. end \in open + 1 .. Len(text) + 1
    <3>1. end = L!First(stops)
      BY DEF L!StringEnd, L!From
    <3>2. stops \in SUBSET (open + 1 .. Len(text))
      OBVIOUS
    <3> HIDE DEF stops, open
    <3> QED BY <1>2, <1>4, <3>1, <3>2, FirstIs
  <2> HIDE DEF end, open
  <2>2. L!Min({end, Len(text)}) \in {end, Len(text)}
    <3>1. {end, Len(text)} \in SUBSET Nat
      BY <1>2, <2>1
    <3> QED BY <3>1, MinIn
  <2>3. L!Min({end, Len(text)}) <= Len(text)
    <3>1. {end, Len(text)} \in SUBSET Nat
      BY <1>2, <2>1
    <3> QED BY <3>1, MinIn
  <2>4. to \in at + 1 .. Len(text) + 1
    BY <1>2, <1>4, <2>1, <2>2, <2>3
  <2>5. ModesOK'
    BY <1>2, <1>7, ModesStay
  <2> HIDE DEF to
  <2> QED BY <1>1, <1>5, <1>7, <2>4, <2>5, LexEmits
<1> QED BY <1>1, <1>6, <1>7

LEMMA ParenthesisSteps ==
    ASSUME LexInv, ~L!Done, L!Parenthesis
    PROVE  LexStep
<1> DEFINE type == L!NoSpace(at + 1)
           close == L!NoSpace(type + 1)
<1>1. /\ L!Plainly
      /\ \/ L!Sym(type) \in L!CastType /\ L!Sym(close) = ")" /\ Emits(close + 1)
         \/ Emits(at + 1)
  BY DEF L!Parenthesis, Emits
<1>2. at \in Nat /\ at <= Len(text) /\ Len(text) \in Nat /\ IsSequence(text)
  BY AtIs
<1>3. type \in at + 1 .. Len(text) + 1
  BY <1>2, NoSpaceIs
<1>4. CASE L!Sym(type) \in L!CastType /\ L!Sym(close) = ")" /\ Emits(close + 1)
  <2>1. L!Sym(type) # "end-of-text" /\ L!Sym(close) # "end-of-text"
    BY <1>4 DEF L!CastType
  <2>2. type <= Len(text)
    BY <1>2, <1>3, <2>1, SymIs
  <2> HIDE DEF type
  <2>3. close \in type + 1 .. Len(text) + 1
    BY <1>2, <1>3, <2>2, NoSpaceIs
  <2>4. close <= Len(text)
    BY <1>2, <2>1, SymIs
  <2> HIDE DEF close
  <2>5. close + 1 \in at + 1 .. Len(text) + 1
    BY <1>2, <1>3, <2>3, <2>4
  <2> QED BY <1>1, <1>4, <2>5, PlainEmits
<1> QED BY <1>1, <1>4, Ahead, PlainEmits

LEMMA NameEndIs ==
    ASSUME IsSequence(text), NEW i \in Nat, i <= Len(text) + 1
    PROVE  L!NameEnd(i) \in i .. Len(text) + 1
<1> DEFINE stops == {k \in i .. Len(text) : (k - i) % 2 = 0 /\ ~(L!Sym(k) = "\\" /\ L!Sym(k + 1) \in Word)}
<1>1. L!NameEnd(i) = L!First(stops)
  BY DEF L!NameEnd, L!From
<1>2. stops \in SUBSET (i .. Len(text))
  OBVIOUS
<1> HIDE DEF stops
<1> QED BY <1>1, <1>2, FirstIs

LEMMA BackslashNameSteps ==
    ASSUME LexInv, ~L!Done, L!BackslashName
    PROVE  LexStep
<1>1. L!Plainly /\ ((L!C(1) \in Word /\ Emits(L!NameEnd(at + 2))) \/ Emits(at + 1))
  BY DEF L!BackslashName, Emits
<1>2. ASSUME L!C(1) \in Word
      PROVE  L!NameEnd(at + 2) \in at + 1 .. Len(text) + 1
  <2>1. at + 2 \in at + 1 .. Len(text) + 1
    BY <1>2, Ahead
  <2> QED BY <2>1, AtIs, NameEndIs
<1> QED BY <1>1, <1>2, Ahead, PlainEmits

LEMMA NameSteps ==
    ASSUME LexInv, ~L!Done, L!Name
    PROVE  LexStep
<1> DEFINE next == L!SkipTrivia(at + 1)
<1>1. /\ text' = text /\ reports' = reports /\ modes' = modes
      /\ \/ Emits(L!NameEnd(at + 1))
         \/ next > at + 1 /\ L!Sym(next) = "from" /\ Emits(next + 1)
         \/ L!Spells(at + 1, <<"(", "set", ")">>) /\ Emits(at + 4)
         \/ Emits(at + 1)
  BY DEF L!Name, Emits
<1>2. at \in Nat /\ at <= Len(text) /\ Len(text) \in Nat /\ IsSequence(text) /\ ModesOK
  BY AtIs
<1>3. ModesOK'
  BY <1>1, <1>2, ModesStay
<1>4. L!NameEnd(at + 1) \in at + 1 .. Len(text) + 1
  BY <1>2, NameEndIs
<1>5. next > at + 1 /\ L!Sym(next) = "from" => next + 1 \in at + 1 .. Len(text) + 1
  <2>1. L!Sym(next) = "from" => next \in 1 .. Len(text)
    BY <1>2, SymIs
  <2> HIDE DEF next
  <2> QED BY <1>2, <2>1
<1>6. L!Spells(at + 1, <<"(", "set", ")">>) => at + 4 \in at + 1 .. Len(text) + 1
  <2>1. L!Spells(at + 1, <<"(", "set", ")">>) => (at + 1) + 2 \in 1 .. Len(text)
    BY <1>2, ThirdSpelt
  <2> QED BY <1>2, <2>1
<1> HIDE DEF next
<1> QED BY <1>1, <1>3, <1>4, <1>5, <1>6, Ahead, LexEmits

LEMMA StringTextSteps ==
    ASSUME LexInv, ~L!Done, L!StringText
    PROVE  LexStep
<1> DEFINE Stops(i) == ~L!Escaped(at, i) /\ (L!Sym(i) = L!Mode[2] \/ L!Interpolates(i))
           stops == {i \in at .. Len(text) : Stops(i)}
           to == L!First(stops)
<1>1. Emits(to) /\ L!Plainly /\ L!C(0) # L!Mode[2] /\ ~L!Interpolates(at)
  BY DEF L!StringText, Emits, L!From
<1>2. at \in Nat /\ at <= Len(text) /\ Len(text) \in Nat /\ IsSequence(text) /\ at + 0 = at
  BY AtIs
<1>3. at \notin stops
  BY <1>1, <1>2 DEF L!C
<1>4. stops \in SUBSET (at .. Len(text))
  OBVIOUS
<1> HIDE DEF stops
<1>5. to \in at .. Len(text) + 1 /\ (to <= Len(text) => to \in stops)
  BY <1>2, <1>4, FirstIs
<1>6. to \in at + 1 .. Len(text) + 1
  <2> HIDE DEF to
  <2> QED BY <1>2, <1>3, <1>5
<1> HIDE DEF to
<1> QED BY <1>1, <1>6, PlainEmits

LEMMA HeredocEndSteps ==
    ASSUME LexInv, ~L!Done, L!HeredocEnd
    PROVE  LexStep
<1>1. L!In({"heredoc"}) /\ L!Closes /\ Emits(L!NoSpace(at) + 1) /\ L!Pop /\ L!Quietly
  BY DEF L!HeredocEnd, Emits
<1>2. at \in Nat /\ at <= Len(text) /\ Len(text) \in Nat /\ IsSequence(text)
  BY AtIs
<1>3. L!Mode[2] \in Word
  BY <1>1, AtIs, ModesLast DEF L!In, L!Mode, Labelled
<1>4. L!Sym(L!NoSpace(at)) \in Word
  BY <1>1, <1>3 DEF L!Closes, L!IsClose
<1>5. L!NoSpace(at) \in at .. Len(text) + 1 /\ L!NoSpace(at) <= Len(text)
  BY <1>2, <1>4, NoSpaceIs, SymIs
<1>6. L!NoSpace(at) + 1 \in at + 1 .. Len(text) + 1
  BY <1>2, <1>5
<1>7. ModesOK'
  BY <1>1, NotAtBottom, PopsOut
<1> QED BY <1>1, <1>6, <1>7, QuietIs, LexEmits

LEMMA HeredocTextSteps ==
    ASSUME LexInv, ~L!Done, L!HeredocText
    PROVE  LexStep
<1> DEFINE Stops(i) == \/ ~L!Mode[3] /\ ~L!Escaped(at, i) /\ L!Interpolates(i)
                       \/ i > at /\ L!Sym(i - 1) = "\n" /\ L!IsClose(i)
           stops == {i \in at .. Len(text) : Stops(i)}
           to == L!First(stops)
<1>1. Emits(to) /\ L!Plainly /\ (L!Mode[3] \/ ~L!Interpolates(at))
  BY DEF L!HeredocText, Emits, L!From
<1>2. at \in Nat /\ at <= Len(text) /\ Len(text) \in Nat /\ IsSequence(text)
  BY AtIs
<1>3. at \notin stops
  BY <1>1, <1>2
<1>4. stops \in SUBSET (at .. Len(text))
  OBVIOUS
<1> HIDE DEF stops
<1>5. to \in at .. Len(text) + 1 /\ (to <= Len(text) => to \in stops)
  BY <1>2, <1>4, FirstIs
<1>6. to \in at + 1 .. Len(text) + 1
  <2> HIDE DEF to
  <2> QED BY <1>2, <1>3, <1>5
<1> HIDE DEF to
<1> QED BY <1>1, <1>6, PlainEmits

\* A step that makes several tokens.
LEMMA LexReads ==
    ASSUME LexInv, NEW more, NEW to \in at .. Len(text) + 1, Chunk(more, at, to),
           lexed' = lexed \o more, at' = to,
           text' = text, reports \subseteq reports', ModesOK'
    PROVE  LexStep
<1>1. to \in 1 .. Len(text) + 1
  BY DEF LexInv, IsSequence
<1> QED BY <1>1 DEF LexStep, Reads

LEMMA LastIs ==
    ASSUME LexInv, NEW more, NEW from, NEW to, Chunk(more, from, to), more # <<>>
    PROVE  L!Last(lexed \o more).to = to
<1>1. IsSequence(lexed) /\ IsSequence(more) /\ Len(lexed) \in Nat /\ Len(more) \in Nat
  BY DEF LexInv, LexedOK, Chunk, IsSequence
<1>2. Len(more) \in 1 .. Len(more)
  BY <1>1 DEF IsSequence
<1>3. Len(lexed \o more) = Len(lexed) + Len(more) /\ (lexed \o more)[Len(lexed) + Len(more)] = more[Len(more)]
  BY <1>1, <1>2, SeqConcat
<1>4. L!Last(lexed \o more) = more[Len(more)]
  BY <1>3 DEF L!Last
<1> QED BY <1>4 DEF Chunk

LEMMA ThirdIs ==
    ASSUME IsSequence(text), NEW i \in Nat, i >= 1, i <= Len(text) + 1
    PROVE  L!BlankAfter(i) \in i .. Len(text) + 1
<1>1. CASE L!Sym(i) = " "
  <2>1. L!Sym(i) # "end-of-text"
    BY <1>1, Zenon
  <2>2. i \in 1 .. Len(text) /\ Len(text) \in Nat
    BY <2>1, SymIs
  <2>3. L!BlankAfter(i) = i + 1
    BY <1>1, Zenon DEF L!BlankAfter
  <2> HIDE <1>1
  <2> QED BY <2>2, <2>3
<1>2. CASE L!Sym(i) # " "
  <2>1. L!BlankAfter(i) = L!LineAfter(i)
    BY <1>2, Zenon DEF L!BlankAfter
  <2> HIDE <1>2
  <2> QED BY <2>1, LineAfterIs
<1> QED BY <1>1, <1>2

LEMMA NoTokens == \A n : Chunk(<<>>, n, n)
<1>1. IsSequence(<<>>)
  <2>1. <<>> \in Seq({})
    OBVIOUS
  <2> QED BY <2>1, SeqIs
<1> QED BY <1>1 DEF Chunk

LEMMA NothingMore ==
    ASSUME LexInv
    PROVE  lexed \o <<>> = lexed
<1>1. lexed \in Seq(Range(lexed))
  BY DEF LexInv, LexedOK, IsSequence
<1> QED BY <1>1, ConcatEmptySeq

LEMMA ConcatTwice ==
    ASSUME LexInv, NEW a, NEW b, IsSequence(a), IsSequence(b)
    PROVE  (lexed \o a) \o b = lexed \o (a \o b)
<1> DEFINE S == Range(lexed) \cup Range(a) \cup Range(b)
<1>1. lexed \in Seq(S) /\ a \in Seq(S) /\ b \in Seq(S)
  BY DEF LexInv, LexedOK, IsSequence
<1> HIDE DEF S
<1> QED BY <1>1, ConcatAssociative

LEMMA SeqSame ==
    ASSUME NEW r, NEW s, IsSequence(r), IsSequence(s), Len(r) = Len(s), \A i \in 1 .. Len(r) : r[i] = s[i]
    PROVE  r = s
<1> DEFINE S == Range(r) \cup Range(s)
<1>1. r \in Seq(S) /\ s \in Seq(S)
  BY DEF IsSequence
<1> HIDE DEF S
<1> QED BY <1>1, SeqEqual

LEMMA TupleSplits ==
    ASSUME NEW a, NEW b, NEW c
    PROVE  (<<a>> \o <<b>>) \o <<c>> = <<a>> \o <<b, c>> /\ <<b, c>> \in Seq({b, c})
<1> DEFINE S == {a, b, c}
<1>1. <<a>> \in Seq(S) /\ <<b>> \in Seq(S) /\ <<c>> \in Seq(S) /\ <<b, c>> \in Seq({b, c})
  OBVIOUS
<1>2. <<b>> \o <<c>> = Append(<<b>>, c)
  <2>1. \A s \in Seq(S) : s \o <<c>> = Append(s, c)
    <3> HIDE DEF S
    <3> QED OBVIOUS
  <2> HIDE DEF S
  <2> QED BY <1>1, <2>1
<1>3. Append(<<b>>, c) = <<b, c>>
  <2> DEFINE one == <<b>>
             two == <<b, c>>
             r == Append(one, c)
  <2>1. Len(one) = 1 /\ one[1] = b /\ Len(two) = 2 /\ two[1] = b /\ two[2] = c
    OBVIOUS
  <2>2. IsSequence(one) /\ IsSequence(two)
    BY <1>1, SeqIs
  <2> HIDE DEF one, two
  <2>3. /\ IsSequence(r) /\ Len(r) = Len(one) + 1 /\ r[Len(one) + 1] = c
        /\ \A i \in 1 .. Len(one) : r[i] = one[i]
    BY <2>2, SeqAppend
  <2> HIDE DEF r
  <2>4. Len(one) + 1 = 2 /\ 1 \in 1 .. Len(one) /\ \A i \in 1 .. 2 : i = 1 \/ i = 2
    BY <2>1
  <2>5. Len(r) = 2 /\ \A i \in 1 .. 2 : r[i] = two[i]
    BY <2>1, <2>3, <2>4
  <2>6. r = two
    BY <2>1, <2>2, <2>3, <2>5, SeqSame
  <2> QED BY <2>6 DEF r, one, two
<1>4. (<<a>> \o <<b>>) \o <<c>> = <<a>> \o (<<b>> \o <<c>>)
  <2> HIDE DEF S
  <2> QED BY <1>1, ConcatAssociative
<1> QED BY <1>1, <1>2, <1>3, <1>4

LEMMA HtmlSteps ==
    ASSUME LexInv, ~L!Done, L!Html
    PROVE  LexStep
<1> DEFINE open == L!First({i \in at .. Len(text) : L!Spells(i, <<"<", "?">>)})
           html == IF open > at THEN <<L!Token("html", at, open)>> ELSE <<>>
           tag == CASE L!Sym(open + 2) = "="   -> L!Token("<?=", open, open + 3)
                    [] L!Sym(open + 2) = "php" -> L!Token("<?", open, L!BlankAfter(open + 3))
                    [] OTHER                   -> L!Token("<?", open, open + 2)
<1>1. /\ IF open > Len(text)
         THEN lexed' = lexed \o html /\ at' = open /\ modes' = modes
         ELSE lexed' = lexed \o html \o <<tag>> /\ at' = tag.to /\ L!Become(L!Scripting)
      /\ L!Quietly
  BY DEF L!Html, L!From
<1>2. at \in Nat /\ at >= 1 /\ at <= Len(text) /\ Len(text) \in Nat /\ IsSequence(text) /\ ModesOK
  BY AtIs
<1>3. open \in at .. Len(text) + 1 /\ (open <= Len(text) => L!Spells(open, <<"<", "?">>))
  <2> DEFINE stops == {i \in at .. Len(text) : L!Spells(i, <<"<", "?">>)}
  <2>1. stops \in SUBSET (at .. Len(text))
    OBVIOUS
  <2>2. \A i \in stops : L!Spells(i, <<"<", "?">>)
    OBVIOUS
  <2>3. open = L!First(stops)
    OBVIOUS
  <2> HIDE DEF stops, open
  <2> QED BY <1>2, <2>1, <2>2, <2>3, FirstIs
<1> HIDE DEF open
<1>4. Chunk(html, at, open) /\ IsSequence(html)
  <2>1. CASE open > at
    BY <1>2, <1>3, <2>1, OneToken DEF Chunk
  <2>2. CASE ~(open > at)
    <3>1. open = at
      BY <1>2, <1>3, <2>2
    <3> QED BY <2>2, <3>1, NoTokens DEF Chunk
  <2> QED BY <2>1, <2>2
<1>5. ModesOK'
  BY <1>1, <1>2, ModesStay, ModesBecome, ModesPlain DEF L!Become
<1>6. CASE open > Len(text)
  BY <1>1, <1>3, <1>4, <1>5, <1>6, QuietIs, LexReads
<1>7. CASE ~(open > Len(text))
  <2>1. open <= Len(text)
    BY <1>2, <1>3, <1>7
  <2>2. open + 1 <= Len(text)
    BY <1>2, <1>3, <2>1, SpellsIs
  <2>3. \E kind, to : tag = L!Token(kind, open, to) /\ to \in open + 1 .. Len(text) + 1
    <3>1. CASE L!Sym(open + 2) \in {"=", "php"}
      <4>1. open + 2 <= Len(text)
        <5>1. L!Sym(open + 2) # "end-of-text"
          BY <3>1
        <5> QED BY <1>2, <1>3, <5>1, SymIs
      <4>2. L!BlankAfter(open + 3) \in open + 3 .. Len(text) + 1
        BY <1>2, <1>3, <4>1, ThirdIs
      <4>3. open + 3 \in open + 1 .. Len(text) + 1 /\ L!BlankAfter(open + 3) \in open + 1 .. Len(text) + 1
        BY <1>2, <1>3, <4>1, <4>2
      <4>4. tag \in {L!Token("<?=", open, open + 3), L!Token("<?", open, L!BlankAfter(open + 3))}
        BY <3>1
      <4> HIDE DEF tag
      <4> QED BY <4>3, <4>4
    <3>2. CASE L!Sym(open + 2) \notin {"=", "php"}
      <4>1. tag = L!Token("<?", open, open + 2)
        BY <3>2
      <4>2. open + 2 \in open + 1 .. Len(text) + 1
        BY <1>2, <1>3, <2>2
      <4> HIDE DEF tag
      <4> QED BY <4>1, <4>2
    <3> QED BY <3>1, <3>2
  <2> HIDE DEF tag
  <2>4. PICK kind, to : tag = L!Token(kind, open, to) /\ to \in open + 1 .. Len(text) + 1
    BY <2>3
  <2>5. open \in Nat /\ to \in Nat /\ open < to /\ to \in at .. Len(text) + 1
    BY <1>2, <1>3, <2>4
  <2>6. tag.to = to
    BY <2>4 DEF L!Token
  <2>7. Chunk(html \o <<tag>>, at, to)
    BY <1>2, <1>4, <2>4, <2>5, MoreTokens
  <2>8. IsSequence(<<tag>>)
    <3>1. <<tag>> \in Seq({tag})
      OBVIOUS
    <3> QED BY <3>1, SeqIs
  <2>9. lexed' = lexed \o (html \o <<tag>>)
    <3> HIDE DEF html
    <3> QED BY <1>1, <1>4, <1>7, <2>8, ConcatTwice
  <2>10. at' = to
    BY <1>1, <1>7, <2>6
  <2> HIDE DEF html
  <2> QED BY <1>1, <1>5, <2>5, <2>7, <2>9, <2>10, QuietIs, LexReads
<1> QED BY <1>6, <1>7

LEMMA SimpleVariableSteps ==
    ASSUME LexInv, ~L!Done, L!SimpleVariable
    PROVE  LexStep
<1> DEFINE var == L!Token("v", at, at + 2)
           arrow == CASE L!Spells(at + 2, <<"-", ">">>) /\ L!C(4) \in Word -> 2
                      [] L!Spells(at + 2, <<"?", "-", ">">>) /\ L!C(5) \in Word -> 3
                      [] OTHER -> 0
           access == CASE arrow > 0 -> <<L!Token("->", var.to, var.to + arrow),
                                         L!Token("name", var.to + arrow, var.to + arrow + 1)>>
                       [] L!C(2) = "[" -> <<L!Token("[", var.to, var.to + 1)>>
                       [] OTHER -> <<>>
<1>1. /\ L!C(1) \in Word
      /\ lexed' = lexed \o <<var>> \o access
      /\ at' = L!Last(lexed').to
      /\ L!Push(<<"offset">>) \/ modes' = modes
      /\ L!Quietly
  BY DEF L!SimpleVariable
<1>2. at \in Nat /\ at >= 1 /\ at <= Len(text) /\ Len(text) \in Nat /\ IsSequence(text) /\ ModesOK
  BY AtIs
<1>3. ModesOK'
  BY <1>1, <1>2, ModesStay, ModesPush, ModesPlain DEF L!Push
<1>4. at + 2 \in at + 1 .. Len(text) + 1 /\ var.to = at + 2
  BY <1>1, Ahead DEF L!Token
<1>5. arrow \in {0, 2, 3} /\ (arrow = 2 => L!C(4) \in Word) /\ (arrow = 3 => L!C(5) \in Word)
  OBVIOUS
<1>15. arrow > 0 => L!C(2) # "["
  <2>1. ASSUME L!Spells(at + 2, <<"-", ">">>)
        PROVE  L!C(2) # "["
    BY <1>2, <2>1, SpellsIs DEF L!C
  <2>2. ASSUME L!Spells(at + 2, <<"?", "-", ">">>)
        PROVE  L!C(2) # "["
    <3> DEFINE s == <<"?", "-", ">">>
    <3>1. 1 \in DOMAIN s /\ s[1] = "?"
      OBVIOUS
    <3>2. L!Sym(at + 2 + 1 - 1) = "?" /\ at + 2 + 1 - 1 = at + 2
      <4>1. \A k \in DOMAIN s : L!Sym(at + 2 + k - 1) = s[k]
        BY <2>2 DEF L!Spells
      <4> HIDE DEF s
      <4> QED BY <1>2, <3>1, <4>1
    <3> QED BY <3>2 DEF L!C
  <2>3. arrow > 0 => L!Spells(at + 2, <<"-", ">">>) \/ L!Spells(at + 2, <<"?", "-", ">">>)
    OBVIOUS
  <2> QED BY <2>1, <2>2, <2>3
<1>6. arrow > 0 => at + 3 + arrow <= Len(text) + 1
  <2>1. (L!C(4) \in Word => at + (4 + 1) \in at + 1 .. Len(text) + 1)
        /\ (L!C(5) \in Word => at + (5 + 1) \in at + 1 .. Len(text) + 1)
    BY Ahead
  <2> HIDE DEF arrow
  <2> QED BY <1>2, <1>5, <2>1
<1>7. L!C(2) = "[" => at + 3 <= Len(text) + 1
  <2>1. L!C(2) = "[" => at + (2 + 1) \in at + 1 .. Len(text) + 1
    BY Ahead
  <2> QED BY <1>2, <2>1
<1> HIDE DEF arrow
<1>8. \E to \in at + 1 .. Len(text) + 1 : Chunk(<<var>> \o access, at, to) /\ IsSequence(access)
  <2> HIDE DEF var
  <2>1. var = L!Token("v", at, at + 2) /\ Chunk(<<var>>, at, at + 2)
    BY <1>2, OneToken DEF var
  <2>2. CASE arrow > 0
    <3> DEFINE mid == at + 2 + arrow
               one == L!Token("->", at + 2, mid)
               two == L!Token("name", mid, mid + 1)
    <3>1. access = <<one, two>>
      <4>1. access = <<L!Token("->", var.to, var.to + arrow), L!Token("name", var.to + arrow,
            var.to + arrow + 1)>>
        BY <1>15, <2>2, Zenon
      <4> HIDE DEF access
      <4> QED BY <1>4, <4>1
    <3> HIDE DEF access
    <3>2. mid \in Nat /\ at + 2 \in Nat /\ at + 2 < mid /\ mid + 1 \in Nat /\ mid < mid + 1
      BY <1>2, <1>5, <2>2
    <3>3. mid + 1 \in at + 1 .. Len(text) + 1
      BY <1>2, <1>5, <1>6, <2>2
    <3> HIDE DEF mid
    <3>4. Chunk(<<var>> \o <<one>>, at, mid)
      BY <1>2, <2>1, <3>2, MoreTokens
    <3>5. Chunk((<<var>> \o <<one>>) \o <<two>>, at, mid + 1)
      BY <1>2, <3>2, <3>4, MoreTokens
    <3> HIDE DEF one, two
    <3>6. (<<var>> \o <<one>>) \o <<two>> = <<var>> \o <<one, two>> /\ <<one, two>> \in Seq({one, two})
      BY TupleSplits
    <3> QED BY <3>1, <3>3, <3>5, <3>6, SeqIs
  <2>3. CASE ~(arrow > 0) /\ L!C(2) = "["
    <3> DEFINE one == L!Token("[", at + 2, at + 2 + 1)
    <3>1. access = <<one>>
      <4>1. access = <<L!Token("[", var.to, var.to + 1)>>
        BY <2>3, Zenon
      <4> HIDE DEF access
      <4> QED BY <1>4, <4>1
    <3>2. at + 2 + 1 = at + 3 /\ at + 3 \in at + 1 .. Len(text) + 1
      BY <1>2, <1>7, <2>3
    <3> HIDE DEF access
    <3>3. Chunk(<<var>> \o <<one>>, at, at + 2 + 1)
      <4>1. at + 2 \in Nat /\ at + 2 + 1 \in Nat /\ at + 2 < at + 2 + 1
        BY <1>2
      <4> QED BY <1>2, <2>1, <4>1, MoreTokens
    <3> HIDE DEF one
    <3>4. <<one>> \in Seq({one})
      OBVIOUS
    <3> QED BY <3>1, <3>2, <3>3, <3>4, SeqIs
  <2>4. CASE ~(arrow > 0) /\ L!C(2) # "["
    <3>1. access = <<>>
      BY <2>4
    <3>2. <<var>> \o <<>> = <<var>> /\ <<>> \in Seq({})
      OBVIOUS
    <3> QED BY <1>4, <2>1, <3>1, <3>2, SeqIs
  <2> QED BY <2>2, <2>3, <2>4
<1>9. PICK to \in at + 1 .. Len(text) + 1 : Chunk(<<var>> \o access, at, to) /\ IsSequence(access)
  BY <1>8
<1> HIDE DEF access, var
<1>10. IsSequence(<<var>>) /\ <<var>> \o access # <<>>
  <2>1. <<var>> \in Seq({var})
    OBVIOUS
  <2>2. IsSequence(<<var>>)
    BY <2>1, SeqIs
  <2>3. Len(<<var>> \o access) = 1 + Len(access) /\ Len(access) \in Nat
    BY <1>9, <2>2, SeqConcat DEF IsSequence
  <2> QED BY <2>2, <2>3
<1>11. lexed' = lexed \o (<<var>> \o access)
  BY <1>1, <1>9, <1>10, ConcatTwice
<1> DEFINE more == <<var>> \o access
<1>12. Chunk(more, at, to) /\ more # <<>> /\ lexed' = lexed \o more
  BY <1>9, <1>10, <1>11
<1> HIDE DEF more
<1>13. at' = to
  BY <1>1, <1>12, LastIs
<1>14. to \in at .. Len(text) + 1
  BY <1>2, <1>9
<1> QED BY <1>1, <1>3, <1>12, <1>13, <1>14, QuietIs, LexReads

\* An operator has a kind and at most four characters, all of them of a text.
Spelling(o) == o \in Seq(Range(o)) /\ Len(o) \in 2 .. 5 /\ o[Len(o)] # "end-of-text"

LEMMA Spellings ==
    /\ \A a, b : b # "end-of-text" => Spelling(<<a, b>>)
    /\ \A a, b, c : c # "end-of-text" => Spelling(<<a, b, c>>)
    /\ \A a, b, c, d : d # "end-of-text" => Spelling(<<a, b, c, d>>)
    /\ \A a, b, c, d, e : e # "end-of-text" => Spelling(<<a, b, c, d, e>>)
<1>1. ASSUME NEW a, NEW b, b # "end-of-text"
      PROVE  Spelling(<<a, b>>)
  <2>1. <<a, b>> \in Seq({a, b})
    OBVIOUS
  <2>2. <<a, b>> \in Seq(Range(<<a, b>>))
    BY <2>1, SeqIs DEF IsSequence
  <2> QED BY <1>1, <2>2 DEF Spelling
<1>2. ASSUME NEW a, NEW b, NEW c, c # "end-of-text"
      PROVE  Spelling(<<a, b, c>>)
  <2>1. <<a, b, c>> \in Seq({a, b, c})
    OBVIOUS
  <2>2. <<a, b, c>> \in Seq(Range(<<a, b, c>>))
    BY <2>1, SeqIs DEF IsSequence
  <2> QED BY <1>2, <2>2 DEF Spelling
<1>3. ASSUME NEW a, NEW b, NEW c, NEW d, d # "end-of-text"
      PROVE  Spelling(<<a, b, c, d>>)
  <2>1. <<a, b, c, d>> \in Seq({a, b, c, d})
    OBVIOUS
  <2>2. <<a, b, c, d>> \in Seq(Range(<<a, b, c, d>>))
    BY <2>1, SeqIs DEF IsSequence
  <2> QED BY <1>3, <2>2 DEF Spelling
<1>4. ASSUME NEW a, NEW b, NEW c, NEW d, NEW e, e # "end-of-text"
      PROVE  Spelling(<<a, b, c, d, e>>)
  <2>1. <<a, b, c, d, e>> \in Seq({a, b, c, d, e})
    OBVIOUS
  <2>2. <<a, b, c, d, e>> \in Seq(Range(<<a, b, c, d, e>>))
    BY <2>1, SeqIs DEF IsSequence
  <2> QED BY <1>4, <2>2 DEF Spelling
<1> QED BY <1>1, <1>2, <1>3, <1>4

LEMMA OperatorsSpelt == \A o \in L!Operators : Spelling(o)
BY Spellings, ZenonT(60) DEF L!Operators

\* The longest operator is one that is there.
LEMMA HereIs ==
    ASSUME IsSequence(text), at \in Nat, at >= 1, at <= Len(text)
    PROVE  Len(L!Here) \in Nat /\ at + Len(L!Here) - 1 \in at + 1 .. Len(text) + 1
<1> DEFINE fitting == {o \in L!Operators : L!Spells(at, Tail(o))}
<1>1. Len(text) \in Nat
  BY SymIs
<1>2. CASE fitting = {}
  <2>1. L!Here = <<"unknown", L!C(0)>>
    BY <1>2 DEF L!Here
  <2>2. Len(L!Here) = 2
    BY <2>1
  <2> QED BY <1>1, <2>2
<1>3. CASE fitting # {}
  <2>1. L!Here = CHOOSE o \in fitting : \A p \in fitting : Len(p) <= Len(o)
    BY <1>3 DEF L!Here
  <2>2. \A o \in fitting : Spelling(o) /\ L!Spells(at, Tail(o))
    BY OperatorsSpelt
  <2>11. \A o \in fitting : Len(o) \in 2 .. 5
    BY OperatorsSpelt DEF Spelling
  <2> HIDE DEF fitting
  <2>3. \E o \in fitting : \A p \in fitting : Len(p) <= Len(o)
    <3> DEFINE short == {5 - Len(o) : o \in fitting}
    <3>1. short \in SUBSET Nat /\ short # {}
      <4>1. \A o \in fitting : 5 - Len(o) \in Nat
        <5>1. \A l \in 2 .. 5 : 5 - l \in Nat
          OBVIOUS
        <5> QED BY <2>11, <5>1
      <4>2. short # {}
        BY <1>3
      <4> QED BY <4>1, <4>2
    <3>2. L!Min(short) \in short /\ \A y \in short : L!Min(short) <= y
      <4> HIDE DEF short
      <4> QED BY <3>1, MinIn
    <3>3. PICK o \in fitting : L!Min(short) = 5 - Len(o)
      BY <3>2
    <3>4. ASSUME NEW p \in fitting
          PROVE  Len(p) <= Len(o)
      <4>1. 5 - Len(o) <= 5 - Len(p)
        BY <3>2, <3>3
      <4> QED BY <2>11, <4>1
    <3> QED BY <3>4
  <2>4. L!Here \in fitting
    <3> HIDE <2>2
    <3> QED BY <2>1, <2>3
  <2>5. PICK o \in fitting : o = L!Here
    BY <2>4
  <2>6. o \in Seq(Range(o)) /\ Len(o) \in 2 .. 5 /\ o[Len(o)] # "end-of-text" /\ L!Spells(at, Tail(o))
    BY <2>2 DEF Spelling
  <2> DEFINE n == Len(o) - 1
  <2>7. n \in DOMAIN Tail(o) /\ Tail(o)[n] = o[n + 1] /\ n + 1 = Len(o)
    BY <2>6
  <2>8. L!Sym(at + n - 1) # "end-of-text"
    <3>1. \A k \in DOMAIN Tail(o) : L!Sym(at + k - 1) = Tail(o)[k]
      BY <2>6 DEF L!Spells
    <3> HIDE DEF n
    <3> QED BY <2>6, <2>7, <3>1
  <2>9. at + n - 1 <= Len(text)
    <3>1. at + n - 1 \in 1 .. Len(text)
      <4> HIDE DEF n
      <4> QED BY <2>8, SymIs
    <3> QED BY <1>1, <3>1
  <2>10. at + Len(o) - 1 \in at + 1 .. Len(text) + 1 /\ Len(o) \in Nat
    <3>1. \A l \in 2 .. 5 : at + (l - 1) - 1 <= Len(text) => at + l - 1 \in at + 1 .. Len(text) + 1 /\ l \in Nat
      BY <1>1
    <3> QED BY <2>6, <2>9, <3>1
  <2> QED BY <2>5, <2>10
<1> QED BY <1>2, <1>3

LEMMA OperatorSteps ==
    ASSUME LexInv, ~L!Done, L!Operator
    PROVE  LexStep
<1>1. PICK op \in {L!Here} :
         LET to == at + Len(op) - 1
             rest == IF halting /\ op[1] = ";" /\ to <= Len(text)
                     THEN <<L!Token("html", to, Len(text) + 1)>> ELSE <<>>
         IN  /\ lexed' = Append(lexed, L!Token(op[1], at, to)) \o rest
             /\ at' = L!Last(lexed').to
             /\ L!Report(op[1] = "unknown")
             /\ IF op[1] = "->" THEN L!Push(<<"property">>) ELSE UNCHANGED modes
  BY Zenon DEF L!Operator
<1> DEFINE to == at + Len(op) - 1
           one == L!Token(op[1], at, to)
           two == L!Token("html", to, Len(text) + 1)
<1>2. /\ \/ lexed' = Append(lexed, one) \o <<>>
         \/ lexed' = Append(lexed, one) \o <<two>> /\ to <= Len(text)
      /\ at' = L!Last(lexed').to
      /\ \E broken : L!Report(broken)
      /\ L!Push(<<"property">>) \/ modes' = modes
      /\ text' = text
  BY <1>1, Zenon DEF L!Operator
<1>3. at \in Nat /\ at >= 1 /\ at <= Len(text) /\ Len(text) \in Nat /\ IsSequence(text) /\ ModesOK
  BY AtIs
<1>4. to \in at + 1 .. Len(text) + 1
  BY <1>3, HereIs
<1> HIDE DEF to
<1>5. to \in Nat /\ at < to /\ to \in at .. Len(text) + 1 /\ Len(text) + 1 \in at .. Len(text) + 1
  BY <1>3, <1>4
<1>6. ModesOK'
  BY <1>2, <1>3, ModesStay, ModesPush, ModesPlain DEF L!Push
<1>7. reports \subseteq reports'
  BY <1>2, ReportIs
<1>8. Chunk(<<one>>, at, to)
  BY <1>3, <1>5, OneToken
<1>9. to <= Len(text) => Chunk(<<one>> \o <<two>>, at, Len(text) + 1)
  <2>1. ASSUME to <= Len(text)
        PROVE  Chunk(<<one>> \o <<two>>, at, Len(text) + 1)
    <3>1. Len(text) + 1 \in Nat /\ to < Len(text) + 1
      BY <1>3, <1>5, <2>1
    <3> HIDE DEF one
    <3> QED BY <1>3, <1>5, <1>8, <3>1, MoreTokens
  <2> QED BY <2>1
<1> HIDE DEF one, two
<1>10. IsSequence(<<one>>) /\ IsSequence(<<two>>) /\ IsSequence(<<>>) /\ Append(lexed, one) = lexed \o <<one>>
  <2>1. <<one>> \in Seq({one}) /\ <<two>> \in Seq({two}) /\ <<>> \in Seq({})
    OBVIOUS
  <2>2. \A s : IsSequence(s) => Append(s, one) = s \o <<one>>
    BY DEF IsSequence
  <2> QED BY <2>1, <2>2, SeqIs DEF LexInv, LexedOK
<1>11. <<one>> \o <<>> = <<one>>
  OBVIOUS
<1>12. CASE lexed' = Append(lexed, one) \o <<>>
  <2>1. lexed' = lexed \o <<one>> /\ <<one>> # <<>>
    BY <1>10, <1>11, <1>12, ConcatTwice
  <2>2. at' = to
    BY <1>2, <1>8, <2>1, LastIs
  <2> QED BY <1>2, <1>5, <1>6, <1>7, <1>8, <2>1, <2>2, LexReads
<1>13. CASE lexed' = Append(lexed, one) \o <<two>> /\ to <= Len(text)
  <2> DEFINE more == <<one>> \o <<two>>
  <2>1. lexed' = lexed \o more
    BY <1>10, <1>13, ConcatTwice
  <2>2. more # <<>>
    <3>1. Len(more) = Len(<<one>>) + Len(<<two>>)
      BY <1>10, SeqConcat
    <3> QED BY <3>1
  <2>3. Chunk(more, at, Len(text) + 1)
    BY <1>9, <1>13
  <2> HIDE DEF more
  <2>4. at' = Len(text) + 1
    BY <1>2, <2>1, <2>2, <2>3, LastIs
  <2> QED BY <1>2, <1>5, <1>6, <1>7, <2>1, <2>3, <2>4, LexReads
<1> QED BY <1>2, <1>12, <1>13

LEMMA LexerSteps ==
    ASSUME LexInv, ~L!Done, L!Next
    PROVE  LexStep
BY HtmlSteps, BlankStepSteps, LineCommentSteps, BlockCommentSteps, CloseTagSteps, AttributeSteps,
   HeredocStartSteps, NumberSteps, VariableSteps, StringStartSteps, BacktickSteps, AmpersandSteps,
   ParenthesisSteps, BackslashNameSteps, OpenBraceSteps, CloseBraceSteps, NameSteps, OperatorSteps,
   PropertySteps, StringCloseSteps, SimpleVariableSteps, DollarCurlySteps, CurlyOpenSteps, StringTextSteps,
   VarOffsetSteps, VarNameSteps, HeredocEndSteps, HeredocTextSteps
   DEF L!Next

-----------------------------------------------------------------------------
LEMMA LexInvInitial ==
    ASSUME FrontInit
    PROVE  LexInv
<1>1. IsSequence(text)
  <2>1. CASE text = <<>>
    <3>1. <<>> \in Seq({})
      OBVIOUS
    <3> QED BY <2>1, <3>1, SeqIs
  <2>2. CASE text # <<>>
    BY <2>2, FrontEndAssumption DEF FrontInit
  <2> QED BY <2>1, <2>2
<1>2. at = 1 /\ modes = <<<<"initial">>>> /\ lexed = <<>>
  BY DEF FrontInit, L!Init
<1>3. at \in 1 .. Len(text) + 1
  BY <1>1, <1>2 DEF IsSequence
<1>4. IsSequence(lexed) /\ Len(lexed) = 0 /\ DOMAIN lexed = {}
  <2>1. <<>> \in Seq({}) /\ Len(<<>>) = 0
    OBVIOUS
  <2>2. \A i \in DOMAIN <<>> : FALSE
    OBVIOUS
  <2> QED BY <1>2, <2>1, <2>2, SeqIs
<1>5. LexedOK /\ Gaps /\ IsTrivia(EndOf(Len(lexed)), at)
  BY <1>2, <1>4 DEF LexedOK, Gaps, EndOf, IsTrivia
<1>6. ModesOK
  <2> DEFINE m == <<"initial">>
  <2>1. modes = <<m>> /\ Bottom(m) /\ Labelled(m)
    BY <1>2, ModesPlain
  <2> HIDE DEF m
  <2>2. <<m>> \in Seq({m}) /\ <<m>> # <<>> /\ DOMAIN <<m>> = {1} /\ <<m>>[1] = m
    OBVIOUS
  <2> QED BY <2>1, <2>2, SeqIs DEF ModesOK
<1> QED BY <1>1, <1>3, <1>5, <1>6 DEF LexInv

LEMMA LexInvKept ==
    ASSUME LexInv, [FrontNext]_frontVars
    PROVE  LexInv'
<1>1. CASE Lex
  BY <1>1, LexerSteps, StepKeepsLexInv DEF Lex
<1>2. CASE UNCHANGED lexerVars
  <2>1. /\ text' = text /\ at' = at /\ modes' = modes /\ lexed' = lexed /\ reports' = reports
    BY <1>2 DEF lexerVars
  <2>2. \A i, j : IsTrivia(i, j) => IsTrivia(i, j)'
    BY <2>1, TriviaStays
  <2> QED BY <2>1, <2>2 DEF LexInv, LexedOK, Gaps, ModesOK, Bottom, Labelled, EndOf, IsSequence
<1>3. Lex \/ UNCHANGED lexerVars
  BY DEF FrontNext, HandOver, Parse, frontVars
<1> QED BY <1>1, <1>2, <1>3

LEMMA TotalHolds ==
    ASSUME LexInv
    PROVE  Total
BY DEF LexInv, Gaps, ModesOK, Total, IsSequence

\* Total: on any text at all the lexer has a mode to read on in, loses no symbol
\* and uses none twice, and what is between two tokens is blank or a comment.
THEOREM LexerIsTotal == FrontSpec => []Total
<1>1. FrontInit => LexInv
  BY LexInvInitial
<1>2. LexInv /\ [FrontNext]_frontVars => LexInv'
  BY LexInvKept
<1>3. LexInv => Total
  BY TotalHolds
<1> QED BY <1>1, <1>2, <1>3, PTL DEF FrontSpec

-----------------------------------------------------------------------------
\* Tasks that are no loop, list or the like, and no recovery.
Compound == {"given", "list", "comma", "again", "loop"}
Plain(t) == t[1] \notin Compound \cup {"progress", "synchronize"}
BodyOf(t) == IF t[1] \in {"given", "again"} THEN t[3] ELSE t[2]

\* Whatever comes next, these take a token or report one, or leave it to such
\* a task.
Sure == {"expect", "marker", "statement", "expr", "prefix", "variable variable", "declaration", "class",
         "member", "modified", "property", "variable", "hook", "adaptation"}
Surely(t) == t[1] \in Sure
ThisSurely(t) == Surely(t) \/ (t[1] = "attributes" /\ Kind = "#[")

\* A set of tasks that only consist of each other, and in which the body of
\* every loop does something.
Closed(T) ==
    \A t \in T :
        \/ Plain(t)
        \/ /\ t[1] \in Compound
           /\ IsSequence(BodyOf(t)) /\ Range(BodyOf(t)) \subseteq T
           /\ t[1] = "loop" => \E i \in DOMAIN BodyOf(t) : Surely(BodyOf(t)[i])

Task(t) == \E T : t \in T /\ Closed(T)
Tasks(s) == IsSequence(s) /\ \A i \in DOMAIN s : Task(s[i])

LEMMA PlainTask ==
    ASSUME NEW t, Plain(t)
    PROVE  Task(t)
<1>1. Closed({t})
  BY DEF Closed
<1> QED BY <1>1 DEF Task

LEMMA CompoundTask ==
    ASSUME NEW t, t[1] \in Compound, Tasks(BodyOf(t)),
           t[1] = "loop" => \E i \in DOMAIN BodyOf(t) : Surely(BodyOf(t)[i])
    PROVE  Task(t)
<1> DEFINE Of(i) == CHOOSE T : BodyOf(t)[i] \in T /\ Closed(T)
           T == {t} \cup UNION {Of(i) : i \in DOMAIN BodyOf(t)}
<1>1. \A i \in DOMAIN BodyOf(t) : BodyOf(t)[i] \in Of(i) /\ Closed(Of(i))
  BY DEF Tasks, Task
<1> HIDE DEF Of
<1>2. Range(BodyOf(t)) \subseteq T
  BY <1>1 DEF Range
<1>3. ASSUME NEW u \in T
      PROVE  \/ Plain(u)
             \/ /\ u[1] \in Compound
                /\ IsSequence(BodyOf(u)) /\ Range(BodyOf(u)) \subseteq T
                /\ u[1] = "loop" => \E i \in DOMAIN BodyOf(u) : Surely(BodyOf(u)[i])
  <2>1. CASE u = t
    BY <1>2, <2>1 DEF Tasks
  <2>2. CASE u # t
    <3>1. PICK i \in DOMAIN BodyOf(t) : u \in Of(i)
      BY <2>2
    <3>2. Closed(Of(i)) /\ Of(i) \subseteq T
      BY <1>1
    <3> HIDE DEF T
    <3> QED BY <3>1, <3>2 DEF Closed
  <2> QED BY <2>1, <2>2
<1>4. Closed(T)
  <2> HIDE DEF T
  <2> QED BY <1>3 DEF Closed
<1> QED BY <1>4 DEF Task

LEMMA BodyIs ==
    ASSUME NEW t, Task(t), t[1] \in Compound
    PROVE  /\ Tasks(BodyOf(t))
           /\ t[1] = "loop" => \E i \in DOMAIN BodyOf(t) : Surely(BodyOf(t)[i])
<1>1. PICK T : t \in T /\ Closed(T)
  BY DEF Task
<1>2. /\ IsSequence(BodyOf(t)) /\ Range(BodyOf(t)) \subseteq T
      /\ t[1] = "loop" => \E i \in DOMAIN BodyOf(t) : Surely(BodyOf(t)[i])
  <2>1. ~Plain(t)
    BY DEF Plain
  <2> QED BY <1>1, <2>1 DEF Closed
<1>3. \A i \in DOMAIN BodyOf(t) : Task(BodyOf(t)[i])
  <2>1. \A i \in DOMAIN BodyOf(t) : BodyOf(t)[i] \in Range(BodyOf(t))
    BY DEF Range
  <2> QED BY <1>1, <1>2, <2>1 DEF Task
<1> QED BY <1>2, <1>3 DEF Tasks

\* Sequences of tasks.
LEMMA TasksAppend ==
    ASSUME NEW s, NEW t, Tasks(s), Task(t)
    PROVE  Tasks(Append(s, t))
<1>1. /\ IsSequence(Append(s, t)) /\ Len(Append(s, t)) = Len(s) + 1
      /\ Append(s, t)[Len(s) + 1] = t
      /\ \A i \in 1 .. Len(s) : Append(s, t)[i] = s[i]
  BY SeqAppend DEF Tasks
<1>2. Len(s) \in Nat /\ DOMAIN s = 1 .. Len(s) /\ DOMAIN Append(s, t) = 1 .. Len(s) + 1
  BY <1>1 DEF Tasks, IsSequence
<1>3. ASSUME NEW i \in 1 .. Len(s) + 1
      PROVE  Task(Append(s, t)[i])
  <2>1. CASE i = Len(s) + 1
    BY <1>1, <2>1
  <2>2. CASE i \in 1 .. Len(s)
    BY <1>1, <1>2, <2>2 DEF Tasks
  <2> QED BY <1>2, <2>1, <2>2
<1> QED BY <1>1, <1>2, <1>3 DEF Tasks

LEMMA TasksConcat ==
    ASSUME NEW s, NEW t, Tasks(s), Tasks(t)
    PROVE  Tasks(s \o t)
<1>1. /\ IsSequence(s \o t) /\ Len(s \o t) = Len(s) + Len(t)
      /\ \A i \in 1 .. Len(s) : (s \o t)[i] = s[i]
      /\ \A i \in 1 .. Len(t) : (s \o t)[Len(s) + i] = t[i]
  BY SeqConcat DEF Tasks
<1>2. /\ Len(s) \in Nat /\ DOMAIN s = 1 .. Len(s) /\ Len(t) \in Nat /\ DOMAIN t = 1 .. Len(t)
      /\ DOMAIN (s \o t) = 1 .. Len(s) + Len(t)
  BY <1>1 DEF Tasks, IsSequence
<1>3. ASSUME NEW i \in 1 .. Len(s) + Len(t)
      PROVE  Task((s \o t)[i])
  <2>1. CASE i \in 1 .. Len(s)
    BY <1>1, <1>2, <2>1 DEF Tasks
  <2>2. CASE i \notin 1 .. Len(s)
    <3>1. i - Len(s) \in 1 .. Len(t) /\ i = Len(s) + (i - Len(s))
      BY <1>2, <2>2
    <3> QED BY <1>1, <1>2, <3>1 DEF Tasks
  <2> QED BY <2>1, <2>2
<1> QED BY <1>1, <1>2, <1>3 DEF Tasks

LEMMA NoTasks == Tasks(<<>>)
<1>1. <<>> \in Seq({}) /\ \A i \in DOMAIN <<>> : FALSE
  OBVIOUS
<1> QED BY <1>1, SeqIs DEF Tasks

LEMMA Tasks1 ==
    ASSUME NEW a,
           Task(a)
    PROVE  Tasks(<<a>>)
<1> DEFINE s == <<a>>
<1>1. s \in Seq({a}) /\ \A n \in DOMAIN s : s[n] \in {a}
  OBVIOUS
<1>2. \A x \in {a} : Task(x)
  OBVIOUS
<1> HIDE DEF s
<1>3. Tasks(s)
  BY <1>1, <1>2, SeqIs DEF Tasks
<1> QED BY <1>3 DEF s

LEMMA Tasks2 ==
    ASSUME NEW a, NEW b,
           Task(a), Task(b)
    PROVE  Tasks(<<a, b>>)
<1> DEFINE s == <<a, b>>
<1>1. s \in Seq({a, b}) /\ \A n \in DOMAIN s : s[n] \in {a, b}
  OBVIOUS
<1>2. \A x \in {a, b} : Task(x)
  OBVIOUS
<1> HIDE DEF s
<1>3. Tasks(s)
  BY <1>1, <1>2, SeqIs DEF Tasks
<1> QED BY <1>3 DEF s

LEMMA Tasks3 ==
    ASSUME NEW a, NEW b, NEW c,
           Task(a), Task(b), Task(c)
    PROVE  Tasks(<<a, b, c>>)
<1> DEFINE s == <<a, b, c>>
<1>1. s \in Seq({a, b, c}) /\ \A n \in DOMAIN s : s[n] \in {a, b, c}
  OBVIOUS
<1>2. \A x \in {a, b, c} : Task(x)
  OBVIOUS
<1> HIDE DEF s
<1>3. Tasks(s)
  BY <1>1, <1>2, SeqIs DEF Tasks
<1> QED BY <1>3 DEF s

LEMMA Tasks4 ==
    ASSUME NEW a, NEW b, NEW c, NEW d,
           Task(a), Task(b), Task(c), Task(d)
    PROVE  Tasks(<<a, b, c, d>>)
<1> DEFINE s == <<a, b, c, d>>
<1>1. s \in Seq({a, b, c, d}) /\ \A n \in DOMAIN s : s[n] \in {a, b, c, d}
  OBVIOUS
<1>2. \A x \in {a, b, c, d} : Task(x)
  OBVIOUS
<1> HIDE DEF s
<1>3. Tasks(s)
  BY <1>1, <1>2, SeqIs DEF Tasks
<1> QED BY <1>3 DEF s

LEMMA Tasks5 ==
    ASSUME NEW a, NEW b, NEW c, NEW d, NEW e,
           Task(a), Task(b), Task(c), Task(d), Task(e)
    PROVE  Tasks(<<a, b, c, d, e>>)
<1> DEFINE s == <<a, b, c, d, e>>
<1>1. s \in Seq({a, b, c, d, e}) /\ \A n \in DOMAIN s : s[n] \in {a, b, c, d, e}
  OBVIOUS
<1>2. \A x \in {a, b, c, d, e} : Task(x)
  OBVIOUS
<1> HIDE DEF s
<1>3. Tasks(s)
  BY <1>1, <1>2, SeqIs DEF Tasks
<1> QED BY <1>3 DEF s

LEMMA Tasks6 ==
    ASSUME NEW a, NEW b, NEW c, NEW d, NEW e, NEW f,
           Task(a), Task(b), Task(c), Task(d), Task(e), Task(f)
    PROVE  Tasks(<<a, b, c, d, e, f>>)
<1> DEFINE s == <<a, b, c, d, e, f>>
<1>1. s \in Seq({a, b, c, d, e, f}) /\ \A n \in DOMAIN s : s[n] \in {a, b, c, d, e, f}
  OBVIOUS
<1>2. \A x \in {a, b, c, d, e, f} : Task(x)
  OBVIOUS
<1> HIDE DEF s
<1>3. Tasks(s)
  BY <1>1, <1>2, SeqIs DEF Tasks
<1> QED BY <1>3 DEF s

LEMMA Tasks7 ==
    ASSUME NEW a, NEW b, NEW c, NEW d, NEW e, NEW f, NEW g,
           Task(a), Task(b), Task(c), Task(d), Task(e), Task(f), Task(g)
    PROVE  Tasks(<<a, b, c, d, e, f, g>>)
<1> DEFINE s == <<a, b, c, d, e, f, g>>
<1>1. s \in Seq({a, b, c, d, e, f, g}) /\ \A n \in DOMAIN s : s[n] \in {a, b, c, d, e, f, g}
  OBVIOUS
<1>2. \A x \in {a, b, c, d, e, f, g} : Task(x)
  OBVIOUS
<1> HIDE DEF s
<1>3. Tasks(s)
  BY <1>1, <1>2, SeqIs DEF Tasks
<1> QED BY <1>3 DEF s

LEMMA Tasks8 ==
    ASSUME NEW a, NEW b, NEW c, NEW d, NEW e, NEW f, NEW g, NEW h,
           Task(a), Task(b), Task(c), Task(d), Task(e), Task(f), Task(g), Task(h)
    PROVE  Tasks(<<a, b, c, d, e, f, g, h>>)
<1> DEFINE s == <<a, b, c, d, e, f, g, h>>
<1>1. s \in Seq({a, b, c, d, e, f, g, h}) /\ \A n \in DOMAIN s : s[n] \in {a, b, c, d, e, f, g, h}
  OBVIOUS
<1>2. \A x \in {a, b, c, d, e, f, g, h} : Task(x)
  OBVIOUS
<1> HIDE DEF s
<1>3. Tasks(s)
  BY <1>1, <1>2, SeqIs DEF Tasks
<1> QED BY <1>3 DEF s

-----------------------------------------------------------------------------
\* The tasks that the parser gives itself.
LEMMA NamedTasks ==
    /\ \A x : x \notin Compound \cup {"progress", "synchronize"} =>
          Task(<<x>>) /\ \A a : Task(<<x, a>>) /\ \A b : Task(<<x, a, b>>)
    /\ \A x, a, b, c, d : x \notin Compound \cup {"progress", "synchronize"} => Task(<<x, a, b, c, d>>)
<1> DEFINE Names == Compound \cup {"progress", "synchronize"}
<1>1. ASSUME NEW x, x \notin Names
      PROVE  Task(<<x>>) /\ \A a : Task(<<x, a>>) /\ \A b : Task(<<x, a, b>>)
  <2> HIDE DEF Names
  <2>1. <<x>>[1] = x /\ \A a : <<x, a>>[1] = x /\ \A b : <<x, a, b>>[1] = x
    OBVIOUS
  <2>2. \A t : t[1] \notin Names => Task(t)
    BY PlainTask DEF Plain, Names
  <2> QED BY <1>1, <2>1, <2>2
<1>2. ASSUME NEW x, NEW a, NEW b, NEW c, NEW d, x \notin Names
      PROVE  Task(<<x, a, b, c, d>>)
  <2> HIDE DEF Names
  <2>1. <<x, a, b, c, d>>[1] = x
    OBVIOUS
  <2>2. \A t : t[1] \notin Names => Task(t)
    BY PlainTask DEF Plain, Names
  <2> QED BY <1>2, <2>1, <2>2
<1> QED BY <1>1, <1>2

LEMMA PlainTasks ==
    /\ \A set : Task(Expect(set))
    /\ \A bp : Task(Expr(bp))
    /\ \A stops : Task(Value(stops))
    /\ \A close : Task(Parts(close))
    /\ \A kind, op, from, base : Task(Make(kind, op, from, base)) /\ Task(Wrap(kind, op, base))
    /\ \A kind, op : Task(Extend(kind, op))
    /\ Task(Statement) /\ Task(StmtEnd) /\ Task(Open) /\ Task(Close)
<1>1. \A x \in {"expect", "expr", "value", "parts", "make", "statement", "stmt end"} :
         x \notin Compound \cup {"progress", "synchronize"}
  BY Zenon DEF Compound
<1>2. "expect" \in {"expect", "expr", "value", "parts", "make", "statement", "stmt end"}
  BY Zenon
<1>3. "expr" \in {"expect", "expr", "value", "parts", "make", "statement", "stmt end"}
  BY Zenon
<1>4. "value" \in {"expect", "expr", "value", "parts", "make", "statement", "stmt end"}
  BY Zenon
<1>5. "parts" \in {"expect", "expr", "value", "parts", "make", "statement", "stmt end"}
  BY Zenon
<1>6. "make" \in {"expect", "expr", "value", "parts", "make", "statement", "stmt end"}
  BY Zenon
<1>7. Task(Statement) /\ Task(StmtEnd)
  BY <1>1, NamedTasks, Zenon DEF Statement, StmtEnd
<1>8. \A set : Task(Expect(set))
  BY <1>1, <1>2, NamedTasks, Zenon DEF Expect
<1>9. \A bp : Task(Expr(bp))
  BY <1>1, <1>3, NamedTasks, Zenon DEF Expr
<1>10. \A stops : Task(Value(stops))
  BY <1>1, <1>4, NamedTasks, Zenon DEF Value
<1>11. \A close : Task(Parts(close))
  BY <1>1, <1>5, NamedTasks, Zenon DEF Parts
<1>12. \A kind, op, from, base : Task(Make(kind, op, from, base))
  BY <1>1, <1>6, NamedTasks, Zenon DEF Make
<1>13. Task(Open) /\ Task(Close)
  BY <1>8, Zenon DEF Open, Close
<1>14. (\A kind, op, base : Task(Wrap(kind, op, base))) /\ \A kind, op : Task(Extend(kind, op))
  BY <1>12, Zenon DEF Wrap, Extend
<1> QED BY <1>7, <1>8, <1>9, <1>10, <1>11, <1>12, <1>13, <1>14, Zenon

LEMMA GivenTask ==
    ASSUME NEW set, NEW body, Tasks(body)
    PROVE  Task(Given(set, body))
<1>1. Given(set, body)[1] = "given" /\ Given(set, body)[3] = body
  BY DEF Given
<1>2. BodyOf(Given(set, body)) = body /\ Given(set, body)[1] \in Compound /\ Given(set, body)[1] # "loop"
  BY <1>1, Zenon DEF BodyOf, Compound
<1> QED BY <1>2, CompoundTask, Zenon

LEMMA AgainTask ==
    ASSUME NEW sep, NEW body, Tasks(body)
    PROVE  Task(Again(sep, body))
<1>1. Again(sep, body)[1] = "again" /\ Again(sep, body)[3] = body
  BY DEF Again
<1>2. BodyOf(Again(sep, body)) = body /\ Again(sep, body)[1] \in Compound /\ Again(sep, body)[1] # "loop"
  BY <1>1, Zenon DEF BodyOf, Compound
<1> QED BY <1>2, CompoundTask, Zenon

LEMMA ListTask ==
    ASSUME NEW set, NEW body, Tasks(body)
    PROVE  Task(List(body, set)) /\ Task(Comma(body, set))
<1>1. /\ List(body, set)[1] = "list" /\ List(body, set)[2] = body
      /\ Comma(body, set)[1] = "comma" /\ Comma(body, set)[2] = body
  BY DEF List, Comma
<1>2. BodyOf(List(body, set)) = body /\ List(body, set)[1] \in Compound /\ List(body, set)[1] # "loop"
  BY <1>1, Zenon DEF BodyOf, Compound
<1>3. BodyOf(Comma(body, set)) = body /\ Comma(body, set)[1] \in Compound /\ Comma(body, set)[1] # "loop"
  BY <1>1, Zenon DEF BodyOf, Compound
<1> QED BY <1>2, <1>3, CompoundTask, Zenon

LEMMA LoopTask ==
    ASSUME NEW set, NEW body, Tasks(body), \E i \in DOMAIN body : Surely(body[i])
    PROVE  Task(Loop(body, set))
<1>1. Loop(body, set)[1] = "loop" /\ Loop(body, set)[2] = body
  BY DEF Loop
<1>2. BodyOf(Loop(body, set)) = body /\ Loop(body, set)[1] \in Compound
  BY <1>1, Zenon DEF BodyOf, Compound
<1> QED BY <1>2, CompoundTask, Zenon

-----------------------------------------------------------------------------
\* The invariant.
\* A loop that checks its progress has made some, or reported why not, or has
\* something left to do that will; recovery only follows a diagnostic.
HasSure(s, n) == \E i \in 1 .. n : ThisSurely(s[i])
Checks(t, s, n) ==
    \E b \in Nat : /\ t = <<"progress", b>> /\ b <= pos
                   /\ b < pos \/ pos \in errors \/ Kind = "eof" \/ HasSure(s, n)
Recovering(t) == t = <<"synchronize">> /\ (pos \in errors \/ pos - 1 \in skipped)

TodoOK ==
    /\ IsSequence(todo)
    /\ \A k \in DOMAIN todo : \/ Task(todo[k])
                              \/ Checks(todo[k], todo, k - 1)
                              \/ k = 1 /\ Recovering(todo[k])

DropInv ==
    /\ tokens = <<>> \/ IsInput(tokens)
    /\ pos \in Nat /\ pos >= 1 /\ (tokens # <<>> => pos <= Len(tokens))
    /\ TodoOK
    /\ tokens = <<>> => pos = 1 /\ Tasks(todo)
    /\ DropsAreReported

\* What a step does to the list of tasks.
NewOK(ts) ==
    /\ IsSequence(ts)
    /\ \A k \in DOMAIN ts : \/ Task(ts[k])
                            \/ ts[k] = <<"progress", pos>> /\ \E i \in 1 .. k - 1 : Surely(ts[i])
                            \/ k = 1 /\ Recovering(ts[k])'

Goes(ts, n) ==
    /\ Run(ts, n)
    /\ NewOK(ts)
    /\ errors \subseteq errors'
    /\ skipped' = skipped \/ (skipped' = skipped \cup {pos} /\ (pos \in errors' \/ pos - 1 \in skipped))
    /\ ThisSurely(Top) => n > 0 \/ pos \in errors' \/ Kind = "eof" \/ \E i \in DOMAIN ts : ThisSurely(ts[i])

Fine == \E ts, n : n \in Nat /\ Goes(ts, n)

LEMMA HeadIs ==
    ASSUME DropInv, todo # <<>>
    PROVE  /\ IsSequence(todo) /\ Len(todo) \in Nat /\ Len(todo) >= 1 /\ DOMAIN todo = 1 .. Len(todo)
           /\ Top = todo[1]
           /\ IsSequence(Tail(todo)) /\ Len(Tail(todo)) = Len(todo) - 1
           /\ DOMAIN Tail(todo) = 1 .. Len(todo) - 1
           /\ \A i \in 1 .. Len(todo) - 1 : Tail(todo)[i] = todo[i + 1]
<1>1. todo \in Seq(Range(todo)) /\ IsSequence(todo)
  BY DEF DropInv, TodoOK, IsSequence
<1>2. Len(todo) \in Nat /\ Len(todo) >= 1 /\ DOMAIN todo = 1 .. Len(todo) /\ Head(todo) = todo[1]
  BY <1>1
<1>3. /\ Tail(todo) \in Seq(Range(todo)) /\ Len(Tail(todo)) = Len(todo) - 1
      /\ \A i \in 1 .. Len(todo) - 1 : Tail(todo)[i] = todo[i + 1]
  BY <1>1
<1>4. IsSequence(Tail(todo))
  BY <1>3, SeqIs
<1>5. DOMAIN Tail(todo) = 1 .. Len(todo) - 1
  BY <1>3, <1>4 DEF IsSequence
<1> QED BY <1>1, <1>2, <1>3, <1>4, <1>5 DEF Top

\* The tokens end where nothing else follows.
LEMMA PastIs ==
    ASSUME DropInv, tokens # <<>>, NEW n \in Nat
    PROVE  /\ Past(n) \in Nat /\ Past(n) >= pos /\ Past(n) <= Len(tokens)
           /\ Kind # "eof" /\ n > 0 => Past(n) > pos
           /\ Kind # "eof" => Past(1) = pos + 1
<1>1. pos \in Nat /\ pos >= 1 /\ pos <= Len(tokens) /\ Len(tokens) \in Nat /\ tokens[Len(tokens)] = "eof"
  BY DEF DropInv, IsInput, IsSequence, Last
<1>2. Kind # "eof" => pos # Len(tokens)
  BY <1>1 DEF Kind
<1>3. Past(n) \in {pos + n, Len(tokens)} /\ (pos + n <= Len(tokens) => Past(n) = pos + n)
                  /\ (~(pos + n <= Len(tokens)) => Past(n) = Len(tokens))
  BY DEF Past
<1>4. Kind # "eof" => Past(1) = pos + 1
  BY <1>1, <1>2 DEF Past
<1> QED BY <1>1, <1>2, <1>3, <1>4

LEMMA FineKeeps ==
    ASSUME DropInv, tokens # <<>>, todo # <<>>, Fine
    PROVE  DropInv'
<1>1. PICK ts, n : n \in Nat /\ Goes(ts, n)
  BY DEF Fine
<1>2. tokens' = tokens /\ pos' = Past(n) /\ todo' = ts \o Tail(todo) /\ errors \subseteq errors' /\ NewOK(ts)
  BY <1>1 DEF Goes, Run
<1>3. /\ pos \in Nat /\ pos' \in Nat /\ pos' >= pos /\ pos' >= 1 /\ pos' <= Len(tokens)
      /\ Kind # "eof" /\ n > 0 => pos' > pos
  <2>1. pos \in Nat /\ pos >= 1
    BY DEF DropInv
  <2>2. /\ Past(n) \in Nat /\ Past(n) >= pos /\ Past(n) <= Len(tokens)
        /\ Kind # "eof" /\ n > 0 => Past(n) > pos
    BY <1>1, PastIs
  <2>3. tokens' = tokens /\ pos' = Past(n)
    BY <1>2
  <2> QED BY <2>1, <2>2, <2>3
<1>4. IsSequence(ts) /\ Len(ts) \in Nat /\ DOMAIN ts = 1 .. Len(ts)
  BY <1>2 DEF NewOK, IsSequence
<1>5. PICK td : td = todo'
  OBVIOUS
<1>6. /\ IsSequence(td) /\ Len(td) = Len(ts) + (Len(todo) - 1)
      /\ \A k \in 1 .. Len(ts) : td[k] = ts[k]
      /\ \A k \in 1 .. Len(todo) - 1 : td[Len(ts) + k] = todo[k + 1]
  BY <1>2, <1>4, <1>5, SeqConcat, HeadIs
<1>7. DOMAIN td = 1 .. Len(ts) + (Len(todo) - 1) /\ Len(todo) \in Nat /\ Len(todo) >= 1
  BY <1>6, HeadIs DEF IsSequence
<1>8. ASSUME NEW t, ThisSurely(t), pos' = pos
      PROVE  ThisSurely(t)'
  BY <1>2, <1>8 DEF Kind, ThisSurely, Surely
<1>9. ASSUME NEW t, Surely(t)
      PROVE  ThisSurely(t)'
  BY <1>9 DEF ThisSurely, Surely
<1>10. ASSUME NEW k \in 1 .. Len(ts)
       PROVE  Task(td[k]) \/ Checks(td[k], td, k - 1)' \/ (k = 1 /\ Recovering(td[k])')
  <2>1. td[k] = ts[k]
    BY <1>6
  <2>2. CASE Task(ts[k])
    BY <2>1, <2>2
  <2>3. CASE k = 1 /\ Recovering(ts[k])'
    BY <2>1, <2>3
  <2>4. CASE ts[k] = <<"progress", pos>> /\ \E i \in 1 .. k - 1 : Surely(ts[i])
    <3>1. PICK i \in 1 .. k - 1 : Surely(ts[i])
      BY <2>4
    <3>2. i \in 1 .. Len(ts)
      BY <1>4
    <3>3. Surely(td[i])
      BY <1>6, <3>1, <3>2
    <3>4. ThisSurely(td[i])'
      BY <1>9, <3>3
    <3>5. HasSure(td, k - 1)'
      BY <3>4 DEF HasSure
    <3>6. Checks(td[k], td, k - 1)'
      BY <1>3, <2>1, <2>4, <3>5 DEF Checks
    <3> QED BY <3>6
  <2> QED BY <1>2, <1>4, <2>2, <2>3, <2>4 DEF NewOK
<1>11. ASSUME NEW j \in 1 .. Len(todo) - 1, NEW k, k = Len(ts) + j
       PROVE  Task(td[k]) \/ Checks(td[k], td, k - 1)'
  <2>1. td[k] = todo[j + 1] /\ j + 1 \in DOMAIN todo /\ j + 1 # 1
    BY <1>6, <1>7, <1>11, HeadIs
  <2>2. CASE Task(todo[j + 1])
    BY <2>1, <2>2
  <2>3. CASE Checks(todo[j + 1], todo, j)
    <3>1. PICK b \in Nat : /\ td[k] = <<"progress", b>> /\ b <= pos
                           /\ b < pos \/ pos \in errors \/ Kind = "eof" \/ HasSure(todo, j)
      BY <2>1, <2>3 DEF Checks
    <3>2. b <= pos' /\ (pos' # pos => b < pos')
      BY <1>3, <3>1
    <3>3. CASE pos' # pos \/ b < pos
      BY <1>3, <3>1, <3>2, <3>3 DEF Checks
    <3>4. CASE pos' = pos /\ pos \in errors
      BY <1>2, <3>1, <3>2, <3>4 DEF Checks
    <3>5. CASE pos' = pos /\ Kind = "eof"
      <4>1. Kind' = "eof"
        BY <1>2, <3>5 DEF Kind
      <4> QED BY <3>1, <3>2, <4>1 DEF Checks
    <3>6. CASE pos' = pos /\ HasSure(todo, j) /\ Kind # "eof"
      <4>1. PICK i \in 1 .. j : ThisSurely(todo[i])
        BY <3>6 DEF HasSure
      <4>2. CASE i = 1
        <5>1. ThisSurely(Top)
          BY <4>1, <4>2, HeadIs
        <5>2. ~(n > 0)
          BY <1>3, <3>6
        <5>3. pos \in errors' \/ \E m \in DOMAIN ts : ThisSurely(ts[m])
          BY <1>1, <3>6, <5>1, <5>2 DEF Goes
        <5>4. CASE pos \in errors'
          BY <3>1, <3>2, <3>6, <5>4 DEF Checks
        <5>5. CASE \E m \in DOMAIN ts : ThisSurely(ts[m])
          <6>1. PICK m \in 1 .. Len(ts) : ThisSurely(ts[m])
            BY <1>4, <5>5
          <6>2. ThisSurely(td[m])' /\ m \in 1 .. k - 1
            BY <1>4, <1>6, <1>8, <1>11, <3>6, <6>1
          <6>3. HasSure(td, k - 1)'
            BY <6>2 DEF HasSure
          <6> QED BY <3>1, <3>2, <6>3 DEF Checks
        <5> QED BY <5>3, <5>4, <5>5
      <4>3. CASE i # 1
        <5>1. i - 1 \in 1 .. Len(todo) - 1 /\ (i - 1) + 1 = i /\ Len(ts) + (i - 1) \in 1 .. k - 1
          BY <1>4, <1>7, <1>11, <4>3
        <5>2. td[Len(ts) + (i - 1)] = todo[i]
          BY <1>6, <5>1
        <5>3. ThisSurely(td[Len(ts) + (i - 1)])'
          <6>1. PICK t : t = todo[i]
            OBVIOUS
          <6>2. ThisSurely(t)'
            BY <1>8, <3>6, <4>1, <6>1
          <6>3. td[Len(ts) + (i - 1)] = t
            BY <5>2, <6>1
          <6> QED BY <6>2, <6>3
        <5>4. HasSure(td, k - 1)'
          BY <5>1, <5>3 DEF HasSure
        <5> QED BY <3>1, <3>2, <5>4 DEF Checks
      <4> QED BY <4>2, <4>3
    <3> QED BY <3>1, <3>3, <3>4, <3>5, <3>6
  <2> QED BY <2>1, <2>2, <2>3 DEF DropInv, TodoOK
<1>12. \A k \in 1 .. Len(ts) + (Len(todo) - 1) : k \in 1 .. Len(ts) \/ (k - Len(ts) \in 1 .. Len(todo) - 1 /\ k = Len(ts) + (k - Len(ts)))
  BY <1>4, <1>7
<1>13. TodoOK'
  <2>1. ASSUME NEW k \in DOMAIN td
        PROVE  Task(td[k]) \/ Checks(td[k], td, k - 1)' \/ (k = 1 /\ Recovering(td[k])')
    BY <1>7, <1>10, <1>11, <1>12
  <2> QED BY <1>5, <1>6, <2>1 DEF TodoOK
<1>14. DropsAreReported'
  BY <1>1 DEF Goes, DropInv, DropsAreReported
<1> QED BY <1>2, <1>3, <1>13, <1>14 DEF DropInv

-----------------------------------------------------------------------------
\* The ways to go on.
LEMMA GoesOn ==
    ASSUME NEW ts, NEW n \in Nat, Run(ts, n), Tasks(ts), errors \subseteq errors', skipped' = skipped,
           ThisSurely(Top) => n > 0 \/ pos \in errors' \/ Kind = "eof" \/ \E i \in DOMAIN ts
             : ThisSurely(ts[i])
    PROVE  Fine
<1>1. NewOK(ts)
  BY DEF Tasks, NewOK
<1>2. Goes(ts, n)
  BY <1>1, Zenon DEF Goes
<1> QED BY <1>2, Zenon DEF Fine

LEMMA RunsOn ==
    ASSUME NEW ts, NEW n \in Nat, n > 0, Run(ts, n), Tasks(ts), errors \subseteq errors', skipped' = skipped
    PROVE  Fine
BY GoesOn, Zenon

LEMMA ReportsOn ==
    ASSUME NEW ts, NEW n \in Nat, Run(ts, n), Tasks(ts), errors' = errors \cup {pos}, skipped' = skipped
    PROVE  Fine
<1>1. errors \subseteq errors' /\ pos \in errors'
  OBVIOUS
<1> QED BY <1>1, GoesOn, Zenon

LEMMA StaysOn ==
    ASSUME NEW ts, NEW n \in Nat, Run(ts, n), Tasks(ts), errors' = errors, skipped' = skipped,
      ~ThisSurely(Top)
    PROVE  Fine
<1>1. errors \subseteq errors'
  OBVIOUS
<1> QED BY <1>1, GoesOn, Zenon

LEMMA QuietlyIs ==
    ASSUME Quietly
    PROVE  errors' = errors /\ skipped' = skipped /\ errors \subseteq errors'
BY DEF Quietly

LEMMA TakeIs ==
    ASSUME NEW ts, Take(ts), Tasks(ts)
    PROVE  Fine
<1>1. Run(ts, 1) /\ Quietly
  BY DEF Take
<1>2. 1 \in Nat /\ 1 > 0
  OBVIOUS
<1> QED BY <1>1, <1>2, QuietlyIs, RunsOn, Zenon

LEMMA ReportTaskIs ==
    ASSUME NEW ts, Report(ts), Tasks(ts)
    PROVE  Fine
<1>1. Run(ts, 0) /\ errors' = errors \cup {pos} /\ skipped' = skipped
  BY DEF Report
<1>2. 0 \in Nat
  OBVIOUS
<1> QED BY <1>1, <1>2, ReportsOn, Zenon

LEMMA DoIs ==
    ASSUME NEW ts, Do(ts), Tasks(ts), ~ThisSurely(Top)
    PROVE  Fine
<1>1. Run(ts, 0) /\ Quietly
  BY DEF Do
<1>2. 0 \in Nat
  OBVIOUS
<1> QED BY <1>1, <1>2, QuietlyIs, StaysOn, Zenon

LEMMA DoSurelyIs ==
    ASSUME NEW ts, Do(ts), Tasks(ts), \E i \in DOMAIN ts : ThisSurely(ts[i])
    PROVE  Fine
<1>1. Run(ts, 0) /\ Quietly
  BY DEF Do
<1>2. 0 \in Nat
  OBVIOUS
<1> QED BY <1>1, <1>2, QuietlyIs, GoesOn, Zenon

LEMMA DoAtEnd ==
    ASSUME NEW ts, Do(ts), Tasks(ts), Kind = "eof"
    PROVE  Fine
<1>1. Run(ts, 0) /\ Quietly
  BY DEF Do
<1>2. 0 \in Nat
  OBVIOUS
<1> QED BY <1>1, <1>2, QuietlyIs, GoesOn, Zenon

\* What a task that is in the list consists of.
LEMMA TopIs ==
    ASSUME DropInv, NEW name, Doing(name), name \notin {"progress", "synchronize"}
    PROVE  Task(Top) /\ Top[1] = name
<1>1. todo # <<>> /\ Top[1] = name
  BY DEF Doing
<1>2. 1 \in DOMAIN todo /\ Top = todo[1]
  BY <1>1, HeadIs
<1>3. \/ Task(Top) \/ Checks(Top, todo, 0) \/ Recovering(Top)
  BY <1>2 DEF DropInv, TodoOK
<1>4. ~Checks(Top, todo, 0) /\ ~Recovering(Top)
  <2>1. ASSUME NEW b, Top = <<"progress", b>>
        PROVE  Top[1] = "progress"
    BY <2>1
  <2>2. ASSUME Top = <<"synchronize">>
        PROVE  Top[1] = "synchronize"
    BY <2>2
  <2> QED BY <1>1, <2>1, <2>2, Zenon DEF Checks, Recovering
<1> QED BY <1>1, <1>3, <1>4

LEMMA NotSurely ==
    ASSUME NEW name, Doing(name), name \notin Sure, name # "attributes"
    PROVE  ~ThisSurely(Top)
BY Zenon DEF Doing, ThisSurely, Surely

LEMMA DoingTodo == ASSUME NEW name, Doing(name) PROVE todo # <<>>
BY DEF Doing

-----------------------------------------------------------------------------
\* The cursor and the loops.
LEMMA ExpectSteps ==
    ASSUME DropInv, ExpectToken
    PROVE  Fine
<1>1. Take(<<>>) \/ Report(<<>>)
  BY Zenon DEF ExpectToken
<1> QED BY <1>1, NoTasks, TakeIs, ReportTaskIs, Zenon

LEMMA GivenSteps ==
    ASSUME DropInv, GivenToken
    PROVE  Fine
<1>1. Doing("given") /\ (Take(Top[3]) \/ Do(<<>>))
  BY Zenon DEF GivenToken
<1>2. Task(Top) /\ Top[1] = "given" /\ ~ThisSurely(Top)
  <2>1. "given" \notin {"progress", "synchronize"} /\ "given" \notin Sure /\ "given" # "attributes"
    BY Zenon DEF Sure
  <2> QED BY <1>1, <2>1, TopIs, NotSurely, Zenon
<1>3. Tasks(Top[3])
  <2>1. Top[1] \in Compound /\ BodyOf(Top) = Top[3]
    BY <1>2, Zenon DEF Compound, BodyOf
  <2> QED BY <1>2, <2>1, BodyIs
<1> QED BY <1>1, <1>2, <1>3, NoTasks, TakeIs, DoIs, Zenon

LEMMA ValueSteps ==
    ASSUME DropInv, OptionalValue
    PROVE  Fine
<1>1. Doing("value") /\ (Do(<<>>) \/ Do(<<Expr(0)>>))
  BY Zenon DEF OptionalValue
<1>2. ~ThisSurely(Top)
  <2>1. "value" \notin Sure /\ "value" # "attributes"
    BY Zenon DEF Sure
  <2> QED BY <1>1, <2>1, NotSurely, Zenon
<1>3. Tasks(<<Expr(0)>>)
  BY PlainTasks, Tasks1, Zenon
<1> QED BY <1>1, <1>2, <1>3, NoTasks, DoIs, Zenon

LEMMA ListSteps ==
    ASSUME DropInv, ListItem
    PROVE  Fine
<1>1. "list" \notin {"progress", "synchronize"} /\ "list" \notin Sure /\ "list" # "attributes"
  BY Zenon DEF Sure
<1>2. "comma" \notin {"progress", "synchronize"} /\ "comma" \notin Sure /\ "comma" # "attributes"
  BY Zenon DEF Sure
<1>3. "again" \notin {"progress", "synchronize"} /\ "again" \notin Sure /\ "again" # "attributes"
  BY Zenon DEF Sure
<1>4. CASE Doing("list") /\ (Do(<<>>) \/ Do(Append(Top[2], Comma(Top[2], Top[3]))))
  <2>1. Task(Top) /\ Top[1] = "list" /\ ~ThisSurely(Top)
    BY <1>1, <1>4, TopIs, NotSurely, Zenon
  <2>2. Top[1] \in Compound /\ BodyOf(Top) = Top[2]
    BY <2>1, Zenon DEF Compound, BodyOf
  <2>3. Tasks(Top[2])
    BY <2>1, <2>2, BodyIs
  <2>4. Tasks(Append(Top[2], Comma(Top[2], Top[3])))
    BY <2>3, ListTask, TasksAppend, Zenon
  <2> QED BY <1>4, <2>1, <2>4, NoTasks, DoIs, Zenon
<1>5. CASE Doing("comma") /\ (Take(<<List(Top[2], Top[3])>>) \/ Do(<<>>))
  <2>1. Task(Top) /\ Top[1] = "comma" /\ ~ThisSurely(Top)
    BY <1>2, <1>5, TopIs, NotSurely, Zenon
  <2>2. Top[1] \in Compound /\ BodyOf(Top) = Top[2]
    BY <2>1, Zenon DEF Compound, BodyOf
  <2>3. Tasks(Top[2])
    BY <2>1, <2>2, BodyIs
  <2>4. Tasks(<<List(Top[2], Top[3])>>)
    BY <2>3, ListTask, Tasks1, Zenon
  <2> QED BY <1>5, <2>1, <2>4, NoTasks, TakeIs, DoIs, Zenon
<1>6. CASE Doing("again") /\ (Take(Append(Top[3], Top)) \/ Do(<<>>))
  <2>1. Task(Top) /\ Top[1] = "again" /\ ~ThisSurely(Top)
    BY <1>3, <1>6, TopIs, NotSurely, Zenon
  <2>2. Top[1] \in Compound /\ BodyOf(Top) = Top[3]
    BY <2>1, Zenon DEF Compound, BodyOf
  <2>3. Tasks(Top[3])
    BY <2>1, <2>2, BodyIs
  <2>4. Tasks(Append(Top[3], Top))
    BY <2>1, <2>3, TasksAppend, Zenon
  <2> QED BY <1>6, <2>1, <2>4, NoTasks, TakeIs, DoIs, Zenon
<1> QED BY <1>4, <1>5, <1>6, Zenon DEF ListItem

LEMMA SimpleTasks ==
    /\ Task(<<"then">>)
    /\ Task(<<"cases">>)
    /\ Task(<<"catches">>)
    /\ Task(<<"static vars">>)
    /\ Task(<<"declared">>)
    /\ Task(<<"body">>)
    /\ Task(<<"use item">>)
    /\ Task(<<"use rest">>)
    /\ Task(<<"stmt end">>)
    /\ Task(<<"attributes">>)
    /\ Task(<<"attributed">>)
    /\ Task(<<"declaration">>)
    /\ Task(<<"constants">>)
    /\ Task(<<"class">>)
    /\ Task(<<"modifiers">>)
    /\ Task(<<"param">>)
    /\ Task(<<"param type">>)
    /\ Task(<<"hooks">>)
    /\ Task(<<"type">>)
    /\ Task(<<"type unit">>)
    /\ Task(<<"types">>)
    /\ Task(<<"member">>)
    /\ Task(<<"property">>)
    /\ Task(<<"modified">>)
    /\ Task(<<"adaptations">>)
    /\ Task(<<"variable">>)
    /\ Task(<<"hooked">>)
    /\ Task(<<"hook">>)
    /\ Task(<<"hook body">>)
    /\ Task(<<"adaptation">>)
    /\ Task(<<"adapt">>)
    /\ Task(<<"marker">>)
    /\ Task(<<"prefix">>)
    /\ Task(<<"postfix">>)
    /\ Task(<<"variable variable">>)
    /\ Task(<<"arm">>)
    /\ Task(<<"item">>)
    /\ Task(<<"arguments">>)
    /\ Task(<<"args">>)
    /\ Task(<<"arg">>)
    /\ Task(<<"after dollar">>)
    /\ Task(<<"member name">>)
    /\ Task(<<"class ref">>)
    /\ Task(<<"class member">>)
    /\ Task(<<"access">>)
    /\ Task(<<"offset">>)
    /\ Task(<<"leave">>)
<1>1. Task(<<"then">>)
  BY NamedTasks, Zenon DEF Compound
<1>2. Task(<<"cases">>)
  BY NamedTasks, Zenon DEF Compound
<1>3. Task(<<"catches">>)
  BY NamedTasks, Zenon DEF Compound
<1>4. Task(<<"static vars">>)
  BY NamedTasks, Zenon DEF Compound
<1>5. Task(<<"declared">>)
  BY NamedTasks, Zenon DEF Compound
<1>6. Task(<<"body">>)
  BY NamedTasks, Zenon DEF Compound
<1>7. Task(<<"use item">>)
  BY NamedTasks, Zenon DEF Compound
<1>8. Task(<<"use rest">>)
  BY NamedTasks, Zenon DEF Compound
<1>9. Task(<<"stmt end">>)
  BY NamedTasks, Zenon DEF Compound
<1>10. Task(<<"attributes">>)
  BY NamedTasks, Zenon DEF Compound
<1>11. Task(<<"attributed">>)
  BY NamedTasks, Zenon DEF Compound
<1>12. Task(<<"declaration">>)
  BY NamedTasks, Zenon DEF Compound
<1>13. Task(<<"constants">>)
  BY NamedTasks, Zenon DEF Compound
<1>14. Task(<<"class">>)
  BY NamedTasks, Zenon DEF Compound
<1>15. Task(<<"modifiers">>)
  BY NamedTasks, Zenon DEF Compound
<1>16. Task(<<"param">>)
  BY NamedTasks, Zenon DEF Compound
<1>17. Task(<<"param type">>)
  BY NamedTasks, Zenon DEF Compound
<1>18. Task(<<"hooks">>)
  BY NamedTasks, Zenon DEF Compound
<1>19. Task(<<"type">>)
  BY NamedTasks, Zenon DEF Compound
<1>20. Task(<<"type unit">>)
  BY NamedTasks, Zenon DEF Compound
<1>21. Task(<<"types">>)
  BY NamedTasks, Zenon DEF Compound
<1>22. Task(<<"member">>)
  BY NamedTasks, Zenon DEF Compound
<1>23. Task(<<"property">>)
  BY NamedTasks, Zenon DEF Compound
<1>24. Task(<<"modified">>)
  BY NamedTasks, Zenon DEF Compound
<1>25. Task(<<"adaptations">>)
  BY NamedTasks, Zenon DEF Compound
<1>26. Task(<<"variable">>)
  BY NamedTasks, Zenon DEF Compound
<1>27. Task(<<"hooked">>)
  BY NamedTasks, Zenon DEF Compound
<1>28. Task(<<"hook">>)
  BY NamedTasks, Zenon DEF Compound
<1>29. Task(<<"hook body">>)
  BY NamedTasks, Zenon DEF Compound
<1>30. Task(<<"adaptation">>)
  BY NamedTasks, Zenon DEF Compound
<1>31. Task(<<"adapt">>)
  BY NamedTasks, Zenon DEF Compound
<1>32. Task(<<"marker">>)
  BY NamedTasks, Zenon DEF Compound
<1>33. Task(<<"prefix">>)
  BY NamedTasks, Zenon DEF Compound
<1>34. Task(<<"postfix">>)
  BY NamedTasks, Zenon DEF Compound
<1>35. Task(<<"variable variable">>)
  BY NamedTasks, Zenon DEF Compound
<1>36. Task(<<"arm">>)
  BY NamedTasks, Zenon DEF Compound
<1>37. Task(<<"item">>)
  BY NamedTasks, Zenon DEF Compound
<1>38. Task(<<"arguments">>)
  BY NamedTasks, Zenon DEF Compound
<1>39. Task(<<"args">>)
  BY NamedTasks, Zenon DEF Compound
<1>40. Task(<<"arg">>)
  BY NamedTasks, Zenon DEF Compound
<1>41. Task(<<"after dollar">>)
  BY NamedTasks, Zenon DEF Compound
<1>42. Task(<<"member name">>)
  BY NamedTasks, Zenon DEF Compound
<1>43. Task(<<"class ref">>)
  BY NamedTasks, Zenon DEF Compound
<1>44. Task(<<"class member">>)
  BY NamedTasks, Zenon DEF Compound
<1>45. Task(<<"access">>)
  BY NamedTasks, Zenon DEF Compound
<1>46. Task(<<"offset">>)
  BY NamedTasks, Zenon DEF Compound
<1>47. Task(<<"leave">>)
  BY NamedTasks, Zenon DEF Compound
<1> QED BY <1>1, <1>2, <1>3, <1>4, <1>5, <1>6, <1>7, <1>8, <1>9, <1>10, <1>11, <1>12, <1>13, <1>14, <1>15,
           <1>16, <1>17, <1>18, <1>19, <1>20, <1>21, <1>22, <1>23, <1>24, <1>25, <1>26, <1>27, <1>28,
           <1>29, <1>30, <1>31, <1>32, <1>33, <1>34, <1>35, <1>36, <1>37, <1>38, <1>39, <1>40, <1>41,
           <1>42, <1>43, <1>44, <1>45, <1>46, <1>47, Zenon

LEMMA MarkedTasks ==
    /\ \A a : Task(<<"loop body", a>>)
    /\ \A a : Task(<<"else", a>>)
    /\ \A a : Task(<<"case", a>>)
    /\ \A a : Task(<<"infix", a>>)
    /\ \A a : Task(<<"collapse", a>>)
    /\ \A a, b : Task(<<"new", a, b>>)
    /\ \A a, b : Task(<<"decorated", a, b>>)
    /\ \A a : Task(<<"static member", a>>)
    /\ \A a : Task(<<"static call", a>>)
<1>1. "loop body" \notin Compound \cup {"progress", "synchronize"}
  BY Zenon DEF Compound
<1>2. "else" \notin Compound \cup {"progress", "synchronize"}
  BY Zenon DEF Compound
<1>3. "case" \notin Compound \cup {"progress", "synchronize"}
  BY Zenon DEF Compound
<1>4. "infix" \notin Compound \cup {"progress", "synchronize"}
  BY Zenon DEF Compound
<1>5. "collapse" \notin Compound \cup {"progress", "synchronize"}
  BY Zenon DEF Compound
<1>6. "new" \notin Compound \cup {"progress", "synchronize"}
  BY Zenon DEF Compound
<1>7. "decorated" \notin Compound \cup {"progress", "synchronize"}
  BY Zenon DEF Compound
<1>8. "static member" \notin Compound \cup {"progress", "synchronize"}
  BY Zenon DEF Compound
<1>9. "static call" \notin Compound \cup {"progress", "synchronize"}
  BY Zenon DEF Compound
<1> QED BY <1>1, <1>2, <1>3, <1>4, <1>5, <1>6, <1>7, <1>8, <1>9, NamedTasks, Zenon

LEMMA StmtsTask == \A terms : Task(Loop(<<<<"marker">>>>, terms)) /\ Task(Stmts(terms))
<1>1. ASSUME NEW terms
      PROVE  Task(Loop(<<<<"marker">>>>, terms))
  <2>1. Tasks(<<<<"marker">>>>)
    BY SimpleTasks, Tasks1, Zenon
  <2>2. Surely(<<"marker">>)
    <3>1. <<"marker">>[1] = "marker"
      OBVIOUS
    <3> QED BY <3>1, Zenon DEF Surely, Sure
  <2>3. \E i \in DOMAIN <<<<"marker">>>> : Surely(<<<<"marker">>>>[i])
    <3> DEFINE m == <<"marker">>
    <3>1. Surely(m)
      BY <2>2
    <3> HIDE DEF m
    <3>2. 1 \in DOMAIN <<m>> /\ <<m>>[1] = m
      OBVIOUS
    <3>3. \E i \in DOMAIN <<m>> : Surely(<<m>>[i])
      BY <3>1, <3>2, Zenon
    <3> QED BY <3>3 DEF m
  <2> QED BY <2>1, <2>3, LoopTask, Zenon
<1> QED BY <1>1, Zenon DEF Stmts

LEMMA ShortTasks ==
    /\ \A set : Task(Eat(set))
    /\ \A terms : Task(Stmts(terms))
    /\ \A close : Task(Items(close))
    /\ Task(ReturnType) /\ Task(OptArgs) /\ Task(UseAlias)
<1>1. \A set : Task(Eat(set))
  BY NoTasks, GivenTask, Zenon DEF Eat
<1>2. \A close : Task(Items(close))
  <2>1. Tasks(<<<<"item">>>>)
    BY SimpleTasks, Tasks1, Zenon
  <2> QED BY <2>1, ListTask, Zenon DEF Items
<1>3. Task(ReturnType)
  <2>1. Tasks(<<<<"type">>>>)
    BY SimpleTasks, Tasks1, Zenon
  <2> QED BY <2>1, GivenTask, Zenon DEF ReturnType
<1>4. Task(OptArgs)
  <2>1. Tasks(<<<<"args">>>>)
    BY SimpleTasks, Tasks1, Zenon
  <2> QED BY <2>1, GivenTask, Zenon DEF OptArgs
<1>5. Task(UseAlias)
  <2>1. Tasks(<<Expect(AnyIdent)>>)
    BY PlainTasks, Tasks1, Zenon
  <2> QED BY <2>1, GivenTask, Zenon DEF UseAlias
<1> QED BY <1>1, <1>2, <1>3, <1>4, <1>5, StmtsTask, Zenon

LEMMA GroupTasks ==
    ASSUME NEW op, NEW ts, Tasks(ts)
    PROVE  Tasks(Group(op, ts))
<1>1. Tasks(<<Wrap("group", op, Len(nodes)), <<"postfix">>>>)
  BY PlainTasks, SimpleTasks, Tasks2, Zenon
<1> QED BY <1>1, TasksConcat, Zenon DEF Group

LEMMA ClassBodyTasks == Tasks(ClassBody)
<1>1. Tasks(<<<<"attributes">>, <<"member">>>>)
  BY SimpleTasks, Tasks2, Zenon
<1>2. Surely(<<"member">>)
  <2>1. <<"member">>[1] = "member"
    OBVIOUS
  <2> QED BY <2>1, Zenon DEF Surely, Sure
<1>3. \E i \in DOMAIN <<<<"attributes">>, <<"member">>>> : Surely(<<<<"attributes">>, <<"member">>>>[i])
  <2> DEFINE a == <<"attributes">>
             m == <<"member">>
  <2>1. Surely(m)
    BY <1>2
  <2> HIDE DEF a, m
  <2>2. 2 \in DOMAIN <<a, m>> /\ <<a, m>>[2] = m
    OBVIOUS
  <2>3. \E i \in DOMAIN <<a, m>> : Surely(<<a, m>>[i])
    BY <2>1, <2>2, Zenon
  <2> QED BY <2>3 DEF a, m
<1>4. Task(Loop(<<<<"attributes">>, <<"member">>>>, {"}", "eof"}))
  BY <1>1, <1>3, LoopTask, Zenon
<1>5. Tasks(<<Expect({"{"}), Loop(<<<<"attributes">>, <<"member">>>>, {"}", "eof"}), Expect({"}"})>>)
  BY <1>4, PlainTasks, Tasks3, Zenon
<1> QED BY <1>5, Zenon DEF ClassBody

LEMMA Sequences1 == Tasks(Block) /\ Tasks(Params) /\ Tasks(Exprs) /\ Tasks(NameList) /\ Tasks(Condition)
<1>1. Tasks(Block)
  <2>1. Tasks(<<Expect({"{"}), Stmts({}), Expect({"}"})>>)
    BY PlainTasks, ShortTasks, Tasks3, Zenon
  <2> QED BY <2>1, Zenon DEF Block
<1>2. Tasks(Params)
  <2>1. Tasks(<<Open, List(<<<<"param">>>>, {")", "eof"}), Close>>)
    <3>1. Tasks(<<<<"param">>>>)
      BY SimpleTasks, Tasks1, Zenon
    <3>2. Task(List(<<<<"param">>>>, {")", "eof"}))
      BY <3>1, ListTask, Zenon
    <3> QED BY <3>2, PlainTasks, Tasks3, Zenon
  <2> QED BY <2>1, Zenon DEF Params
<1>3. Tasks(Exprs)
  <2>1. Tasks(<<Expr(0), Comma(<<Expr(0)>>, StmtEnds)>>)
    <3>1. Tasks(<<Expr(0)>>)
      BY PlainTasks, Tasks1, Zenon
    <3>2. Task(Comma(<<Expr(0)>>, StmtEnds))
      BY <3>1, ListTask, Zenon
    <3> QED BY <3>2, PlainTasks, Tasks2, Zenon
  <2> QED BY <2>1, Zenon DEF Exprs
<1>4. Tasks(NameList)
  <2>1. Tasks(<<Expect(AnyIdent), Again(",", <<Expect(AnyIdent)>>)>>)
    <3>1. Tasks(<<Expect(AnyIdent)>>)
      BY PlainTasks, Tasks1, Zenon
    <3>2. Task(Again(",", <<Expect(AnyIdent)>>))
      BY <3>1, AgainTask, Zenon
    <3> QED BY <3>2, PlainTasks, Tasks2, Zenon
  <2> QED BY <2>1, Zenon DEF NameList
<1>5. Tasks(Condition)
  <2>1. Tasks(<<Open, Expr(0), Close>>)
    BY PlainTasks, Tasks3, Zenon
  <2> QED BY <2>1, Zenon DEF Condition
<1> QED BY <1>1, <1>2, <1>3, <1>4, <1>5

LEMMA HookParamsTasks == Tasks(Tail(Params))
<1>1. Tasks(<<List(<<<<"param">>>>, {")", "eof"}), Close>>)
  <2>1. Tasks(<<<<"param">>>>)
    BY SimpleTasks, Tasks1, Zenon
  <2>2. Task(List(<<<<"param">>>>, {")", "eof"}))
    BY <2>1, ListTask, Zenon
  <2> QED BY <2>2, PlainTasks, Tasks2, Zenon
<1>2. Tail(Params) = <<List(<<<<"param">>>>, {")", "eof"}), Close>>
  <2>1. \A a, b, c : Tail(<<a, b, c>>) = <<b, c>>
    <3> TAKE a, b, c
    <3> DEFINE s == <<a, b, c>>
    <3>1. s \in Seq({a, b, c}) /\ Len(s) = 3 /\ s # <<>>
      OBVIOUS
    <3>2. Tail(s) \in Seq({a, b, c}) /\ Len(Tail(s)) = 2 /\ Tail(s)[1] = s[2] /\ Tail(s)[2] = s[3]
      <4> HIDE DEF s
      <4> QED BY <3>1
    <3> DEFINE r == <<b, c>>
    <3>3. s[2] = b /\ s[3] = c /\ r \in Seq({a, b, c}) /\ Len(r) = 2 /\ r[1] = b /\ r[2] = c
      OBVIOUS
    <3> HIDE DEF s, r
    <3>4. \A i \in 1 .. 2 : Tail(s)[i] = r[i]
      <4>1. \A i \in 1 .. 2 : i = 1 \/ i = 2
        OBVIOUS
      <4>2. Tail(s)[1] = r[1] /\ Tail(s)[2] = r[2]
        BY <3>2, <3>3, Zenon
      <4> QED BY <4>1, <4>2, Zenon
    <3>5. Tail(s) = r
      BY <3>2, <3>3, <3>4, SeqEqual
    <3> QED BY <3>5 DEF s, r
  <2> QED BY <2>1, Zenon DEF Params
<1> QED BY <1>1, <1>2

LEMMA FunctionTasks == Tasks(Closure) /\ Tasks(Arrow) /\ \A k : Tasks(ClosureOf(k))
<1>1. Tasks(<<Eat(Amp)>> \o Params \o <<Given({"use"}, <<Open, List(<<Eat(Amp), Expect({"v"})>>, {")",
      "eof"}), Close>>), ReturnType>> \o Block)
  <2>1. Tasks(<<Eat(Amp)>>)
    BY ShortTasks, Tasks1, Zenon
  <2>2. Tasks(Params)
    BY Sequences1, Zenon
  <2>3. Tasks(<<Eat(Amp)>> \o Params)
    BY <2>1, <2>2, TasksConcat, Zenon
  <2>4. Tasks(<<Eat(Amp), Expect({"v"})>>)
    BY PlainTasks, ShortTasks, Tasks2, Zenon
  <2>5. Task(List(<<Eat(Amp), Expect({"v"})>>, {")", "eof"}))
    BY <2>4, ListTask, Zenon
  <2>6. Tasks(<<Open, List(<<Eat(Amp), Expect({"v"})>>, {")", "eof"}), Close>>)
    BY <2>5, PlainTasks, Tasks3, Zenon
  <2>7. Task(Given({"use"}, <<Open, List(<<Eat(Amp), Expect({"v"})>>, {")", "eof"}), Close>>))
    BY <2>6, GivenTask, Zenon
  <2>8. Tasks(<<Given({"use"}, <<Open, List(<<Eat(Amp), Expect({"v"})>>, {")", "eof"}), Close>>),
        ReturnType>>)
    BY <2>7, ShortTasks, Tasks2, Zenon
  <2>9. Tasks(<<Eat(Amp)>> \o Params \o <<Given({"use"}, <<Open, List(<<Eat(Amp), Expect({"v"})>>, {")",
        "eof"}), Close>>), ReturnType>>)
    BY <2>3, <2>8, TasksConcat, Zenon
  <2>10. Tasks(Block)
    BY Sequences1, Zenon
  <2> QED BY <2>9, <2>10, TasksConcat, Zenon
<1>2. Tasks(<<Eat(Amp)>> \o Params \o <<ReturnType, Expect({"=>"}), Expr(0)>>)
  <2>1. Tasks(<<Eat(Amp)>>)
    BY ShortTasks, Tasks1, Zenon
  <2>2. Tasks(Params)
    BY Sequences1, Zenon
  <2>3. Tasks(<<Eat(Amp)>> \o Params)
    BY <2>1, <2>2, TasksConcat, Zenon
  <2>4. Tasks(<<ReturnType, Expect({"=>"}), Expr(0)>>)
    BY PlainTasks, ShortTasks, Tasks3, Zenon
  <2> QED BY <2>3, <2>4, TasksConcat, Zenon
<1>3. Tasks(Closure) /\ Tasks(Arrow)
  BY <1>1, <1>2, Zenon DEF Closure, Arrow
<1> QED BY <1>3, Zenon DEF ClosureOf

LEMMA Sequences ==
    /\ Tasks(Block) /\ Tasks(Params) /\ Tasks(Exprs) /\ Tasks(NameList) /\ Tasks(Condition)
    /\ Tasks(ClassBody) /\ Tasks(Tail(Params)) /\ Tasks(Closure) /\ Tasks(Arrow)
    /\ \A k : Tasks(ClosureOf(k))
BY ClassBodyTasks, Sequences1, HookParamsTasks, FunctionTasks, Zenon

LEMMA RunQuietly ==
    ASSUME NEW ts, NEW n \in Nat, n > 0, Run(ts, n), Quietly, Tasks(ts)
    PROVE  Fine
BY QuietlyIs, RunsOn, Zenon

LEMMA StandsQuietly ==
    ASSUME NEW ts, Run(ts, 0), Quietly, Tasks(ts), ~ThisSurely(Top)
    PROVE  Fine
<1>1. 0 \in Nat
  OBVIOUS
<1> QED BY <1>1, QuietlyIs, StaysOn, Zenon

LEMMA RunReports ==
    ASSUME NEW ts, NEW n \in Nat, Run(ts, n), errors' = errors \cup {pos}, UNCHANGED <<depth, skipped>>,
      Tasks(ts)
    PROVE  Fine
<1>1. skipped' = skipped
  OBVIOUS
<1> QED BY <1>1, ReportsOn, Zenon

LEMMA Numbers == 0 \in Nat /\ 1 \in Nat /\ 2 \in Nat /\ 1 > 0 /\ 2 > 0
OBVIOUS

LEMMA Sure1of1 ==
    ASSUME NEW a, ThisSurely(a)
    PROVE  \E i \in DOMAIN <<a>> : ThisSurely(<<a>>[i])
<1>1. 1 \in DOMAIN <<a>> /\ <<a>>[1] = a
  OBVIOUS
<1> QED BY <1>1, Zenon

LEMMA Sure1of2 ==
    ASSUME NEW a, NEW b, ThisSurely(a)
    PROVE  \E i \in DOMAIN <<a, b>> : ThisSurely(<<a, b>>[i])
<1>1. 1 \in DOMAIN <<a, b>> /\ <<a, b>>[1] = a
  OBVIOUS
<1> QED BY <1>1, Zenon

LEMMA Sure2of2 ==
    ASSUME NEW a, NEW b, ThisSurely(b)
    PROVE  \E i \in DOMAIN <<a, b>> : ThisSurely(<<a, b>>[i])
<1>1. 2 \in DOMAIN <<a, b>> /\ <<a, b>>[2] = b
  OBVIOUS
<1> QED BY <1>1, Zenon

LEMMA Sure1of3 ==
    ASSUME NEW a, NEW b, NEW c, ThisSurely(a)
    PROVE  \E i \in DOMAIN <<a, b, c>> : ThisSurely(<<a, b, c>>[i])
<1>1. 1 \in DOMAIN <<a, b, c>> /\ <<a, b, c>>[1] = a
  OBVIOUS
<1> QED BY <1>1, Zenon

LEMMA Sure1of4 ==
    ASSUME NEW a, NEW b, NEW c, NEW d, ThisSurely(a)
    PROVE  \E i \in DOMAIN <<a, b, c, d>> : ThisSurely(<<a, b, c, d>>[i])
<1>1. 1 \in DOMAIN <<a, b, c, d>> /\ <<a, b, c, d>>[1] = a
  OBVIOUS
<1> QED BY <1>1, Zenon

LEMMA Sure4of6 ==
    ASSUME NEW a, NEW b, NEW c, NEW d, NEW e, NEW f, ThisSurely(d)
    PROVE  \E i \in DOMAIN <<a, b, c, d, e, f>> : ThisSurely(<<a, b, c, d, e, f>>[i])
<1>1. 4 \in DOMAIN <<a, b, c, d, e, f>> /\ <<a, b, c, d, e, f>>[4] = d
  OBVIOUS
<1> QED BY <1>1, Zenon

LEMMA MakeNodeSteps ==
    ASSUME DropInv, MakeNode
    PROVE  Fine
<1>1. /\ Doing("make")
      /\ (Run(<<>>, 0) /\ Quietly)
  BY Zenon DEF MakeNode
<1>2. ~ThisSurely(Top)
  <2>1. "make" \notin {"progress", "synchronize"} /\ "make" \notin Sure /\ "make" # "attributes"
    BY Zenon DEF Sure
  <2> QED BY <1>1, <2>1, TopIs, NotSurely, Zenon
<1> QED BY <1>1, NoTasks, <1>2, Numbers, StandsQuietly, Zenon

LEMMA StmtOrMarkerSteps ==
    ASSUME DropInv, StmtOrMarker
    PROVE  Fine
<1>1. /\ Doing("marker")
      /\ \/ Take(<<>>)
         \/ (Run(<<>>, 1) /\ Quietly)
         \/ Take(Exprs \o <<StmtEnd, Wrap("stmt", "echo", Len(nodes))>>)
         \/ (Kind = "eof" /\ Do(<<>>))
         \/ Do(<<Statement>>)
  BY Zenon DEF StmtOrMarker
<1>2. Tasks(Exprs \o <<StmtEnd, Wrap("stmt", "echo", Len(nodes))>>)
  <2>1. Tasks(Exprs)
    BY Sequences, Zenon
  <2>2. Tasks(<<StmtEnd, Wrap("stmt", "echo", Len(nodes))>>)
    BY PlainTasks, Tasks2, Zenon
  <2> QED BY <2>1, <2>2, TasksConcat, Zenon
<1>3. Tasks(<<Statement>>)
  BY PlainTasks, Tasks1, Zenon
<1>4. ThisSurely(Statement)
  <2>1. Statement[1] \in Sure
    <3>1. Statement[1] = "statement"
      BY DEF Statement
    <3> QED BY <3>1, Zenon DEF Sure
  <2> QED BY <2>1, Zenon DEF ThisSurely, Surely
<1>5. \E i \in DOMAIN <<Statement>> : ThisSurely(<<Statement>>[i])
  BY <1>4, Sure1of1, Zenon
<1> QED BY <1>1, NoTasks, <1>2, <1>3, <1>5, DoAtEnd, DoSurelyIs, Numbers, RunQuietly, TakeIs, Zenon

LEMMA LoopBodySteps ==
    ASSUME DropInv, LoopBody
    PROVE  Fine
<1>1. /\ Doing("loop body")
      /\ \/ Take(<<Stmts({Top[2]}), Expect({Top[2]}), StmtEnd>>)
         \/ Do(<<Statement>>)
  BY Zenon DEF LoopBody
<1>2. ~ThisSurely(Top)
  <2>1. "loop body" \notin {"progress", "synchronize"} /\ "loop body" \notin Sure
        /\ "loop body" # "attributes"
    BY Zenon DEF Sure
  <2> QED BY <1>1, <2>1, TopIs, NotSurely, Zenon
<1>3. Tasks(<<Stmts({Top[2]}), Expect({Top[2]}), StmtEnd>>)
  BY PlainTasks, ShortTasks, Tasks3, Zenon
<1>4. Tasks(<<Statement>>)
  BY PlainTasks, Tasks1, Zenon
<1> QED BY <1>1, <1>3, <1>4, <1>2, DoIs, TakeIs, Zenon

LEMMA StaticVarsSteps ==
    ASSUME DropInv, StaticVars
    PROVE  Fine
<1>1. /\ Doing("static vars")
      /\ Do(Append(<<Expect({"v"}), Given({"="}, <<Expr(0)>>)>>, Again(",", <<Expect({"v"}), Given({"="},
         <<Expr(0)>>)>>)))
  BY Zenon DEF StaticVars
<1>2. ~ThisSurely(Top)
  <2>1. "static vars" \notin {"progress", "synchronize"} /\ "static vars" \notin Sure
        /\ "static vars" # "attributes"
    BY Zenon DEF Sure
  <2> QED BY <1>1, <2>1, TopIs, NotSurely, Zenon
<1>3. Tasks(Append(<<Expect({"v"}), Given({"="}, <<Expr(0)>>)>>, Again(",", <<Expect({"v"}), Given({"="},
      <<Expr(0)>>)>>)))
  <2>1. Tasks(<<Expr(0)>>)
    BY PlainTasks, Tasks1, Zenon
  <2>2. Task(Given({"="}, <<Expr(0)>>))
    BY <2>1, GivenTask, Zenon
  <2>3. Tasks(<<Expect({"v"}), Given({"="}, <<Expr(0)>>)>>)
    BY <2>2, PlainTasks, Tasks2, Zenon
  <2>4. Task(Again(",", <<Expect({"v"}), Given({"="}, <<Expr(0)>>)>>))
    BY <2>3, AgainTask, Zenon
  <2> QED BY <2>3, <2>4, TasksAppend, Zenon
<1> QED BY <1>1, <1>3, <1>2, DoIs, Zenon

LEMMA DeclaredSteps ==
    ASSUME DropInv, Declared
    PROVE  Fine
<1>1. /\ Doing("declared")
      /\ \/ Do(Block)
         \/ Take(<<Stmts({"enddeclare"}), Expect({"enddeclare"}), StmtEnd>>)
         \/ Do(<<StmtEnd>>)
  BY Zenon DEF Declared
<1>2. ~ThisSurely(Top)
  <2>1. "declared" \notin {"progress", "synchronize"} /\ "declared" \notin Sure /\ "declared" # "attributes"
    BY Zenon DEF Sure
  <2> QED BY <1>1, <2>1, TopIs, NotSurely, Zenon
<1>3. Tasks(Block)
  BY Sequences, Zenon
<1>4. Tasks(<<Stmts({"enddeclare"}), Expect({"enddeclare"}), StmtEnd>>)
  BY PlainTasks, ShortTasks, Tasks3, Zenon
<1>5. Tasks(<<StmtEnd>>)
  BY PlainTasks, Tasks1, Zenon
<1> QED BY <1>1, <1>3, <1>4, <1>5, <1>2, DoIs, TakeIs, Zenon

LEMMA BlockOrEndSteps ==
    ASSUME DropInv, BlockOrEnd
    PROVE  Fine
<1>1. /\ Doing("body")
      /\ \/ Do(Block)
         \/ Do(<<StmtEnd>>)
  BY Zenon DEF BlockOrEnd
<1>2. ~ThisSurely(Top)
  <2>1. "body" \notin {"progress", "synchronize"} /\ "body" \notin Sure /\ "body" # "attributes"
    BY Zenon DEF Sure
  <2> QED BY <1>1, <2>1, TopIs, NotSurely, Zenon
<1>3. Tasks(Block)
  BY Sequences, Zenon
<1>4. Tasks(<<StmtEnd>>)
  BY PlainTasks, Tasks1, Zenon
<1> QED BY <1>1, <1>3, <1>4, <1>2, DoIs, Zenon

LEMMA ParseUseSteps ==
    ASSUME DropInv, ParseUse
    PROVE  Fine
<1>1. CASE /\ Doing("use item")
           /\ Do(<<Eat({"function", "const"}), Expect(AnyIdent), <<"use rest">>>>)
  <2>1. ~ThisSurely(Top)
    <3>1. "use item" \notin {"progress", "synchronize"} /\ "use item" \notin Sure /\ "use item" # "attributes"
      BY Zenon DEF Sure
    <3> QED BY <1>1, <3>1, TopIs, NotSurely, Zenon
  <2>2. Tasks(<<Eat({"function", "const"}), Expect(AnyIdent), <<"use rest">>>>)
    BY PlainTasks, ShortTasks, SimpleTasks, Tasks3, Zenon
  <2> QED BY <1>1, <2>2, <2>1, DoIs, Zenon
<1>2. CASE /\ Doing("use rest")
           /\ \/ Take(<<List(<<Eat({"function", "const"}), Expect(AnyIdent), UseAlias>>, {"}", "eof"}),
                 Expect({"}"})>>)
              \/ /\ Run(<<List(<<Eat({"function", "const"}), Expect(AnyIdent), UseAlias>>, {"}", "eof"}),
                         Expect({"}"})>>, 2)
                 /\ Quietly
              \/ Do(<<UseAlias, Given({","}, <<<<"use item">>>>)>>)
  <2>1. ~ThisSurely(Top)
    <3>1. "use rest" \notin {"progress", "synchronize"} /\ "use rest" \notin Sure /\ "use rest" # "attributes"
      BY Zenon DEF Sure
    <3> QED BY <1>2, <3>1, TopIs, NotSurely, Zenon
  <2>2. Tasks(<<List(<<Eat({"function", "const"}), Expect(AnyIdent), UseAlias>>, {"}", "eof"}),
        Expect({"}"})>>)
    <3>1. Tasks(<<Eat({"function", "const"}), Expect(AnyIdent), UseAlias>>)
      BY PlainTasks, ShortTasks, Tasks3, Zenon
    <3>2. Task(List(<<Eat({"function", "const"}), Expect(AnyIdent), UseAlias>>, {"}", "eof"}))
      BY <3>1, ListTask, Zenon
    <3> QED BY <3>2, PlainTasks, Tasks2, Zenon
  <2>3. Tasks(<<UseAlias, Given({","}, <<<<"use item">>>>)>>)
    <3>1. Tasks(<<<<"use item">>>>)
      BY SimpleTasks, Tasks1, Zenon
    <3>2. Task(Given({","}, <<<<"use item">>>>))
      BY <3>1, GivenTask, Zenon
    <3> QED BY <3>2, ShortTasks, Tasks2, Zenon
  <2> QED BY <1>2, <2>2, <2>3, <2>1, DoIs, Numbers, RunQuietly, TakeIs, Zenon
<1> QED BY <1>1, <1>2, Zenon DEF ParseUse

LEMMA ParseTrySteps ==
    ASSUME DropInv, ParseTry
    PROVE  Fine
<1>1. /\ Doing("catches")
      /\ \/ Take(<<Open, Expect(AnyIdent), Again("|", <<Expect(AnyIdent)>>), Eat({"v"}), Close>>
            \o Append(Block, Top))
         \/ Take(Block)
         \/ Do(<<>>)
  BY Zenon DEF ParseTry
<1>2. Task(Top) /\ ~ThisSurely(Top)
  <2>1. "catches" \notin {"progress", "synchronize"} /\ "catches" \notin Sure /\ "catches" # "attributes"
    BY Zenon DEF Sure
  <2> QED BY <1>1, <2>1, TopIs, NotSurely, Zenon
<1>3. Tasks(<<Open, Expect(AnyIdent), Again("|", <<Expect(AnyIdent)>>), Eat({"v"}), Close>>
      \o Append(Block, Top))
  <2>1. Tasks(<<Expect(AnyIdent)>>)
    BY PlainTasks, Tasks1, Zenon
  <2>2. Task(Again("|", <<Expect(AnyIdent)>>))
    BY <2>1, AgainTask, Zenon
  <2>3. Tasks(<<Open, Expect(AnyIdent), Again("|", <<Expect(AnyIdent)>>), Eat({"v"}), Close>>)
    BY <2>2, PlainTasks, ShortTasks, Tasks5, Zenon
  <2>4. Tasks(Block)
    BY Sequences, Zenon
  <2>5. Tasks(Append(Block, Top))
    BY <2>4, <1>2, TasksAppend, Zenon
  <2> QED BY <2>3, <2>5, TasksConcat, Zenon
<1>4. Tasks(Block)
  BY Sequences, Zenon
<1> QED BY <1>1, <1>3, <1>4, NoTasks, <1>2, DoIs, TakeIs, Zenon

LEMMA BranchesSteps ==
    ASSUME DropInv, Branches
    PROVE  Fine
<1>1. CASE /\ Doing("then")
           /\ \/ Take(<<Stmts(IfEnds), <<"else", TRUE>>>>)
              \/ Do(<<Statement, <<"else", FALSE>>>>)
  <2>1. ~ThisSurely(Top)
    <3>1. "then" \notin {"progress", "synchronize"} /\ "then" \notin Sure /\ "then" # "attributes"
      BY Zenon DEF Sure
    <3> QED BY <1>1, <3>1, TopIs, NotSurely, Zenon
  <2>2. Tasks(<<Stmts(IfEnds), <<"else", TRUE>>>>)
    BY MarkedTasks, ShortTasks, Tasks2, Zenon
  <2>3. Tasks(<<Statement, <<"else", FALSE>>>>)
    BY MarkedTasks, PlainTasks, Tasks2, Zenon
  <2> QED BY <1>1, <2>2, <2>3, <2>1, DoIs, TakeIs, Zenon
<1>2. CASE /\ Doing("else")
           /\ \/ Take(Condition \o <<Expect({":"}), Stmts(IfEnds)>> \o <<Top>>)
              \/ Take(Condition \o <<Statement>> \o <<Top>>)
              \/ Take(<<Expect({":"}), Stmts({"endif"})>> \o <<Expect({"endif"}), StmtEnd>>)
              \/ Take(<<Statement>> \o <<>>)
              \/ Do(<<Expect({"endif"}), StmtEnd>>)
              \/ Do(<<>>)
  <2>1. Task(Top) /\ ~ThisSurely(Top)
    <3>1. "else" \notin {"progress", "synchronize"} /\ "else" \notin Sure /\ "else" # "attributes"
      BY Zenon DEF Sure
    <3> QED BY <1>2, <3>1, TopIs, NotSurely, Zenon
  <2>2. Tasks(Condition \o <<Expect({":"}), Stmts(IfEnds)>> \o <<Top>>)
    <3>1. Tasks(Condition)
      BY Sequences, Zenon
    <3>2. Tasks(<<Expect({":"}), Stmts(IfEnds)>>)
      BY PlainTasks, ShortTasks, Tasks2, Zenon
    <3>3. Tasks(Condition \o <<Expect({":"}), Stmts(IfEnds)>>)
      BY <3>1, <3>2, TasksConcat, Zenon
    <3>4. Tasks(<<Top>>)
      BY <2>1, Tasks1, Zenon
    <3> QED BY <3>3, <3>4, TasksConcat, Zenon
  <2>3. Tasks(Condition \o <<Statement>> \o <<Top>>)
    <3>1. Tasks(Condition)
      BY Sequences, Zenon
    <3>2. Tasks(<<Statement>>)
      BY PlainTasks, Tasks1, Zenon
    <3>3. Tasks(Condition \o <<Statement>>)
      BY <3>1, <3>2, TasksConcat, Zenon
    <3>4. Tasks(<<Top>>)
      BY <2>1, Tasks1, Zenon
    <3> QED BY <3>3, <3>4, TasksConcat, Zenon
  <2>4. Tasks(<<Expect({":"}), Stmts({"endif"})>> \o <<Expect({"endif"}), StmtEnd>>)
    <3>1. Tasks(<<Expect({":"}), Stmts({"endif"})>>)
      BY PlainTasks, ShortTasks, Tasks2, Zenon
    <3>2. Tasks(<<Expect({"endif"}), StmtEnd>>)
      BY PlainTasks, Tasks2, Zenon
    <3> QED BY <3>1, <3>2, TasksConcat, Zenon
  <2>5. Tasks(<<Statement>> \o <<>>)
    <3>1. Tasks(<<Statement>>)
      BY PlainTasks, Tasks1, Zenon
    <3>2. Tasks(<<>>)
      BY NoTasks, Zenon
    <3> QED BY <3>1, <3>2, TasksConcat, Zenon
  <2>6. Tasks(<<Expect({"endif"}), StmtEnd>>)
    BY PlainTasks, Tasks2, Zenon
  <2> QED BY <1>2, <2>2, <2>3, <2>4, <2>5, <2>6, NoTasks, <2>1, DoIs, TakeIs, Zenon
<1> QED BY <1>1, <1>2, Zenon DEF Branches

LEMMA NameLoops == \A set : Task(Loop(<<<<"hook">>>>, set)) /\ Task(Loop(<<<<"adaptation">>>>, set))
<1>1. ASSUME NEW x \in Sure, Task(<<x>>)
      PROVE  \A set : Task(Loop(<<<<x>>>>, set))
  <2> DEFINE m == <<x>>
  <2>1. m[1] = x
    OBVIOUS
  <2>2. Task(m)
    BY <1>1
  <2> HIDE DEF m
  <2>3. Surely(m) /\ Tasks(<<m>>)
    BY <1>1, <2>1, <2>2, Tasks1, Zenon DEF Surely
  <2>4. 1 \in DOMAIN <<m>> /\ <<m>>[1] = m
    OBVIOUS
  <2>5. \A set : Task(Loop(<<m>>, set))
    BY <2>3, <2>4, LoopTask, Zenon
  <2> QED BY <2>5 DEF m
<1>2. "hook" \in Sure /\ "adaptation" \in Sure
  BY Zenon DEF Sure
<1> QED BY <1>1, <1>2, SimpleTasks, Zenon

LEMMA AttributedDeclSteps ==
    ASSUME DropInv, AttributedDecl
    PROVE  Fine
<1>1. /\ Doing("attributed")
      /\ \/ Do(<<<<"declaration">>>>)
         \/ Take(<<<<"constants">>, StmtEnd>>)
         \/ Do(<<Expr(0), StmtEnd>>)
         \/ Report(<<Expr(0), StmtEnd>>)
  BY Zenon DEF AttributedDecl
<1>2. ~ThisSurely(Top)
  <2>1. "attributed" \notin {"progress", "synchronize"} /\ "attributed" \notin Sure
        /\ "attributed" # "attributes"
    BY Zenon DEF Sure
  <2> QED BY <1>1, <2>1, TopIs, NotSurely, Zenon
<1>3. Tasks(<<<<"declaration">>>>)
  BY SimpleTasks, Tasks1, Zenon
<1>4. Tasks(<<<<"constants">>, StmtEnd>>)
  BY PlainTasks, SimpleTasks, Tasks2, Zenon
<1>5. Tasks(<<Expr(0), StmtEnd>>)
  BY PlainTasks, Tasks2, Zenon
<1> QED BY <1>1, <1>3, <1>4, <1>5, <1>2, DoIs, ReportTaskIs, TakeIs, Zenon

LEMMA DeclarationSteps ==
    ASSUME DropInv, Declaration
    PROVE  Fine
<1>1. /\ Doing("declaration")
      /\ \/ Take(<<Eat(Amp), Expect(AnyIdent)>> \o Params \o <<ReturnType>> \o Block)
         \/ Do(<<<<"modifiers">>, <<"class">>>>)
  BY Zenon DEF Declaration
<1>2. Tasks(<<Eat(Amp), Expect(AnyIdent)>> \o Params \o <<ReturnType>> \o Block)
  <2>1. Tasks(<<Eat(Amp), Expect(AnyIdent)>>)
    BY PlainTasks, ShortTasks, Tasks2, Zenon
  <2>2. Tasks(Params)
    BY Sequences, Zenon
  <2>3. Tasks(<<Eat(Amp), Expect(AnyIdent)>> \o Params)
    BY <2>1, <2>2, TasksConcat, Zenon
  <2>4. Tasks(<<ReturnType>>)
    BY ShortTasks, Tasks1, Zenon
  <2>5. Tasks(<<Eat(Amp), Expect(AnyIdent)>> \o Params \o <<ReturnType>>)
    BY <2>3, <2>4, TasksConcat, Zenon
  <2>6. Tasks(Block)
    BY Sequences, Zenon
  <2> QED BY <2>5, <2>6, TasksConcat, Zenon
<1>3. Tasks(<<<<"modifiers">>, <<"class">>>>)
  BY SimpleTasks, Tasks2, Zenon
<1>4. ThisSurely(<<"class">>)
  <2>1. <<"class">>[1] \in Sure
    <3>1. <<"class">>[1] = "class"
      OBVIOUS
    <3> QED BY <3>1, Zenon DEF Sure
  <2> QED BY <2>1, Zenon DEF ThisSurely, Surely
<1>5. \E i \in DOMAIN <<<<"modifiers">>, <<"class">>>> : ThisSurely(<<<<"modifiers">>, <<"class">>>>[i])
  BY <1>4, Sure2of2, Zenon
<1> QED BY <1>1, <1>2, <1>3, <1>5, DoSurelyIs, TakeIs, Zenon

LEMMA ModifiersSteps ==
    ASSUME DropInv, Modifiers
    PROVE  Fine
<1>1. /\ Doing("modifiers")
      /\ \/ Take(<<Top>>)
         \/ Do(<<>>)
  BY Zenon DEF Modifiers
<1>2. Task(Top) /\ ~ThisSurely(Top)
  <2>1. "modifiers" \notin {"progress", "synchronize"} /\ "modifiers" \notin Sure
        /\ "modifiers" # "attributes"
    BY Zenon DEF Sure
  <2> QED BY <1>1, <2>1, TopIs, NotSurely, Zenon
<1>3. Tasks(<<Top>>)
  BY <1>2, Tasks1, Zenon
<1> QED BY <1>1, <1>3, NoTasks, <1>2, DoIs, TakeIs, Zenon

LEMMA ConstantsSteps ==
    ASSUME DropInv, Constants
    PROVE  Fine
<1>1. /\ Doing("constants")
      /\ Do(Append(<<Expect(AnyIdent), Expect({"="}), Expr(0)>>, Again(",", <<Expect(AnyIdent),
         Expect({"="}), Expr(0)>>)))
  BY Zenon DEF Constants
<1>2. ~ThisSurely(Top)
  <2>1. "constants" \notin {"progress", "synchronize"} /\ "constants" \notin Sure
        /\ "constants" # "attributes"
    BY Zenon DEF Sure
  <2> QED BY <1>1, <2>1, TopIs, NotSurely, Zenon
<1>3. Tasks(Append(<<Expect(AnyIdent), Expect({"="}), Expr(0)>>, Again(",", <<Expect(AnyIdent),
      Expect({"="}), Expr(0)>>)))
  <2>1. Tasks(<<Expect(AnyIdent), Expect({"="}), Expr(0)>>)
    BY PlainTasks, Tasks3, Zenon
  <2>2. Task(Again(",", <<Expect(AnyIdent), Expect({"="}), Expr(0)>>))
    BY <2>1, AgainTask, Zenon
  <2> QED BY <2>1, <2>2, TasksAppend, Zenon
<1> QED BY <1>1, <1>3, <1>2, DoIs, Zenon

LEMMA ParseParamSteps ==
    ASSUME DropInv, ParseParam
    PROVE  Fine
<1>1. CASE /\ Doing("param")
           /\ Do(<<<<"attributes">>, <<"modifiers">>, <<"param type">>, Eat(Amp), Eat({"..."}),
              Expect({"v"}), Given({"="}, <<Expr(0)>>), Given({"{"}, <<<<"hooks">>>>)>>)
  <2>1. ~ThisSurely(Top)
    <3>1. "param" \notin {"progress", "synchronize"} /\ "param" \notin Sure /\ "param" # "attributes"
      BY Zenon DEF Sure
    <3> QED BY <1>1, <3>1, TopIs, NotSurely, Zenon
  <2>2. Tasks(<<<<"attributes">>, <<"modifiers">>, <<"param type">>, Eat(Amp), Eat({"..."}), Expect({"v"}),
        Given({"="}, <<Expr(0)>>), Given({"{"}, <<<<"hooks">>>>)>>)
    <3>1. Tasks(<<Expr(0)>>)
      BY PlainTasks, Tasks1, Zenon
    <3>2. Task(Given({"="}, <<Expr(0)>>))
      BY <3>1, GivenTask, Zenon
    <3>3. Tasks(<<<<"hooks">>>>)
      BY SimpleTasks, Tasks1, Zenon
    <3>4. Task(Given({"{"}, <<<<"hooks">>>>))
      BY <3>3, GivenTask, Zenon
    <3> QED BY <3>2, <3>4, PlainTasks, ShortTasks, SimpleTasks, Tasks8, Zenon
  <2> QED BY <1>1, <2>2, <2>1, DoIs, Zenon
<1>2. CASE /\ Doing("param type")
           /\ \/ Do(<<>>)
              \/ Do(<<<<"type">>>>)
  <2>1. ~ThisSurely(Top)
    <3>1. "param type" \notin {"progress", "synchronize"} /\ "param type" \notin Sure
          /\ "param type" # "attributes"
      BY Zenon DEF Sure
    <3> QED BY <1>2, <3>1, TopIs, NotSurely, Zenon
  <2>2. Tasks(<<<<"type">>>>)
    BY SimpleTasks, Tasks1, Zenon
  <2> QED BY <1>2, NoTasks, <2>2, <2>1, DoIs, Zenon
<1> QED BY <1>1, <1>2, Zenon DEF ParseParam

LEMMA ParseTypeSteps ==
    ASSUME DropInv, ParseType
    PROVE  Fine
<1>1. CASE /\ Doing("type")
           /\ \/ Take(<<<<"type unit">>>>)
              \/ Do(<<<<"type unit">>, <<"types">>>>)
  <2>1. ~ThisSurely(Top)
    <3>1. "type" \notin {"progress", "synchronize"} /\ "type" \notin Sure /\ "type" # "attributes"
      BY Zenon DEF Sure
    <3> QED BY <1>1, <3>1, TopIs, NotSurely, Zenon
  <2>2. Tasks(<<<<"type unit">>>>)
    BY SimpleTasks, Tasks1, Zenon
  <2>3. Tasks(<<<<"type unit">>, <<"types">>>>)
    BY SimpleTasks, Tasks2, Zenon
  <2> QED BY <1>1, <2>2, <2>3, <2>1, DoIs, TakeIs, Zenon
<1>2. CASE /\ Doing("types")
           /\ \/ Do(<<Again(Kind, <<<<"type unit">>>>)>>)
              \/ Do(<<>>)
  <2>1. ~ThisSurely(Top)
    <3>1. "types" \notin {"progress", "synchronize"} /\ "types" \notin Sure /\ "types" # "attributes"
      BY Zenon DEF Sure
    <3> QED BY <1>2, <3>1, TopIs, NotSurely, Zenon
  <2>2. Tasks(<<Again(Kind, <<<<"type unit">>>>)>>)
    <3>1. Tasks(<<<<"type unit">>>>)
      BY SimpleTasks, Tasks1, Zenon
    <3>2. Task(Again(Kind, <<<<"type unit">>>>))
      BY <3>1, AgainTask, Zenon
    <3> QED BY <3>2, Tasks1, Zenon
  <2> QED BY <1>2, <2>2, NoTasks, <2>1, DoIs, Zenon
<1>3. CASE /\ Doing("type unit")
           /\ \/ Take(<<Expect(TypeName), Again("&", <<Expect(TypeName)>>), Close>>)
              \/ Do(<<Expect(TypeName)>>)
  <2>1. ~ThisSurely(Top)
    <3>1. "type unit" \notin {"progress", "synchronize"} /\ "type unit" \notin Sure
          /\ "type unit" # "attributes"
      BY Zenon DEF Sure
    <3> QED BY <1>3, <3>1, TopIs, NotSurely, Zenon
  <2>2. Tasks(<<Expect(TypeName), Again("&", <<Expect(TypeName)>>), Close>>)
    <3>1. Tasks(<<Expect(TypeName)>>)
      BY PlainTasks, Tasks1, Zenon
    <3>2. Task(Again("&", <<Expect(TypeName)>>))
      BY <3>1, AgainTask, Zenon
    <3> QED BY <3>2, PlainTasks, Tasks3, Zenon
  <2>3. Tasks(<<Expect(TypeName)>>)
    BY PlainTasks, Tasks1, Zenon
  <2> QED BY <1>3, <2>2, <2>3, <2>1, DoIs, TakeIs, Zenon
<1> QED BY <1>1, <1>2, <1>3, Zenon DEF ParseType

LEMMA ParseMemberSteps ==
    ASSUME DropInv, ParseMember
    PROVE  Fine
<1>1. CASE /\ Doing("member")
           /\ \/ Take(<<<<"property">>>>)
              \/ Do(<<<<"modifiers">>, <<"modified">>>>)
  <2>1. Tasks(<<<<"property">>>>)
    BY SimpleTasks, Tasks1, Zenon
  <2>2. Tasks(<<<<"modifiers">>, <<"modified">>>>)
    BY SimpleTasks, Tasks2, Zenon
  <2>3. ThisSurely(<<"modified">>)
    <3>1. <<"modified">>[1] \in Sure
      <4>1. <<"modified">>[1] = "modified"
        OBVIOUS
      <4> QED BY <4>1, Zenon DEF Sure
    <3> QED BY <3>1, Zenon DEF ThisSurely, Surely
  <2>4. \E i \in DOMAIN <<<<"modifiers">>, <<"modified">>>> : ThisSurely(<<<<"modifiers">>,
        <<"modified">>>>[i])
    BY <2>3, Sure2of2, Zenon
  <2> QED BY <1>1, <2>1, <2>2, <2>4, DoSurelyIs, TakeIs, Zenon
<1>2. CASE /\ Doing("modified")
           /\ \/ Take(<<<<"constants">>, StmtEnd>>)
              \/ Take(<<<<"type">>, <<"constants">>, StmtEnd>>)
              \/ Take(<<Eat(Amp), Expect(AnyIdent)>> \o Params \o <<ReturnType, <<"body">>>>)
              \/ Take(<<Expect(AnyIdent), Given({"="}, <<Expr(0)>>), StmtEnd>>)
              \/ Take(Append(NameList, <<"adaptations">>))
              \/ Do(<<<<"property">>>>)
  <2>1. Tasks(<<<<"constants">>, StmtEnd>>)
    BY PlainTasks, SimpleTasks, Tasks2, Zenon
  <2>2. Tasks(<<<<"type">>, <<"constants">>, StmtEnd>>)
    BY PlainTasks, SimpleTasks, Tasks3, Zenon
  <2>3. Tasks(<<Eat(Amp), Expect(AnyIdent)>> \o Params \o <<ReturnType, <<"body">>>>)
    <3>1. Tasks(<<Eat(Amp), Expect(AnyIdent)>>)
      BY PlainTasks, ShortTasks, Tasks2, Zenon
    <3>2. Tasks(Params)
      BY Sequences, Zenon
    <3>3. Tasks(<<Eat(Amp), Expect(AnyIdent)>> \o Params)
      BY <3>1, <3>2, TasksConcat, Zenon
    <3>4. Tasks(<<ReturnType, <<"body">>>>)
      BY ShortTasks, SimpleTasks, Tasks2, Zenon
    <3> QED BY <3>3, <3>4, TasksConcat, Zenon
  <2>4. Tasks(<<Expect(AnyIdent), Given({"="}, <<Expr(0)>>), StmtEnd>>)
    <3>1. Tasks(<<Expr(0)>>)
      BY PlainTasks, Tasks1, Zenon
    <3>2. Task(Given({"="}, <<Expr(0)>>))
      BY <3>1, GivenTask, Zenon
    <3> QED BY <3>2, PlainTasks, Tasks3, Zenon
  <2>5. Tasks(Append(NameList, <<"adaptations">>))
    <3>1. Tasks(NameList)
      BY Sequences, Zenon
    <3> QED BY <3>1, SimpleTasks, TasksAppend, Zenon
  <2>6. Tasks(<<<<"property">>>>)
    BY SimpleTasks, Tasks1, Zenon
  <2>7. ThisSurely(<<"property">>)
    <3>1. <<"property">>[1] \in Sure
      <4>1. <<"property">>[1] = "property"
        OBVIOUS
      <4> QED BY <4>1, Zenon DEF Sure
    <3> QED BY <3>1, Zenon DEF ThisSurely, Surely
  <2>8. \E i \in DOMAIN <<<<"property">>>> : ThisSurely(<<<<"property">>>>[i])
    BY <2>7, Sure1of1, Zenon
  <2> QED BY <1>2, <2>1, <2>2, <2>3, <2>4, <2>5, <2>6, <2>8, DoSurelyIs, TakeIs, Zenon
<1> QED BY <1>1, <1>2, Zenon DEF ParseMember

LEMMA ParsePropertySteps ==
    ASSUME DropInv, ParseProperty
    PROVE  Fine
<1>1. CASE /\ Doing("property")
           /\ \/ Do(<<<<"variable">>>>)
              \/ Do(<<<<"type">>, <<"variable">>>>)
  <2>1. Tasks(<<<<"variable">>>>)
    BY SimpleTasks, Tasks1, Zenon
  <2>2. ThisSurely(<<"variable">>)
    <3>1. <<"variable">>[1] \in Sure
      <4>1. <<"variable">>[1] = "variable"
        OBVIOUS
      <4> QED BY <4>1, Zenon DEF Sure
    <3> QED BY <3>1, Zenon DEF ThisSurely, Surely
  <2>3. \E i \in DOMAIN <<<<"variable">>>> : ThisSurely(<<<<"variable">>>>[i])
    BY <2>2, Sure1of1, Zenon
  <2>4. Tasks(<<<<"type">>, <<"variable">>>>)
    BY SimpleTasks, Tasks2, Zenon
  <2>5. ThisSurely(<<"variable">>)
    <3>1. <<"variable">>[1] \in Sure
      <4>1. <<"variable">>[1] = "variable"
        OBVIOUS
      <4> QED BY <4>1, Zenon DEF Sure
    <3> QED BY <3>1, Zenon DEF ThisSurely, Surely
  <2>6. \E i \in DOMAIN <<<<"type">>, <<"variable">>>> : ThisSurely(<<<<"type">>, <<"variable">>>>[i])
    BY <2>5, Sure2of2, Zenon
  <2> QED BY <1>1, <2>1, <2>3, <2>4, <2>6, DoSurelyIs, Zenon
<1>2. CASE /\ Doing("variable")
           /\ Do(<<Expect({"v"}), Given({"="}, <<Expr(0)>>), <<"hooked">>>>)
  <2>1. Tasks(<<Expect({"v"}), Given({"="}, <<Expr(0)>>), <<"hooked">>>>)
    <3>1. Tasks(<<Expr(0)>>)
      BY PlainTasks, Tasks1, Zenon
    <3>2. Task(Given({"="}, <<Expr(0)>>))
      BY <3>1, GivenTask, Zenon
    <3> QED BY <3>2, PlainTasks, SimpleTasks, Tasks3, Zenon
  <2>2. ThisSurely(Expect({"v"}))
    <3>1. Expect({"v"})[1] \in Sure
      <4>1. Expect({"v"})[1] = "expect"
        BY DEF Expect
      <4> QED BY <4>1, Zenon DEF Sure
    <3> QED BY <3>1, Zenon DEF ThisSurely, Surely
  <2>3. \E i \in DOMAIN <<Expect({"v"}), Given({"="}, <<Expr(0)>>), <<"hooked">>>>
        : ThisSurely(<<Expect({"v"}), Given({"="}, <<Expr(0)>>), <<"hooked">>>>[i])
    BY <2>2, Sure1of3, Zenon
  <2> QED BY <1>2, <2>1, <2>3, DoSurelyIs, Zenon
<1>3. CASE /\ Doing("hooked")
           /\ \/ Take(<<<<"hooks">>>>)
              \/ Take(<<<<"variable">>>>)
              \/ Do(<<StmtEnd>>)
  <2>1. ~ThisSurely(Top)
    <3>1. "hooked" \notin {"progress", "synchronize"} /\ "hooked" \notin Sure /\ "hooked" # "attributes"
      BY Zenon DEF Sure
    <3> QED BY <1>3, <3>1, TopIs, NotSurely, Zenon
  <2>2. Tasks(<<<<"hooks">>>>)
    BY SimpleTasks, Tasks1, Zenon
  <2>3. Tasks(<<<<"variable">>>>)
    BY SimpleTasks, Tasks1, Zenon
  <2>4. Tasks(<<StmtEnd>>)
    BY PlainTasks, Tasks1, Zenon
  <2> QED BY <1>3, <2>2, <2>3, <2>4, <2>1, DoIs, TakeIs, Zenon
<1> QED BY <1>1, <1>2, <1>3, Zenon DEF ParseProperty

LEMMA PropertyHooksSteps ==
    ASSUME DropInv, PropertyHooks
    PROVE  Fine
<1>1. CASE /\ Doing("hooks")
           /\ Do(<<Loop(<<<<"hook">>>>, {"}", "eof"}), Expect({"}"})>>)
  <2>1. ~ThisSurely(Top)
    <3>1. "hooks" \notin {"progress", "synchronize"} /\ "hooks" \notin Sure /\ "hooks" # "attributes"
      BY Zenon DEF Sure
    <3> QED BY <1>1, <3>1, TopIs, NotSurely, Zenon
  <2>2. Tasks(<<Loop(<<<<"hook">>>>, {"}", "eof"}), Expect({"}"})>>)
    BY NameLoops, PlainTasks, Tasks2, Zenon
  <2> QED BY <1>1, <2>2, <2>1, DoIs, Zenon
<1>2. CASE /\ Doing("hook")
           /\ Do(<<<<"attributes">>, <<"modifiers">>, Eat(Amp), Expect(AnyIdent), Given({"("},
              Tail(Params)), <<"hook body">>>>)
  <2>1. Tasks(<<<<"attributes">>, <<"modifiers">>, Eat(Amp), Expect(AnyIdent), Given({"("}, Tail(Params)),
        <<"hook body">>>>)
    <3>1. Tasks(Tail(Params))
      BY Sequences, Zenon
    <3>2. Task(Given({"("}, Tail(Params)))
      BY <3>1, GivenTask, Zenon
    <3> QED BY <3>2, PlainTasks, ShortTasks, SimpleTasks, Tasks6, Zenon
  <2>2. ThisSurely(Expect(AnyIdent))
    <3>1. Expect(AnyIdent)[1] \in Sure
      <4>1. Expect(AnyIdent)[1] = "expect"
        BY DEF Expect
      <4> QED BY <4>1, Zenon DEF Sure
    <3> QED BY <3>1, Zenon DEF ThisSurely, Surely
  <2>3. \E i \in DOMAIN <<<<"attributes">>, <<"modifiers">>, Eat(Amp), Expect(AnyIdent), Given({"("},
        Tail(Params)), <<"hook body">>>> : ThisSurely(<<<<"attributes">>, <<"modifiers">>, Eat(Amp),
          Expect(AnyIdent), Given({"("}, Tail(Params)), <<"hook body">>>>[i])
    BY <2>2, Sure4of6, Zenon
  <2> QED BY <1>2, <2>1, <2>3, DoSurelyIs, Zenon
<1>3. CASE /\ Doing("hook body")
           /\ \/ Take(<<>>)
              \/ Take(<<Expr(0), StmtEnd>>)
              \/ Do(Block)
              \/ Report(<<>>)
  <2>1. ~ThisSurely(Top)
    <3>1. "hook body" \notin {"progress", "synchronize"} /\ "hook body" \notin Sure
          /\ "hook body" # "attributes"
      BY Zenon DEF Sure
    <3> QED BY <1>3, <3>1, TopIs, NotSurely, Zenon
  <2>2. Tasks(<<Expr(0), StmtEnd>>)
    BY PlainTasks, Tasks2, Zenon
  <2>3. Tasks(Block)
    BY Sequences, Zenon
  <2> QED BY <1>3, NoTasks, <2>2, <2>3, <2>1, DoIs, ReportTaskIs, TakeIs, Zenon
<1> QED BY <1>1, <1>2, <1>3, Zenon DEF PropertyHooks

LEMMA TraitAdaptationsSteps ==
    ASSUME DropInv, TraitAdaptations
    PROVE  Fine
<1>1. CASE /\ Doing("adaptations")
           /\ \/ Take(<<Loop(<<<<"adaptation">>>>, {"}", "eof"}), Expect({"}"})>>)
              \/ Do(<<StmtEnd>>)
  <2>1. ~ThisSurely(Top)
    <3>1. "adaptations" \notin {"progress", "synchronize"} /\ "adaptations" \notin Sure
          /\ "adaptations" # "attributes"
      BY Zenon DEF Sure
    <3> QED BY <1>1, <3>1, TopIs, NotSurely, Zenon
  <2>2. Tasks(<<Loop(<<<<"adaptation">>>>, {"}", "eof"}), Expect({"}"})>>)
    BY NameLoops, PlainTasks, Tasks2, Zenon
  <2>3. Tasks(<<StmtEnd>>)
    BY PlainTasks, Tasks1, Zenon
  <2> QED BY <1>1, <2>2, <2>3, <2>1, DoIs, TakeIs, Zenon
<1>2. CASE /\ Doing("adaptation")
           /\ Do(<<Expect(AnyIdent), Given({"::"}, <<Expect(AnyIdent)>>), <<"adapt">>, Eat({";"})>>)
  <2>1. Tasks(<<Expect(AnyIdent), Given({"::"}, <<Expect(AnyIdent)>>), <<"adapt">>, Eat({";"})>>)
    <3>1. Tasks(<<Expect(AnyIdent)>>)
      BY PlainTasks, Tasks1, Zenon
    <3>2. Task(Given({"::"}, <<Expect(AnyIdent)>>))
      BY <3>1, GivenTask, Zenon
    <3> QED BY <3>2, PlainTasks, ShortTasks, SimpleTasks, Tasks4, Zenon
  <2>2. ThisSurely(Expect(AnyIdent))
    <3>1. Expect(AnyIdent)[1] \in Sure
      <4>1. Expect(AnyIdent)[1] = "expect"
        BY DEF Expect
      <4> QED BY <4>1, Zenon DEF Sure
    <3> QED BY <3>1, Zenon DEF ThisSurely, Surely
  <2>3. \E i \in DOMAIN <<Expect(AnyIdent), Given({"::"}, <<Expect(AnyIdent)>>), <<"adapt">>,
        Eat({";"})>> : ThisSurely(<<Expect(AnyIdent), Given({"::"}, <<Expect(AnyIdent)>>), <<"adapt">>,
          Eat({";"})>>[i])
    BY <2>2, Sure1of4, Zenon
  <2> QED BY <1>2, <2>1, <2>3, DoSurelyIs, Zenon
<1>3. CASE /\ Doing("adapt")
           /\ \/ Take(NameList)
              \/ Take(<<<<"modifiers">>, Eat(AnyIdent)>>)
              \/ Report(<<>>)
  <2>1. Tasks(NameList)
    BY Sequences, Zenon
  <2>2. Tasks(<<<<"modifiers">>, Eat(AnyIdent)>>)
    BY ShortTasks, SimpleTasks, Tasks2, Zenon
  <2> QED BY <1>3, <2>1, <2>2, NoTasks, ReportTaskIs, TakeIs, Zenon
<1> QED BY <1>1, <1>2, <1>3, Zenon DEF TraitAdaptations

LEMMA ParseInfixSteps ==
    ASSUME DropInv, ParseInfix
    PROVE  Fine
<1>1. /\ Doing("infix")
      /\ \/ Do(<<>>)
         \/ Take(<<Eat({":"}), Expr(TernaryRhs)>> \o <<Extend("infix", Kind), Top>>)
         \/ Take(<<Expr(0), Expect({":"}), Expr(TernaryRhs)>> \o <<Extend("infix", Kind), Top>>)
         \/ Take(<<<<"class ref">>>> \o <<Extend("infix", Kind), Top>>)
         \/ Take(<<Eat(Amp), Expr(RefRhs), Extend("infix", "=&"), Top>>)
         \/ Take(<<Expr(OperatorInfo(Kind)[2])>> \o <<Extend("infix", Kind), Top>>)
  BY Zenon DEF ParseInfix
<1>2. Task(Top) /\ ~ThisSurely(Top)
  <2>1. "infix" \notin {"progress", "synchronize"} /\ "infix" \notin Sure /\ "infix" # "attributes"
    BY Zenon DEF Sure
  <2> QED BY <1>1, <2>1, TopIs, NotSurely, Zenon
<1>3. Tasks(<<Eat({":"}), Expr(TernaryRhs)>> \o <<Extend("infix", Kind), Top>>)
  <2>1. Tasks(<<Eat({":"}), Expr(TernaryRhs)>>)
    BY PlainTasks, ShortTasks, Tasks2, Zenon
  <2>2. Tasks(<<Extend("infix", Kind), Top>>)
    BY <1>2, PlainTasks, Tasks2, Zenon
  <2> QED BY <2>1, <2>2, TasksConcat, Zenon
<1>4. Tasks(<<Expr(0), Expect({":"}), Expr(TernaryRhs)>> \o <<Extend("infix", Kind), Top>>)
  <2>1. Tasks(<<Expr(0), Expect({":"}), Expr(TernaryRhs)>>)
    BY PlainTasks, Tasks3, Zenon
  <2>2. Tasks(<<Extend("infix", Kind), Top>>)
    BY <1>2, PlainTasks, Tasks2, Zenon
  <2> QED BY <2>1, <2>2, TasksConcat, Zenon
<1>5. Tasks(<<<<"class ref">>>> \o <<Extend("infix", Kind), Top>>)
  <2>1. Tasks(<<<<"class ref">>>>)
    BY SimpleTasks, Tasks1, Zenon
  <2>2. Tasks(<<Extend("infix", Kind), Top>>)
    BY <1>2, PlainTasks, Tasks2, Zenon
  <2> QED BY <2>1, <2>2, TasksConcat, Zenon
<1>6. Tasks(<<Eat(Amp), Expr(RefRhs), Extend("infix", "=&"), Top>>)
  BY <1>2, PlainTasks, ShortTasks, Tasks4, Zenon
<1>7. Tasks(<<Expr(OperatorInfo(Kind)[2])>> \o <<Extend("infix", Kind), Top>>)
  <2>1. Tasks(<<Expr(OperatorInfo(Kind)[2])>>)
    BY PlainTasks, Tasks1, Zenon
  <2>2. Tasks(<<Extend("infix", Kind), Top>>)
    BY <1>2, PlainTasks, Tasks2, Zenon
  <2> QED BY <2>1, <2>2, TasksConcat, Zenon
<1> QED BY <1>1, NoTasks, <1>3, <1>4, <1>5, <1>6, <1>7, <1>2, DoIs, TakeIs, Zenon

LEMMA MatchArmSteps ==
    ASSUME DropInv, MatchArm
    PROVE  Fine
<1>1. /\ Doing("arm")
      /\ \/ Take(<<Eat({","})>> \o <<Expect({"=>"}), Expr(0)>>)
         \/ Do(<<Expr(0), Comma(<<Expr(0)>>, {"=>"})>> \o <<Expect({"=>"}), Expr(0)>>)
  BY Zenon DEF MatchArm
<1>2. ~ThisSurely(Top)
  <2>1. "arm" \notin {"progress", "synchronize"} /\ "arm" \notin Sure /\ "arm" # "attributes"
    BY Zenon DEF Sure
  <2> QED BY <1>1, <2>1, TopIs, NotSurely, Zenon
<1>3. Tasks(<<Eat({","})>> \o <<Expect({"=>"}), Expr(0)>>)
  <2>1. Tasks(<<Eat({","})>>)
    BY ShortTasks, Tasks1, Zenon
  <2>2. Tasks(<<Expect({"=>"}), Expr(0)>>)
    BY PlainTasks, Tasks2, Zenon
  <2> QED BY <2>1, <2>2, TasksConcat, Zenon
<1>4. Tasks(<<Expr(0), Comma(<<Expr(0)>>, {"=>"})>> \o <<Expect({"=>"}), Expr(0)>>)
  <2>1. Tasks(<<Expr(0)>>)
    BY PlainTasks, Tasks1, Zenon
  <2>2. Task(Comma(<<Expr(0)>>, {"=>"}))
    BY <2>1, ListTask, Zenon
  <2>3. Tasks(<<Expr(0), Comma(<<Expr(0)>>, {"=>"})>>)
    BY <2>2, PlainTasks, Tasks2, Zenon
  <2>4. Tasks(<<Expect({"=>"}), Expr(0)>>)
    BY PlainTasks, Tasks2, Zenon
  <2> QED BY <2>3, <2>4, TasksConcat, Zenon
<1> QED BY <1>1, <1>3, <1>4, <1>2, DoIs, TakeIs, Zenon

LEMMA ArrayItemSteps ==
    ASSUME DropInv, ArrayItem
    PROVE  Fine
<1>1. /\ Doing("item")
      /\ \/ Do(<<>>)
         \/ Take(<<Expr(0)>>)
         \/ Do(<<Expr(0), Given({"=>"}, <<Eat(Amp), Expr(0)>>)>>)
  BY Zenon DEF ArrayItem
<1>2. ~ThisSurely(Top)
  <2>1. "item" \notin {"progress", "synchronize"} /\ "item" \notin Sure /\ "item" # "attributes"
    BY Zenon DEF Sure
  <2> QED BY <1>1, <2>1, TopIs, NotSurely, Zenon
<1>3. Tasks(<<Expr(0)>>)
  BY PlainTasks, Tasks1, Zenon
<1>4. Tasks(<<Expr(0), Given({"=>"}, <<Eat(Amp), Expr(0)>>)>>)
  <2>1. Tasks(<<Eat(Amp), Expr(0)>>)
    BY PlainTasks, ShortTasks, Tasks2, Zenon
  <2>2. Task(Given({"=>"}, <<Eat(Amp), Expr(0)>>))
    BY <2>1, GivenTask, Zenon
  <2> QED BY <2>2, PlainTasks, Tasks2, Zenon
<1> QED BY <1>1, NoTasks, <1>3, <1>4, <1>2, DoIs, TakeIs, Zenon

LEMMA ParseArgsSteps ==
    ASSUME DropInv, ParseArgs
    PROVE  Fine
<1>1. CASE /\ Doing("arguments")
           /\ Do(<<Open, <<"args">>>>)
  <2>1. ~ThisSurely(Top)
    <3>1. "arguments" \notin {"progress", "synchronize"} /\ "arguments" \notin Sure
          /\ "arguments" # "attributes"
      BY Zenon DEF Sure
    <3> QED BY <1>1, <3>1, TopIs, NotSurely, Zenon
  <2>2. Tasks(<<Open, <<"args">>>>)
    BY PlainTasks, SimpleTasks, Tasks2, Zenon
  <2> QED BY <1>1, <2>2, <2>1, DoIs, Zenon
<1>2. CASE /\ Doing("args")
           /\ \/ (Run(<<>>, 2) /\ Quietly)
              \/ Do(<<List(<<<<"arg">>>>, {")", "eof"}), Close>>)
  <2>1. ~ThisSurely(Top)
    <3>1. "args" \notin {"progress", "synchronize"} /\ "args" \notin Sure /\ "args" # "attributes"
      BY Zenon DEF Sure
    <3> QED BY <1>2, <3>1, TopIs, NotSurely, Zenon
  <2>2. Tasks(<<List(<<<<"arg">>>>, {")", "eof"}), Close>>)
    <3>1. Tasks(<<<<"arg">>>>)
      BY SimpleTasks, Tasks1, Zenon
    <3>2. Task(List(<<<<"arg">>>>, {")", "eof"}))
      BY <3>1, ListTask, Zenon
    <3> QED BY <3>2, PlainTasks, Tasks2, Zenon
  <2> QED BY <1>2, NoTasks, <2>2, <2>1, DoIs, Numbers, RunQuietly, Zenon
<1>3. CASE /\ Doing("arg")
           /\ \/ (Run(<<Eat({"..."}), Expr(0)>>, 2) /\ Quietly)
              \/ (Run(<<Eat({"..."}), Expr(0)>>, 0) /\ Quietly)
  <2>1. ~ThisSurely(Top)
    <3>1. "arg" \notin {"progress", "synchronize"} /\ "arg" \notin Sure /\ "arg" # "attributes"
      BY Zenon DEF Sure
    <3> QED BY <1>3, <3>1, TopIs, NotSurely, Zenon
  <2>2. Tasks(<<Eat({"..."}), Expr(0)>>)
    BY PlainTasks, ShortTasks, Tasks2, Zenon
  <2> QED BY <1>3, <2>2, <2>1, Numbers, RunQuietly, StandsQuietly, Zenon
<1> QED BY <1>1, <1>2, <1>3, Zenon DEF ParseArgs

LEMMA AfterDollarSteps ==
    ASSUME DropInv, AfterDollar
    PROVE  Fine
<1>1. /\ Doing("after dollar")
      /\ \/ Take(<<Expr(0), Expect({"}"})>>)
         \/ (Run(<<>>, 1) /\ Quietly)
         \/ Do(<<<<"variable variable">>>>)
         \/ (Run(<<>>, 0) /\ errors' = errors \cup {pos} /\ UNCHANGED <<depth, skipped>>)
  BY Zenon DEF AfterDollar
<1>2. ~ThisSurely(Top)
  <2>1. "after dollar" \notin {"progress", "synchronize"} /\ "after dollar" \notin Sure
        /\ "after dollar" # "attributes"
    BY Zenon DEF Sure
  <2> QED BY <1>1, <2>1, TopIs, NotSurely, Zenon
<1>3. Tasks(<<Expr(0), Expect({"}"})>>)
  BY PlainTasks, Tasks2, Zenon
<1>4. Tasks(<<<<"variable variable">>>>)
  BY SimpleTasks, Tasks1, Zenon
<1> QED BY <1>1, <1>3, NoTasks, <1>4, <1>2, DoIs, Numbers, RunQuietly, RunReports, TakeIs, Zenon

LEMMA VariableVariableSteps ==
    ASSUME DropInv, VariableVariable
    PROVE  Fine
<1>1. /\ Doing("variable variable")
      /\ Take(<<<<"after dollar">>, Wrap("group", "$", Len(nodes))>>)
  BY Zenon DEF VariableVariable
<1>2. Tasks(<<<<"after dollar">>, Wrap("group", "$", Len(nodes))>>)
  BY PlainTasks, SimpleTasks, Tasks2, Zenon
<1> QED BY <1>1, <1>2, TakeIs, Zenon

LEMMA MemberNameSteps ==
    ASSUME DropInv, MemberName
    PROVE  Fine
<1>1. /\ Doing("member name")
      /\ \/ Take(<<>>)
         \/ Take(<<Expr(0), Expect({"}"})>>)
         \/ Do(<<<<"variable variable">>>>)
         \/ Report(<<>>)
  BY Zenon DEF MemberName
<1>2. ~ThisSurely(Top)
  <2>1. "member name" \notin {"progress", "synchronize"} /\ "member name" \notin Sure
        /\ "member name" # "attributes"
    BY Zenon DEF Sure
  <2> QED BY <1>1, <2>1, TopIs, NotSurely, Zenon
<1>3. Tasks(<<Expr(0), Expect({"}"})>>)
  BY PlainTasks, Tasks2, Zenon
<1>4. Tasks(<<<<"variable variable">>>>)
  BY SimpleTasks, Tasks1, Zenon
<1> QED BY <1>1, NoTasks, <1>3, <1>4, <1>2, DoIs, ReportTaskIs, TakeIs, Zenon

LEMMA StaticMemberSteps ==
    ASSUME DropInv, StaticMember
    PROVE  Fine
<1>1. /\ Doing("static member")
      /\ \/ Take(Append(<<OptArgs>>, Make("postfix", "::", Left.from, Len(nodes) - 1)))
         \/ Take(Append(<<>>, Make("postfix", "::", Left.from, Len(nodes) - 1)))
         \/ Take(<<Expr(0), Expect({"}"})>> \o Append(<<OptArgs>>, Make("postfix", "::", Left.from,
            Len(nodes) - 1)))
         \/ Take(<<Expr(0), Expect({"}"})>> \o Append(<<>>, Make("postfix", "::", Left.from, Len(nodes) - 1)))
         \/ Take(<<<<"after dollar">>>> \o <<<<"static call", pos>>>> \o <<Make("postfix", "::", Left.from,
            Len(nodes) - 1)>>)
         \/ Take(<<<<"after dollar">>>> \o <<>> \o <<Make("postfix", "::", Left.from, Len(nodes) - 1)>>)
         \/ (Run(<<>>, 0) /\ errors' = errors \cup {pos} /\ UNCHANGED <<depth, skipped>>)
  BY Zenon DEF StaticMember
<1>2. Tasks(Append(<<OptArgs>>, Make("postfix", "::", Left.from, Len(nodes) - 1)))
  <2>1. Tasks(<<OptArgs>>)
    BY ShortTasks, Tasks1, Zenon
  <2> QED BY <2>1, PlainTasks, TasksAppend, Zenon
<1>3. Tasks(Append(<<>>, Make("postfix", "::", Left.from, Len(nodes) - 1)))
  <2>1. Tasks(<<>>)
    BY NoTasks, Zenon
  <2> QED BY <2>1, PlainTasks, TasksAppend, Zenon
<1>4. Tasks(<<Expr(0), Expect({"}"})>> \o Append(<<OptArgs>>, Make("postfix", "::", Left.from,
      Len(nodes) - 1)))
  <2>1. Tasks(<<Expr(0), Expect({"}"})>>)
    BY PlainTasks, Tasks2, Zenon
  <2>2. Tasks(<<OptArgs>>)
    BY ShortTasks, Tasks1, Zenon
  <2>3. Tasks(Append(<<OptArgs>>, Make("postfix", "::", Left.from, Len(nodes) - 1)))
    BY <2>2, PlainTasks, TasksAppend, Zenon
  <2> QED BY <2>1, <2>3, TasksConcat, Zenon
<1>5. Tasks(<<Expr(0), Expect({"}"})>> \o Append(<<>>, Make("postfix", "::", Left.from, Len(nodes) - 1)))
  <2>1. Tasks(<<Expr(0), Expect({"}"})>>)
    BY PlainTasks, Tasks2, Zenon
  <2>2. Tasks(<<>>)
    BY NoTasks, Zenon
  <2>3. Tasks(Append(<<>>, Make("postfix", "::", Left.from, Len(nodes) - 1)))
    BY <2>2, PlainTasks, TasksAppend, Zenon
  <2> QED BY <2>1, <2>3, TasksConcat, Zenon
<1>6. Tasks(<<<<"after dollar">>>> \o <<<<"static call", pos>>>> \o <<Make("postfix", "::", Left.from,
      Len(nodes) - 1)>>)
  <2>1. Tasks(<<<<"after dollar">>>>)
    BY SimpleTasks, Tasks1, Zenon
  <2>2. Tasks(<<<<"static call", pos>>>>)
    BY MarkedTasks, Tasks1, Zenon
  <2>3. Tasks(<<<<"after dollar">>>> \o <<<<"static call", pos>>>>)
    BY <2>1, <2>2, TasksConcat, Zenon
  <2>4. Tasks(<<Make("postfix", "::", Left.from, Len(nodes) - 1)>>)
    BY PlainTasks, Tasks1, Zenon
  <2> QED BY <2>3, <2>4, TasksConcat, Zenon
<1>7. Tasks(<<<<"after dollar">>>> \o <<>> \o <<Make("postfix", "::", Left.from, Len(nodes) - 1)>>)
  <2>1. Tasks(<<<<"after dollar">>>>)
    BY SimpleTasks, Tasks1, Zenon
  <2>2. Tasks(<<>>)
    BY NoTasks, Zenon
  <2>3. Tasks(<<<<"after dollar">>>> \o <<>>)
    BY <2>1, <2>2, TasksConcat, Zenon
  <2>4. Tasks(<<Make("postfix", "::", Left.from, Len(nodes) - 1)>>)
    BY PlainTasks, Tasks1, Zenon
  <2> QED BY <2>3, <2>4, TasksConcat, Zenon
<1> QED BY <1>1, <1>2, <1>3, <1>4, <1>5, <1>6, <1>7, NoTasks, Numbers, RunReports, TakeIs, Zenon

LEMMA StaticCallSteps ==
    ASSUME DropInv, StaticCall
    PROVE  Fine
<1>1. /\ Doing("static call")
      /\ \/ Do(<<Make("group", "$", 2 * Top[2], Len(nodes) - 1), OptArgs>>)
         \/ Do(<<>>)
  BY Zenon DEF StaticCall
<1>2. ~ThisSurely(Top)
  <2>1. "static call" \notin {"progress", "synchronize"} /\ "static call" \notin Sure
        /\ "static call" # "attributes"
    BY Zenon DEF Sure
  <2> QED BY <1>1, <2>1, TopIs, NotSurely, Zenon
<1>3. Tasks(<<Make("group", "$", 2 * Top[2], Len(nodes) - 1), OptArgs>>)
  BY PlainTasks, ShortTasks, Tasks2, Zenon
<1> QED BY <1>1, <1>3, NoTasks, <1>2, DoIs, Zenon

LEMMA ParsePostfixSteps ==
    ASSUME DropInv, ParsePostfix
    PROVE  Fine
<1>1. /\ Doing("postfix")
      /\ \/ Take(<<<<"args">>, Extend("postfix", "("), Top>>)
         \/ Take(<<Value({"]"}), Expect({"]"}), Extend("postfix", "["), Top>>)
         \/ Take(<<<<"member name">>, OptArgs, Extend("postfix", "->"), Top>>)
         \/ Take(<<<<"static member", TRUE>>, Top>>)
         \/ Take(<<Extend("postfix", "++"), Top>>)
         \/ Do(<<>>)
  BY Zenon DEF ParsePostfix
<1>2. Task(Top) /\ ~ThisSurely(Top)
  <2>1. "postfix" \notin {"progress", "synchronize"} /\ "postfix" \notin Sure /\ "postfix" # "attributes"
    BY Zenon DEF Sure
  <2> QED BY <1>1, <2>1, TopIs, NotSurely, Zenon
<1>3. Tasks(<<<<"args">>, Extend("postfix", "("), Top>>)
  BY <1>2, PlainTasks, SimpleTasks, Tasks3, Zenon
<1>4. Tasks(<<Value({"]"}), Expect({"]"}), Extend("postfix", "["), Top>>)
  BY <1>2, PlainTasks, Tasks4, Zenon
<1>5. Tasks(<<<<"member name">>, OptArgs, Extend("postfix", "->"), Top>>)
  BY <1>2, PlainTasks, ShortTasks, SimpleTasks, Tasks4, Zenon
<1>6. Tasks(<<<<"static member", TRUE>>, Top>>)
  BY <1>2, MarkedTasks, Tasks2, Zenon
<1>7. Tasks(<<Extend("postfix", "++"), Top>>)
  BY <1>2, PlainTasks, Tasks2, Zenon
<1> QED BY <1>1, <1>3, <1>4, <1>5, <1>6, <1>7, NoTasks, <1>2, DoIs, TakeIs, Zenon

LEMMA InterpPartsSteps ==
    ASSUME DropInv, InterpParts
    PROVE  Fine
<1>1. /\ Doing("parts")
      /\ \/ (Run(<<Top>>, 1) /\ Quietly)
         \/ (Run(<<<<"access">>, Top>>, 1) /\ Quietly)
         \/ Take(<<Expr(0), Expect({"}"}), Top>>)
         \/ (Run(<<Given({"["}, <<Expr(0), Expect({"]"}), Wrap("postfix", "[", Len(nodes))>>),
            Expect({"}"}), Wrap("group", Kind, Len(nodes)), Top>>, 2) /\ Quietly)
         \/ Take(<<Expr(0), Wrap("group", "$", Len(nodes)), Expect({"}"}), Wrap("group", Kind, Len(nodes)),
            Top>>)
         \/ Do(<<>>)
  BY Zenon DEF InterpParts
<1>2. Task(Top) /\ ~ThisSurely(Top)
  <2>1. "parts" \notin {"progress", "synchronize"} /\ "parts" \notin Sure /\ "parts" # "attributes"
    BY Zenon DEF Sure
  <2> QED BY <1>1, <2>1, TopIs, NotSurely, Zenon
<1>3. Tasks(<<Top>>)
  BY <1>2, Tasks1, Zenon
<1>4. Tasks(<<<<"access">>, Top>>)
  BY <1>2, SimpleTasks, Tasks2, Zenon
<1>5. Tasks(<<Expr(0), Expect({"}"}), Top>>)
  BY <1>2, PlainTasks, Tasks3, Zenon
<1>6. Tasks(<<Given({"["}, <<Expr(0), Expect({"]"}), Wrap("postfix", "[", Len(nodes))>>), Expect({"}"}),
      Wrap("group", Kind, Len(nodes)), Top>>)
  <2>1. Tasks(<<Expr(0), Expect({"]"}), Wrap("postfix", "[", Len(nodes))>>)
    BY PlainTasks, Tasks3, Zenon
  <2>2. Task(Given({"["}, <<Expr(0), Expect({"]"}), Wrap("postfix", "[", Len(nodes))>>))
    BY <2>1, GivenTask, Zenon
  <2> QED BY <2>2, <1>2, PlainTasks, Tasks4, Zenon
<1>7. Tasks(<<Expr(0), Wrap("group", "$", Len(nodes)), Expect({"}"}), Wrap("group", Kind, Len(nodes)), Top>>)
  BY <1>2, PlainTasks, Tasks5, Zenon
<1> QED BY <1>1, <1>3, <1>4, <1>5, <1>6, <1>7, NoTasks, <1>2, DoIs, Numbers, RunQuietly, TakeIs, Zenon

LEMMA InterpAccessSteps ==
    ASSUME DropInv, InterpAccess
    PROVE  Fine
<1>1. CASE /\ Doing("access")
           /\ \/ (Run(<<Extend("postfix", Kind)>>, 2) /\ Quietly)
              \/ Take(<<<<"offset">>, Expect({"]"}), Extend("postfix", Kind)>>)
              \/ Do(<<>>)
  <2>1. ~ThisSurely(Top)
    <3>1. "access" \notin {"progress", "synchronize"} /\ "access" \notin Sure /\ "access" # "attributes"
      BY Zenon DEF Sure
    <3> QED BY <1>1, <3>1, TopIs, NotSurely, Zenon
  <2>2. Tasks(<<Extend("postfix", Kind)>>)
    BY PlainTasks, Tasks1, Zenon
  <2>3. Tasks(<<<<"offset">>, Expect({"]"}), Extend("postfix", Kind)>>)
    BY PlainTasks, SimpleTasks, Tasks3, Zenon
  <2> QED BY <1>1, <2>2, <2>3, NoTasks, <2>1, DoIs, Numbers, RunQuietly, TakeIs, Zenon
<1>2. CASE /\ Doing("offset")
           /\ \/ (Run(<<>>, 1) /\ Quietly)
              \/ (Run(<<>>, 2) /\ Quietly)
              \/ (Run(<<>>, 0) /\ errors' = errors \cup {pos} /\ UNCHANGED <<depth, skipped>>)
  <2> QED BY <1>2, NoTasks, Numbers, RunQuietly, RunReports, Zenon
<1> QED BY <1>1, <1>2, Zenon DEF InterpAccess

LEMMA CollapseHeredocSteps ==
    ASSUME DropInv, CollapseHeredoc
    PROVE  Fine
<1>1. /\ Doing("collapse")
      /\ (Run(<<>>, 0) /\ Quietly)
  BY Zenon DEF CollapseHeredoc
<1>2. ~ThisSurely(Top)
  <2>1. "collapse" \notin {"progress", "synchronize"} /\ "collapse" \notin Sure /\ "collapse" # "attributes"
    BY Zenon DEF Sure
  <2> QED BY <1>1, <2>1, TopIs, NotSurely, Zenon
<1> QED BY <1>1, NoTasks, <1>2, Numbers, StandsQuietly, Zenon

LEMMA ClassRefSteps ==
    ASSUME DropInv, ClassRef
    PROVE  Fine
<1>1. CASE /\ Doing("class ref")
           /\ \/ (Run(<<<<"class member">>>>, 1) /\ Quietly)
              \/ Do(<<<<"variable variable">>>> \o <<<<"class member">>>>)
              \/ Take(<<Expr(0), Close, Wrap("group", "(", Len(nodes))>> \o <<<<"class member">>>>)
              \/ (Run(<<<<"class member">>>>, 0) /\ errors' = errors \cup {pos} /\ UNCHANGED <<depth,
                 skipped>>)
  <2>1. ~ThisSurely(Top)
    <3>1. "class ref" \notin {"progress", "synchronize"} /\ "class ref" \notin Sure
          /\ "class ref" # "attributes"
      BY Zenon DEF Sure
    <3> QED BY <1>1, <3>1, TopIs, NotSurely, Zenon
  <2>2. Tasks(<<<<"class member">>>>)
    BY SimpleTasks, Tasks1, Zenon
  <2>3. Tasks(<<<<"variable variable">>>> \o <<<<"class member">>>>)
    <3>1. Tasks(<<<<"variable variable">>>>)
      BY SimpleTasks, Tasks1, Zenon
    <3>2. Tasks(<<<<"class member">>>>)
      BY SimpleTasks, Tasks1, Zenon
    <3> QED BY <3>1, <3>2, TasksConcat, Zenon
  <2>4. Tasks(<<Expr(0), Close, Wrap("group", "(", Len(nodes))>> \o <<<<"class member">>>>)
    <3>1. Tasks(<<Expr(0), Close, Wrap("group", "(", Len(nodes))>>)
      BY PlainTasks, Tasks3, Zenon
    <3>2. Tasks(<<<<"class member">>>>)
      BY SimpleTasks, Tasks1, Zenon
    <3> QED BY <3>1, <3>2, TasksConcat, Zenon
  <2> QED BY <1>1, <2>2, <2>3, <2>4, <2>1, DoIs, Numbers, RunQuietly, RunReports, TakeIs, Zenon
<1>2. CASE /\ Doing("class member")
           /\ \/ Take(<<<<"member name">>, Extend("postfix", "->"), Top>>)
              \/ Take(<<<<"static member", FALSE>>, Top>>)
              \/ Take(<<Value({"]"}), Expect({"]"}), Extend("postfix", "["), Top>>)
              \/ Do(<<>>)
  <2>1. Task(Top) /\ ~ThisSurely(Top)
    <3>1. "class member" \notin {"progress", "synchronize"} /\ "class member" \notin Sure
          /\ "class member" # "attributes"
      BY Zenon DEF Sure
    <3> QED BY <1>2, <3>1, TopIs, NotSurely, Zenon
  <2>2. Tasks(<<<<"member name">>, Extend("postfix", "->"), Top>>)
    BY <2>1, PlainTasks, SimpleTasks, Tasks3, Zenon
  <2>3. Tasks(<<<<"static member", FALSE>>, Top>>)
    BY <2>1, MarkedTasks, Tasks2, Zenon
  <2>4. Tasks(<<Value({"]"}), Expect({"]"}), Extend("postfix", "["), Top>>)
    BY <2>1, PlainTasks, Tasks4, Zenon
  <2> QED BY <1>2, <2>2, <2>3, <2>4, NoTasks, <2>1, DoIs, TakeIs, Zenon
<1> QED BY <1>1, <1>2, Zenon DEF ClassRef

LEMMA AttributesFirst ==
    ASSUME NEW a, Task(a), Kind = "#[", Do(<<<<"attributes">>, a>>)
    PROVE  Fine
<1>1. ThisSurely(<<"attributes">>)
  <2>1. <<"attributes">>[1] = "attributes"
    OBVIOUS
  <2> QED BY <2>1, Zenon DEF ThisSurely
<1>2. \E i \in DOMAIN <<<<"attributes">>, a>> : ThisSurely(<<<<"attributes">>, a>>[i])
  BY <1>1, Sure1of2, Zenon
<1>3. Tasks(<<<<"attributes">>, a>>)
  BY SimpleTasks, Tasks2, Zenon
<1> QED BY <1>2, <1>3, DoSurelyIs, Zenon

LEMMA ParsePrefixSteps ==
    ASSUME DropInv, ParsePrefix
    PROVE  Fine
<1>1. /\ Doing("prefix")
      /\ \/ (Run(<<<<"postfix">>>>, 1) /\ Quietly)
         \/ Do(<<<<"variable variable">>, <<"postfix">>>>)
         \/ Take(Group(Kind, <<Expr(0), Close>>))
         \/ Take(Group(Kind, <<Items("]"), Expect({"]"})>>))
         \/ Take(Group(Kind, <<Open, Items(")"), Close>>))
         \/ Take(<<Expr(PrefixPower(Kind)), Wrap("prefix", Kind, Len(nodes)), <<"postfix">>>>)
         \/ (Run(Group("call", <<<<"arguments">>>>), 1) /\ Quietly)
         \/ Take(Group("yield", <<>>))
         \/ Take(<<Expr(PrefixPower(Kind)), Given({"=>"}, <<Expr(PrefixPower(Kind))>>), Wrap("prefix",
            Kind, Len(nodes)), <<"postfix">>>>)
         \/ Take(Group(Kind, <<>>))
         \/ Take(Group(Kind, <<Open, Value({")"}), Close>>))
         \/ Take(Group(Kind, <<Parts(Kind), Expect({Kind})>>))
         \/ Take(Group(Kind, <<Parts("end"), Expect({"end"}), <<"collapse", Len(nodes)>>>>))
         \/ Take(Group(Kind, Condition \o <<Expect({"{"}), List(<<<<"arm">>>>, {"}", "eof"}),
            Expect({"}"})>>))
         \/ Take(Group(Kind, Condition))
         \/ Take(Group(Kind, <<Open, List(<<Expr(0)>>, {")", "eof"}), Close>>))
         \/ Take(Group(Kind, ClosureOf(Kind)))
         \/ (Run(Group(Nth(1), ClosureOf(Nth(1))), 2) /\ Quietly)
         \/ Take(<<<<"attributes">>, <<"new", pos, Len(nodes)>>, <<"postfix">>>>)
         \/ (Kind = "#[" /\ Do(<<<<"attributes">>, <<"decorated", pos, Len(nodes)>>>>))
         \/ (Run(<<<<"postfix">>>>, 1) /\ errors' = errors \cup {pos} /\ UNCHANGED <<depth, skipped>>)
  BY Zenon DEF ParsePrefix, CallNamed
<1>2. Tasks(<<<<"postfix">>>>)
  BY SimpleTasks, Tasks1, Zenon
<1>3. Tasks(<<<<"variable variable">>, <<"postfix">>>>)
  BY SimpleTasks, Tasks2, Zenon
<1>4. ThisSurely(<<"variable variable">>)
  <2>1. <<"variable variable">>[1] \in Sure
    <3>1. <<"variable variable">>[1] = "variable variable"
      OBVIOUS
    <3> QED BY <3>1, Zenon DEF Sure
  <2> QED BY <2>1, Zenon DEF ThisSurely, Surely
<1>5. \E i \in DOMAIN <<<<"variable variable">>, <<"postfix">>>> : ThisSurely(<<<<"variable variable">>,
      <<"postfix">>>>[i])
  BY <1>4, Sure1of2, Zenon
<1>6. Tasks(Group(Kind, <<Expr(0), Close>>))
  <2>1. Tasks(<<Expr(0), Close>>)
    BY PlainTasks, Tasks2, Zenon
  <2> QED BY <2>1, GroupTasks, Zenon
<1>7. Tasks(Group(Kind, <<Items("]"), Expect({"]"})>>))
  <2>1. Tasks(<<Items("]"), Expect({"]"})>>)
    BY PlainTasks, ShortTasks, Tasks2, Zenon
  <2> QED BY <2>1, GroupTasks, Zenon
<1>8. Tasks(Group(Kind, <<Open, Items(")"), Close>>))
  <2>1. Tasks(<<Open, Items(")"), Close>>)
    BY PlainTasks, ShortTasks, Tasks3, Zenon
  <2> QED BY <2>1, GroupTasks, Zenon
<1>9. Tasks(<<Expr(PrefixPower(Kind)), Wrap("prefix", Kind, Len(nodes)), <<"postfix">>>>)
  BY PlainTasks, SimpleTasks, Tasks3, Zenon
<1>10. Tasks(Group("call", <<<<"arguments">>>>))
  <2>1. Tasks(<<<<"arguments">>>>)
    BY SimpleTasks, Tasks1, Zenon
  <2> QED BY <2>1, GroupTasks, Zenon
<1>11. Tasks(Group("yield", <<>>))
  <2>1. Tasks(<<>>)
    BY NoTasks, Zenon
  <2> QED BY <2>1, GroupTasks, Zenon
<1>12. Tasks(<<Expr(PrefixPower(Kind)), Given({"=>"}, <<Expr(PrefixPower(Kind))>>), Wrap("prefix", Kind,
       Len(nodes)), <<"postfix">>>>)
  <2>1. Tasks(<<Expr(PrefixPower(Kind))>>)
    BY PlainTasks, Tasks1, Zenon
  <2>2. Task(Given({"=>"}, <<Expr(PrefixPower(Kind))>>))
    BY <2>1, GivenTask, Zenon
  <2> QED BY <2>2, PlainTasks, SimpleTasks, Tasks4, Zenon
<1>13. Tasks(Group(Kind, <<>>))
  <2>1. Tasks(<<>>)
    BY NoTasks, Zenon
  <2> QED BY <2>1, GroupTasks, Zenon
<1>14. Tasks(Group(Kind, <<Open, Value({")"}), Close>>))
  <2>1. Tasks(<<Open, Value({")"}), Close>>)
    BY PlainTasks, Tasks3, Zenon
  <2> QED BY <2>1, GroupTasks, Zenon
<1>15. Tasks(Group(Kind, <<Parts(Kind), Expect({Kind})>>))
  <2>1. Tasks(<<Parts(Kind), Expect({Kind})>>)
    BY PlainTasks, Tasks2, Zenon
  <2> QED BY <2>1, GroupTasks, Zenon
<1>16. Tasks(Group(Kind, <<Parts("end"), Expect({"end"}), <<"collapse", Len(nodes)>>>>))
  <2>1. Tasks(<<Parts("end"), Expect({"end"}), <<"collapse", Len(nodes)>>>>)
    BY MarkedTasks, PlainTasks, Tasks3, Zenon
  <2> QED BY <2>1, GroupTasks, Zenon
<1>17. Tasks(Group(Kind, Condition \o <<Expect({"{"}), List(<<<<"arm">>>>, {"}", "eof"}), Expect({"}"})>>))
  <2>1. Tasks(Condition)
    BY Sequences, Zenon
  <2>2. Tasks(<<<<"arm">>>>)
    BY SimpleTasks, Tasks1, Zenon
  <2>3. Task(List(<<<<"arm">>>>, {"}", "eof"}))
    BY <2>2, ListTask, Zenon
  <2>4. Tasks(<<Expect({"{"}), List(<<<<"arm">>>>, {"}", "eof"}), Expect({"}"})>>)
    BY <2>3, PlainTasks, Tasks3, Zenon
  <2>5. Tasks(Condition \o <<Expect({"{"}), List(<<<<"arm">>>>, {"}", "eof"}), Expect({"}"})>>)
    BY <2>1, <2>4, TasksConcat, Zenon
  <2> QED BY <2>5, GroupTasks, Zenon
<1>18. Tasks(Group(Kind, Condition))
  <2>1. Tasks(Condition)
    BY Sequences, Zenon
  <2> QED BY <2>1, GroupTasks, Zenon
<1>19. Tasks(Group(Kind, <<Open, List(<<Expr(0)>>, {")", "eof"}), Close>>))
  <2>1. Tasks(<<Expr(0)>>)
    BY PlainTasks, Tasks1, Zenon
  <2>2. Task(List(<<Expr(0)>>, {")", "eof"}))
    BY <2>1, ListTask, Zenon
  <2>3. Tasks(<<Open, List(<<Expr(0)>>, {")", "eof"}), Close>>)
    BY <2>2, PlainTasks, Tasks3, Zenon
  <2> QED BY <2>3, GroupTasks, Zenon
<1>20. Tasks(Group(Kind, ClosureOf(Kind)))
  <2>1. Tasks(ClosureOf(Kind))
    BY Sequences, Zenon
  <2> QED BY <2>1, GroupTasks, Zenon
<1>21. Tasks(Group(Nth(1), ClosureOf(Nth(1))))
  <2>1. Tasks(ClosureOf(Nth(1)))
    BY Sequences, Zenon
  <2> QED BY <2>1, GroupTasks, Zenon
<1>22. Tasks(<<<<"attributes">>, <<"new", pos, Len(nodes)>>, <<"postfix">>>>)
  BY MarkedTasks, SimpleTasks, Tasks3, Zenon
<1>23. Task(<<"decorated", pos, Len(nodes)>>)
  BY MarkedTasks, Zenon
<1> QED BY <1>1, <1>2, <1>3, <1>5, <1>6, <1>7, <1>8, <1>9, <1>10, <1>11, <1>12, <1>13, <1>14, <1>15,
           <1>16, <1>17, <1>18, <1>19, <1>20, <1>21, <1>22, <1>23, AttributesFirst, DoSurelyIs, Numbers,
           RunQuietly, RunReports, TakeIs, Zenon

LEMMA SkipsOn ==
    ASSUME NEW ts, NEW n \in Nat, n > 0, Run(ts, n), Tasks(ts), errors' = errors \cup {pos},
           skipped' = skipped \cup {pos}
    PROVE  Fine
<1>1. NewOK(ts)
  BY DEF Tasks, NewOK
<1>2. errors \subseteq errors' /\ pos \in errors'
  OBVIOUS
<1>3. Goes(ts, n)
  BY <1>1, <1>2, Zenon DEF Goes
<1> QED BY <1>3, Zenon DEF Fine

LEMMA RunSurely ==
    ASSUME NEW ts, Run(ts, 0), Tasks(ts), UNCHANGED <<nodes, errors, skipped>>,
           \E i \in DOMAIN ts : ThisSurely(ts[i])
    PROVE  Fine
<1>1. 0 \in Nat /\ errors \subseteq errors' /\ skipped' = skipped
  OBVIOUS
<1> QED BY <1>1, GoesOn, Zenon

LEMMA RunStays ==
    ASSUME NEW ts, Run(ts, 0), Tasks(ts), UNCHANGED <<nodes, errors, skipped>>, ~ThisSurely(Top)
    PROVE  Fine
<1>1. 0 \in Nat /\ errors' = errors /\ skipped' = skipped
  OBVIOUS
<1> QED BY <1>1, StaysOn, Zenon

\* A diagnostic, and then recovery.
LEMMA RecoversFrom ==
    ASSUME DropInv, tokens # <<>>, NEW ts, IsSequence(ts), Report(ts), ts[1] = <<"synchronize">>,
           \A k \in DOMAIN ts : k = 1 \/ Task(ts[k])
    PROVE  Fine
<1>1. Run(ts, 0) /\ errors' = errors \cup {pos} /\ skipped' = skipped
  BY DEF Report
<1>2. pos' = pos
  <2>1. pos' = Past(0) /\ pos \in Nat /\ pos <= Len(tokens)
    BY <1>1 DEF Run, DropInv
  <2> QED BY <2>1 DEF Past
<1>3. Recovering(ts[1])'
  <2>1. PICK t : t = ts[1]
    OBVIOUS
  <2>2. pos' \in errors'
    BY <1>1, <1>2
  <2>3. Recovering(t)'
    BY <2>1, <2>2, Zenon DEF Recovering
  <2> QED BY <2>1, <2>3
<1>4. NewOK(ts)
  BY <1>3, Zenon DEF NewOK
<1>5. 0 \in Nat /\ errors \subseteq errors' /\ pos \in errors'
  BY <1>1
<1>6. Goes(ts, 0)
  BY <1>1, <1>4, <1>5, Zenon DEF Goes
<1> QED BY <1>5, <1>6, Zenon DEF Fine

LEMMA EatStmtEndSteps ==
    ASSUME DropInv, tokens # <<>>, EatStmtEnd
    PROVE  Fine
<1>1. /\ Doing("stmt end")
      /\ \/ Take(<<>>)
         \/ Do(<<>>)
         \/ Report(<<<<"synchronize">>>>)
  BY Zenon DEF EatStmtEnd
<1>2. ~ThisSurely(Top)
  <2>1. "stmt end" \notin Sure /\ "stmt end" # "attributes"
    BY Zenon DEF Sure
  <2> QED BY <1>1, <2>1, NotSurely, Zenon
<1>3. CASE Report(<<<<"synchronize">>>>)
  <2> DEFINE s == <<"synchronize">>
             ts == <<s>>
  <2>1. ts \in Seq({s}) /\ ts[1] = s /\ DOMAIN ts = {1}
    OBVIOUS
  <2>2. IsSequence(ts) /\ \A k \in DOMAIN ts : k = 1 \/ Task(ts[k])
    <3> HIDE DEF ts
    <3> QED BY <2>1, SeqIs
  <2> QED BY <1>3, <2>1, <2>2, RecoversFrom, Zenon
<1> QED BY <1>1, <1>2, <1>3, NoTasks, TakeIs, DoIs, Zenon

LEMMA SynchronizeSteps ==
    ASSUME DropInv, tokens # <<>>, Synchronize
    PROVE  Fine
<1>1. /\ Doing("synchronize")
      /\ \/ Do(<<>>)
         \/ /\ Kind # "eof" /\ skipped' = skipped \cup {pos} /\ UNCHANGED <<nodes, depth, errors>>
            /\ Run(<<>>, 1) \/ Run(<<Top>>, 1)
  <2>1. Kind \notin Boundary => Kind # "eof"
    BY Zenon DEF Boundary
  <2> QED BY <2>1, Zenon DEF Synchronize
<1>2. ~ThisSurely(Top)
  <2>1. "synchronize" \notin Sure /\ "synchronize" # "attributes"
    BY Zenon DEF Sure
  <2> QED BY <1>1, <2>1, NotSurely, Zenon
<1>3. Recovering(Top)
  <2>1. todo # <<>> /\ Top[1] = "synchronize"
    BY <1>1 DEF Doing
  <2>2. 1 \in DOMAIN todo /\ Top = todo[1]
    BY <2>1, HeadIs
  <2>3. Task(Top) \/ Checks(Top, todo, 0) \/ Recovering(Top)
    BY <2>2 DEF DropInv, TodoOK
  <2>4. ~Task(Top)
    <3>1. "synchronize" \notin Compound
      BY Zenon DEF Compound
    <3>2. ASSUME NEW T, Top \in T, Closed(T)
          PROVE  FALSE
      <4>1. Plain(Top) \/ Top[1] \in Compound
        BY <3>2 DEF Closed
      <4> QED BY <2>1, <3>1, <4>1 DEF Plain
    <3> QED BY <3>2 DEF Task
  <2>5. ~Checks(Top, todo, 0)
    <3>1. ASSUME NEW b, Top = <<"progress", b>>
          PROVE  Top[1] = "progress"
      BY <3>1
    <3> QED BY <2>1, <3>1, Zenon DEF Checks
  <2> QED BY <2>3, <2>4, <2>5
<1>4. CASE /\ Kind # "eof" /\ skipped' = skipped \cup {pos} /\ UNCHANGED <<nodes, depth, errors>>
           /\ Run(<<>>, 1) \/ Run(<<Top>>, 1)
  <2>1. errors' = errors /\ errors \subseteq errors' /\ (pos \in errors' \/ pos - 1 \in skipped)
    BY <1>3, <1>4 DEF Recovering
  <2>2. pos' - 1 \in skipped'
    <3>1. pos' = Past(1)
      BY <1>4 DEF Run
    <3>2. Past(1) = pos + 1 /\ pos \in Nat
      BY <1>4, PastIs DEF DropInv
    <3>3. pos' - 1 = pos
      BY <3>1, <3>2
    <3> QED BY <1>4, <3>3
  <2>3. ASSUME NEW t, t = Top
        PROVE  NewOK(<<t>>)
    <3>1. Recovering(t)'
      BY <1>3, <2>2, <2>3 DEF Recovering
    <3> DEFINE ts == <<t>>
    <3>2. ts \in Seq({t}) /\ ts[1] = t /\ DOMAIN ts = {1}
      OBVIOUS
    <3> HIDE DEF ts
    <3>3. NewOK(ts)
      <4>1. IsSequence(ts)
        BY <3>2, SeqIs
      <4>2. \A k \in DOMAIN ts : k = 1 /\ Recovering(ts[k])'
        BY <3>1, <3>2, Zenon
      <4> QED BY <4>1, <4>2, Zenon DEF NewOK
    <3> QED BY <3>3 DEF ts
  <2>4. NewOK(<<>>) /\ NewOK(<<Top>>)
    <3>1. NewOK(<<>>)
      BY NoTasks, Zenon DEF NewOK, Tasks
    <3> QED BY <2>3, <3>1
  <2>5. PICK ts : Run(ts, 1) /\ NewOK(ts)
    BY <1>4, <2>4, Zenon
  <2>6. 1 \in Nat /\ 1 > 0
    OBVIOUS
  <2>7. Goes(ts, 1)
    BY <1>2, <1>4, <2>1, <2>5, <2>6, Zenon DEF Goes
  <2> QED BY <2>6, <2>7, Zenon DEF Fine
<1> QED BY <1>1, <1>2, <1>4, NoTasks, DoIs, Zenon

LEMMA AttributesSteps ==
    ASSUME DropInv, Attributes
    PROVE  Fine
<1>1. /\ Doing("attributes")
      /\ \/ Take(<<List(<<Expect(AnyIdent), OptArgs>>, {"]", "eof"}), Expect({"]"}), Top>>)
         \/ Kind # "#[" /\ Do(<<>>)
  BY Zenon DEF Attributes
<1>2. Task(Top)
  <2>1. "attributes" \notin {"progress", "synchronize"}
    BY Zenon
  <2> QED BY <1>1, <2>1, TopIs, Zenon
<1>3. Tasks(<<List(<<Expect(AnyIdent), OptArgs>>, {"]", "eof"}), Expect({"]"}), Top>>)
  <2>1. Tasks(<<Expect(AnyIdent), OptArgs>>)
    BY PlainTasks, ShortTasks, Tasks2, Zenon
  <2>2. Task(List(<<Expect(AnyIdent), OptArgs>>, {"]", "eof"}))
    BY <2>1, ListTask, Zenon
  <2> QED BY <2>2, <1>2, PlainTasks, Tasks3, Zenon
<1>4. Kind # "#[" => ~ThisSurely(Top)
  <2>1. Top[1] = "attributes" /\ "attributes" \notin Sure
    BY <1>1, Zenon DEF Doing, Sure
  <2> QED BY <2>1, Zenon DEF ThisSurely, Surely
<1> QED BY <1>1, <1>3, <1>4, NoTasks, TakeIs, DoIs, Zenon

LEMMA LeaveSteps ==
    ASSUME DropInv, Leave
    PROVE  Fine
<1>1. /\ Doing("leave")
      /\ (Run(<<>>, 0) /\ UNCHANGED <<nodes, errors, skipped>>)
  BY Zenon DEF Leave
<1>2. ~ThisSurely(Top)
  <2>1. "leave" \notin {"progress", "synchronize"} /\ "leave" \notin Sure /\ "leave" # "attributes"
    BY Zenon DEF Sure
  <2> QED BY <1>1, <2>1, TopIs, NotSurely, Zenon
<1> QED BY <1>1, NoTasks, <1>2, RunStays, Zenon

LEMMA ParseExprSteps ==
    ASSUME DropInv, ParseExpr
    PROVE  Fine
<1>1. /\ Doing("expr")
      /\ \/ (Run(<<>>, 1) /\ errors' = errors \cup {pos} /\ UNCHANGED <<depth, skipped>>)
         \/ (Run(<<<<"prefix">>, <<"infix", Top[2]>>, <<"leave">>>>, 0) /\ UNCHANGED <<nodes, errors,
            skipped>>)
  BY Zenon DEF ParseExpr
<1>2. Tasks(<<<<"prefix">>, <<"infix", Top[2]>>, <<"leave">>>>)
  BY MarkedTasks, SimpleTasks, Tasks3, Zenon
<1>3. ThisSurely(<<"prefix">>)
  <2>1. <<"prefix">>[1] \in Sure
    <3>1. <<"prefix">>[1] = "prefix"
      OBVIOUS
    <3> QED BY <3>1, Zenon DEF Sure
  <2> QED BY <2>1, Zenon DEF ThisSurely, Surely
<1>4. \E i \in DOMAIN <<<<"prefix">>, <<"infix", Top[2]>>, <<"leave">>>> : ThisSurely(<<<<"prefix">>,
      <<"infix", Top[2]>>, <<"leave">>>>[i])
  BY <1>3, Sure1of3, Zenon
<1> QED BY <1>1, NoTasks, <1>2, <1>4, Numbers, RunReports, RunSurely, Zenon

LEMMA ParseSwitchSteps ==
    ASSUME DropInv, ParseSwitch
    PROVE  Fine
<1>1. CASE /\ Doing("cases")
           /\ \/ Take(<<<<"case", TRUE>>>>)
              \/ Do(<<Expect({"{"}), <<"case", FALSE>>>>)
  <2>1. ~ThisSurely(Top)
    <3>1. "cases" \notin {"progress", "synchronize"} /\ "cases" \notin Sure /\ "cases" # "attributes"
      BY Zenon DEF Sure
    <3> QED BY <1>1, <3>1, TopIs, NotSurely, Zenon
  <2>2. Tasks(<<<<"case", TRUE>>>>)
    BY MarkedTasks, Tasks1, Zenon
  <2>3. Tasks(<<Expect({"{"}), <<"case", FALSE>>>>)
    BY MarkedTasks, PlainTasks, Tasks2, Zenon
  <2> QED BY <1>1, <2>2, <2>3, <2>1, DoIs, TakeIs, Zenon
<1>2. CASE /\ Doing("case")
           /\ \/ Do(<<Expect({"endswitch"}), StmtEnd>>)
              \/ Do(<<Expect({"}"})>>)
              \/ Take(<<Expr(0)>> \o <<Eat({":", ";"}), Stmts(CaseEnds), Top>>)
              \/ Take(<<Eat({":", ";"}), Stmts(CaseEnds), Top>>)
              \/ (Run(<<Top>>, 1) /\ errors' = errors \cup {pos} /\ skipped' = skipped \cup {pos})
  <2>1. Task(Top) /\ ~ThisSurely(Top)
    <3>1. "case" \notin {"progress", "synchronize"} /\ "case" \notin Sure /\ "case" # "attributes"
      BY Zenon DEF Sure
    <3> QED BY <1>2, <3>1, TopIs, NotSurely, Zenon
  <2>2. Tasks(<<Expect({"endswitch"}), StmtEnd>>)
    BY PlainTasks, Tasks2, Zenon
  <2>3. Tasks(<<Expect({"}"})>>)
    BY PlainTasks, Tasks1, Zenon
  <2>4. Tasks(<<Expr(0)>> \o <<Eat({":", ";"}), Stmts(CaseEnds), Top>>)
    <3>1. Tasks(<<Expr(0)>>)
      BY PlainTasks, Tasks1, Zenon
    <3>2. Tasks(<<Eat({":", ";"}), Stmts(CaseEnds), Top>>)
      BY <2>1, ShortTasks, Tasks3, Zenon
    <3> QED BY <3>1, <3>2, TasksConcat, Zenon
  <2>5. Tasks(<<Eat({":", ";"}), Stmts(CaseEnds), Top>>)
    BY <2>1, ShortTasks, Tasks3, Zenon
  <2>6. Tasks(<<Top>>)
    BY <2>1, Tasks1, Zenon
  <2> QED BY <1>2, <2>2, <2>3, <2>4, <2>5, <2>6, <2>1, DoIs, Numbers, SkipsOn, TakeIs, Zenon
<1> QED BY <1>1, <1>2, Zenon DEF ParseSwitch

LEMMA ParseClassSteps ==
    ASSUME DropInv, ParseClass
    PROVE  Fine
<1>1. /\ Doing("class")
      /\ \/ Take(<<Expect(AnyIdent)>> \o <<ReturnType>> \o <<Given({"extends"}, NameList),
            Given({"implements"}, NameList)>> \o ClassBody)
         \/ Take(<<Expect(AnyIdent)>> \o <<>> \o <<Given({"extends"}, NameList), Given({"implements"},
            NameList)>> \o ClassBody)
         \/ (Run(<<Expect(AnyIdent)>> \o <<ReturnType>> \o <<Given({"extends"}, NameList),
            Given({"implements"}, NameList)>> \o ClassBody, 1) /\ errors' = errors \cup {pos}
              /\ skipped' = skipped \cup {pos})
         \/ (Run(<<Expect(AnyIdent)>> \o <<>> \o <<Given({"extends"}, NameList), Given({"implements"},
            NameList)>> \o ClassBody, 1) /\ errors' = errors \cup {pos} /\ skipped' = skipped \cup {pos})
  BY Zenon DEF ParseClass
<1>2. Tasks(<<Expect(AnyIdent)>> \o <<ReturnType>> \o <<Given({"extends"}, NameList), Given({"implements"},
      NameList)>> \o ClassBody)
  <2>1. Tasks(<<Expect(AnyIdent)>>)
    BY PlainTasks, Tasks1, Zenon
  <2>2. Tasks(<<ReturnType>>)
    BY ShortTasks, Tasks1, Zenon
  <2>3. Tasks(<<Expect(AnyIdent)>> \o <<ReturnType>>)
    BY <2>1, <2>2, TasksConcat, Zenon
  <2>4. Tasks(NameList)
    BY Sequences, Zenon
  <2>5. Task(Given({"extends"}, NameList))
    BY <2>4, GivenTask, Zenon
  <2>6. Task(Given({"implements"}, NameList))
    BY <2>4, GivenTask, Zenon
  <2>7. Tasks(<<Given({"extends"}, NameList), Given({"implements"}, NameList)>>)
    BY <2>5, <2>6, Tasks2, Zenon
  <2>8. Tasks(<<Expect(AnyIdent)>> \o <<ReturnType>> \o <<Given({"extends"}, NameList),
        Given({"implements"}, NameList)>>)
    BY <2>3, <2>7, TasksConcat, Zenon
  <2>9. Tasks(ClassBody)
    BY Sequences, Zenon
  <2> QED BY <2>8, <2>9, TasksConcat, Zenon
<1>3. Tasks(<<Expect(AnyIdent)>> \o <<>> \o <<Given({"extends"}, NameList), Given({"implements"},
      NameList)>> \o ClassBody)
  <2>1. Tasks(<<Expect(AnyIdent)>>)
    BY PlainTasks, Tasks1, Zenon
  <2>2. Tasks(<<>>)
    BY NoTasks, Zenon
  <2>3. Tasks(<<Expect(AnyIdent)>> \o <<>>)
    BY <2>1, <2>2, TasksConcat, Zenon
  <2>4. Tasks(NameList)
    BY Sequences, Zenon
  <2>5. Task(Given({"extends"}, NameList))
    BY <2>4, GivenTask, Zenon
  <2>6. Task(Given({"implements"}, NameList))
    BY <2>4, GivenTask, Zenon
  <2>7. Tasks(<<Given({"extends"}, NameList), Given({"implements"}, NameList)>>)
    BY <2>5, <2>6, Tasks2, Zenon
  <2>8. Tasks(<<Expect(AnyIdent)>> \o <<>> \o <<Given({"extends"}, NameList), Given({"implements"},
        NameList)>>)
    BY <2>3, <2>7, TasksConcat, Zenon
  <2>9. Tasks(ClassBody)
    BY Sequences, Zenon
  <2> QED BY <2>8, <2>9, TasksConcat, Zenon
<1> QED BY <1>1, <1>2, <1>3, Numbers, SkipsOn, TakeIs, Zenon

LEMMA DecoratedSteps ==
    ASSUME DropInv, Decorated
    PROVE  Fine
<1>1. /\ Doing("decorated")
      /\ \/ (Run(ClosureOf(Nth(1)) \o <<Make("group", Nth(1), 2 * Top[2], Top[3]), <<"postfix">>>>,
            2) /\ Quietly)
         \/ (Run(ClosureOf(Kind) \o <<Make("group", Kind, 2 * Top[2], Top[3]), <<"postfix">>>>, 1) /\ Quietly)
         \/ (Run(<<<<"prefix">>, <<"postfix">>>>, 0) /\ errors' = errors \cup {pos} /\ UNCHANGED <<depth,
            skipped>>)
  BY Zenon DEF Decorated
<1>2. Tasks(ClosureOf(Nth(1)) \o <<Make("group", Nth(1), 2 * Top[2], Top[3]), <<"postfix">>>>)
  <2>1. Tasks(ClosureOf(Nth(1)))
    BY Sequences, Zenon
  <2>2. Tasks(<<Make("group", Nth(1), 2 * Top[2], Top[3]), <<"postfix">>>>)
    BY PlainTasks, SimpleTasks, Tasks2, Zenon
  <2> QED BY <2>1, <2>2, TasksConcat, Zenon
<1>3. Tasks(ClosureOf(Kind) \o <<Make("group", Kind, 2 * Top[2], Top[3]), <<"postfix">>>>)
  <2>1. Tasks(ClosureOf(Kind))
    BY Sequences, Zenon
  <2>2. Tasks(<<Make("group", Kind, 2 * Top[2], Top[3]), <<"postfix">>>>)
    BY PlainTasks, SimpleTasks, Tasks2, Zenon
  <2> QED BY <2>1, <2>2, TasksConcat, Zenon
<1>4. Tasks(<<<<"prefix">>, <<"postfix">>>>)
  BY SimpleTasks, Tasks2, Zenon
<1> QED BY <1>1, <1>2, <1>3, <1>4, Numbers, RunQuietly, RunReports, Zenon

\* What a statement begins with.
Begins(body) ==
    /\ body[1] \in Nat /\ Tasks(body[2])
    /\ body[1] > 0 \/ \E i \in DOMAIN body[2] : ThisSurely(body[2][i])

LEMMA BeginsIs ==
    ASSUME NEW n \in Nat, NEW ts, Tasks(ts), n > 0 \/ \E i \in DOMAIN ts : ThisSurely(ts[i])
    PROVE  Begins(<<n, ts>>)
<1>1. <<n, ts>>[1] = n /\ <<n, ts>>[2] = ts
  OBVIOUS
<1> QED BY <1>1, Zenon DEF Begins

LEMMA StatementBegins == Begins(StatementBody)
<1>1. Begins(<<1, <<>>>>)
  <2> QED BY NoTasks, BeginsIs, Numbers, Zenon
<1>2. Begins(<<0, Block>>)
  <2>1. Tasks(Block)
    BY Sequences, Zenon
  <2>2. ThisSurely(Expect({"{"}))
    <3>1. Expect({"{"})[1] = "expect"
      BY DEF Expect
    <3> QED BY <3>1, Zenon DEF ThisSurely, Surely, Sure
  <2>3. \E i \in DOMAIN Block : ThisSurely(Block[i])
    BY <2>2, Sure1of3, Zenon DEF Block
  <2> QED BY <2>1, <2>3, BeginsIs, Numbers, Zenon
<1>3. Begins(<<1, Append(Exprs, StmtEnd)>>)
  <2>1. Tasks(Append(Exprs, StmtEnd))
    <3>1. Tasks(Exprs)
      BY Sequences, Zenon
    <3> QED BY <3>1, PlainTasks, TasksAppend, Zenon
  <2> QED BY <2>1, BeginsIs, Numbers, Zenon
<1>4. Begins(<<1, <<Value(StmtEnds), StmtEnd>>>>)
  <2>1. Tasks(<<Value(StmtEnds), StmtEnd>>)
    BY PlainTasks, Tasks2, Zenon
  <2> QED BY <2>1, BeginsIs, Numbers, Zenon
<1>5. Begins(<<1, Append(Condition, <<"then">>)>>)
  <2>1. Tasks(Append(Condition, <<"then">>))
    <3>1. Tasks(Condition)
      BY Sequences, Zenon
    <3> QED BY <3>1, SimpleTasks, TasksAppend, Zenon
  <2> QED BY <2>1, BeginsIs, Numbers, Zenon
<1>6. Begins(<<1, Append(Condition, <<"loop body", "endwhile">>)>>)
  <2>1. Tasks(Append(Condition, <<"loop body", "endwhile">>))
    <3>1. Tasks(Condition)
      BY Sequences, Zenon
    <3> QED BY <3>1, MarkedTasks, TasksAppend, Zenon
  <2> QED BY <2>1, BeginsIs, Numbers, Zenon
<1>7. Begins(<<1, <<Statement, Expect({"while"})>> \o Append(Condition, StmtEnd)>>)
  <2>1. Tasks(<<Statement, Expect({"while"})>> \o Append(Condition, StmtEnd))
    <3>1. Tasks(<<Statement, Expect({"while"})>>)
      BY PlainTasks, Tasks2, Zenon
    <3>2. Tasks(Condition)
      BY Sequences, Zenon
    <3>3. Tasks(Append(Condition, StmtEnd))
      BY <3>2, PlainTasks, TasksAppend, Zenon
    <3> QED BY <3>1, <3>3, TasksConcat, Zenon
  <2> QED BY <2>1, BeginsIs, Numbers, Zenon
<1>8. Begins(<<1, <<Open, List(<<Expr(0)>>, {";"}), Expect({";"}), List(<<Expr(0)>>, {";"}), Expect({";"}),
      List(<<Expr(0)>>, {")"}), Close, <<"loop body", "endfor">>>>>>)
  <2>1. Tasks(<<Open, List(<<Expr(0)>>, {";"}), Expect({";"}), List(<<Expr(0)>>, {";"}), Expect({";"}),
        List(<<Expr(0)>>, {")"}), Close, <<"loop body", "endfor">>>>)
    <3>1. Tasks(<<Expr(0)>>)
      BY PlainTasks, Tasks1, Zenon
    <3>2. Task(List(<<Expr(0)>>, {";"}))
      BY <3>1, ListTask, Zenon
    <3>3. Task(List(<<Expr(0)>>, {")"}))
      BY <3>1, ListTask, Zenon
    <3> QED BY <3>3, <3>2, MarkedTasks, PlainTasks, Tasks8, Zenon
  <2> QED BY <2>1, BeginsIs, Numbers, Zenon
<1>9. Begins(<<1, <<Open, Expr(0), Expect({"as"}), Eat(Amp), Expr(0), Given({"=>"}, <<Eat(Amp), Expr(0)>>),
      Close, <<"loop body", "endforeach">>>>>>)
  <2>1. Tasks(<<Open, Expr(0), Expect({"as"}), Eat(Amp), Expr(0), Given({"=>"}, <<Eat(Amp), Expr(0)>>),
        Close, <<"loop body", "endforeach">>>>)
    <3>1. Tasks(<<Eat(Amp), Expr(0)>>)
      BY PlainTasks, ShortTasks, Tasks2, Zenon
    <3>2. Task(Given({"=>"}, <<Eat(Amp), Expr(0)>>))
      BY <3>1, GivenTask, Zenon
    <3> QED BY <3>2, MarkedTasks, PlainTasks, ShortTasks, Tasks8, Zenon
  <2> QED BY <2>1, BeginsIs, Numbers, Zenon
<1>10. Begins(<<1, Append(Condition, <<"cases">>)>>)
  <2>1. Tasks(Append(Condition, <<"cases">>))
    <3>1. Tasks(Condition)
      BY Sequences, Zenon
    <3> QED BY <3>1, SimpleTasks, TasksAppend, Zenon
  <2> QED BY <2>1, BeginsIs, Numbers, Zenon
<1>11. Begins(<<1, Append(Block, <<"catches">>)>>)
  <2>1. Tasks(Append(Block, <<"catches">>))
    <3>1. Tasks(Block)
      BY Sequences, Zenon
    <3> QED BY <3>1, SimpleTasks, TasksAppend, Zenon
  <2> QED BY <2>1, BeginsIs, Numbers, Zenon
<1>12. Begins(<<1, <<<<"static vars">>, StmtEnd>>>>)
  <2>1. Tasks(<<<<"static vars">>, StmtEnd>>)
    BY PlainTasks, SimpleTasks, Tasks2, Zenon
  <2> QED BY <2>1, BeginsIs, Numbers, Zenon
<1>13. Begins(<<1, <<Open, List(<<Expr(0)>>, {")", "eof"}), Close, StmtEnd>>>>)
  <2>1. Tasks(<<Open, List(<<Expr(0)>>, {")", "eof"}), Close, StmtEnd>>)
    <3>1. Tasks(<<Expr(0)>>)
      BY PlainTasks, Tasks1, Zenon
    <3>2. Task(List(<<Expr(0)>>, {")", "eof"}))
      BY <3>1, ListTask, Zenon
    <3> QED BY <3>2, PlainTasks, Tasks4, Zenon
  <2> QED BY <2>1, BeginsIs, Numbers, Zenon
<1>14. Begins(<<1, <<Open, List(<<Expect(AnyIdent), Expect({"="}), Expr(0)>>, {")", "eof"}), Close,
       <<"declared">>>>>>)
  <2>1. Tasks(<<Open, List(<<Expect(AnyIdent), Expect({"="}), Expr(0)>>, {")", "eof"}), Close,
        <<"declared">>>>)
    <3>1. Tasks(<<Expect(AnyIdent), Expect({"="}), Expr(0)>>)
      BY PlainTasks, Tasks3, Zenon
    <3>2. Task(List(<<Expect(AnyIdent), Expect({"="}), Expr(0)>>, {")", "eof"}))
      BY <3>1, ListTask, Zenon
    <3> QED BY <3>2, PlainTasks, SimpleTasks, Tasks4, Zenon
  <2> QED BY <2>1, BeginsIs, Numbers, Zenon
<1>15. Begins(<<1, <<Eat(AnyIdent), <<"body">>>>>>)
  <2>1. Tasks(<<Eat(AnyIdent), <<"body">>>>)
    BY ShortTasks, SimpleTasks, Tasks2, Zenon
  <2> QED BY <2>1, BeginsIs, Numbers, Zenon
<1>16. Begins(<<1, <<Eat({"function", "const"}), <<"use item">>, StmtEnd>>>>)
  <2>1. Tasks(<<Eat({"function", "const"}), <<"use item">>, StmtEnd>>)
    BY PlainTasks, ShortTasks, SimpleTasks, Tasks3, Zenon
  <2> QED BY <2>1, BeginsIs, Numbers, Zenon
<1>17. ASSUME Kind = "#["
      PROVE  Begins(<<0, <<<<"attributes">>, <<"attributed">>>>>>)
  <2>1. Tasks(<<<<"attributes">>, <<"attributed">>>>)
    BY SimpleTasks, Tasks2, Zenon
  <2>2. ThisSurely(<<"attributes">>)
    <3>1. <<"attributes">>[1] = "attributes"
      OBVIOUS
    <3> QED BY <1>17, <3>1, Zenon DEF ThisSurely, Surely, Sure
  <2>3. \E i \in DOMAIN <<<<"attributes">>, <<"attributed">>>> : ThisSurely(<<<<"attributes">>,
        <<"attributed">>>>[i])
    BY <2>2, Sure1of2, Zenon
  <2> QED BY <2>1, <2>3, BeginsIs, Numbers, Zenon
<1>18. Begins(<<2, <<>>>>)
  <2> QED BY NoTasks, BeginsIs, Numbers, Zenon
<1>19. Begins(<<0, <<<<"declaration">>>>>>)
  <2>1. Tasks(<<<<"declaration">>>>)
    BY SimpleTasks, Tasks1, Zenon
  <2>2. ThisSurely(<<"declaration">>)
    <3>1. <<"declaration">>[1] = "declaration"
      OBVIOUS
    <3> QED BY <3>1, Zenon DEF ThisSurely, Surely, Sure
  <2>3. \E i \in DOMAIN <<<<"declaration">>>> : ThisSurely(<<<<"declaration">>>>[i])
    BY <2>2, Sure1of1, Zenon
  <2> QED BY <2>1, <2>3, BeginsIs, Numbers, Zenon
<1>20. Begins(<<1, <<<<"constants">>, StmtEnd>>>>)
  <2>1. Tasks(<<<<"constants">>, StmtEnd>>)
    BY PlainTasks, SimpleTasks, Tasks2, Zenon
  <2> QED BY <2>1, BeginsIs, Numbers, Zenon
<1>21. Begins(<<1, <<Eat({"("}), Eat({")"}), StmtEnd, Eat({"html"})>>>>)
  <2>1. Tasks(<<Eat({"("}), Eat({")"}), StmtEnd, Eat({"html"})>>)
    BY PlainTasks, ShortTasks, Tasks4, Zenon
  <2> QED BY <2>1, BeginsIs, Numbers, Zenon
<1>22. Begins(<<0, <<Expr(0), StmtEnd>>>>)
  <2>1. Tasks(<<Expr(0), StmtEnd>>)
    BY PlainTasks, Tasks2, Zenon
  <2>2. ThisSurely(Expr(0))
    <3>1. Expr(0)[1] = "expr"
      BY DEF Expr
    <3> QED BY <3>1, Zenon DEF ThisSurely, Surely, Sure
  <2>3. \E i \in DOMAIN <<Expr(0), StmtEnd>> : ThisSurely(<<Expr(0), StmtEnd>>[i])
    BY <2>2, Sure1of2, Zenon
  <2> QED BY <2>1, <2>3, BeginsIs, Numbers, Zenon
<1> QED BY <1>1, <1>2, <1>3, <1>4, <1>5, <1>6, <1>7, <1>8, <1>9, <1>10, <1>11, <1>12, <1>13, <1>14, <1>15,
           <1>16, <1>17, <1>18, <1>19, <1>20, <1>21, <1>22, Zenon DEF StatementBody

LEMMA ParseStatementSteps ==
    ASSUME DropInv, tokens # <<>>, ParseStatement
    PROVE  Fine
<1> DEFINE rest == <<Wrap("stmt", Kind, Len(nodes)), <<"leave">>>>
<1>1. \/ Report(<<<<"synchronize">>, Wrap("error", "stmt", Len(nodes))>>)
      \/ Run(StatementBody[2] \o rest, StatementBody[1]) /\ UNCHANGED <<nodes, errors, skipped>>
  BY Zenon DEF ParseStatement
<1>2. CASE Report(<<<<"synchronize">>, Wrap("error", "stmt", Len(nodes))>>)
  <2> DEFINE s == <<"synchronize">>
             w == Wrap("error", "stmt", Len(nodes))
             ts == <<s, w>>
  <2>1. ts \in Seq({s, w}) /\ ts[1] = s /\ ts[2] = w /\ DOMAIN ts = {1, 2}
    OBVIOUS
  <2>2. Task(w)
    BY PlainTasks, Zenon
  <2>3. Report(ts)
    BY <1>2
  <2>4. IsSequence(ts) /\ \A k \in DOMAIN ts : k = 1 \/ Task(ts[k])
    <3> HIDE DEF ts, s, w
    <3>1. IsSequence(ts)
      BY <2>1, SeqIs
    <3> QED BY <2>1, <2>2, <3>1, Zenon
  <2>5. ts[1] = <<"synchronize">>
    BY <2>1
  <2> HIDE DEF ts
  <2> QED BY <2>3, <2>4, <2>5, RecoversFrom, Zenon
<1>3. CASE Run(StatementBody[2] \o rest, StatementBody[1]) /\ UNCHANGED <<nodes, errors, skipped>>
  <2>1. /\ StatementBody[1] \in Nat /\ Tasks(StatementBody[2])
        /\ StatementBody[1] > 0 \/ \E i \in DOMAIN StatementBody[2] : ThisSurely(StatementBody[2][i])
    BY StatementBegins, Zenon DEF Begins
  <2>2. Tasks(rest)
    BY PlainTasks, SimpleTasks, Tasks2, Zenon
  <2>3. PICK n, ts : n = StatementBody[1] /\ ts = StatementBody[2]
    OBVIOUS
  <2>4. errors \subseteq errors' /\ skipped' = skipped
    BY <1>3
  <2> HIDE DEF rest
  <2>5. n \in Nat /\ Run(ts \o rest, n) /\ Tasks(ts \o rest)
    BY <1>3, <2>1, <2>2, <2>3, TasksConcat, Zenon
  <2>6. n > 0 \/ \E i \in DOMAIN (ts \o rest) : ThisSurely((ts \o rest)[i])
    <3>1. n > 0 \/ \E i \in DOMAIN ts : ThisSurely(ts[i])
      BY <2>1, <2>3, Zenon
    <3>2. CASE \E i \in DOMAIN ts : ThisSurely(ts[i])
      <4>1. PICK i \in DOMAIN ts : ThisSurely(ts[i])
        BY <3>2
      <4>2. IsSequence(ts) /\ IsSequence(rest)
        BY <2>1, <2>2, <2>3, Zenon DEF Tasks
      <4>3. i \in DOMAIN (ts \o rest) /\ (ts \o rest)[i] = ts[i]
        BY <4>1, <4>2, SeqConcat DEF IsSequence
      <4> QED BY <4>1, <4>3, Zenon
    <3> QED BY <3>1, <3>2, Zenon
  <2> QED BY <2>4, <2>5, <2>6, GoesOn, Zenon
<1> QED BY <1>1, <1>2, <1>3
LEMMA TwoMore ==
    ASSUME NEW body, Tasks(body), NEW check, NEW again
    PROVE  /\ IsSequence(body \o <<check, again>>) /\ Len(body \o <<check, again>>) = Len(body) + 2
           /\ Len(body) \in Nat /\ DOMAIN body = 1 .. Len(body)
           /\ DOMAIN (body \o <<check, again>>) = 1 .. Len(body) + 2
           /\ \A k \in 1 .. Len(body) : (body \o <<check, again>>)[k] = body[k]
           /\ (body \o <<check, again>>)[Len(body) + 1] = check
           /\ (body \o <<check, again>>)[Len(body) + 2] = again
<1> DEFINE rest == <<check, again>>
<1>1. rest \in Seq({check, again}) /\ Len(rest) = 2 /\ rest[1] = check /\ rest[2] = again
  OBVIOUS
<1>2. IsSequence(body)
  BY DEF Tasks
<1> HIDE DEF rest
<1>3. IsSequence(rest) /\ Len(body) \in Nat /\ DOMAIN body = 1 .. Len(body)
  BY <1>1, <1>2, SeqIs DEF IsSequence
<1>4. /\ IsSequence(body \o rest) /\ Len(body \o rest) = Len(body) + Len(rest)
      /\ \A k \in 1 .. Len(body) : (body \o rest)[k] = body[k]
      /\ \A k \in 1 .. Len(rest) : (body \o rest)[Len(body) + k] = rest[k]
  BY <1>2, <1>3, SeqConcat
<1>5. 1 \in 1 .. Len(rest) /\ 2 \in 1 .. Len(rest)
  BY <1>1
<1>6. (body \o rest)[Len(body) + 1] = rest[1] /\ (body \o rest)[Len(body) + 2] = rest[2]
  BY <1>4, <1>5, Zenon
<1>7. DOMAIN (body \o rest) = 1 .. Len(body) + 2
  BY <1>1, <1>4 DEF IsSequence
<1> QED BY <1>1, <1>3, <1>4, <1>6, <1>7, Zenon DEF rest

\* The modifiers before an anonymous class end somewhere.
LEMMA AheadIs ==
    ASSUME DropInv
    PROVE  (CHOOSE n \in 0 .. Len(tokens) : Nth(n) \notin {"abstract", "readonly"}
                /\ \A m \in 0 .. n - 1 : Nth(m) \in {"abstract", "readonly"}) \in Nat
<1> DEFINE Other(n) == Nth(n) \notin {"abstract", "readonly"}
           S == {n \in 0 .. Len(tokens) : Other(n)}
<1>1. Len(tokens) \in Nat /\ pos \in Nat /\ pos >= 1
  <2>1. <<>> \in Seq({}) /\ Len(<<>>) = 0
    OBVIOUS
  <2> QED BY <2>1 DEF DropInv, IsInput, IsSequence
<1>2. Other(Len(tokens))
  <2>1. Nth(Len(tokens)) = "eof"
    BY <1>1 DEF Nth
  <2> QED BY <2>1
<1> HIDE DEF Other
<1>3. S \in SUBSET Nat /\ S # {}
  BY <1>1, <1>2
<1>4. PICK n : n \in S /\ \A y \in S : n <= y
  <2> HIDE DEF S
  <2> QED BY <1>3, MinIn
<1>5. \A m \in 0 .. n - 1 : ~Other(m)
  BY <1>1, <1>4
<1>6. n \in 0 .. Len(tokens) /\ Other(n)
  BY <1>4
<1>7. (CHOOSE k \in 0 .. Len(tokens) : Other(k) /\ \A m \in 0 .. k - 1 : ~Other(m)) \in 0 .. Len(tokens)
  BY <1>5, <1>6
<1>8. (CHOOSE k \in 0 .. Len(tokens) : Other(k) /\ \A m \in 0 .. k - 1 : ~Other(m)) \in Nat
  BY <1>1, <1>7
<1> QED BY <1>8 DEF Other

LEMMA ParseNewSteps ==
    ASSUME DropInv, ParseNew
    PROVE  Fine
<1> DEFINE ahead == CHOOSE n \in 0 .. Len(tokens) : Nth(n) \notin {"abstract", "readonly"}
                         /\ \A m \in 0 .. n - 1 : Nth(m) \in {"abstract", "readonly"}
           Class == <<OptArgs, Given({"extends"}, <<Expect(AnyIdent)>>), Given({"implements"}, NameList)>>
                    \o ClassBody \o <<Make("group", "new", 2 * Top[2], Top[3])>>
           Named == <<<<"class ref">>, OptArgs, Make("group", "new", 2 * Top[2], Top[3])>>
<1>1. /\ Doing("new")
      /\ \/ Run(Class, ahead + 1) /\ Quietly
         \/ Report(Named)
         \/ Do(Named)
  BY Zenon DEF ParseNew
<1>2. ahead + 1 \in Nat /\ ahead + 1 > 0
  <2>1. ahead \in Nat
    BY AheadIs
  <2> HIDE DEF ahead
  <2> QED BY <2>1
<1>3. ~ThisSurely(Top)
  <2>1. "new" \notin Sure /\ "new" # "attributes"
    BY Zenon DEF Sure
  <2> QED BY <1>1, <2>1, NotSurely, Zenon
<1>4. Tasks(Class)
  <2>1. Tasks(<<Expect(AnyIdent)>>)
    BY PlainTasks, Tasks1, Zenon
  <2>2. Task(Given({"extends"}, <<Expect(AnyIdent)>>))
    BY <2>1, GivenTask, Zenon
  <2>3. Tasks(NameList)
    BY Sequences, Zenon
  <2>4. Task(Given({"implements"}, NameList))
    BY <2>3, GivenTask, Zenon
  <2>5. Tasks(<<OptArgs, Given({"extends"}, <<Expect(AnyIdent)>>), Given({"implements"}, NameList)>>)
    BY <2>2, <2>4, ShortTasks, Tasks3, Zenon
  <2>6. Tasks(ClassBody)
    BY Sequences, Zenon
  <2>7. Tasks(<<OptArgs, Given({"extends"}, <<Expect(AnyIdent)>>), Given({"implements"}, NameList)>>
        \o ClassBody)
    BY <2>5, <2>6, TasksConcat, Zenon
  <2>8. Tasks(<<Make("group", "new", 2 * Top[2], Top[3])>>)
    BY PlainTasks, Tasks1, Zenon
  <2> QED BY <2>7, <2>8, TasksConcat, Zenon
<1>5. Tasks(Named)
  BY PlainTasks, ShortTasks, SimpleTasks, Tasks3, Zenon
<1> HIDE DEF ahead, Class, Named
<1> QED BY <1>1, <1>2, <1>3, <1>4, <1>5, RunQuietly, ReportTaskIs, DoIs, Zenon

LEMMA LoopRoundSteps ==
    ASSUME DropInv, tokens # <<>>, LoopRound
    PROVE  Fine
<1>1. CASE /\ Doing("loop")
           /\ \/ Do(<<>>)
              \/ Do(Top[2] \o <<<<"progress", pos>>, Top>>)
  <2>1. Task(Top) /\ Top[1] = "loop" /\ ~ThisSurely(Top)
    <3>1. "loop" \notin {"progress", "synchronize"} /\ "loop" \notin Sure /\ "loop" # "attributes"
      BY Zenon DEF Sure
    <3> QED BY <1>1, <3>1, TopIs, NotSurely, Zenon
  <2>2. Tasks(Top[2]) /\ \E i \in DOMAIN Top[2] : Surely(Top[2][i])
    <3>1. Top[1] \in Compound /\ BodyOf(Top) = Top[2]
      BY <2>1, Zenon DEF Compound, BodyOf
    <3> QED BY <2>1, <3>1, BodyIs
  <2>3. ASSUME NEW body, Tasks(body), NEW i \in DOMAIN body, Surely(body[i]), NEW again, Task(again),
               NEW check, check = <<"progress", pos>>
        PROVE  NewOK(body \o <<check, again>>)
    <3>1. PICK ts : ts = body \o <<check, again>>
      OBVIOUS
    <3>2. /\ Len(body) \in Nat /\ DOMAIN body = 1 .. Len(body) /\ IsSequence(ts)
          /\ \A k \in 1 .. Len(body) : ts[k] = body[k]
          /\ ts[Len(body) + 1] = check /\ ts[Len(body) + 2] = again
      BY <2>3, <3>1, TwoMore
    <3>3. DOMAIN ts = 1 .. Len(body) + 2
      BY <2>3, <3>1, TwoMore
    <3>5. ASSUME NEW k \in 1 .. Len(body) + 2
          PROVE  \/ Task(ts[k])
                 \/ ts[k] = <<"progress", pos>> /\ \E m \in 1 .. k - 1 : Surely(ts[m])
      <4>1. CASE k \in 1 .. Len(body)
        BY <2>3, <3>2, <4>1 DEF Tasks
      <4>2. CASE k = Len(body) + 1
        <5>1. i \in 1 .. k - 1 /\ Surely(ts[i])
          BY <2>3, <3>2, <4>2
        <5>2. ts[k] = <<"progress", pos>>
          BY <2>3, <3>2, <4>2
        <5> QED BY <5>1, <5>2, Zenon
      <4>3. CASE k = Len(body) + 2
        BY <2>3, <3>2, <4>3
      <4>4. k \in 1 .. Len(body) \/ k = Len(body) + 1 \/ k = Len(body) + 2
        BY <3>2
      <4> QED BY <4>1, <4>2, <4>3, <4>4
    <3>6. NewOK(ts)
      BY <3>2, <3>3, <3>5, Zenon DEF NewOK
    <3> QED BY <3>1, <3>6
  <2>4. CASE Do(Top[2] \o <<<<"progress", pos>>, Top>>)
    <3>1. NewOK(Top[2] \o <<<<"progress", pos>>, Top>>)
      BY <2>1, <2>2, <2>3, Zenon
    <3>2. PICK ts : Do(ts) /\ NewOK(ts)
      BY <2>4, <3>1, Zenon
    <3>3. Run(ts, 0) /\ Quietly /\ 0 \in Nat
      BY <3>2 DEF Do
    <3>4. Goes(ts, 0)
      BY <2>1, <3>2, <3>3, QuietlyIs, Zenon DEF Goes
    <3> QED BY <3>3, <3>4, Zenon DEF Fine
  <2> QED BY <1>1, <2>1, <2>4, NoTasks, DoIs, Zenon
<1>2. CASE /\ Doing("progress")
           /\ \/ /\ NeedsProgress(Top[2])
                 /\ Run(<<>>, 1) /\ skipped' = skipped \cup {pos} /\ UNCHANGED <<nodes, depth, errors>>
              \/ Do(<<>>)
  <2>1. todo # <<>> /\ Top[1] = "progress"
    BY <1>2 DEF Doing
  <2>2. ~ThisSurely(Top)
    <3>1. "progress" \notin Sure /\ "progress" # "attributes"
      BY Zenon DEF Sure
    <3> QED BY <1>2, <3>1, NotSurely, Zenon
  <2>3. NeedsProgress(Top[2]) => pos \in errors
    <3>1. 1 \in DOMAIN todo /\ Top = todo[1]
      BY <2>1, HeadIs
    <3>2. Task(Top) \/ Checks(Top, todo, 0) \/ Recovering(Top)
      BY <3>1 DEF DropInv, TodoOK
    <3>3. ~Task(Top)
      <4>1. "progress" \notin Compound
        BY Zenon DEF Compound
      <4>2. ASSUME NEW T, Top \in T, Closed(T)
            PROVE  FALSE
        <5>1. Plain(Top) \/ Top[1] \in Compound
          BY <4>2 DEF Closed
        <5> QED BY <2>1, <4>1, <5>1 DEF Plain
      <4> QED BY <4>2 DEF Task
    <3>4. ~Recovering(Top)
      <4>1. ASSUME Top = <<"synchronize">>
            PROVE  Top[1] = "synchronize"
        BY <4>1
      <4> QED BY <2>1, <4>1, Zenon DEF Recovering
    <3>5. PICK b \in Nat : /\ Top = <<"progress", b>> /\ b <= pos
                           /\ b < pos \/ pos \in errors \/ Kind = "eof" \/ HasSure(todo, 0)
      BY <3>2, <3>3, <3>4, Zenon DEF Checks
    <3>6. ~HasSure(todo, 0)
      BY DEF HasSure
    <3>7. Top[2] = b
      BY <3>5
    <3>8. pos \in Nat
      BY DEF DropInv
    <3> QED BY <3>5, <3>6, <3>7, <3>8 DEF NeedsProgress
  <2>4. CASE /\ NeedsProgress(Top[2])
             /\ Run(<<>>, 1) /\ skipped' = skipped \cup {pos} /\ UNCHANGED <<nodes, depth, errors>>
    <3>1. NewOK(<<>>)
      BY NoTasks, Zenon DEF NewOK, Tasks
    <3>2. errors \subseteq errors' /\ pos \in errors'
      BY <2>3, <2>4
    <3>3. 1 \in Nat /\ 1 > 0
      OBVIOUS
    <3>4. Goes(<<>>, 1)
      BY <2>4, <3>1, <3>2, <3>3, Zenon DEF Goes
    <3> QED BY <3>3, <3>4, Zenon DEF Fine
  <2> QED BY <1>2, <2>2, <2>4, NoTasks, DoIs, Zenon
<1> QED BY <1>1, <1>2, Zenon DEF LoopRound

LEMMA ParserSteps ==
    ASSUME DropInv, tokens # <<>>, Next
    PROVE  Fine
BY ExpectSteps, GivenSteps, ValueSteps, ListSteps, LoopRoundSteps, MakeNodeSteps, LeaveSteps,
   StmtOrMarkerSteps, ParseStatementSteps, LoopBodySteps, BranchesSteps, ParseSwitchSteps, ParseTrySteps,
   StaticVarsSteps, DeclaredSteps, BlockOrEndSteps, ParseUseSteps, EatStmtEndSteps, SynchronizeSteps,
   AttributesSteps, AttributedDeclSteps, DeclarationSteps, ParseClassSteps, ModifiersSteps, ConstantsSteps,
   ParseParamSteps, ParseTypeSteps, ParseMemberSteps, ParsePropertySteps, PropertyHooksSteps,
   TraitAdaptationsSteps, ParseExprSteps, ParseInfixSteps, ParsePrefixSteps, DecoratedSteps, MatchArmSteps,
   ArrayItemSteps, ParseArgsSteps, AfterDollarSteps, VariableVariableSteps, MemberNameSteps,
   StaticMemberSteps, StaticCallSteps, InterpPartsSteps, InterpAccessSteps, CollapseHeredocSteps,
   ParsePostfixSteps, ParseNewSteps, ClassRefSteps, Zenon DEF Next

LEMMA ParserTodo ==
    ASSUME Next
    PROVE  todo # <<>>
BY Zenon DEF Next, Doing, ExpectToken, GivenToken, OptionalValue, ListItem, LoopRound, MakeNode, Leave,
   StmtOrMarker, ParseStatement, LoopBody, Branches, ParseSwitch, ParseTry, StaticVars, Declared, BlockOrEnd,
   ParseUse, EatStmtEnd, Synchronize, Attributes, AttributedDecl, Declaration, ParseClass, Modifiers,
   Constants, ParseParam, ParseType, ParseMember, ParseProperty, PropertyHooks, TraitAdaptations, ParseExpr,
   ParseInfix, ParsePrefix, Decorated, MatchArm, ArrayItem, ParseArgs, AfterDollar, VariableVariable,
   MemberName, StaticMember, StaticCall, InterpParts, InterpAccess, CollapseHeredoc, ParsePostfix, ParseNew,
   ClassRef

-----------------------------------------------------------------------------
\* What Parser::new makes of the tokens of the lexer.
LEMMA HandedIs ==
    ASSUME IsSequence(lexed)
    PROVE  IsSequence(Handed)
<1> DEFINE Next1(p, n) == IF lexed[n].kind = "doc" THEN p ELSE Append(p, lexed[n].kind)
           Fun(g, m) == g = [n \in 0 .. m |-> IF n = 0 THEN <<>> ELSE Next1(g[n - 1], n)]
           Bad == {m \in Nat : ~\E g : Fun(g, m)}
<1>1. Len(lexed) \in Nat
  BY DEF IsSequence
<1>2. IsSequence(<<>>) /\ \A p, n : IsSequence(p) => IsSequence(Next1(p, n))
  BY SeqAppend, NoTasks DEF Tasks
<1> HIDE DEF Next1
<1>3. Bad = {}
  <2> SUFFICES ASSUME Bad # {}
               PROVE  FALSE
    OBVIOUS
  <2>1. PICK m \in Bad : \A y \in Bad : m <= y
    <3> HIDE DEF Bad
    <3>1. Bad \in SUBSET Nat
      BY DEF Bad
    <3> QED BY <3>1, MinIn
  <2>2. CASE m = 0
    <3> DEFINE g == [n \in 0 .. 0 |-> <<>>]
    <3>1. Fun(g, 0)
      <4>1. \A n \in 0 .. 0 : n = 0
        OBVIOUS
      <4> QED BY <4>1
    <3> QED BY <2>1, <2>2, <3>1
  <2>3. CASE m # 0
    <3>1. m \in Nat /\ m - 1 \in Nat /\ m - 1 < m
      BY <2>1, <2>3
    <3>2. m - 1 \notin Bad
      BY <2>1, <3>1
    <3>3. PICK g : Fun(g, m - 1)
      BY <3>1, <3>2
    <3> DEFINE h == [n \in 0 .. m |-> IF n = m THEN Next1(g[m - 1], m) ELSE g[n]]
    <3>4. Fun(h, m)
      <4>1. ASSUME NEW n \in 0 .. m
            PROVE  h[n] = IF n = 0 THEN <<>> ELSE Next1(h[n - 1], n)
        <5>1. CASE n = m
          <6>1. h[n] = Next1(g[m - 1], m) /\ h[n - 1] = g[m - 1]
            BY <3>1, <5>1
          <6> QED BY <2>3, <5>1, <6>1
        <5>2. CASE n # m /\ n = 0
          <6>1. h[n] = g[n] /\ n \in 0 .. m - 1
            BY <3>1, <5>2
          <6>2. g[n] = <<>>
            BY <3>3, <5>2, <6>1
          <6> QED BY <5>2, <6>1, <6>2
        <5>3. CASE n # m /\ n # 0
          <6>1. h[n] = g[n] /\ h[n - 1] = g[n - 1] /\ n \in 0 .. m - 1
            BY <3>1, <5>3
          <6>2. g[n] = Next1(g[n - 1], n)
            BY <3>3, <5>3, <6>1
          <6> QED BY <5>3, <6>1, <6>2
        <5> QED BY <5>1, <5>2, <5>3
      <4>2. h = [n \in 0 .. m |-> h[n]]
        OBVIOUS
      <4> HIDE DEF h
      <4> QED BY <4>1, <4>2
    <3> QED BY <2>1, <3>4
  <2> QED BY <2>2, <2>3
<1>4. \E g : Fun(g, Len(lexed))
  BY <1>1, <1>3
<1> DEFINE f == CHOOSE g : Fun(g, Len(lexed))
<1>5. Fun(f, Len(lexed))
  BY <1>4
<1>6. Handed = f[Len(lexed)]
  BY DEF Handed, Next1
<1> HIDE DEF f
<1>7. f[0] = <<>> /\ \A n \in 1 .. Len(lexed) : f[n] = Next1(f[n - 1], n)
  BY <1>1, <1>5
<1> DEFINE Wrong == {n \in 0 .. Len(lexed) : ~IsSequence(f[n])}
<1>8. Wrong = {}
  <2> SUFFICES ASSUME Wrong # {}
               PROVE  FALSE
    OBVIOUS
  <2>1. PICK m \in Wrong : \A y \in Wrong : m <= y
    <3>1. Wrong \in SUBSET Nat
      BY <1>1
    <3> HIDE DEF Wrong
    <3> QED BY <3>1, MinIn
  <2>2. m # 0
    BY <1>2, <1>7, <2>1
  <2>3. m \in 1 .. Len(lexed) /\ m - 1 \in 0 .. Len(lexed) /\ m - 1 < m
    BY <1>1, <2>1, <2>2
  <2>4. IsSequence(f[m - 1])
    BY <2>1, <2>3
  <2>5. IsSequence(f[m])
    BY <1>2, <1>7, <2>3, <2>4
  <2> QED BY <2>1, <2>5
<1> QED BY <1>1, <1>6, <1>8

-----------------------------------------------------------------------------
LEMMA DropInvInitial ==
    ASSUME FrontInit
    PROVE  DropInv
<1>1. \E toks : Begin(toks) /\ (toks = <<>> \/ IsInput(toks))
  BY FrontEndAssumption DEF FrontInit, Init
<1>2. PICK toks : Begin(toks) /\ (toks = <<>> \/ IsInput(toks))
  BY <1>1
<1>3. tokens = toks /\ pos = 1 /\ skipped = {} /\ todo = <<Loop(<<<<"marker">>>>, {"eof"})>>
  BY <1>2, Zenon DEF Begin
<1>4. Tasks(todo)
  BY <1>3, StmtsTask, Tasks1, Zenon
<1>5. TodoOK
  BY <1>4, Zenon DEF TodoOK, Tasks
<1>6. pos \in Nat /\ pos >= 1 /\ (tokens # <<>> => pos <= Len(tokens)) /\ DropsAreReported
  <2>1. tokens # <<>> => Len(tokens) >= 1
    BY <1>2, <1>3 DEF IsInput, IsSequence
  <2>2. DropsAreReported
    BY <1>3 DEF DropsAreReported
  <2>3. 1 \in Nat /\ 1 >= 1
    OBVIOUS
  <2> QED BY <1>3, <2>1, <2>2, <2>3
<1> QED BY <1>2, <1>3, <1>4, <1>5, <1>6, Zenon DEF DropInv

LEMMA DropInvKept ==
    ASSUME LexInv, DropInv, [FrontNext]_frontVars
    PROVE  DropInv'
<1>1. CASE UNCHANGED vars
  <2>1. /\ tokens' = tokens /\ pos' = pos /\ todo' = todo /\ errors' = errors /\ skipped' = skipped
    BY <1>1 DEF vars
  <2> QED BY <2>1 DEF DropInv, TodoOK, Checks, HasSure, ThisSurely, Kind, Recovering, DropsAreReported
<1>2. CASE HandOver
  <2>1. /\ tokens = <<>> /\ tokens' = Append(Handed, "eof")
        /\ pos' = pos /\ todo' = todo /\ errors' = errors /\ skipped' = skipped
    BY <1>2 DEF HandOver
  <2>2. IsSequence(Handed)
    BY HandedIs DEF LexInv, LexedOK
  <2>3. /\ IsSequence(Append(Handed, "eof")) /\ Len(Append(Handed, "eof")) = Len(Handed) + 1
        /\ Append(Handed, "eof")[Len(Handed) + 1] = "eof" /\ Append(Handed, "eof") # <<>>
    BY <2>2, SeqAppend
  <2>4. Len(Handed) \in Nat
    BY <2>2 DEF IsSequence
  <2>5. PICK toks : toks = tokens'
    OBVIOUS
  <2>6. IsInput(toks) /\ toks # <<>> /\ Len(toks) >= 1
    BY <2>1, <2>3, <2>4, <2>5 DEF IsInput, Last
  <2>7. pos = 1 /\ Tasks(todo)
    BY <2>1 DEF DropInv
  <2>8. TodoOK'
    <3>1. IsSequence(todo') /\ \A k \in DOMAIN todo' : Task(todo'[k])
      BY <2>1, <2>7, Zenon DEF Tasks
    <3> QED BY <3>1, Zenon DEF TodoOK
  <2>9. DropsAreReported'
    BY <2>1 DEF DropInv, DropsAreReported
  <2>10. (tokens = <<>> \/ IsInput(tokens))' /\ tokens' # <<>>
    BY <2>5, <2>6
  <2>11. pos' \in Nat /\ pos' >= 1 /\ pos' <= Len(tokens')
    BY <2>1, <2>5, <2>6, <2>7
  <2> QED BY <2>8, <2>9, <2>10, <2>11 DEF DropInv
<1>3. CASE Parse
  <2>1. tokens # <<>> /\ Next
    BY <1>3 DEF Parse
  <2> QED BY <2>1, ParserSteps, ParserTodo, FineKeeps
<1>4. UNCHANGED vars \/ HandOver \/ Parse
  BY DEF FrontNext, Lex, frontVars
<1> QED BY <1>1, <1>2, <1>3, <1>4

\* The parser recovers loudly: on every input, whatever tokens recovery drops,
\* the first one of each run of them has a diagnostic (synchronize only follows
\* one, and a loop whose body reads nothing has left one at the token).
THEOREM RecoveryIsReported == FrontSpec => []DropsAreReported
<1>1. FrontInit => LexInv /\ DropInv
  BY LexInvInitial, DropInvInitial
<1>2. LexInv /\ DropInv /\ [FrontNext]_frontVars => LexInv' /\ DropInv'
  BY LexInvKept, DropInvKept
<1>3. DropInv => DropsAreReported
  BY DEF DropInv
<1> QED BY <1>1, <1>2, <1>3, PTL DEF FrontSpec
=============================================================================
