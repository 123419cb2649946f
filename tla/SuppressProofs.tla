--------------------------- MODULE SuppressProofs ---------------------------
(***************************************************************************)
(* Proofs about InlineIgnores and Suppress, for any entries, findings and  *)
(* markers: what a scan of the markers reports and suppresses, that the    *)
(* lookup by path does what a linear scan of the entries would, that what  *)
(* is reported as unmatched can go, and that a baseline hides what it was  *)
(* made from.                                                              *)
(***************************************************************************)
EXTENDS Suppress, TLAPS, FiniteSetTheorems, SequenceTheorems, WellFoundedInduction

-----------------------------------------------------------------------------
\* The least of some numbers.
LEMMA NatLeast ==
    ASSUME NEW S \in SUBSET Nat, S # {}
    PROVE  \E x \in S : \A y \in S : x <= y
<1> DEFINE less == {ss \in Nat \X Nat : ss[1] < ss[2]}
<1>1. IsWellFoundedOn(less, Nat)
  <2>1. OpToRel(<, Nat) = less
     BY DEF OpToRel
  <2> QED BY <2>1, NatLessThanWellFounded
<1> HIDE DEF less
<1>2. PICK x \in S : \A y \in S : ~ (<<y, x>> \in less)
  BY <1>1, WFMin
<1>3. ASSUME NEW y \in S
      PROVE  x <= y
  <2>1. ~ (y < x)
    BY <1>2 DEF less
  <2> QED BY <2>1
<1> QED BY <1>3

\* The states of a linear scan.
LEMMA LeftIs ==
    ASSUME NEW list, NEW found, Len(found) \in Nat
    PROVE  /\ Left(list, found)[0] = Start(list)
           /\ \A p \in 1 .. Len(found) :
                Left(list, found)[p] = Pass(list, Left(list, found)[p - 1], found[p])
<1> DEFINE Is(f, m) ==
             f = [p \in 0 .. m |->
                    IF p = 0 THEN Start(list) ELSE Pass(list, f[p - 1], found[p])]
           bad == {m \in Nat : ~ \E f : Is(f, m)}
<1>1. bad = {}
  <2> SUFFICES ASSUME bad # {} PROVE FALSE
    OBVIOUS
  <2>1. PICK m \in bad : \A l \in bad : m <= l
    BY NatLeast
  <2> HIDE DEF bad
  <2>2. CASE m = 0
    <3> DEFINE f == [p \in 0 .. 0 |-> Start(list)]
    <3>1. Is(f, 0)
      OBVIOUS
    <3> QED BY <2>1, <2>2, <3>1 DEF bad
  <2>3. CASE m > 0
    <3>1. m \in Nat /\ m - 1 \in Nat
      BY <2>1, <2>3 DEF bad
    <3>2. PICK g : Is(g, m - 1)
      <4>1. m - 1 \notin bad
        BY <2>1, <3>1
      <4> QED BY <3>1, <4>1 DEF bad
    <3> DEFINE f == [p \in 0 .. m |->
                       IF p < m THEN g[p] ELSE Pass(list, g[m - 1], found[m])]
               Value(p) == IF p = 0 THEN Start(list) ELSE Pass(list, f[p - 1], found[p])
    <3>3. ASSUME NEW p \in 0 .. m
          PROVE  f[p] = Value(p)
      <4>1. CASE p = 0
        <5>1. 0 \in 0 .. m - 1 /\ 0 \in 0 .. m /\ 0 < m
          BY <2>3, <3>1
        <5>2. g[0] = Start(list)
          BY <3>2, <5>1
        <5>3. f[0] = g[0]
          BY <5>1
        <5> QED BY <4>1, <5>2, <5>3
      <4>2. CASE p > 0 /\ p < m
        <5>1. p \in 0 .. m - 1 /\ p - 1 \in 0 .. m - 1 /\ p - 1 < m /\ p - 1 \in 0 .. m
          BY <3>1, <4>2
        <5>2. f[p] = g[p] /\ f[p - 1] = g[p - 1]
          BY <4>2, <5>1
        <5>3. g[p] = Pass(list, g[p - 1], found[p])
          BY <3>2, <4>2, <5>1
        <5> QED BY <4>2, <5>2, <5>3
      <4>3. CASE p = m
        <5>1. m - 1 \in 0 .. m /\ m - 1 < m /\ m \in 0 .. m /\ ~ (m < m)
          BY <2>3, <3>1
        <5>2. f[m - 1] = g[m - 1]
          BY <5>1
        <5>3. f[m] = Pass(list, g[m - 1], found[m])
          BY <5>1
        <5> HIDE DEF f
        <5> QED BY <2>3, <3>1, <4>3, <5>2, <5>3
      <4> HIDE DEF f, Value
      <4> QED BY <3>1, <4>1, <4>2, <4>3
    <3>4. f = [p \in 0 .. m |-> Value(p)]
      BY <3>3
    <3> QED BY <2>1, <3>4 DEF bad
  <2>4. m \in Nat
    BY <2>1 DEF bad
  <2> QED BY <2>2, <2>3, <2>4
<1>2. \E f : Is(f, Len(found))
  BY <1>1
<1>3. Is(Left(list, found), Len(found))
  BY <1>2 DEF Left
<1> HIDE DEF bad
<1>4. ASSUME NEW p \in 0 .. Len(found)
      PROVE  Left(list, found)[p] =
               IF p = 0 THEN Start(list)
               ELSE Pass(list, Left(list, found)[p - 1], found[p])
  BY <1>3
<1>5. 0 \in 0 .. Len(found) /\ \A p \in 1 .. Len(found) : p \in 0 .. Len(found) /\ p # 0
  OBVIOUS
<1> QED BY <1>4, <1>5

-----------------------------------------------------------------------------
\* Counting the tokens of a marker, one further.
LEMMA CountStep ==
    ASSUME NEW S, NEW u \in Nat, IsFiniteSet({k \in S : k <= u}), S \in SUBSET Nat
    PROVE  /\ IsFiniteSet({k \in S : k <= u + 1})
           /\ Cardinality({k \in S : k <= u}) \in Nat
           /\ Cardinality({k \in S : k <= u + 1}) =
                Cardinality({k \in S : k <= u}) + (IF u + 1 \in S THEN 1 ELSE 0)
<1> DEFINE A == {k \in S : k <= u}
           B == {k \in S : k <= u + 1}
<1>1. u + 1 \notin A
  OBVIOUS
<1>2. B = IF u + 1 \in S THEN A \cup {u + 1} ELSE A
  <2>1. \A k \in S : k <= u + 1 <=> (k <= u \/ k = u + 1)
    OBVIOUS
  <2> QED BY <2>1
<1> HIDE DEF A, B
<1>3. IsFiniteSet(A)
  BY DEF A
<1>4. Cardinality(A) \in Nat
  BY <1>3, FS_CardinalityType
<1>5. IsFiniteSet(B) /\ Cardinality(B) = Cardinality(A) + (IF u + 1 \in S THEN 1 ELSE 0)
  <2>1. CASE u + 1 \in S
    BY <1>1, <1>2, <1>3, <2>1, FS_AddElement
  <2>2. CASE u + 1 \notin S
    BY <1>2, <1>3, <1>4, <2>2
  <2> QED BY <2>1, <2>2
<1> QED BY <1>4, <1>5 DEF A, B

LEMMA UpTo ==
    ASSUME NEW S \in SUBSET Nat, NEW u \in Nat
    PROVE  IsFiniteSet({k \in S : k <= u})
<1>1. IsFiniteSet(0 .. u)
  BY FS_Interval
<1> DEFINE A == {k \in S : k <= u}
<1>2. \A k \in A : k \in 0 .. u
  OBVIOUS
<1> HIDE DEF A
<1>3. A \in SUBSET (0 .. u)
  BY <1>2
<1>4. IsFiniteSet(A)
  BY <1>1, <1>3, FS_Subset
<1> QED BY <1>4 DEF A

LEMMA NestingStep ==
    ASSUME NEW rest, NEW u \in Nat
    PROVE  /\ Nesting(rest, 0) = 0
           /\ Nesting(rest, u) \in Int
           /\ Nesting(rest, u + 1) =
                Nesting(rest, u) + (CASE rest[u + 1] = "(" -> 1
                                      [] rest[u + 1] = ")" -> -1
                                      [] OTHER             -> 0)
<1> DEFINE Of(t) == {k \in Nat \ {0} : rest[k] = t}
           Count(t, m) == Cardinality({k \in Of(t) : k <= m})
<1>1. ASSUME NEW t, NEW m \in Nat
      PROVE  {k \in 1 .. m : rest[k] = t} = {k \in Of(t) : k <= m}
  OBVIOUS
<1>2. \A m \in Nat : Nesting(rest, m) = Count("(", m) - Count(")", m)
  BY <1>1 DEF Nesting
<1>3. ASSUME NEW t
      PROVE  /\ Count(t, u) \in Nat
             /\ Count(t, u + 1) = Count(t, u) + (IF rest[u + 1] = t THEN 1 ELSE 0)
             /\ Count(t, 0) = 0
  <2>1. Of(t) \in SUBSET Nat
    OBVIOUS
  <2>2. u + 1 \in Of(t) <=> rest[u + 1] = t
    OBVIOUS
  <2>3. \A k \in Of(t) : ~ (k <= 0)
    OBVIOUS
  <2> HIDE DEF Of
  <2>4. {k \in Of(t) : k <= 0} = {}
    BY <2>3
  <2>5. Count(t, 0) = 0
    BY <2>4, FS_EmptySet
  <2> QED BY <2>1, <2>2, <2>5, UpTo, CountStep
<1> HIDE DEF Count
<1>4. "(" # ")"
  OBVIOUS
<1>5. /\ Nesting(rest, 0) = Count("(", 0) - Count(")", 0)
      /\ Nesting(rest, u) = Count("(", u) - Count(")", u)
      /\ Nesting(rest, u + 1) = Count("(", u + 1) - Count(")", u + 1)
  BY <1>2
<1>6. /\ Count("(", 0) = 0 /\ Count(")", 0) = 0
      /\ Count("(", u) \in Nat /\ Count(")", u) \in Nat
      /\ Count("(", u + 1) = Count("(", u) + (IF rest[u + 1] = "(" THEN 1 ELSE 0)
      /\ Count(")", u + 1) = Count(")", u) + (IF rest[u + 1] = ")" THEN 1 ELSE 0)
  BY <1>3
<1> QED BY <1>4, <1>5, <1>6

LEMMA TurnStep ==
    ASSUME NEW rest \in Seq(Token), NEW u \in Nat
    PROVE  /\ Turn(rest, 0) = 0
           /\ Turn(rest, u) \in Nat
           /\ Turn(rest, u + 1) = Turn(rest, u) + (IF u + 1 \in Outside(rest) THEN 1 ELSE 0)
<1>1. Outside(rest) \in SUBSET Nat /\ \A k \in Outside(rest) : ~ (k <= 0)
  BY DEF Outside
<1>2. {k \in Outside(rest) : k <= 0} = {}
  BY <1>1
<1>3. Turn(rest, 0) = 0
  BY <1>2, FS_EmptySet DEF Turn
<1> QED BY <1>1, <1>3, UpTo, CountStep DEF Turn

Even(t) == t % 2 = 0

LEMMA Parity ==
    ASSUME NEW t \in Nat
    PROVE  /\ Even(0)
           /\ Even(t + 1) <=> ~ Even(t)
           /\ Even(t) <=> ~ (t % 2 = 1)
BY DEF Even

-----------------------------------------------------------------------------
\* What holds of the tokens up to m if the marker they begin is well-formed.
Fits(rest, k) ==
    /\ Nesting(rest, k) >= 0
    /\ k \in Outside(rest) => IF Turn(rest, k) % 2 = 1 THEN rest[k] \in Id ELSE rest[k] = ","
    /\ rest[k] = "(" /\ Nesting(rest, k) = 1 => k > 1 /\ rest[k - 1] \in Id \cup {")"}
Fit(rest, m) == \A k \in 1 .. m : Fits(rest, k)

LEMMA WellFormedIs ==
    ASSUME NEW rest \in Seq(Token)
    PROVE  WellFormed(rest) <=> /\ Fit(rest, Len(rest))
                               /\ Nesting(rest, Len(rest)) = 0
                               /\ ~ Even(Turn(rest, Len(rest)))
<1>1. DOMAIN rest = 1 .. Len(rest) /\ \A k \in Outside(rest) : k \in DOMAIN rest
  BY DEF Outside
<1>2. Turn(rest, Len(rest)) % 2 = 1 <=> ~ Even(Turn(rest, Len(rest)))
  <2>1. Turn(rest, Len(rest)) \in Nat
    BY TurnStep
  <2> QED BY <2>1, Parity
<1> QED BY <1>1, <1>2 DEF WellFormed, Fit, Fits

LEMMA FitStep ==
    ASSUME NEW rest, NEW u \in Nat
    PROVE  Fit(rest, u + 1) <=> Fit(rest, u) /\ Fits(rest, u + 1)
<1>1. \A k : k \in 1 .. u + 1 <=> (k \in 1 .. u \/ k = u + 1)
  OBVIOUS
<1> QED BY <1>1 DEF Fit

\* The identifiers among the first tokens.
Gathered(rest, m) == {rest[k] : k \in {l \in Outside(rest) : l <= m}} \cap Id

LEMMA GatheredStep ==
    ASSUME NEW rest \in Seq(Token), NEW u \in Nat
    PROVE  /\ Gathered(rest, 0) = {}
           /\ Gathered(rest, Len(rest)) = Listed(rest)
           /\ Gathered(rest, u + 1) =
                Gathered(rest, u) \cup
                  IF u + 1 \in Outside(rest) /\ rest[u + 1] \in Id THEN {rest[u + 1]} ELSE {}
<1>1. \A l \in Outside(rest) : l \in 1 .. Len(rest)
  BY DEF Outside
<1>2. \A l \in Outside(rest) : /\ ~ (l <= 0) /\ l <= Len(rest)
                               /\ l <= u + 1 <=> (l <= u \/ l = u + 1)
  BY <1>1
<1>3. Gathered(rest, 0) = {}
  BY <1>2 DEF Gathered
<1>4. Gathered(rest, Len(rest)) = Listed(rest)
  BY <1>2 DEF Gathered, Listed
<1>5. \A id : id \in Gathered(rest, u + 1) <=>
                \/ id \in Gathered(rest, u)
                \/ u + 1 \in Outside(rest) /\ rest[u + 1] \in Id /\ id = rest[u + 1]
  BY <1>2 DEF Gathered
<1> QED BY <1>3, <1>4, <1>5

-----------------------------------------------------------------------------
\* The invariant of the scan: what a line has been read of is fit, and what was
\* collected is what that part lists.
ScanTyped ==
    /\ source \in Seq(Marker)
    /\ i \in 1 .. Len(source) + 1
    /\ map \in [1 .. Len(source) + 1 -> Ignored]
    /\ errors \in Seq(Nat)
    /\ pc \in {"scan", "ids", "comment", "match", "report", "done"}
    /\ pos \in Nat \ {0}
    /\ ids \in SUBSET Id
    /\ expect \in BOOLEAN
    /\ depth \in Int

Fresh == pos = 1 /\ ids = {} /\ expect /\ depth = 0

\* What may precede a comment.
Ended == pos > 1 /\ Rest[pos - 1] \in Id \cup {")"}

Parsed ==
    /\ i <= Len(source) /\ IsStrict(i)
    /\ pos <= Len(Rest) + 1
    /\ Fit(Rest, pos - 1)
    /\ ids = Gathered(Rest, pos - 1)
    /\ expect <=> Even(Turn(Rest, pos - 1))
    /\ ids = {} => expect

AtIds ==
    /\ Parsed
    /\ depth = 0 /\ Nesting(Rest, pos - 1) = 0
    /\ IF expect THEN pos = 1 \/ Rest[pos - 1] = "," ELSE Ended

InComment ==
    /\ Parsed
    /\ ~expect
    /\ depth = Nesting(Rest, pos - 1)
    /\ depth > 0 \/ (depth = 0 /\ pos <= Len(Rest) /\ Rest[pos] = "(" /\ Ended)

\* As SuppressesMarked, for whatever a finding has as its identifier.
MarksExactly ==
    \A l \in DOMAIN map : \A id :
        Suppressed(l, id) <=> \E m \in Scanned : AppliesTo(m) = l /\ Ignores(m, id)

ScanInv ==
    /\ ScanTyped
    /\ pc = "scan" => Fresh
    /\ pc = "ids" => AtIds
    /\ pc = "comment" => InComment
    /\ ErrorsAreMalformed
    /\ MarksExactly

-----------------------------------------------------------------------------
LEMMA LineFacts ==
    ASSUME ScanTyped, i <= Len(source)
    PROVE  /\ source[i] \in Marker /\ Line = source[i] /\ Rest = source[i].rest
           /\ Rest \in Seq(Token) /\ Len(Rest) \in Nat
           /\ i \in Nat /\ Len(source) \in Nat
           /\ Target = AppliesTo(i) /\ Target \in 1 .. Len(source) + 1
<1>1. source \in Seq(Marker) /\ i \in 1 .. Len(source) + 1 /\ Len(source) \in Nat
  BY DEF ScanTyped
<1>2. source[i] \in Marker
  BY <1>1
<1>3. Target = AppliesTo(i)
  BY <1>2 DEF Target, AppliesTo, Line, Marker
<1>4. AppliesTo(i) \in {i, i + 1}
  BY DEF AppliesTo
<1>5. Rest \in Seq(Token)
  BY <1>2 DEF Rest, Line, Marker
<1> QED BY <1>1, <1>2, <1>3, <1>4, <1>5 DEF Rest, Line

LEMMA SameMarkers ==
    ASSUME source' = source
    PROVE  \A m, id : AppliesTo(m)' = AppliesTo(m) /\ Ignores(m, id)' = Ignores(m, id)
BY DEF AppliesTo, Ignores, IsStrict

\* A line is done with: what it says has been merged, or it says nothing.
LEMMA LineMerged ==
    ASSUME ScanTyped, i <= Len(source), MarksExactly,
           NEW spec \in Ignored, map' = Merge(Target, spec), source' = source, i' = i + 1,
           \A id : (spec.all \/ id \in spec.ids) <=> Ignores(i, id)
    PROVE  MarksExactly' /\ map' \in [1 .. Len(source) + 1 -> Ignored]
<1> DEFINE t == Target
<1>1. /\ t = AppliesTo(i) /\ t \in 1 .. Len(source) + 1 /\ i \in Nat
  BY LineFacts
<1>2. map \in [1 .. Len(source) + 1 -> Ignored]
  BY DEF ScanTyped
<1>3. map' = [map EXCEPT ![t] = IF map[t].all \/ spec.all THEN All
                                ELSE Ids(map[t].ids \cup spec.ids)]
  BY DEF Merge
<1> HIDE DEF t
<1>4. map[t] \in Ignored
  BY <1>1, <1>2
<1>5. map' \in [1 .. Len(source) + 1 -> Ignored]
  BY <1>1, <1>2, <1>3, <1>4 DEF Ignored, All, Ids
<1>6. \A l \in DOMAIN map : \A id :
        (map'[l].all \/ id \in map'[l].ids) <=>
          \/ map[l].all \/ id \in map[l].ids
          \/ l = t /\ (spec.all \/ id \in spec.ids)
  BY <1>1, <1>2, <1>3, <1>4 DEF Ignored, All, Ids
<1>7. DOMAIN map' = DOMAIN map
  BY <1>3
<1>8. ASSUME NEW l \in DOMAIN map, NEW id
      PROVE  (map'[l].all \/ id \in map'[l].ids) <=>
               \E m \in 1 .. i : AppliesTo(m) = l /\ Ignores(m, id)
  <2>1. \A m : m \in 1 .. i <=> (m \in 1 .. i - 1 \/ m = i)
    BY <1>1, LineFacts DEF ScanTyped
  <2>2. (map[l].all \/ id \in map[l].ids) <=>
           \E m \in 1 .. i - 1 : AppliesTo(m) = l /\ Ignores(m, id)
    BY DEF MarksExactly, Suppressed, Scanned
  <2>3. (l = t /\ (spec.all \/ id \in spec.ids)) <=> (AppliesTo(i) = l /\ Ignores(i, id))
    BY <1>1
  <2> QED BY <1>6, <2>1, <2>2, <2>3
<1>9. i' - 1 = i
  BY <1>1
<1>10. \A m, id : AppliesTo(m)' = AppliesTo(m) /\ Ignores(m, id)' = Ignores(m, id)
  BY SameMarkers
<1>11. Scanned' = 1 .. i
  BY <1>9 DEF Scanned
<1>12. ASSUME NEW l \in DOMAIN map', NEW id
       PROVE  Suppressed(l, id)' <=> \E m \in Scanned' : AppliesTo(m)' = l /\ Ignores(m, id)'
  <2>1. Suppressed(l, id)' <=> (map'[l].all \/ id \in map'[l].ids)
    BY DEF Suppressed
  <2>2. (map'[l].all \/ id \in map'[l].ids) <=>
          \E m \in 1 .. i : AppliesTo(m) = l /\ Ignores(m, id)
    BY <1>7, <1>8
  <2> QED BY <1>10, <1>11, <2>1, <2>2
<1>13. MarksExactly'
  BY <1>12 DEF MarksExactly
<1> QED BY <1>5, <1>13

LEMMA LineSkipped ==
    ASSUME ScanTyped, i <= Len(source), MarksExactly,
           map' = map, source' = source, i' = i + 1,
           \A id : ~ Ignores(i, id)
    PROVE  MarksExactly'
<1>1. i \in Nat /\ i' - 1 = i
  BY LineFacts
<1>2. \A m : m \in 1 .. i <=> (m \in 1 .. i - 1 \/ m = i)
  BY DEF ScanTyped
<1>3. \A m, id : AppliesTo(m)' = AppliesTo(m) /\ Ignores(m, id)' = Ignores(m, id)
  BY SameMarkers
<1>4. Scanned = 1 .. i - 1 /\ Scanned' = 1 .. i
  BY <1>1 DEF Scanned
<1>5. ASSUME NEW l \in DOMAIN map', NEW id
      PROVE  Suppressed(l, id)' <=> \E m \in Scanned' : AppliesTo(m)' = l /\ Ignores(m, id)'
  <2>1. Suppressed(l, id)' <=> Suppressed(l, id)
    BY DEF Suppressed
  <2>2. Suppressed(l, id) <=> \E m \in 1 .. i - 1 : AppliesTo(m) = l /\ Ignores(m, id)
    BY <1>4 DEF MarksExactly
  <2>3. ~ Ignores(i, id)
    OBVIOUS
  <2> QED BY <1>2, <1>3, <1>4, <2>1, <2>2, <2>3
<1> QED BY <1>5 DEF MarksExactly

LEMMA ErrorsStep ==
    ASSUME ScanTyped, i <= Len(source), ErrorsAreMalformed, source' = source, i' = i + 1,
           errors' = IF IsStrict(i) /\ ~WellFormed(source[i].rest)
                     THEN Append(errors, i) ELSE errors
    PROVE  ErrorsAreMalformed' /\ errors' \in Seq(Nat)
<1>1. i \in Nat /\ i' - 1 = i /\ errors \in Seq(Nat)
  BY LineFacts DEF ScanTyped
<1>2. \A m : m \in 1 .. i <=> (m \in 1 .. i - 1 \/ m = i)
  BY DEF ScanTyped
<1> DEFINE Wrong(l) == IsStrict(l) /\ ~WellFormed(source[l].rest)
<1>3. \A l : Wrong(l)' = Wrong(l)
  BY DEF IsStrict
<1>4. ToSet(errors) = {l \in 1 .. i - 1 : Wrong(l)}
  BY DEF ErrorsAreMalformed, Scanned
<1>5. \A a \in DOMAIN errors : errors[a] < i
  <2>1. \A a \in DOMAIN errors : errors[a] \in 1 .. i - 1
    BY <1>4 DEF ToSet
  <2> QED BY <1>1, <2>1
<1> HIDE DEF Wrong
<1>6. CASE Wrong(i)
  <2>1. errors' = Append(errors, i)
    BY <1>6 DEF Wrong
  <2>2. /\ Len(errors) \in Nat /\ DOMAIN errors = 1 .. Len(errors)
        /\ DOMAIN errors' = 1 .. Len(errors) + 1
        /\ \A a \in 1 .. Len(errors) : errors'[a] = errors[a]
        /\ errors'[Len(errors) + 1] = i /\ errors' \in Seq(Nat)
    BY <1>1, <2>1
  <2>3. \A x : x \in ToSet(errors') <=> (x \in ToSet(errors) \/ x = i)
    <3>1. \A a : a \in 1 .. Len(errors) + 1 <=> (a \in 1 .. Len(errors) \/ a = Len(errors) + 1)
      BY <2>2
    <3> QED BY <2>2, <3>1 DEF ToSet
  <2>4. ToSet(errors') = {l \in 1 .. i : Wrong(l)}
    BY <1>2, <1>4, <1>6, <2>3
  <2>5. \A a, b \in DOMAIN errors' : a < b => errors'[a] < errors'[b]
    BY <1>5, <2>2 DEF ErrorsAreMalformed
  <2> QED BY <1>1, <1>3, <2>2, <2>4, <2>5 DEF ErrorsAreMalformed, Scanned, Wrong
<1>7. CASE ~Wrong(i)
  <2>1. errors' = errors
    BY <1>7 DEF Wrong
  <2>2. ToSet(errors) = {l \in 1 .. i : Wrong(l)}
    BY <1>2, <1>4, <1>7
  <2> QED BY <1>1, <1>3, <2>1, <2>2 DEF ErrorsAreMalformed, Scanned, Wrong
<1> QED BY <1>6, <1>7

\* The token at hand.
LEMMA TokenFacts ==
    ASSUME ScanTyped, i <= Len(source), pos <= Len(Rest)
    PROVE  /\ Rest[pos] \in Token /\ pos \in 1 .. Len(Rest)
           /\ Nesting(Rest, pos - 1) \in Int
           /\ Nesting(Rest, pos) =
                Nesting(Rest, pos - 1) + (CASE Rest[pos] = "(" -> 1
                                            [] Rest[pos] = ")" -> -1
                                            [] OTHER           -> 0)
           /\ pos \in Outside(Rest) <=> Nesting(Rest, pos) = 0 /\ Rest[pos] # ")"
           /\ Turn(Rest, pos - 1) \in Nat
           /\ Turn(Rest, pos) = Turn(Rest, pos - 1) + (IF pos \in Outside(Rest) THEN 1 ELSE 0)
           /\ Gathered(Rest, pos) = Gathered(Rest, pos - 1) \cup
                IF pos \in Outside(Rest) /\ Rest[pos] \in Id THEN {Rest[pos]} ELSE {}
           /\ Fit(Rest, pos) <=> Fit(Rest, pos - 1) /\ Fits(Rest, pos)
           /\ WellFormed(Rest) => Fits(Rest, pos)
<1>1. Rest \in Seq(Token) /\ Len(Rest) \in Nat /\ pos \in Nat \ {0}
  BY LineFacts DEF ScanTyped
<1> DEFINE r == Rest
           m == pos - 1
<1>2. m \in Nat /\ m + 1 = pos /\ pos \in 1 .. Len(r) /\ DOMAIN r = 1 .. Len(r)
  BY <1>1
<1>3. r \in Seq(Token) /\ r[pos] \in Token
  BY <1>1, <1>2
<1> HIDE DEF r, m
<1>4. WellFormed(r) => Fits(r, pos)
  BY <1>2, <1>3, WellFormedIs DEF Fit
<1>5. pos \in Outside(r) <=> Nesting(r, pos) = 0 /\ r[pos] # ")"
  BY <1>2 DEF Outside
<1>6. /\ Nesting(r, m) \in Int
      /\ Nesting(r, pos) = Nesting(r, m) + (CASE r[pos] = "(" -> 1
                                              [] r[pos] = ")" -> -1
                                              [] OTHER        -> 0)
  BY <1>2, NestingStep
<1>7. /\ Turn(r, m) \in Nat
      /\ Turn(r, pos) = Turn(r, m) + (IF pos \in Outside(r) THEN 1 ELSE 0)
  BY <1>2, <1>3, TurnStep
<1>8. Gathered(r, pos) = Gathered(r, m) \cup
        IF pos \in Outside(r) /\ r[pos] \in Id THEN {r[pos]} ELSE {}
  BY <1>2, <1>3, GatheredStep
<1>9. Fit(r, pos) <=> Fit(r, m) /\ Fits(r, pos)
  BY <1>2, FitStep
<1> QED BY <1>2, <1>3, <1>4, <1>5, <1>6, <1>7, <1>8, <1>9 DEF r, m

\* Where a marker is malformed: at its end, or at a token.
LEMMA EndRefused ==
    ASSUME ScanTyped, AtIds \/ InComment, Eof, AtIds => ~Complete
    PROVE  ~WellFormed(Rest)
<1>1. Parsed /\ i <= Len(source)
  BY DEF AtIds, InComment, Parsed
<1>2. Rest \in Seq(Token)
  BY <1>1, LineFacts
<1> DEFINE len == Len(Rest)
<1>3. len \in Nat /\ pos \in Nat /\ pos <= len + 1 /\ pos > len
  BY <1>1, LineFacts DEF Parsed, ScanTyped, Eof
<1>4. ((depth > 0 \/ (depth = 0 /\ pos <= len)) /\ depth = Nesting(Rest, pos - 1)) \/ AtIds
  BY DEF InComment
<1>5. WellFormed(Rest) => Nesting(Rest, len) = 0 /\ ~ Even(Turn(Rest, len))
  BY <1>2, WellFormedIs
<1>6. expect <=> Even(Turn(Rest, pos - 1))
  BY <1>1 DEF Parsed
<1>7. AtIds => expect
  BY <1>1 DEF Complete, Parsed
<1> HIDE DEF len
<1>8. pos - 1 = len /\ ~ (pos <= len)
  BY <1>3
<1>9. CASE AtIds
  <2>1. Even(Turn(Rest, len))
    BY <1>6, <1>7, <1>8, <1>9
  <2> QED BY <1>5, <2>1
<1>10. CASE ~AtIds
  <2>1. depth > 0 /\ depth = Nesting(Rest, len)
    BY <1>4, <1>8, <1>10
  <2> QED BY <1>5, <2>1
<1> QED BY <1>9, <1>10

LEMMA AtHand ==
    ASSUME ScanTyped, i <= Len(source), ~Eof
    PROVE  pos <= Len(Rest) /\ pos + 1 <= Len(Rest) + 1 /\ pos + 1 - 1 = pos /\ pos + 1 > 1
<1> DEFINE len == Len(Rest)
<1>1. len \in Nat /\ pos \in Nat /\ pos # 0 /\ ~ (pos > len)
  BY LineFacts DEF Eof, ScanTyped
<1> HIDE DEF len
<1>2. pos <= len /\ pos + 1 <= len + 1 /\ pos + 1 - 1 = pos /\ pos + 1 > 1
  BY <1>1
<1> QED BY <1>2 DEF len

Refused == IF expect THEN Rest[pos] \notin Id ELSE Rest[pos] \notin {",", "("}

LEMMA TokenRefused ==
    ASSUME ScanTyped, AtIds, ~Eof, Refused
    PROVE  ~WellFormed(Rest)
<1>1. Parsed /\ i <= Len(source)
  BY DEF AtIds, Parsed
<1>2. pos <= Len(Rest)
  BY <1>1, AtHand
<1> DEFINE c == Rest[pos]
           t == Turn(Rest, pos - 1)
<1>3. Nesting(Rest, pos - 1) = 0
  BY DEF AtIds
<1>4. /\ c \in Token
      /\ Nesting(Rest, pos) = CASE c = "(" -> 1 [] c = ")" -> -1 [] OTHER -> 0
      /\ pos \in Outside(Rest) <=> Nesting(Rest, pos) = 0 /\ c # ")"
      /\ t \in Nat
      /\ Turn(Rest, pos) = t + (IF pos \in Outside(Rest) THEN 1 ELSE 0)
      /\ WellFormed(Rest) => Fits(Rest, pos)
  <2>1. /\ c \in Token
        /\ pos \in Outside(Rest) <=> Nesting(Rest, pos) = 0 /\ c # ")"
        /\ t \in Nat
        /\ Turn(Rest, pos) = t + (IF pos \in Outside(Rest) THEN 1 ELSE 0)
        /\ WellFormed(Rest) => Fits(Rest, pos)
        /\ Nesting(Rest, pos) = Nesting(Rest, pos - 1) +
                                  (CASE c = "(" -> 1 [] c = ")" -> -1 [] OTHER -> 0)
    BY <1>1, <1>2, TokenFacts
  <2> HIDE DEF c, t
  <2> QED BY <1>3, <2>1
<1>5. expect <=> Even(t)
  BY <1>1 DEF Parsed
<1>6. IF expect THEN c \notin Id ELSE c \notin {",", "("}
  BY DEF Refused
<1>7. expect => ~ (pos > 1 /\ Rest[pos - 1] \in Id \cup {")"})
  <2>1. expect => pos = 1 \/ Rest[pos - 1] = ","
    BY DEF AtIds
  <2>2. "," \notin Id \cup {")"}
    BY IgnoresAssumption
  <2>3. pos = 1 => ~ (pos > 1)
    OBVIOUS
  <2> QED BY <2>1, <2>2, <2>3
<1>8. WellFormed(Rest) =>
        /\ Nesting(Rest, pos) >= 0
        /\ pos \in Outside(Rest) => IF Turn(Rest, pos) % 2 = 1 THEN c \in Id ELSE c = ","
        /\ c = "(" /\ Nesting(Rest, pos) = 1 => pos > 1 /\ Rest[pos - 1] \in Id \cup {")"}
  BY <1>4 DEF Fits
<1> HIDE DEF c, t
<1>9. {",", "(", ")", "other"} \cap Id = {} /\ c \in Id \cup {",", "(", ")", "other"}
  BY <1>4, IgnoresAssumption DEF Token
<1>10. CASE c = "("
  <2>1. expect /\ Nesting(Rest, pos) = 1
    BY <1>4, <1>6, <1>10
  <2> QED BY <1>7, <1>8, <1>10, <2>1
<1>11. CASE c = ")"
  <2>1. Nesting(Rest, pos) = -1
    BY <1>4, <1>11
  <2> QED BY <1>8, <2>1
<1>12. CASE c \notin {"(", ")"}
  <2>1. Nesting(Rest, pos) = 0 /\ pos \in Outside(Rest)
    BY <1>4, <1>12
  <2>2. Turn(Rest, pos) = t + 1
    BY <1>4, <2>1
  <2>4. (t + 1) % 2 = 1 <=> Even(t)
    BY <1>4, Parity
  <2>5. Turn(Rest, pos) % 2 = 1 <=> expect
    BY <1>5, <2>2, <2>4
  <2> QED BY <1>6, <1>8, <2>1, <2>5
<1> QED BY <1>10, <1>11, <1>12

-----------------------------------------------------------------------------
\* Steps to the next line.
LEMMA LineEnds ==
    ASSUME ScanTyped, i <= Len(source), NextLine,
           map' \in [1 .. Len(source) + 1 -> Ignored], errors' \in Seq(Nat),
           ErrorsAreMalformed', MarksExactly'
    PROVE  ScanInv'
<1>1. i \in Nat /\ Len(source) \in Nat /\ i + 1 \in 1 .. Len(source) + 1
  BY LineFacts DEF ScanTyped
<1>2. /\ i' = i + 1 /\ pc' = "scan" /\ source' = source
      /\ pos' = 1 /\ ids' = {} /\ expect' = TRUE /\ depth' = 0
  BY DEF NextLine, AtLine
<1>3. ScanTyped'
  BY <1>1, <1>2 DEF ScanTyped
<1> QED BY <1>2, <1>3 DEF ScanInv, Fresh

LEMMA MalformedStep ==
    ASSUME ScanInv, i <= Len(source), IsStrict(i), ~WellFormed(Rest), Malformed
    PROVE  ScanInv'
<1>1. ScanTyped /\ ErrorsAreMalformed /\ MarksExactly
  BY DEF ScanInv
<1>2. /\ source[i] \in Marker /\ Rest = source[i].rest
  BY <1>1, LineFacts
<1>3. errors' = Append(errors, i) /\ map' = map /\ NextLine /\ source' = source /\ i' = i + 1
  BY DEF Malformed, NextLine, AtLine
<1>4. ErrorsAreMalformed' /\ errors' \in Seq(Nat)
  BY <1>1, <1>2, <1>3, ErrorsStep
<1>5. \A id : ~ Ignores(i, id)
  BY <1>2 DEF Ignores, IsStrict
<1>6. MarksExactly'
  BY <1>1, <1>3, <1>5, LineSkipped
<1> QED BY <1>1, <1>3, <1>4, <1>6, LineEnds DEF ScanTyped

LEMMA ScanStep ==
    ASSUME ScanInv, Scan
    PROVE  ScanInv'
<1>1. ScanTyped /\ ErrorsAreMalformed /\ MarksExactly /\ i <= Len(source)
  BY DEF ScanInv, Scan
<1>2. /\ source[i] \in Marker /\ Line = source[i] /\ Rest = source[i].rest
  BY <1>1, LineFacts
<1>3. errors' = errors /\ NextLine /\ source' = source /\ i' = i + 1
  BY DEF Scan, NextLine, AtLine
<1>4. ~ IsStrict(i)
  BY <1>2 DEF Scan, IsStrict
<1>5. ErrorsAreMalformed' /\ errors' \in Seq(Nat)
  BY <1>1, <1>3, <1>4, ErrorsStep
<1>6. MarksExactly' /\ map' \in [1 .. Len(source) + 1 -> Ignored]
  <2>1. CASE Line.prefix = "none"
    <3>1. map' = map
      BY <2>1 DEF Scan
    <3>2. \A id : ~ Ignores(i, id)
      BY <1>2, <2>1 DEF Ignores
    <3> QED BY <1>1, <1>3, <3>1, <3>2, LineSkipped DEF ScanTyped
  <2>2. CASE Line.prefix # "none" /\ (Line.form # "" \/ Lenient(Rest) = {})
    <3>1. map' = Merge(Target, All)
      BY <2>2 DEF Scan
    <3>2. \A id : Ignores(i, id)
      BY <1>2, <1>4, <2>2 DEF Ignores
    <3>3. All \in Ignored /\ All.all
      BY DEF All, Ignored
    <3> QED BY <1>1, <1>3, <3>1, <3>2, <3>3, LineMerged
  <2>3. CASE Line.prefix # "none" /\ Line.form = "" /\ Lenient(Rest) # {}
    <3>1. map' = Merge(Target, Ids(Lenient(Rest)))
      BY <2>3 DEF Scan
    <3>2. \A id : Ignores(i, id) <=> id \in Lenient(Rest)
      BY <1>2, <1>4, <2>3 DEF Ignores
    <3>3. Ids(Lenient(Rest)) \in Ignored
      BY DEF Ids, Ignored, Lenient
    <3>4. ~ Ids(Lenient(Rest)).all /\ Ids(Lenient(Rest)).ids = Lenient(Rest)
      BY DEF Ids
    <3> QED BY <1>1, <1>3, <3>1, <3>2, <3>3, <3>4, LineMerged
  <2> QED BY <2>1, <2>2, <2>3
<1> QED BY <1>1, <1>3, <1>5, <1>6, LineEnds

LEMMA EndStep ==
    ASSUME ScanInv, End
    PROVE  ScanInv'
<1>1. /\ ScanTyped /\ ErrorsAreMalformed /\ MarksExactly /\ AtIds /\ Parsed
      /\ i <= Len(source) /\ IsStrict(i) /\ Eof
  BY DEF ScanInv, End, AtIds, Parsed
<1>2. /\ source[i] \in Marker /\ Rest = source[i].rest /\ Rest \in Seq(Token)
      /\ Len(Rest) \in Nat
  BY <1>1, LineFacts
<1>3. CASE ~Complete
  <2>1. ~WellFormed(Rest)
    BY <1>1, <1>3, EndRefused
  <2> QED BY <1>1, <1>3, <2>1, MalformedStep DEF End
<1>4. CASE Complete
  <2>1. /\ map' = Merge(Target, Ids(ids)) /\ errors' = errors /\ NextLine
        /\ source' = source /\ i' = i + 1
    BY <1>4 DEF End, NextLine, AtLine
  <2>2. pos - 1 = Len(Rest)
    <3> DEFINE len == Len(Rest)
    <3>1. len \in Nat /\ pos \in Nat /\ pos > len /\ pos <= len + 1
      BY <1>1, <1>2 DEF Eof, ScanTyped, Parsed
    <3> HIDE DEF len
    <3>2. pos - 1 = len
      BY <3>1
    <3> QED BY <3>2 DEF len
  <2>3. WellFormed(Rest)
    <3>1. Fit(Rest, Len(Rest)) /\ Nesting(Rest, Len(Rest)) = 0
      BY <1>1, <2>2 DEF Parsed, AtIds
    <3>2. ~ Even(Turn(Rest, Len(Rest)))
      BY <1>1, <1>4, <2>2 DEF Parsed, Complete
    <3> QED BY <1>2, <3>1, <3>2, WellFormedIs
  <2>4. ids = Listed(Rest)
    BY <1>1, <1>2, <2>2, GatheredStep DEF Parsed
  <2>5. ErrorsAreMalformed' /\ errors' \in Seq(Nat)
    BY <1>1, <1>2, <2>1, <2>3, ErrorsStep
  <2>6. \A id : Ignores(i, id) <=> id \in ids
    BY <1>1, <1>2, <2>3, <2>4 DEF Ignores, IsStrict
  <2>7. Ids(ids) \in Ignored /\ ~ Ids(ids).all /\ Ids(ids).ids = ids
    BY <1>1 DEF Ids, Ignored, ScanTyped
  <2>8. MarksExactly' /\ map' \in [1 .. Len(source) + 1 -> Ignored]
    BY <1>1, <2>1, <2>6, <2>7, LineMerged
  <2> QED BY <1>1, <2>1, <2>5, <2>8, LineEnds
<1> QED BY <1>3, <1>4

-----------------------------------------------------------------------------
\* Steps within a marker.
LEMMA SameLine ==
    ASSUME source' = source, i' = i, map' = map, errors' = errors
    PROVE  /\ Rest' = Rest
           /\ ErrorsAreMalformed => ErrorsAreMalformed'
           /\ MarksExactly => MarksExactly'
<1>1. Scanned' = Scanned /\ Rest' = Rest
  BY DEF Scanned, Rest, Line
<1>2. \A l : IsStrict(l)' = IsStrict(l) /\ AppliesTo(l)' = AppliesTo(l)
  BY DEF IsStrict, AppliesTo
<1>3. \A l, id : Ignores(l, id)' = Ignores(l, id) /\ Suppressed(l, id)' = Suppressed(l, id)
  BY <1>2 DEF Ignores, Suppressed
<1>4. ErrorsAreMalformed => ErrorsAreMalformed'
  BY <1>1, <1>2 DEF ErrorsAreMalformed
<1>5. MarksExactly => MarksExactly'
  BY <1>1, <1>2, <1>3 DEF MarksExactly
<1> QED BY <1>1, <1>4, <1>5

LEMMA StrictStep ==
    ASSUME ScanInv, Strict
    PROVE  ScanInv'
<1>1. /\ ScanTyped /\ ErrorsAreMalformed /\ MarksExactly /\ Fresh
      /\ i <= Len(source) /\ IsStrict(i) /\ pc' = "ids"
      /\ source' = source /\ i' = i /\ map' = map /\ errors' = errors
      /\ pos' = pos /\ ids' = ids /\ expect' = expect /\ depth' = depth
  BY DEF ScanInv, Strict, parser, IsStrict, Line
<1>2. Rest \in Seq(Token) /\ Len(Rest) \in Nat
  BY <1>1, LineFacts
<1>3. Rest' = Rest /\ ErrorsAreMalformed' /\ MarksExactly' /\ IsStrict(i)'
  BY <1>1, SameLine DEF IsStrict
<1>4. /\ Fit(Rest, 0) /\ Gathered(Rest, 0) = {} /\ Even(Turn(Rest, 0))
      /\ Nesting(Rest, 0) = 0
  BY <1>2, GatheredStep, TurnStep, NestingStep, Parity DEF Fit
<1>5. pos = 1 /\ pos - 1 = 0 /\ ids = {} /\ expect /\ depth = 0
  BY <1>1 DEF Fresh
<1>6. pos <= Len(Rest) + 1
  <2> DEFINE len == Len(Rest)
  <2> HIDE DEF len
  <2>1. len \in Nat
    BY <1>2 DEF len
  <2>2. pos <= len + 1
    BY <1>5, <2>1
  <2> QED BY <2>2 DEF len
<1>7. Parsed'
  BY <1>1, <1>3, <1>4, <1>5, <1>6 DEF Parsed
<1>8. AtIds'
  BY <1>1, <1>3, <1>4, <1>5, <1>7 DEF AtIds
<1>9. ScanTyped'
  BY <1>1 DEF ScanTyped
<1> QED BY <1>1, <1>3, <1>8, <1>9 DEF ScanInv

\* What is expected after t identifiers and commas.
Proper(c, t) == IF Even(t) THEN c \in Id ELSE c = ","

\* A token outside comments, and one that opens, closes or is in one.
LEMMA ReadOutside ==
    ASSUME ScanTyped, i <= Len(source), ~Eof, NEW c, c = Rest[pos],
           NEW d \in Nat, d = Nesting(Rest, pos - 1), d = 0, Fit(Rest, pos - 1),
           c \notin {"(", ")"}, NEW t \in Nat, t = Turn(Rest, pos - 1), Proper(c, t)
    PROVE  /\ Nesting(Rest, pos) = 0
           /\ Even(Turn(Rest, pos)) <=> ~ Even(t)
           /\ Gathered(Rest, pos) = Gathered(Rest, pos - 1) \cup IF c \in Id THEN {c} ELSE {}
           /\ Fit(Rest, pos)
<1>1. pos <= Len(Rest)
  BY AtHand
<1> DEFINE here == Nesting(Rest, pos)
           turn == Turn(Rest, pos)
           out == pos \in Outside(Rest)
<1>2. /\ here = d + (CASE c = "(" -> 1 [] c = ")" -> -1 [] OTHER -> 0)
      /\ out <=> here = 0 /\ c # ")"
  BY <1>1, TokenFacts
<1>3. turn = t + (IF out THEN 1 ELSE 0)
  BY <1>1, TokenFacts
<1>4. /\ Gathered(Rest, pos) = Gathered(Rest, pos - 1) \cup IF out /\ c \in Id THEN {c} ELSE {}
      /\ Fits(Rest, pos) => Fit(Rest, pos)
  BY <1>1, TokenFacts
<1>5. Fits(Rest, pos) <=>
        /\ here >= 0
        /\ out => IF turn % 2 = 1 THEN c \in Id ELSE c = ","
        /\ c = "(" /\ here = 1 => pos > 1 /\ Rest[pos - 1] \in Id \cup {")"}
  BY DEF Fits
<1> HIDE DEF here, turn, out
<1>6. here = 0 /\ out /\ here >= 0 /\ ~ (c = "(" /\ here = 1)
  BY <1>2
<1>7. turn = t + 1
  BY <1>3, <1>6
<1>8. (Even(turn) <=> ~ Even(t)) /\ (Even(turn) <=> ~ (turn % 2 = 1))
  <2>1. Even(t + 1) <=> ~ Even(t)
    BY Parity, Zenon
  <2>2. turn \in Nat
    BY <1>7
  <2> QED BY <1>7, <2>1, <2>2, Parity, Zenon
<1>9. Fits(Rest, pos)
  <2>1. IF turn % 2 = 1 THEN c \in Id ELSE c = ","
    BY <1>8 DEF Proper
  <2> QED BY <1>5, <1>6, <2>1
<1> QED BY <1>4, <1>6, <1>8, <1>9 DEF here, turn

LEMMA ReadInside ==
    ASSUME ScanTyped, i <= Len(source), ~Eof, NEW c, c = Rest[pos],
           NEW d \in Nat, d = Nesting(Rest, pos - 1), Fit(Rest, pos - 1),
           d > 0 \/ (c = "(" /\ Ended)
    PROVE  /\ Nesting(Rest, pos) = d + (CASE c = "(" -> 1 [] c = ")" -> -1 [] OTHER -> 0)
           /\ Turn(Rest, pos) = Turn(Rest, pos - 1)
           /\ Gathered(Rest, pos) = Gathered(Rest, pos - 1)
           /\ Fit(Rest, pos)
<1>1. pos <= Len(Rest)
  BY AtHand
<1> DEFINE here == Nesting(Rest, pos)
           turn == Turn(Rest, pos)
           t == Turn(Rest, pos - 1)
           out == pos \in Outside(Rest)
<1>2. /\ here = d + (CASE c = "(" -> 1 [] c = ")" -> -1 [] OTHER -> 0)
      /\ out <=> here = 0 /\ c # ")"
  BY <1>1, TokenFacts
<1>3. t \in Nat /\ turn = t + (IF out THEN 1 ELSE 0)
  BY <1>1, TokenFacts
<1>4. /\ Gathered(Rest, pos) = Gathered(Rest, pos - 1) \cup IF out /\ c \in Id THEN {c} ELSE {}
      /\ Fits(Rest, pos) => Fit(Rest, pos)
  BY <1>1, TokenFacts
<1>5. Fits(Rest, pos) <=>
        /\ here >= 0
        /\ out => IF turn % 2 = 1 THEN c \in Id ELSE c = ","
        /\ c = "(" /\ here = 1 => Ended
  BY DEF Fits, Ended
<1> HIDE DEF here, turn, t, out
<1>6. ~out /\ here >= 0 /\ (c = "(" /\ here = 1 => Ended)
  <2>1. CASE c = "("
    BY <1>2, <2>1
  <2>2. CASE c = ")"
    BY <1>2, <2>2
  <2>3. CASE c \notin {"(", ")"}
    BY <1>2, <2>3
  <2> QED BY <2>1, <2>2, <2>3
<1>7. turn = t
  BY <1>3, <1>6
<1> QED BY <1>2, <1>4, <1>5, <1>6, <1>7 DEF here, turn, t

LEMMA IdentifierStep ==
    ASSUME ScanInv, Identifier
    PROVE  ScanInv'
<1>1. /\ ScanTyped /\ ErrorsAreMalformed /\ MarksExactly /\ AtIds /\ Parsed
      /\ i <= Len(source) /\ IsStrict(i) /\ ~Eof /\ expect
  BY DEF ScanInv, Identifier, AtIds, Parsed
<1> DEFINE c == Rest[pos]
<1>2. \/ c \notin Id /\ Malformed
      \/ /\ c \in Id /\ ids' = ids \cup {c} /\ expect' = FALSE /\ pos' = pos + 1
         /\ source' = source /\ i' = i /\ map' = map /\ errors' = errors /\ pc' = "ids"
         /\ pc = "ids" /\ depth' = depth
  BY DEF Identifier
<1>3. c \notin Id => Refused
  BY <1>1 DEF Refused
<1>4. c \in Id => c \notin {"(", ")", ","}
  BY IgnoresAssumption
<1>5. c = Rest[pos]
  OBVIOUS
<1> HIDE DEF c
<1>6. CASE c \notin Id
  BY <1>1, <1>2, <1>3, <1>6, TokenRefused, MalformedStep
<1>7. CASE c \in Id
  <2>1. /\ source' = source /\ i' = i /\ map' = map /\ errors' = errors /\ pc' = "ids"
        /\ pc = "ids" /\ expect' = FALSE /\ depth' = depth
    BY <1>2, <1>7
  <2>2. pos' = pos + 1
    BY <1>2, <1>7
  <2>3. ids' = ids \cup {c}
    BY <1>2, <1>7
  <2>4. Rest' = Rest /\ ErrorsAreMalformed' /\ MarksExactly' /\ IsStrict(i)'
    BY <1>1, <2>1, SameLine DEF IsStrict
  <2>5. pos' <= Len(Rest) + 1 /\ pos' - 1 = pos /\ pos' > 1 /\ pos' \in Nat \ {0}
    BY <1>1, <2>2, AtHand DEF ScanTyped
  <2>6. /\ Fit(Rest, pos - 1) /\ ids = Gathered(Rest, pos - 1) /\ ids \in SUBSET Id
        /\ Nesting(Rest, pos - 1) = 0 /\ Even(Turn(Rest, pos - 1)) /\ depth = 0
    BY <1>1 DEF Parsed, AtIds, ScanTyped
  <2>7. /\ Nesting(Rest, pos) = 0 /\ ~ Even(Turn(Rest, pos))
        /\ Gathered(Rest, pos) = ids' /\ Fit(Rest, pos)
    <3>1. Turn(Rest, pos - 1) \in Nat
      BY <1>1, AtHand, TokenFacts
    <3>2. Proper(c, Turn(Rest, pos - 1))
      BY <1>7, <2>6 DEF Proper
    <3>3. c \notin {"(", ")"} /\ 0 \in Nat
      BY <1>4, <1>7
    <3>4. /\ Nesting(Rest, pos) = 0
          /\ Even(Turn(Rest, pos)) <=> ~ Even(Turn(Rest, pos - 1))
          /\ Gathered(Rest, pos) = Gathered(Rest, pos - 1) \cup IF c \in Id THEN {c} ELSE {}
          /\ Fit(Rest, pos)
      BY <1>1, <1>5, <2>6, <3>1, <3>2, <3>3, ReadOutside, Zenon
    <3> QED BY <1>7, <2>3, <2>6, <3>4
  <2>8. Parsed'
    BY <1>1, <2>1, <2>3, <2>4, <2>5, <2>7 DEF Parsed
  <2>9. Ended'
    BY <1>5, <1>7, <2>4, <2>5 DEF Ended
  <2>10. AtIds'
    BY <2>1, <2>4, <2>5, <2>6, <2>7, <2>8, <2>9 DEF AtIds
  <2>11. ScanTyped'
    BY <1>1, <1>7, <2>1, <2>3, <2>5, <2>6 DEF ScanTyped
  <2> QED BY <2>1, <2>4, <2>10, <2>11 DEF ScanInv
<1> QED BY <1>6, <1>7

LEMMA SeparatorStep ==
    ASSUME ScanInv, Separator
    PROVE  ScanInv'
<1>1. /\ ScanTyped /\ ErrorsAreMalformed /\ MarksExactly /\ AtIds /\ Parsed
      /\ i <= Len(source) /\ IsStrict(i) /\ ~Eof /\ ~expect
  BY DEF ScanInv, Separator, AtIds, Parsed
<1> DEFINE c == Rest[pos]
<1>2. \/ /\ c = "," /\ expect' = TRUE /\ pos' = pos + 1
         /\ source' = source /\ i' = i /\ map' = map /\ errors' = errors /\ pc' = "ids"
         /\ ids' = ids /\ depth' = depth
      \/ /\ c = "(" /\ pc' = "comment"
         /\ source' = source /\ i' = i /\ map' = map /\ errors' = errors
         /\ pos' = pos /\ ids' = ids /\ expect' = expect /\ depth' = depth
      \/ c \notin {",", "("} /\ Malformed
  BY DEF Separator, parser
<1>3. c \notin {",", "("} => Refused
  BY <1>1 DEF Refused
<1>4. "," \notin Id
  BY IgnoresAssumption
<1>5. c = Rest[pos]
  OBVIOUS
<1>6. Ended
  BY <1>1 DEF AtIds
<1> HIDE DEF c
<1>7. CASE c = ","
  <2>1. /\ source' = source /\ i' = i /\ map' = map /\ errors' = errors /\ pc' = "ids"
        /\ ids' = ids /\ expect' = TRUE /\ depth' = depth
    BY <1>2, <1>7
  <2>2. pos' = pos + 1
    BY <1>2, <1>7
  <2>3. Rest' = Rest /\ ErrorsAreMalformed' /\ MarksExactly' /\ IsStrict(i)'
    BY <1>1, <2>1, SameLine DEF IsStrict
  <2>4. pos' <= Len(Rest) + 1 /\ pos' - 1 = pos /\ pos' > 1 /\ pos' \in Nat \ {0}
    BY <1>1, <2>2, AtHand DEF ScanTyped
  <2>5. /\ Fit(Rest, pos - 1) /\ ids = Gathered(Rest, pos - 1) /\ ids \in SUBSET Id
        /\ Nesting(Rest, pos - 1) = 0 /\ ~ Even(Turn(Rest, pos - 1)) /\ depth = 0
    BY <1>1 DEF Parsed, AtIds, ScanTyped
  <2>6. /\ Nesting(Rest, pos) = 0 /\ Even(Turn(Rest, pos))
        /\ Gathered(Rest, pos) = ids' /\ Fit(Rest, pos)
    <3>1. Turn(Rest, pos - 1) \in Nat
      BY <1>1, AtHand, TokenFacts
    <3>2. Proper(c, Turn(Rest, pos - 1))
      BY <1>7, <2>5 DEF Proper
    <3>3. c \notin {"(", ")"} /\ 0 \in Nat
      BY <1>7
    <3>4. /\ Nesting(Rest, pos) = 0
          /\ Even(Turn(Rest, pos)) <=> ~ Even(Turn(Rest, pos - 1))
          /\ Gathered(Rest, pos) = Gathered(Rest, pos - 1) \cup IF c \in Id THEN {c} ELSE {}
          /\ Fit(Rest, pos)
      BY <1>1, <1>5, <2>5, <3>1, <3>2, <3>3, ReadOutside, Zenon
    <3> QED BY <1>4, <1>7, <2>1, <2>5, <3>4
  <2>7. Parsed'
    BY <1>1, <2>1, <2>3, <2>4, <2>6 DEF Parsed
  <2>8. AtIds'
    BY <1>5, <1>7, <2>1, <2>3, <2>4, <2>5, <2>6, <2>7 DEF AtIds
  <2>9. ScanTyped'
    BY <1>1, <2>1, <2>4, <2>5 DEF ScanTyped
  <2> QED BY <2>1, <2>3, <2>8, <2>9 DEF ScanInv
<1>8. CASE c = "("
  <2>1. /\ pc' = "comment" /\ source' = source /\ i' = i /\ map' = map /\ errors' = errors
        /\ pos' = pos /\ ids' = ids /\ expect' = expect /\ depth' = depth
    BY <1>2, <1>8
  <2>2. Rest' = Rest /\ ErrorsAreMalformed' /\ MarksExactly' /\ IsStrict(i)'
    BY <1>1, <2>1, SameLine DEF IsStrict
  <2>3. Parsed'
    BY <1>1, <2>1, <2>2 DEF Parsed
  <2>4. Ended' /\ pos <= Len(Rest)
    BY <1>1, <1>6, <2>1, <2>2, AtHand DEF Ended
  <2>5. depth = 0 /\ Nesting(Rest, pos - 1) = 0
    BY <1>1 DEF AtIds
  <2>6. InComment'
    BY <1>1, <1>5, <1>8, <2>1, <2>2, <2>3, <2>4, <2>5 DEF InComment
  <2>7. ScanTyped'
    BY <1>1, <2>1 DEF ScanTyped
  <2> QED BY <2>1, <2>2, <2>6, <2>7 DEF ScanInv
<1>9. CASE c \notin {",", "("}
  BY <1>1, <1>2, <1>3, <1>9, TokenRefused, MalformedStep
<1> QED BY <1>7, <1>8, <1>9

LEMMA CommentStep ==
    ASSUME ScanInv, Comment
    PROVE  ScanInv'
<1>1. /\ ScanTyped /\ ErrorsAreMalformed /\ MarksExactly /\ InComment /\ Parsed
      /\ i <= Len(source) /\ IsStrict(i) /\ ~expect
  BY DEF ScanInv, Comment, InComment, Parsed
<1> DEFINE c == Rest[pos]
<1>2. c = Rest[pos]
  OBVIOUS
<1>3. CASE Eof
  <2>1. AtIds => ~Complete
    <3> DEFINE len == Len(Rest)
    <3>1. len \in Nat /\ pos \in Nat /\ pos > len
      BY <1>1, <1>3, LineFacts DEF Eof, ScanTyped
    <3>2. depth > 0 \/ pos <= len
      BY <1>1 DEF InComment
    <3> HIDE DEF len
    <3>3. ~ (pos <= len)
      BY <3>1
    <3>4. ~ (depth = 0)
      BY <3>2, <3>3
    <3>5. AtIds => depth = 0
      BY DEF AtIds
    <3> QED BY <3>4, <3>5
  <2>2. ~WellFormed(Rest)
    BY <1>1, <1>3, <2>1, EndRefused
  <2> QED BY <1>1, <1>3, <2>2, MalformedStep DEF Comment
<1>4. CASE ~Eof
  <2>1. /\ source' = source /\ i' = i /\ map' = map /\ errors' = errors
        /\ ids' = ids /\ expect' = expect /\ pos' = pos + 1
    BY <1>4 DEF Comment
  <2>2. /\ depth' = CASE c = "(" -> depth + 1 [] c = ")" -> depth - 1 [] OTHER -> depth
        /\ pc' = IF c = ")" /\ depth = 1 THEN "ids" ELSE "comment"
    BY <1>4 DEF Comment, Closes
  <2>3. Rest' = Rest /\ ErrorsAreMalformed' /\ MarksExactly' /\ IsStrict(i)'
    BY <1>1, <2>1, SameLine DEF IsStrict
  <2>4. pos' <= Len(Rest) + 1 /\ pos' - 1 = pos /\ pos' > 1 /\ pos' \in Nat \ {0}
    BY <1>1, <1>4, <2>1, AtHand DEF ScanTyped
  <2>5. /\ depth \in Nat /\ depth = Nesting(Rest, pos - 1) /\ Fit(Rest, pos - 1)
        /\ depth > 0 \/ (c = "(" /\ Ended)
    <3>1. depth > 0 \/ (depth = 0 /\ c = "(" /\ Ended)
      BY <1>1, <1>2 DEF InComment
    <3>2. depth \in Int
      BY <1>1 DEF ScanTyped
    <3>3. depth \in Nat
      BY <3>1, <3>2
    <3> QED BY <1>1, <3>1, <3>3 DEF InComment, Parsed
  <2>6. /\ ids = Gathered(Rest, pos - 1) /\ (expect <=> Even(Turn(Rest, pos - 1)))
        /\ (ids = {} => expect)
    BY <1>1 DEF Parsed
  <2>7. \/ depth > 0
        \/ c = "(" /\ Ended
    BY <2>5
  <2> HIDE DEF c
  <2>8. /\ Nesting(Rest, pos) = depth + (CASE c = "(" -> 1 [] c = ")" -> -1 [] OTHER -> 0)
        /\ Turn(Rest, pos) = Turn(Rest, pos - 1)
        /\ Gathered(Rest, pos) = Gathered(Rest, pos - 1)
        /\ Fit(Rest, pos)
    BY <1>1, <1>2, <1>4, <2>5, <2>7, ReadInside
  <2>9. Parsed'
    BY <1>1, <2>1, <2>3, <2>4, <2>6, <2>8 DEF Parsed
  <2>10. depth' = Nesting(Rest, pos) /\ depth' \in Int
    BY <2>2, <2>5, <2>8
  <2>11. ScanTyped'
    BY <1>1, <2>1, <2>2, <2>4, <2>10 DEF ScanTyped
  <2>12. CASE c = ")" /\ depth = 1
    <3>1. depth' = 0 /\ pc' = "ids"
      BY <2>2, <2>12
    <3>2. Ended'
      BY <1>2, <2>3, <2>4, <2>12 DEF Ended
    <3>3. AtIds'
      BY <1>1, <2>1, <2>3, <2>4, <2>9, <2>10, <3>1, <3>2 DEF AtIds
    <3> QED BY <2>3, <2>11, <3>1, <3>3 DEF ScanInv
  <2>13. CASE ~ (c = ")" /\ depth = 1)
    <3>1. pc' = "comment"
      BY <2>2, <2>13
    <3>2. depth' > 0
      BY <2>2, <2>5, <2>7, <2>13
    <3>3. InComment'
      BY <1>1, <2>1, <2>3, <2>4, <2>9, <2>10, <3>2 DEF InComment
    <3> QED BY <2>3, <2>11, <3>1, <3>3 DEF ScanInv
  <2> QED BY <2>12, <2>13
<1> QED BY <1>3, <1>4

-----------------------------------------------------------------------------
\* A scan starts, and what comes after it.
LEMMA UnscannedIs ==
    ASSUME NEW lines \in Seq(Marker)
    PROVE  /\ Len(lines) \in Nat /\ 1 \in 1 .. Len(lines) + 1 /\ 1 .. 1 - 1 = {}
           /\ Unscanned(lines) \in [1 .. Len(lines) + 1 -> Ignored]
           /\ \A l \in 1 .. Len(lines) + 1 :
                ~ Unscanned(lines)[l].all /\ Unscanned(lines)[l].ids = {}
           /\ <<>> \in Seq(Nat) /\ ToSet(<<>>) = {} /\ DOMAIN <<>> = {}
<1>1. Ids({}) \in Ignored /\ ~ Ids({}).all /\ Ids({}).ids = {}
  BY DEF Ids, Ignored
<1>2. <<>> \in Seq(Nat) /\ DOMAIN <<>> = {}
  OBVIOUS
<1>3. ToSet(<<>>) = {}
  BY <1>2 DEF ToSet
<1> QED BY <1>1, <1>2, <1>3 DEF Unscanned

LEMMA InitScans ==
    ASSUME NEW lines \in Seq(Marker), InitScan(lines)
    PROVE  ScanInv
<1>1. /\ source = lines /\ i = 1 /\ map = Unscanned(lines) /\ errors = <<>>
      /\ pc = "scan" /\ pos = 1 /\ ids = {} /\ expect = TRUE /\ depth = 0
  BY DEF InitScan
<1>2. ScanTyped
  BY <1>1, UnscannedIs DEF ScanTyped
<1>3. Scanned = {}
  BY <1>1, UnscannedIs DEF Scanned
<1>4. ErrorsAreMalformed
  BY <1>1, <1>3, UnscannedIs DEF ErrorsAreMalformed
<1>5. \A l \in DOMAIN map : \A id : ~ Suppressed(l, id)
  <2>1. DOMAIN map = 1 .. Len(lines) + 1
    BY <1>1 DEF Unscanned
  <2> QED BY <1>1, <2>1, UnscannedIs DEF Suppressed
<1>6. MarksExactly
  BY <1>3, <1>5 DEF MarksExactly
<1> QED BY <1>1, <1>2, <1>4, <1>6 DEF ScanInv, Fresh

LEMMA RescanStep ==
    ASSUME NEW lines \in Seq(Marker), Rescan(lines)
    PROVE  ScanInv'
<1>1. /\ source' = lines /\ i' = 1 /\ map' = Unscanned(lines) /\ errors' = <<>>
      /\ pc' = "scan" /\ pos' = 1 /\ ids' = {} /\ expect' = TRUE /\ depth' = 0
  BY DEF Rescan, AtLine
<1>2. ScanTyped'
  BY <1>1, UnscannedIs DEF ScanTyped
<1>3. Scanned' = {}
  BY <1>1, UnscannedIs DEF Scanned
<1>4. ErrorsAreMalformed'
  BY <1>1, <1>3, UnscannedIs DEF ErrorsAreMalformed
<1>5. \A l \in DOMAIN map' : \A id : ~ (l \in DOMAIN map' /\ (map'[l].all \/ id \in map'[l].ids))
  <2>1. DOMAIN map' = 1 .. Len(lines) + 1
    BY <1>1 DEF Unscanned
  <2> QED BY <1>1, <2>1, UnscannedIs
<1>6. MarksExactly'
  BY <1>3, <1>5 DEF MarksExactly, Suppressed
<1> QED BY <1>1, <1>2, <1>4, <1>6 DEF ScanInv, Fresh

LEMMA ScanOver ==
    ASSUME ScanInv, UNCHANGED ignores, pc' \in {pc, "match", "report", "done"}
    PROVE  ScanInv'
<1>1. /\ source' = source /\ i' = i /\ map' = map /\ errors' = errors
      /\ pos' = pos /\ ids' = ids /\ expect' = expect /\ depth' = depth
  BY DEF ignores, parser
<1>2. /\ Rest' = Rest
      /\ ErrorsAreMalformed => ErrorsAreMalformed'
      /\ MarksExactly => MarksExactly'
  BY <1>1, SameLine
<1>3. IsStrict(i)' = IsStrict(i)
  BY <1>1 DEF IsStrict
<1>4. ScanTyped /\ ErrorsAreMalformed /\ MarksExactly
  BY DEF ScanInv
<1>5. ScanTyped'
  BY <1>1, <1>4 DEF ScanTyped
<1>6. CASE pc' = pc
  <2>1. Fresh' = Fresh /\ Ended' = Ended
    BY <1>1, <1>2 DEF Fresh, Ended
  <2>2. Parsed' = Parsed
    BY <1>1, <1>2, <1>3 DEF Parsed
  <2>3. AtIds' = AtIds
    BY <1>1, <1>2, <2>1, <2>2 DEF AtIds
  <2>4. InComment' = InComment
    BY <1>1, <1>2, <2>1, <2>2 DEF InComment
  <2> QED BY <1>2, <1>4, <1>5, <1>6, <2>1, <2>3, <2>4 DEF ScanInv
<1>7. CASE pc' \in {"match", "report", "done"}
  BY <1>2, <1>4, <1>5, <1>7 DEF ScanInv
<1> QED BY <1>6, <1>7

LEMMA UnmarkedTyped ==
    ASSUME source \in Seq(Marker), NEW ls
    PROVE  Unmarked(ls) \in Seq(Marker)
<1> DEFINE len == Len(source)
<1>1. len \in Nat /\ DOMAIN source = 1 .. len /\ \A l \in 1 .. len : source[l] \in Marker
  OBVIOUS
<1> HIDE DEF len
<1>2. ASSUME NEW m \in Marker
      PROVE  [m EXCEPT !.prefix = "none"] \in Marker
  BY DEF Marker
<1>3. Unmarked(ls) \in [1 .. len -> Marker]
  BY <1>1, <1>2 DEF Unmarked
<1> QED BY <1>1, <1>3

THEOREM ScanInvariant == Spec => []ScanInv
<1>1. Init => ScanInv
  <2> SUFFICES ASSUME Init PROVE ScanInv
    OBVIOUS
  <2>1. PICK r \in Inputs : InitScan(r.source)
    BY DEF Init
  <2>2. r.source \in Seq(Marker)
    BY SuppressAssumption
  <2> QED BY <2>1, <2>2, InitScans
<1>2. ScanInv /\ [Next]_vars => ScanInv'
  <2> SUFFICES ASSUME ScanInv, [Next]_vars PROVE ScanInv'
    OBVIOUS
  <2>1. CASE Scan
    BY <2>1, ScanStep
  <2>2. CASE Strict
    BY <2>2, StrictStep
  <2>3. CASE End
    BY <2>3, EndStep
  <2>4. CASE Identifier
    BY <2>4, IdentifierStep
  <2>5. CASE Separator
    BY <2>5, SeparatorStep
  <2>6. CASE Comment
    BY <2>6, CommentStep
  <2>7. CASE Match
    BY <2>7, ScanOver DEF Match
  <2>8. CASE Consider
    BY <2>8, ScanOver DEF Consider
  <2>9. CASE Close
    BY <2>9, ScanOver DEF Close
  <2>10. CASE GenerateAndRerun
    <3>1. PICK ls \in SUBSET ToSet(errors) : Rescan(Unmarked(ls))
      BY <2>10 DEF GenerateAndRerun
    <3>2. source \in Seq(Marker)
      BY DEF ScanInv, ScanTyped
    <3> QED BY <3>1, <3>2, UnmarkedTyped, RescanStep
  <2>11. CASE UNCHANGED vars
    BY <2>11, ScanOver DEF vars
  <2> QED BY <2>1, <2>2, <2>3, <2>4, <2>5, <2>6, <2>7, <2>8, <2>9, <2>10, <2>11
          DEF Next, NextScan, Filter
<1> QED BY <1>1, <1>2, PTL DEF Spec

\* "Malformed @phpstan-ignore reports a parse error": the scan reports exactly
\* the markers that are no well-formed lists, each once and in order.
THEOREM MalformedAreReported == Spec => []ErrorsAreMalformed
<1>1. ScanInv => ErrorsAreMalformed
  BY DEF ScanInv
<1> QED BY <1>1, ScanInvariant, PTL

\* A finding is suppressed exactly when a marker that applies to its line ignores it.
THEOREM MarkersSuppress == Spec => []SuppressesMarked
<1>1. ScanInv => SuppressesMarked
  BY DEF ScanInv, MarksExactly, SuppressesMarked
<1> QED BY <1>1, ScanInvariant, PTL

-----------------------------------------------------------------------------
\* The invariant of the filter: what it has done so far is what a linear scan of
\* the findings up to there would have done.
FilterTyped ==
    /\ entries \in Seq(Entry)
    /\ report \in Seq(Finding)
    /\ n \in 1 .. Len(report) + 1
    /\ matched \in [DOMAIN entries -> Nat]
    /\ kept \in Seq(Key)

Scanning == pc \in {"scan", "ids", "comment"}

LikeScan ==
    /\ Scanning => n = 1 /\ kept = <<>> /\ matched = [j \in DOMAIN entries |-> 0]
    /\ pc = "match" => Left(entries, Seen)[n - 1] = [kept |-> kept, used |-> matched]
    /\ Closed => /\ kept = Linear(entries) \o MarkerErrors
                 /\ matched = Left(entries, Seen)[Len(report)].used
                 /\ unmatched = {j \in DOMAIN entries :
                                   ReportUnmatched /\ entries[j].report # FALSE /\ TooFew(j)}

FilterInv == FilterTyped /\ LikeScan

-----------------------------------------------------------------------------
LEMMA LongPath ==
    ASSUME NEW p \in Pattern, Bucketable(p)
    PROVE  Len(p.segments) # 1
<1> DEFINE len == Len(p.segments)
<1>1. p.segments \in Seq(STRING)
  BY DEF Pattern, Path
<1>2. len > 1
  BY DEF Bucketable
<1>3. len \in Nat
  BY <1>1
<1> HIDE DEF len
<1>4. len # 1
  BY <1>2, <1>3
<1> QED BY <1>4 DEF len

\* The buckets lose nothing: what matches is a candidate.
LEMMA MatchesAreCandidates ==
    ASSUME entries \in Seq(Entry), NEW k \in Key, NEW j \in DOMAIN entries,
           Matches(entries[j], k)
    PROVE  j \in Candidates(Keys[k].path)
<1> DEFINE e == entries[j]
           path == Keys[k].path
<1>1. e.paths # {} => \E p \in e.paths : PathMatches(p, path)
  BY DEF Matches
<1>2. e \in Entry
  OBVIOUS
<1> HIDE DEF e, path
<1>3. \A p \in e.paths : p \in Pattern
  BY <1>2 DEF Entry
<1>4. CASE BucketPaths(e) = {}
  BY <1>4 DEF Candidates, e
<1>5. CASE BucketPaths(e) # {}
  <2>1. \A p \in e.paths : Bucketable(p)
    BY <1>5 DEF BucketPaths
  <2>2. BucketPaths(e) = {p.segments : p \in e.paths}
    BY <2>1 DEF BucketPaths
  <2>3. PICK p \in e.paths : PathMatches(p, path)
    BY <1>1, <1>5, <2>2
  <2>4. ~ p.glob /\ Len(p.segments) > 1
    BY <2>1 DEF Bucketable
  <2>5. IsPrefix(p.segments, path)
    <3>2. Len(p.segments) # 1
      BY <1>3, <2>1, LongPath
    <3> QED BY <2>3, <2>4, <3>2, Zenon DEF PathMatches
  <2> QED BY <2>2, <2>5 DEF Candidates, e, path
<1> QED BY <1>4, <1>5

LEMMA TakersAre ==
    ASSUME entries \in Seq(Entry), NEW k \in Key
    PROVE  Takers(k) = Takes(entries, matched, k)
<1>1. Candidates(Keys[k].path) \subseteq DOMAIN entries
  BY DEF Candidates
<1>2. ASSUME NEW j \in DOMAIN entries, Matches(entries[j], k)
      PROVE  j \in Candidates(Keys[k].path)
  BY <1>2, MatchesAreCandidates
<1>3. \A j : Room(j) <=> (entries[j].count = None \/ matched[j] < entries[j].count)
  BY DEF Room
<1> QED BY <1>1, <1>2, <1>3 DEF Takers, Takes

-----------------------------------------------------------------------------
\* What the scan and the filter look at.
Tagged == [key : Key, marked : BOOLEAN]

LEMMA SeenIs ==
    ASSUME report \in Seq(Finding)
    PROVE  /\ Len(report) \in Nat
           /\ Seen \in Seq(Tagged) /\ Len(Seen) = Len(report)
           /\ \A p \in 1 .. Len(report) :
                Seen[p] = [key |-> report[p].key, marked |-> Marked(report[p])]
<1> DEFINE len == Len(report)
<1>1. len \in Nat /\ DOMAIN report = 1 .. len /\ \A p \in 1 .. len : report[p] \in Finding
  OBVIOUS
<1> HIDE DEF len
<1>2. \A f : Marked(f) \in BOOLEAN
  BY DEF Marked
<1>3. Seen \in [1 .. len -> Tagged]
  BY <1>1, <1>2 DEF Seen, Tagged, Finding
<1>4. Seen \in Seq(Tagged) /\ Len(Seen) = len
  BY <1>1, <1>3
<1>5. \A p \in 1 .. len : Seen[p] = [key |-> report[p].key, marked |-> Marked(report[p])]
  BY <1>1 DEF Seen
<1> QED BY <1>1, <1>4, <1>5 DEF len

LEMMA SameLeft ==
    ASSUME entries' = entries, report' = report, map' = map
    PROVE  Left(entries, Seen)' = Left(entries, Seen) /\ Linear(entries)' = Linear(entries)
<1>1. Seen' = Seen
  BY DEF Seen, Marked, Suppressed
<1>2. Left(entries, Seen)' = Left(entries, Seen)
  BY <1>1 DEF Left, Start, Pass, Takes, Matches, PathMatches
<1> QED BY <1>2 DEF Linear

LEMMA OneMore ==
    ASSUME NEW D, NEW U \in [D -> Nat], NEW j
    PROVE  [U EXCEPT ![j] = U[j] + 1] \in [D -> Nat]
<1>1. CASE j \in D
  BY <1>1
<1>2. CASE j \notin D
  <2>1. [U EXCEPT ![j] = U[j] + 1] = U
    BY <1>2
  <2> QED BY <2>1
<1> QED BY <1>1, <1>2

LEMMA UsedOnce ==
    ASSUME NEW K, NEW U, NEW j
    PROVE  [[kept |-> K, used |-> U] EXCEPT !.used[j] = @ + 1] =
             [kept |-> K, used |-> [U EXCEPT ![j] = U[j] + 1]]
OBVIOUS

\* What a linear scan makes of one finding.
After(list, K, U, k, marked) ==
    Pass(list, [kept |-> K, used |-> U], [key |-> k, marked |-> marked])

LEMMA PassIs ==
    ASSUME NEW list, NEW K, NEW U, NEW k, NEW marked \in BOOLEAN
    PROVE  /\ marked => After(list, K, U, k, marked) = [kept |-> K, used |-> U]
           /\ ~marked /\ Takes(list, U, k) # {} =>
                After(list, K, U, k, marked) =
                  [kept |-> K,
                   used |-> [U EXCEPT ![Min(Takes(list, U, k))] = U[Min(Takes(list, U, k))] + 1]]
           /\ ~marked /\ Takes(list, U, k) = {} =>
                After(list, K, U, k, marked) = [kept |-> Append(K, k), used |-> U]
<1> DEFINE f == [key |-> k, marked |-> marked]
           left == [kept |-> K, used |-> U]
           takers == Takes(list, U, k)
           one == [left EXCEPT !.used[Min(takers)] = @ + 1]
           more == [left EXCEPT !.kept = Append(@, k)]
<1>1. f.key = k /\ f.marked = marked /\ left.used = U /\ left.kept = K
  OBVIOUS
<1>2. After(list, K, U, k, marked) =
        CASE marked -> left [] ~marked /\ takers # {} -> one [] OTHER -> more
  BY <1>1 DEF Pass, After
<1> HIDE DEF takers
<1>3. one = [kept |-> K, used |-> [U EXCEPT ![Min(takers)] = U[Min(takers)] + 1]]
  BY UsedOnce
<1>4. more = [kept |-> Append(K, k), used |-> U]
  OBVIOUS
<1>5. left = [kept |-> K, used |-> U]
  OBVIOUS
<1> HIDE DEF f, left, one, more
<1>6. /\ marked => After(list, K, U, k, marked) = left
      /\ ~marked /\ takers # {} => After(list, K, U, k, marked) = one
      /\ ~marked /\ takers = {} => After(list, K, U, k, marked) = more
  BY <1>2
<1> QED BY <1>3, <1>4, <1>5, <1>6, Zenon DEF takers

LEMMA ConsiderStep ==
    ASSUME FilterInv, Consider
    PROVE  FilterInv'
<1>1. /\ FilterTyped /\ LikeScan /\ pc = "match" /\ n <= Len(report)
      /\ entries' = entries /\ report' = report /\ map' = map /\ pc' = pc /\ n' = n + 1
  BY DEF FilterInv, Consider, ignores
<1>2. Len(report) \in Nat /\ n \in Nat /\ n \in 1 .. Len(report) /\ report[n] \in Finding
  BY <1>1, SeenIs DEF FilterTyped
<1> DEFINE k == report[n].key
           left == Left(entries, Seen)
           takers == Takes(entries, matched, k)
           marked == Marked(report[n])
<1>3. k \in Key /\ marked \in BOOLEAN
  BY <1>2 DEF Finding, Marked
<1>4. Takers(k) = takers
  BY <1>1, <1>3, TakersAre DEF FilterTyped
<1>5. \/ marked /\ matched' = matched /\ kept' = kept
      \/ /\ ~marked /\ takers # {} /\ kept' = kept
         /\ matched' = [matched EXCEPT ![Min(takers)] = matched[Min(takers)] + 1]
      \/ ~marked /\ takers = {} /\ matched' = matched /\ kept' = Append(kept, k)
  <2> HIDE DEF takers, marked
  <2>1. CASE marked
    BY <2>1 DEF Consider, marked
  <2>2. CASE ~marked /\ takers # {}
    BY <1>4, <2>2 DEF Consider, marked, Tally
  <2>3. CASE ~marked /\ takers = {}
    BY <1>4, <2>3 DEF Consider, marked
  <2> QED BY <1>3, <2>1, <2>2, <2>3
<1>6. left[n] = Pass(entries, left[n - 1], [key |-> k, marked |-> marked])
  <2>1. Len(Seen) = Len(report) /\ Seen[n] = [key |-> k, marked |-> marked]
    BY <1>1, <1>2, SeenIs DEF FilterTyped
  <2> QED BY <1>2, <2>1, LeftIs
<1>7. left[n - 1] = [kept |-> kept, used |-> matched]
  BY <1>1 DEF LikeScan
<1> HIDE DEF takers, marked, left, k
<1>8. left[n] = [kept |-> kept', used |-> matched']
  <2> DEFINE after == After(entries, kept, matched, k, marked)
  <2>1. /\ marked => after = [kept |-> kept, used |-> matched]
        /\ ~marked /\ takers # {} =>
             after = [kept |-> kept,
                      used |-> [matched EXCEPT ![Min(takers)] = matched[Min(takers)] + 1]]
        /\ ~marked /\ takers = {} => after = [kept |-> Append(kept, k), used |-> matched]
    BY <1>3, PassIs DEF takers
  <2>2. left[n] = after
    BY <1>6, <1>7 DEF After
  <2> HIDE DEF after
  <2> QED BY <1>5, <2>1, <2>2, Zenon
<1>9. matched' \in [DOMAIN entries -> Nat] /\ kept' \in Seq(Key)
  <2>1. matched \in [DOMAIN entries -> Nat] /\ kept \in Seq(Key)
    BY <1>1 DEF FilterTyped
  <2>2. [matched EXCEPT ![Min(takers)] = matched[Min(takers)] + 1] \in [DOMAIN entries -> Nat]
    BY <2>1, OneMore
  <2>3. Append(kept, k) \in Seq(Key)
    BY <1>3, <2>1
  <2> QED BY <1>5, <2>1, <2>2, <2>3
<1>10. n' \in 1 .. Len(report) + 1 /\ n' - 1 = n
  BY <1>1, <1>2
<1>11. FilterTyped'
  BY <1>1, <1>9, <1>10 DEF FilterTyped
<1>12. Left(entries, Seen)'[n] = [kept |-> kept', used |-> matched']
  BY <1>1, <1>8, SameLeft DEF left
<1>13. LikeScan'
  BY <1>1, <1>10, <1>12 DEF LikeScan, Scanning, Closed
<1> QED BY <1>11, <1>13 DEF FilterInv

LEMMA ScanningStep ==
    ASSUME FilterInv, NextScan, UNCHANGED filter
    PROVE  FilterInv'
<1>1. Scanning /\ Scanning'
  <2>1. CASE Scan
    BY <2>1 DEF Scan, NextLine, AtLine, Scanning
  <2>2. CASE Strict
    BY <2>2 DEF Strict, Scanning
  <2>3. CASE End
    BY <2>3 DEF End, Malformed, NextLine, AtLine, Scanning
  <2>4. CASE Identifier
    BY <2>4 DEF Identifier, Malformed, NextLine, AtLine, Scanning
  <2>5. CASE Separator
    BY <2>5 DEF Separator, Malformed, NextLine, AtLine, Scanning
  <2>6. CASE Comment
    BY <2>6 DEF Comment, Malformed, NextLine, AtLine, Scanning
  <2> QED BY <2>1, <2>2, <2>3, <2>4, <2>5, <2>6 DEF NextScan
<1>2. pc' # "match" /\ ~Closed'
  BY <1>1 DEF Scanning, Closed
<1>3. /\ entries' = entries /\ report' = report /\ n' = n /\ matched' = matched
      /\ kept' = kept
  BY DEF filter
<1>4. FilterTyped'
  BY <1>3 DEF FilterInv, FilterTyped
<1>5. LikeScan'
  BY <1>1, <1>2, <1>3 DEF FilterInv, LikeScan
<1> QED BY <1>4, <1>5 DEF FilterInv

LEMMA MatchStep ==
    ASSUME FilterInv, Match
    PROVE  FilterInv'
<1>1. /\ pc' = "match" /\ entries' = entries /\ report' = report /\ map' = map
      /\ n' = n /\ matched' = matched /\ kept' = kept /\ Scanning
  BY DEF Match, filter, ignores, Scanning
<1>2. n = 1 /\ kept = <<>> /\ matched = [j \in DOMAIN entries |-> 0]
  BY <1>1 DEF FilterInv, LikeScan
<1>3. Left(entries, Seen)[0] = Start(entries)
  BY LeftIs, SeenIs DEF FilterInv, FilterTyped
<1>4. Left(entries, Seen)[n - 1] = [kept |-> kept, used |-> matched]
  <2>1. n - 1 = 0
    BY <1>2
  <2> QED BY <1>2, <1>3, <2>1 DEF Start
<1>5. Left(entries, Seen)' = Left(entries, Seen)
  BY <1>1, SameLeft
<1>6. FilterTyped'
  BY <1>1 DEF FilterInv, FilterTyped
<1>7. LikeScan'
  BY <1>1, <1>4, <1>5 DEF LikeScan, Scanning, Closed
<1> QED BY <1>6, <1>7 DEF FilterInv

LEMMA CloseStep ==
    ASSUME FilterInv, errors \in Seq(Nat), Close
    PROVE  FilterInv'
<1>1. /\ pc = "match" /\ n = Len(report) + 1 /\ kept' = kept \o MarkerErrors
      /\ entries' = entries /\ report' = report /\ map' = map /\ errors' = errors
      /\ n' = n /\ matched' = matched /\ pc' \in {"report", "done"}
  BY DEF Close, ignores
<1>2. unmatched' = {j \in DOMAIN entries :
                       ReportUnmatched /\ entries[j].report # FALSE /\ TooFew(j)}
  BY DEF Close
<1>3. FilterTyped /\ Len(report) \in Nat
  BY SeenIs DEF FilterInv, FilterTyped
<1>4. Left(entries, Seen)[Len(report)] = [kept |-> kept, used |-> matched]
  <2> DEFINE len == Len(report)
  <2> HIDE DEF len
  <2>1. n - 1 = len
    BY <1>1, <1>3 DEF len
  <2> QED BY <1>1, <2>1 DEF FilterInv, LikeScan, len
<1>5. Left(entries, Seen)' = Left(entries, Seen) /\ Linear(entries)' = Linear(entries)
  BY <1>1, SameLeft
<1>6. MarkerErrors' = MarkerErrors
  BY <1>1 DEF MarkerErrors
<1>7. kept' = Linear(entries) \o MarkerErrors
  BY <1>1, <1>4 DEF Linear
<1>8. kept' \in Seq(Key)
  <2>1. kept \in Seq(Key) /\ Broken \in Key
    BY <1>3, SuppressAssumption DEF FilterTyped
  <2>2. MarkerErrors \in Seq(Key)
    BY <2>1 DEF MarkerErrors
  <2> QED BY <1>1, <2>1, <2>2
<1>9. FilterTyped'
  BY <1>1, <1>3, <1>8 DEF FilterTyped
<1>10. \A j : TooFew(j)' = TooFew(j)
  BY <1>1 DEF TooFew
<1>11. ~Scanning' /\ pc' # "match"
  BY <1>1 DEF Scanning
<1>12. kept' = (Linear(entries) \o MarkerErrors)'
  BY <1>5, <1>6, <1>7
<1>13. matched' = (Left(entries, Seen)[Len(report)].used)'
  BY <1>1, <1>4, <1>5
<1>14. unmatched' = {j \in DOMAIN entries' :
                        ReportUnmatched /\ entries'[j].report # FALSE /\ TooFew(j)'}
  BY <1>1, <1>2, <1>10
<1>15. LikeScan'
  BY <1>11, <1>12, <1>13, <1>14 DEF LikeScan
<1> QED BY <1>9, <1>15 DEF FilterInv

\* The baseline that is written consists of entries.
LEMMA EntryForTyped ==
    ASSUME kept \in Seq(Key), NEW k \in Key
    PROVE  EntryFor(k) \in Entry
<1> DEFINE count == CountOf(k)
           segments == Keys[k].path
           id == Keys[k].id
           message == Keys[k].message
<1>1. count \in Nat
  <2> DEFINE S == {p \in DOMAIN kept : kept[p] = k}
  <2>1. DOMAIN kept = 1 .. Len(kept) /\ Len(kept) \in Nat
    OBVIOUS
  <2>2. IsFiniteSet(1 .. Len(kept))
    BY <2>1, FS_Interval
  <2>3. S \subseteq 1 .. Len(kept)
    BY <2>1
  <2> HIDE DEF S
  <2>4. Cardinality(S) \in Nat
    BY <2>2, <2>3, FS_Subset, FS_CardinalityType
  <2> QED BY <2>4 DEF CountOf, S
<1>2. segments \in Path
  BY SuppressAssumption
<1>3. message \in Message /\ {id} \ {None} \subseteq {Keys[l].id : l \in Key} \ {None}
  BY DEF Message
<1> DEFINE path == [glob |-> FALSE, segments |-> segments]
           e == [messages |-> {message}, raw |-> {}, ids |-> {id} \ {None},
                 paths |-> {path}, count |-> count, report |-> FALSE]
<1>4. e = EntryFor(k)
  BY DEF EntryFor
<1> HIDE DEF count, segments, id, message
<1>5. path \in Pattern
  BY <1>2 DEF Pattern
<1> HIDE DEF path
<1>6. /\ e \in [messages : SUBSET Message, raw : SUBSET Message,
                ids : SUBSET ({Keys[l].id : l \in Key} \ {None}), paths : SUBSET Pattern,
                count : Nat \cup {None}, report : BOOLEAN \cup {None}]
      /\ e.messages # {}
  BY <1>1, <1>3, <1>5
<1> HIDE DEF e
<1>7. e \in Entry
  BY <1>6 DEF Entry
<1> QED BY <1>4, <1>7

LEMMA RerunStep ==
    ASSUME FilterInv, GenerateAndRerun
    PROVE  FilterInv'
<1>1. /\ FilterTyped /\ n' = 1 /\ matched' = [j \in DOMAIN entries' |-> 0]
      /\ kept' = <<>>
  BY DEF FilterInv, GenerateAndRerun
<1>2. pc' = "scan"
  BY DEF GenerateAndRerun, Rescan, AtLine
<1>3. entries' \in Seq(Entry)
  <2> DEFINE S == ToSet(kept)
             c == Cardinality(S)
  <2>1. PICK keys \in Increasing(c, S) : entries' = entries \o Baseline(keys)
    BY DEF GenerateAndRerun
  <2>2. kept \in Seq(Key) /\ entries \in Seq(Entry)
    BY <1>1 DEF FilterTyped
  <2>3. S \subseteq Key
    BY <2>2 DEF ToSet
  <2>4. c \in Nat
    <3>1. IsFiniteSet(Key)
      BY SuppressAssumption, FS_Interval
    <3> HIDE DEF S
    <3>2. IsFiniteSet(S)
      BY <2>3, <3>1, FS_Subset
    <3> QED BY <3>2, FS_CardinalityType
  <2>5. keys \in [1 .. c -> S]
    BY <2>1 DEF Increasing
  <2> HIDE DEF S, c
  <2>6. Baseline(keys) \in [1 .. c -> Entry]
    <3>1. DOMAIN keys = 1 .. c /\ \A j \in 1 .. c : keys[j] \in Key
      BY <2>3, <2>5
    <3>2. \A j \in 1 .. c : EntryFor(keys[j]) \in Entry
      BY <2>2, <3>1, EntryForTyped
    <3> QED BY <3>1, <3>2 DEF Baseline
  <2>7. Baseline(keys) \in Seq(Entry)
    BY <2>4, <2>6
  <2> QED BY <2>1, <2>2, <2>7
<1>4. report' \in Seq(Finding)
  <2>0. PICK m \in 0 .. Len(report) :
          \E at \in Increasing(m, DOMAIN report) : report' = Staying(at)
    BY DEF GenerateAndRerun
  <2>1. PICK at \in Increasing(m, DOMAIN report) : report' = Staying(at)
    BY <2>0
  <2>2. report \in Seq(Finding)
    BY <1>1 DEF FilterTyped
  <2>3. m \in Nat
    BY <2>0, <2>2
  <2>4. at \in [1 .. m -> DOMAIN report]
    BY <2>1 DEF Increasing
  <2>5. report' \in [1 .. m -> Finding]
    BY <2>1, <2>2, <2>4 DEF Staying
  <2> QED BY <2>3, <2>5
<1>5. n' \in 1 .. Len(report') + 1
  BY <1>1, <1>4
<1>6. FilterTyped'
  BY <1>1, <1>3, <1>4, <1>5 DEF FilterTyped
<1>7. LikeScan'
  BY <1>1, <1>2 DEF LikeScan, Scanning, Closed
<1> QED BY <1>6, <1>7 DEF FilterInv

LEMMA FilterStutters ==
    ASSUME FilterInv, UNCHANGED vars
    PROVE  FilterInv'
<1>1. /\ entries' = entries /\ report' = report /\ map' = map /\ errors' = errors
      /\ n' = n /\ matched' = matched /\ kept' = kept /\ unmatched' = unmatched /\ pc' = pc
  BY DEF vars, filter, ignores
<1>2. Left(entries, Seen)' = Left(entries, Seen) /\ Linear(entries)' = Linear(entries)
  BY <1>1, SameLeft
<1>3. FilterTyped' = FilterTyped
  BY <1>1 DEF FilterTyped
<1>4. Scanning' = Scanning /\ Closed' = Closed /\ MarkerErrors' = MarkerErrors
  BY <1>1 DEF Scanning, Closed, MarkerErrors
<1>5. \A j : TooFew(j)' = TooFew(j)
  BY <1>1 DEF TooFew
<1>6. (Left(entries, Seen)[n - 1])' = Left(entries, Seen)[n - 1]
  BY <1>1, <1>2
<1>7. (Left(entries, Seen)[Len(report)].used)' = Left(entries, Seen)[Len(report)].used
  BY <1>1, <1>2
<1>8. LikeScan'
  BY <1>1, <1>2, <1>4, <1>5, <1>6, <1>7 DEF FilterInv, LikeScan
<1> QED BY <1>3, <1>8 DEF FilterInv

THEOREM FilterInvariant == Spec => []FilterInv
<1>1. Init => FilterInv
  <2> SUFFICES ASSUME Init PROVE FilterInv
    OBVIOUS
  <2>1. PICK r \in Inputs : InitScan(r.source) /\ entries = r.entries /\ report = r.findings
    BY DEF Init
  <2>2. entries \in Seq(Entry) /\ report \in Seq(Finding)
    BY <2>1, SuppressAssumption
  <2>3. n = 1 /\ kept = <<>> /\ matched = [j \in DOMAIN entries |-> 0] /\ pc = "scan"
    BY <2>1 DEF Init, InitScan
  <2>4. n \in 1 .. Len(report) + 1
    BY <2>2, <2>3
  <2>5. FilterTyped
    BY <2>2, <2>3, <2>4 DEF FilterTyped
  <2>6. LikeScan
    BY <2>3 DEF LikeScan, Closed
  <2> QED BY <2>5, <2>6 DEF FilterInv
<1>2. ScanInv /\ FilterInv /\ [Next]_vars => FilterInv'
  <2> SUFFICES ASSUME ScanInv, FilterInv, [Next]_vars PROVE FilterInv'
    OBVIOUS
  <2>1. CASE NextScan /\ UNCHANGED filter
    BY <2>1, ScanningStep
  <2>2. CASE Match
    BY <2>2, MatchStep
  <2>3. CASE Consider
    BY <2>3, ConsiderStep
  <2>4. CASE Close
    BY <2>4, CloseStep DEF ScanInv, ScanTyped
  <2>5. CASE GenerateAndRerun
    BY <2>5, RerunStep
  <2>6. CASE UNCHANGED vars
    BY <2>6, FilterStutters
  <2> QED BY <2>1, <2>2, <2>3, <2>4, <2>5, <2>6 DEF Next, Filter
<1> QED BY <1>1, <1>2, ScanInvariant, PTL DEF Spec

\* The lookup by path prefix drops what "a full linear scan" over the entries
\* would drop, counts included.
THEOREM DropsAsLinearScan == Spec => []AsLinearScan
<1>1. FilterInv => AsLinearScan
  BY DEF FilterInv, LikeScan, AsLinearScan
<1> QED BY <1>1, FilterInvariant, PTL

-----------------------------------------------------------------------------
\* The least of some numbers is what Min is.
LEMMA MinIs ==
    ASSUME NEW S \in SUBSET Nat, NEW x \in S, \A y \in S : x <= y
    PROVE  Min(S) = x
<1> DEFINE m == CHOOSE z \in S : \A y \in S : z <= y
<1>1. m \in S /\ \A y \in S : m <= y
  OBVIOUS
<1> HIDE DEF m
<1>2. m = x
  BY <1>1
<1> QED BY <1>2 DEF m, Min

LEMMA MinOf ==
    ASSUME NEW S \in SUBSET Nat, S # {}
    PROVE  Min(S) \in S /\ \A y \in S : Min(S) <= y
<1>1. PICK x \in S : \A y \in S : x <= y
  BY NatLeast
<1>2. Min(S) = x
  BY <1>1, MinIs
<1> QED BY <1>1, <1>2

\* One finding more in a linear scan: it adds to what an entry has taken, if to anything.
State(list) == [kept : Seq(Key), used : [DOMAIN list -> Nat]]

LEMMA TakesTyped ==
    ASSUME NEW list \in Seq(Entry), NEW used, NEW k
    PROVE  Takes(list, used, k) \in SUBSET (DOMAIN list) /\ Takes(list, used, k) \in SUBSET Nat
<1>1. DOMAIN list \subseteq Nat
  OBVIOUS
<1> QED BY <1>1 DEF Takes

LEMMA PassAfter ==
    ASSUME NEW list, NEW left \in State(list), NEW f \in Tagged
    PROVE  Pass(list, left, f) = After(list, left.kept, left.used, f.key, f.marked)
<1>1. left = [kept |-> left.kept, used |-> left.used]
  BY DEF State
<1>2. f = [key |-> f.key, marked |-> f.marked]
  BY DEF Tagged
<1> QED BY <1>1, <1>2, Zenon DEF After

LEMMA PassTyped ==
    ASSUME NEW list \in Seq(Entry), NEW left \in State(list), NEW f \in Tagged
    PROVE  /\ Pass(list, left, f) \in State(list)
           /\ \A j \in DOMAIN list : left.used[j] <= Pass(list, left, f).used[j]
<1> DEFINE K == left.kept
           U == left.used
           k == f.key
           marked == f.marked
           D == DOMAIN list
           next == After(list, K, U, k, marked)
           takers == Takes(list, U, k)
           one == [U EXCEPT ![Min(takers)] = U[Min(takers)] + 1]
<1>1. K \in Seq(Key) /\ U \in [D -> Nat] /\ k \in Key /\ marked \in BOOLEAN
  BY DEF State, Tagged
<1>2. Pass(list, left, f) = next
  BY PassAfter
<1>3. left = [kept |-> K, used |-> U] /\ State(list) = [kept : Seq(Key), used : [D -> Nat]]
  BY DEF State
<1>4. /\ marked => next = [kept |-> K, used |-> U]
      /\ ~marked /\ takers # {} => next = [kept |-> K, used |-> one]
      /\ ~marked /\ takers = {} => next = [kept |-> Append(K, k), used |-> U]
  <2>1. marked \in BOOLEAN
    BY <1>1
  <2> HIDE DEF K, U, k, marked
  <2> QED BY <2>1, PassIs
<1>5. one \in [D -> Nat]
  BY <1>1, OneMore
<1>6. \A j \in D : U[j] <= one[j] /\ U[j] <= U[j]
  BY <1>1
<1>7. Append(K, k) \in Seq(Key)
  BY <1>1
<1> HIDE DEF K, U, k, marked, D, next, takers, one
<1>8. next \in [kept : Seq(Key), used : [D -> Nat]] /\ \A j \in D : U[j] <= next.used[j]
  <2>1. CASE marked
    BY <1>1, <1>4, <1>6, <2>1
  <2>2. CASE ~marked /\ takers # {}
    BY <1>1, <1>4, <1>5, <1>6, <2>2
  <2>3. CASE ~marked /\ takers = {}
    <3>1. next = [kept |-> Append(K, k), used |-> U]
      BY <1>4, <2>3
    <3> HIDE DEF next
    <3>2. next.used = U
      BY <3>1
    <3>3. U \in [D -> Nat]
      BY <1>1
    <3>4. next \in [kept : Seq(Key), used : [D -> Nat]]
      BY <1>7, <3>1, <3>3, Zenon
    <3> QED BY <1>6, <3>2, <3>4
  <2> QED BY <2>1, <2>2, <2>3, Zenon
<1> QED BY <1>2, <1>3, <1>8 DEF D, U

LEMMA LeftTyped ==
    ASSUME NEW list \in Seq(Entry), NEW found \in Seq(Tagged)
    PROVE  \A p \in 0 .. Len(found) : Left(list, found)[p] \in State(list)
<1> DEFINE N == Len(found)
           L(p) == Left(list, found)[p]
           bad == {p \in 0 .. N : L(p) \notin State(list)}
<1>1. N \in Nat /\ \A p \in 1 .. N : found[p] \in Tagged
  OBVIOUS
<1>2. L(0) = Start(list) /\ \A p \in 1 .. N : L(p) = Pass(list, L(p - 1), found[p])
  BY <1>1, LeftIs
<1>3. Start(list) \in State(list)
  BY DEF Start, State
<1>4. bad = {}
  <2> SUFFICES ASSUME bad # {} PROVE FALSE
    OBVIOUS
  <2>1. bad \in SUBSET Nat
    OBVIOUS
  <2>2. PICK p \in bad : \A q \in bad : p <= q
    BY <2>1, NatLeast
  <2>3. p \in 1 .. N
    BY <1>1, <1>2, <1>3, <2>2
  <2>4. p - 1 \in 0 .. N /\ ~ (p <= p - 1)
    BY <1>1, <2>3
  <2>5. L(p - 1) \in State(list)
    BY <2>2, <2>4
  <2>6. L(p) \in State(list)
    <3> HIDE DEF L
    <3> QED BY <1>1, <1>2, <2>3, <2>5, PassTyped
  <2> QED BY <2>2, <2>6
<1> QED BY <1>4

LEMMA UsedGrows ==
    ASSUME NEW list \in Seq(Entry), NEW found \in Seq(Tagged), NEW j \in DOMAIN list
    PROVE  \A p \in 0 .. Len(found) :
             Left(list, found)[p].used[j] <= Left(list, found)[Len(found)].used[j]
<1> DEFINE N == Len(found)
           L(p) == Left(list, found)[p]
           u(p) == L(p).used[j]
           bad == {d \in 0 .. N : ~ (u(N - d) <= u(N))}
<1>1. N \in Nat /\ \A p \in 1 .. N : found[p] \in Tagged
  OBVIOUS
<1>2. \A p \in 1 .. N : L(p) = Pass(list, L(p - 1), found[p])
  BY <1>1, LeftIs
<1>3. \A p \in 0 .. N : L(p) \in State(list)
  BY LeftTyped
<1> HIDE DEF L
<1>4. \A p \in 0 .. N : u(p) \in Nat
  BY <1>3 DEF State
<1>5. ASSUME NEW p \in 1 .. N PROVE u(p - 1) <= u(p)
  <2>1. p - 1 \in 0 .. N
    BY <1>1
  <2> QED BY <1>1, <1>2, <1>3, <2>1, PassTyped
<1> HIDE DEF N, u
<1>6. bad = {}
  <2> SUFFICES ASSUME bad # {} PROVE FALSE
    OBVIOUS
  <2>1. bad \in SUBSET Nat
    BY <1>1
  <2>2. PICK d \in bad : \A e \in bad : d <= e
    BY <2>1, NatLeast
  <2>3. d \in 0 .. N /\ ~ (u(N - d) <= u(N))
    BY <2>2
  <2> HIDE DEF bad
  <2>4. d # 0
    <3>1. u(N) \in Nat /\ N - 0 = N
      BY <1>1, <1>4
    <3>2. u(N) <= u(N)
      BY <3>1
    <3> QED BY <2>3, <3>1, <3>2
  <2>5. /\ d - 1 \in 0 .. N /\ ~ (d <= d - 1) /\ N - (d - 1) \in 1 .. N
        /\ N - (d - 1) - 1 = N - d /\ N - d \in 0 .. N /\ N - (d - 1) \in 0 .. N /\ N \in 0 .. N
    BY <1>1, <2>3, <2>4
  <2>6. u(N - (d - 1)) <= u(N)
    BY <2>2, <2>5 DEF bad
  <2>7. u(N - d) <= u(N - (d - 1))
    BY <1>5, <2>5
  <2>8. u(N - d) \in Nat /\ u(N - (d - 1)) \in Nat /\ u(N) \in Nat
    BY <1>4, <2>5
  <2> QED BY <2>3, <2>6, <2>7, <2>8
<1>7. ASSUME NEW p \in 0 .. N PROVE u(p) <= u(N)
  <2>1. N - p \in 0 .. N /\ N - (N - p) = p
    BY <1>1
  <2> QED BY <1>6, <2>1
<1> QED BY <1>7 DEF N, u, L

-----------------------------------------------------------------------------
\* When a list with fewer entries, or lower counts, does the same: the entries keep
\* their order and what they match, and whatever an entry really takes, the entry
\* that stands for it admits as well.
Admits(e, used) == e.count = None \/ used < e.count

Reduces(list, less, h, final) ==
    /\ h \in [DOMAIN less -> DOMAIN list]
    /\ \A x, y \in DOMAIN less : x < y => h[x] < h[y]
    /\ \A x \in DOMAIN less, k \in Key : Matches(less[x], k) <=> Matches(list[h[x]], k)
    /\ \A x \in DOMAIN less, u \in Nat : Admits(less[x], u) => Admits(list[h[x]], u)
    /\ \A y \in DOMAIN list, u \in Nat :
         u < final[y] /\ Admits(list[y], u) =>
             \E x \in DOMAIN less : h[x] = y /\ Admits(less[x], u)

Alike(left, right, h) ==
    /\ right.kept = left.kept
    /\ \A x \in DOMAIN h : right.used[x] = left.used[h[x]]

\* As often used, entry by entry; and the entry that would take a finding is used
\* less often now than in the end.
Aligned(less, h, U, V) == \A x \in DOMAIN less : V[x] = U[h[x]]
Within(list, U, k, final) ==
    \A y \in DOMAIN list :
        Takes(list, U, k) # {} /\ y = Min(Takes(list, U, k)) => U[y] < final[y]

\* The entries that take a finding correspond, and so do the first of them.
SameTaker(list, less, h, U, V, k) ==
    /\ Takes(list, U, k) = {} <=> Takes(less, V, k) = {}
    /\ Takes(list, U, k) # {} =>
         /\ Min(Takes(less, V, k)) \in DOMAIN less
         /\ h[Min(Takes(less, V, k))] = Min(Takes(list, U, k))

LEMMA ReducedTakers ==
    ASSUME NEW list \in Seq(Entry), NEW less \in Seq(Entry), NEW h, NEW final,
           Reduces(list, less, h, final), NEW k \in Key,
           NEW U \in [DOMAIN list -> Nat], NEW V \in [DOMAIN less -> Nat],
           Aligned(less, h, U, V), Within(list, U, k, final)
    PROVE  SameTaker(list, less, h, U, V, k)
<1> DEFINE S == Takes(list, U, k)
           T == Takes(less, V, k)
           D == DOMAIN list
           E == DOMAIN less
<1>1. /\ \A y : y \in S <=> y \in D /\ Matches(list[y], k) /\ Admits(list[y], U[y])
      /\ \A x : x \in T <=> x \in E /\ Matches(less[x], k) /\ Admits(less[x], V[x])
  BY DEF Takes, Admits
<1>2. S \in SUBSET Nat /\ T \in SUBSET Nat /\ S \subseteq D /\ T \subseteq E
      /\ D \subseteq Nat /\ E \subseteq Nat
  BY TakesTyped
<1>3. h \in [E -> D] /\ \A x, y \in E : x < y => h[x] < h[y]
  BY DEF Reduces
<1>4. \A x \in E : Matches(less[x], k) <=> Matches(list[h[x]], k)
  BY DEF Reduces
<1>5. \A x \in E, u \in Nat : Admits(less[x], u) => Admits(list[h[x]], u)
  BY DEF Reduces
<1>6. \A y \in D, u \in Nat : u < final[y] /\ Admits(list[y], u) =>
         \E x \in E : h[x] = y /\ Admits(less[x], u)
  BY DEF Reduces
<1>7. U \in [D -> Nat] /\ V \in [E -> Nat] /\ \A x \in E : V[x] = U[h[x]]
  BY DEF Aligned
<1>8. S # {} => Min(S) \in S /\ U[Min(S)] < final[Min(S)] /\ \A y \in S : Min(S) <= y
  BY <1>2, MinOf DEF Within
<1> HIDE DEF S, T, D, E
<1>9. \A x \in T : h[x] \in S
  BY <1>1, <1>3, <1>4, <1>5, <1>7
<1>10. ASSUME S # {}
       PROVE  \E x \in T : h[x] = Min(S)
  <2>1. Min(S) \in D /\ Matches(list[Min(S)], k) /\ Admits(list[Min(S)], U[Min(S)])
    BY <1>1, <1>8, <1>10
  <2>2. U[Min(S)] \in Nat
    BY <1>7, <2>1
  <2>3. PICK x \in E : h[x] = Min(S) /\ Admits(less[x], U[Min(S)])
    BY <1>6, <1>8, <1>10, <2>1, <2>2
  <2>4. x \in T
    BY <1>1, <1>4, <1>7, <2>1, <2>3
  <2> QED BY <2>3, <2>4
<1>11. ASSUME S # {}
       PROVE  Min(T) \in E /\ h[Min(T)] = Min(S)
  <2>1. PICK x \in T : h[x] = Min(S)
    BY <1>10, <1>11
  <2>2. ASSUME NEW z \in T PROVE x <= z
    <3>1. x \in E /\ z \in E /\ x \in Nat /\ z \in Nat
      BY <1>2
    <3>2. h[z] \in S /\ h[x] \in Nat /\ h[z] \in Nat /\ h[x] <= h[z]
      BY <1>2, <1>8, <1>9, <1>11, <2>1
    <3>3. z < x => h[z] < h[x]
      BY <1>3, <3>1
    <3> QED BY <3>1, <3>2, <3>3
  <2>3. Min(T) = x
    BY <1>2, <2>1, <2>2, MinIs
  <2> QED BY <1>2, <2>1, <2>3
<1>12. S = {} <=> T = {}
  BY <1>9, <1>10
<1> QED BY <1>11, <1>12 DEF S, T, E, SameTaker

LEMMA ReducedStep ==
    ASSUME NEW list \in Seq(Entry), NEW less \in Seq(Entry), NEW h, NEW final,
           Reduces(list, less, h, final), final \in [DOMAIN list -> Nat],
           NEW left \in State(list), NEW right \in State(less), Alike(left, right, h),
           NEW f \in Tagged,
           \A y \in DOMAIN list : Pass(list, left, f).used[y] <= final[y]
    PROVE  Alike(Pass(list, left, f), Pass(less, right, f), h)
<1> DEFINE K == left.kept
           U == left.used
           V == right.used
           k == f.key
           marked == f.marked
           D == DOMAIN list
           E == DOMAIN less
           S == Takes(list, U, k)
           T == Takes(less, V, k)
           a == Pass(list, left, f)
           b == Pass(less, right, f)
           y == Min(S)
           x == Min(T)
<1>1. /\ K \in Seq(Key) /\ U \in [D -> Nat] /\ V \in [E -> Nat]
      /\ k \in Key /\ marked \in BOOLEAN
  BY DEF State, Tagged
<1>2. h \in [E -> D] /\ \A m, o \in E : m < o => h[m] < h[o]
  BY DEF Reduces
<1>3. right.kept = K /\ \A m \in E : V[m] = U[h[m]]
  BY <1>2 DEF Alike
<1>4. D \subseteq Nat /\ E \subseteq Nat /\ S \in SUBSET Nat /\ S \subseteq D
  BY TakesTyped
<1>5. a = After(list, K, U, k, marked) /\ b = After(less, K, V, k, marked)
  BY <1>3, PassAfter
<1>6. /\ marked => a = [kept |-> K, used |-> U]
      /\ ~marked /\ S # {} => a = [kept |-> K, used |-> [U EXCEPT ![y] = U[y] + 1]]
      /\ ~marked /\ S = {} => a = [kept |-> Append(K, k), used |-> U]
  <2>1. marked \in BOOLEAN
    BY <1>1
  <2> HIDE DEF K, U, k, marked, a
  <2> QED BY <1>5, <2>1, PassIs
<1>7. /\ marked => b = [kept |-> K, used |-> V]
      /\ ~marked /\ T # {} => b = [kept |-> K, used |-> [V EXCEPT ![x] = V[x] + 1]]
      /\ ~marked /\ T = {} => b = [kept |-> Append(K, k), used |-> V]
  <2>1. marked \in BOOLEAN
    BY <1>1
  <2> HIDE DEF K, V, k, marked, b
  <2> QED BY <1>5, <2>1, PassIs
<1>8. \A m \in D : a.used[m] <= final[m]
  OBVIOUS
<1>9. final \in [D -> Nat]
  OBVIOUS
<1>10. S # {} => y \in S /\ y \in D
  BY <1>4, MinOf
<1> HIDE DEF a, b, U, V, K, k, marked, y, x
<1>11. ~marked => \A m \in D : S # {} /\ m = Min(S) => U[m] < final[m]
  <2> HIDE DEF S
  <2> SUFFICES ASSUME ~marked, S # {} PROVE U[y] < final[y]
    BY DEF y
  <2>1. a.used[y] = U[y] + 1
    BY <1>1, <1>6, <1>10
  <2> QED BY <1>1, <1>8, <1>9, <1>10, <2>1
<1>12. ~marked => /\ S = {} <=> T = {}
                  /\ S # {} => x \in E /\ h[x] = y
  <2> SUFFICES ASSUME ~marked
               PROVE  /\ S = {} <=> T = {}
                      /\ S # {} => x \in E /\ h[x] = y
    OBVIOUS
  <2>1. U \in [DOMAIN list -> Nat] /\ V \in [DOMAIN less -> Nat] /\ k \in Key
    BY <1>1
  <2>2. Aligned(less, h, U, V)
    BY <1>3 DEF Aligned
  <2>3. Within(list, U, k, final)
    BY <1>11 DEF Within
  <2>4. SameTaker(list, less, h, U, V, k)
    BY <2>1, <2>2, <2>3, ReducedTakers
  <2> QED BY <2>4 DEF x, y, SameTaker
<1> HIDE DEF S, T, D, E
<1>13. b.kept = a.kept /\ \A m \in E : b.used[m] = a.used[h[m]]
  <2>1. CASE marked
    BY <1>3, <1>6, <1>7, <2>1
  <2>2. CASE ~marked /\ S = {}
    <3>1. a = [kept |-> Append(K, k), used |-> U] /\ b = [kept |-> Append(K, k), used |-> V]
      BY <1>6, <1>7, <1>12, <2>2
    <3>2. a.used = U /\ b.used = V /\ a.kept = Append(K, k) /\ b.kept = Append(K, k)
      BY <3>1
    <3> QED BY <1>3, <3>2
  <2>3. CASE ~marked /\ S # {}
    <3>1. x \in E /\ h[x] = y
      BY <1>12, <2>3
    <3>2. ASSUME NEW m \in E, m # x PROVE h[m] # y
      <4>1. h[m] \in Nat /\ h[x] \in Nat /\ m \in Nat /\ x \in Nat
        BY <1>2, <1>4, <3>1
      <4>2. (m < x => h[m] < h[x]) /\ (x < m => h[x] < h[m])
        BY <1>2, <3>1
      <4> QED BY <3>1, <3>2, <4>1, <4>2
    <3>3. a.kept = K /\ b.kept = K /\ a.used = [U EXCEPT ![y] = U[y] + 1]
          /\ b.used = [V EXCEPT ![x] = V[x] + 1]
      BY <1>6, <1>7, <1>12, <2>3
    <3> QED BY <1>1, <1>2, <1>3, <3>1, <3>2, <3>3
  <2> QED BY <2>1, <2>2, <2>3, Zenon
<1> QED BY <1>2, <1>13 DEF Alike, a, b

LEMMA ReducedLeft ==
    ASSUME NEW list \in Seq(Entry), NEW less \in Seq(Entry), NEW found \in Seq(Tagged), NEW h,
           Reduces(list, less, h, Left(list, found)[Len(found)].used)
    PROVE  Left(less, found)[Len(found)].kept = Left(list, found)[Len(found)].kept
<1> DEFINE N == Len(found)
           L(p) == Left(list, found)[p]
           R(p) == Left(less, found)[p]
           final == L(N).used
           bad == {p \in 0 .. N : ~ Alike(L(p), R(p), h)}
<1>1. N \in Nat /\ N \in 0 .. N /\ \A p \in 1 .. N : found[p] \in Tagged
  OBVIOUS
<1>2. /\ L(0) = Start(list) /\ R(0) = Start(less)
      /\ \A p \in 1 .. N : /\ L(p) = Pass(list, L(p - 1), found[p])
                            /\ R(p) = Pass(less, R(p - 1), found[p])
  BY <1>1, LeftIs
<1>3. \A p \in 0 .. N : L(p) \in State(list) /\ R(p) \in State(less)
  BY LeftTyped
<1>4. \A p \in 0 .. N, y \in DOMAIN list : L(p).used[y] <= final[y]
  BY UsedGrows
<1>5. Reduces(list, less, h, final)
  OBVIOUS
<1>6. h \in [DOMAIN less -> DOMAIN list]
  BY DEF Reduces
<1> HIDE DEF L, R, N
<1>7. final \in [DOMAIN list -> Nat]
  BY <1>1, <1>3 DEF State
<1>8. Alike(L(0), R(0), h)
  BY <1>2, <1>6 DEF Alike, Start
<1> HIDE DEF final
<1>9. bad = {}
  <2> SUFFICES ASSUME bad # {} PROVE FALSE
    OBVIOUS
  <2>1. bad \in SUBSET Nat
    BY <1>1
  <2>2. PICK p \in bad : \A q \in bad : p <= q
    BY <2>1, NatLeast
  <2>3. p \in 1 .. N
    BY <1>1, <1>8, <2>2
  <2>4. p - 1 \in 0 .. N /\ ~ (p <= p - 1) /\ p \in 0 .. N
    BY <1>1, <2>3
  <2>5. Alike(L(p - 1), R(p - 1), h)
    BY <2>2, <2>4
  <2>6. /\ L(p) = Pass(list, L(p - 1), found[p]) /\ R(p) = Pass(less, R(p - 1), found[p])
        /\ L(p - 1) \in State(list) /\ R(p - 1) \in State(less) /\ found[p] \in Tagged
    BY <1>1, <1>2, <1>3, <2>3, <2>4
  <2>7. \A y \in DOMAIN list : Pass(list, L(p - 1), found[p]).used[y] <= final[y]
    BY <1>4, <2>4, <2>6
  <2>8. Alike(L(p), R(p), h)
    BY <1>5, <1>7, <2>5, <2>6, <2>7, ReducedStep
  <2> QED BY <2>2, <2>8
<1>10. Alike(L(N), R(N), h)
  BY <1>1, <1>9
<1> QED BY <1>10 DEF Alike, L, R, N

-----------------------------------------------------------------------------
\* What is reported as unmatched: an entry that has taken less than its count, and
\* one that has taken nothing.
LEMMA LoweredReduces ==
    ASSUME NEW list \in Seq(Entry), NEW j \in DOMAIN list, NEW final \in [DOMAIN list -> Nat],
           list[j].count \in Nat, final[j] < list[j].count
    PROVE  /\ [list EXCEPT ![j].count = final[j]] \in Seq(Entry)
           /\ Reduces(list, [list EXCEPT ![j].count = final[j]], [x \in DOMAIN list |-> x], final)
<1> DEFINE less == [list EXCEPT ![j].count = final[j]]
           h == [x \in DOMAIN list |-> x]
           D == DOMAIN list
           e == [list[j] EXCEPT !.count = final[j]]
<1>1. D = 1 .. Len(list) /\ Len(list) \in Nat /\ \A x \in D : list[x] \in Entry
  OBVIOUS
<1>2. None \notin Nat
  BY SuppressAssumption
<1>3. e \in Entry
  BY <1>1 DEF Entry
<1>4. /\ e.messages = list[j].messages /\ e.raw = list[j].raw /\ e.ids = list[j].ids
      /\ e.paths = list[j].paths /\ e.count = final[j]
  BY <1>1 DEF Entry
<1>5. \A x \in D : less[x] = IF x = j THEN e ELSE list[x]
  OBVIOUS
<1>6. DOMAIN less = D
  OBVIOUS
<1>7. less \in Seq(Entry)
  <2>1. less = [list EXCEPT ![j] = e]
    OBVIOUS
  <2> HIDE DEF e, less
  <2> QED BY <1>1, <1>3, <2>1
<1>8. final[j] \in Nat /\ list[j].count \in Nat
  OBVIOUS
<1> HIDE DEF e, less
<1>9. \A x \in D, k \in Key : Matches(less[x], k) <=> Matches(list[x], k)
  BY <1>4, <1>5 DEF Matches
<1>10. ASSUME NEW x \in D, NEW u \in Nat
       PROVE  /\ Admits(less[x], u) => Admits(list[x], u)
              /\ u < final[x] /\ Admits(list[x], u) => Admits(less[x], u)
  <2>1. CASE x = j
    <3>1. less[x].count = final[j]
      BY <1>4, <1>5, <2>1
    <3> QED BY <1>2, <1>8, <2>1, <3>1 DEF Admits
  <2>2. CASE x # j
    BY <1>5, <2>2
  <2> QED BY <2>1, <2>2
<1>11. h \in [D -> D] /\ \A x \in D : h[x] = x
  OBVIOUS
<1> HIDE DEF h
<1>12. Reduces(list, less, h, final)
  BY <1>6, <1>9, <1>10, <1>11 DEF Reduces
<1> QED BY <1>7, <1>12 DEF less, h

LEMMA RemovedReduces ==
    ASSUME NEW list \in Seq(Entry), NEW j \in DOMAIN list, NEW final \in [DOMAIN list -> Nat],
           final[j] = 0
    PROVE  /\ RemoveAt(list, j) \in Seq(Entry)
           /\ Reduces(list, RemoveAt(list, j),
                      [x \in 1 .. Len(list) - 1 |-> IF x < j THEN x ELSE x + 1], final)
<1> DEFINE len == Len(list)
           D == DOMAIN list
           less == RemoveAt(list, j)
           h == [x \in 1 .. len - 1 |-> IF x < j THEN x ELSE x + 1]
<1>1. len \in Nat /\ D = 1 .. len /\ j \in 1 .. len /\ \A x \in D : list[x] \in Entry
  OBVIOUS
<1>2. /\ less \in Seq(Entry) /\ DOMAIN less = 1 .. len - 1
      /\ \A x \in 1 .. len - 1 : less[x] = list[h[x]]
  <2> DEFINE a == SubSeq(list, 1, j - 1)
             b == SubSeq(list, j + 1, len)
  <2>1. /\ a \in Seq(Entry) /\ Len(a) = j - 1 /\ \A x \in 1 .. j - 1 : a[x] = list[x]
        /\ b \in Seq(Entry) /\ Len(b) = len - j /\ \A x \in 1 .. len - j : b[x] = list[j + x]
    <3>1. /\ 1 \in Int /\ j - 1 \in Int /\ j + 1 \in Int /\ len \in Int
          /\ \A x \in 1 .. j - 1 : list[x] \in Entry
          /\ \A x \in j + 1 .. len : list[x] \in Entry
      BY <1>1
    <3>2. /\ a \in Seq(Entry) /\ Len(a) = IF 1 <= j - 1 THEN (j - 1) - 1 + 1 ELSE 0
          /\ \A x \in 1 .. (j - 1) - 1 + 1 : a[x] = list[1 + x - 1]
      BY <3>1, SubSeqProperties
    <3>3. /\ b \in Seq(Entry) /\ Len(b) = IF j + 1 <= len THEN len - (j + 1) + 1 ELSE 0
          /\ \A x \in 1 .. len - (j + 1) + 1 : b[x] = list[(j + 1) + x - 1]
      BY <3>1, SubSeqProperties
    <3> HIDE DEF a, b, len
    <3>4. /\ Len(a) = j - 1 /\ Len(b) = len - j
          /\ (j - 1) - 1 + 1 = j - 1 /\ len - (j + 1) + 1 = len - j
      <4>1. len \in Nat /\ j \in 1 .. len
        BY <1>1
      <4>2. /\ (j - 1) - 1 + 1 = j - 1 /\ len - (j + 1) + 1 = len - j
            /\ (IF 1 <= j - 1 THEN (j - 1) - 1 + 1 ELSE 0) = j - 1
            /\ (IF j + 1 <= len THEN len - (j + 1) + 1 ELSE 0) = len - j
        BY <4>1
      <4>3. /\ Len(a) = IF 1 <= j - 1 THEN (j - 1) - 1 + 1 ELSE 0
            /\ Len(b) = IF j + 1 <= len THEN len - (j + 1) + 1 ELSE 0
        BY <3>2, <3>3
      <4> QED BY <4>2, <4>3, Zenon
    <3>5. /\ \A x \in 1 .. j - 1 : 1 + x - 1 = x
          /\ \A x \in 1 .. len - j : (j + 1) + x - 1 = j + x
      BY <1>1
    <3> QED BY <3>2, <3>3, <3>4, <3>5
  <2>2. less = a \o b
    BY DEF RemoveAt
  <2> HIDE DEF a, b, less, len
  <2>3. /\ less \in Seq(Entry) /\ Len(less) = Len(a) + Len(b)
        /\ \A x \in 1 .. Len(a) + Len(b) :
             less[x] = IF x <= Len(a) THEN a[x] ELSE b[x - Len(a)]
    <3>1. /\ a \o b \in Seq(Entry) /\ Len(a \o b) = Len(a) + Len(b)
          /\ \A x \in 1 .. Len(a) + Len(b) :
               (a \o b)[x] = IF x <= Len(a) THEN a[x] ELSE b[x - Len(a)]
      BY <2>1, ConcatProperties
    <3> QED BY <2>2, <3>1
  <2>4. /\ Len(less) = len - 1
        /\ \A x \in 1 .. len - 1 : less[x] = IF x <= j - 1 THEN a[x] ELSE b[x - (j - 1)]
    <3>1. Len(a) + Len(b) = len - 1
      BY <1>1, <2>1
    <3> QED BY <2>1, <2>3, <3>1
  <2>5. ASSUME NEW x \in 1 .. len - 1 PROVE less[x] = list[h[x]]
    <3>1. CASE x < j
      BY <1>1, <2>1, <2>4, <3>1
    <3>2. CASE ~ (x < j)
      <4>1. x - (j - 1) \in 1 .. len - j /\ j + (x - (j - 1)) = x + 1 /\ ~ (x <= j - 1)
        BY <1>1, <3>2
      <4>2. less[x] = list[x + 1]
        BY <2>1, <2>4, <4>1
      <4> QED BY <3>2, <4>2
    <3> QED BY <3>1, <3>2
  <2> QED BY <1>1, <2>3, <2>4, <2>5
<1> HIDE DEF less, len
<1>3. h \in [1 .. len - 1 -> D] /\ \A x, y \in 1 .. len - 1 : x < y => h[x] < h[y]
  BY <1>1
<1>4. ASSUME NEW y \in D, y # j
      PROVE  \E x \in 1 .. len - 1 : h[x] = y
  <2>1. CASE y < j
    BY <1>1, <2>1
  <2>2. CASE y > j
    <3>1. y - 1 \in 1 .. len - 1 /\ ~ (y - 1 < j) /\ y - 1 + 1 = y
      BY <1>1, <2>2
    <3> QED BY <3>1
  <2> QED BY <1>1, <1>4, <2>1, <2>2
<1>5. \A u \in Nat : ~ (u < final[j])
  OBVIOUS
<1> HIDE DEF h, D
<1>6. ASSUME NEW y \in D, NEW u \in Nat, u < final[y], Admits(list[y], u)
      PROVE  \E x \in 1 .. len - 1 : h[x] = y /\ Admits(less[x], u)
  <2>1. PICK x \in 1 .. len - 1 : h[x] = y
    BY <1>4, <1>5, <1>6
  <2> QED BY <1>2, <1>6, <2>1
<1>7. Reduces(list, less, h, final)
  <2>1. /\ DOMAIN less = 1 .. len - 1
        /\ h \in [1 .. len - 1 -> D] /\ \A x, y \in 1 .. len - 1 : x < y => h[x] < h[y]
        /\ \A x \in 1 .. len - 1 : less[x] = list[h[x]]
    BY <1>2, <1>3
  <2>2. \A y \in D, u \in Nat : u < final[y] /\ Admits(list[y], u) =>
          \E x \in 1 .. len - 1 : h[x] = y /\ Admits(less[x], u)
    BY <1>6
  <2>3. /\ \A x \in 1 .. len - 1, k \in Key : Matches(less[x], k) <=> Matches(list[h[x]], k)
        /\ \A x \in 1 .. len - 1, u \in Nat : Admits(less[x], u) => Admits(list[h[x]], u)
    BY <2>1
  <2> QED BY <2>1, <2>2, <2>3, Zenon DEF Reduces, D
<1> QED BY <1>2, <1>7 DEF less, h, len

\* "so stale suppressions get cleaned up": what is reported as unmatched can go,
\* or have its count lowered to what it matched, and nothing else changes.
THEOREM UnmatchedCanGo == Spec => []StaleEntriesAreIdle
<1>1. FilterInv => StaleEntriesAreIdle
  <2> SUFFICES ASSUME FilterInv, Closed, NEW j \in unmatched
               PROVE  Linear(Without(j)) = Linear(entries)
    BY DEF StaleEntriesAreIdle
  <2>1. /\ entries \in Seq(Entry) /\ report \in Seq(Finding)
        /\ matched \in [DOMAIN entries -> Nat]
        /\ matched = Left(entries, Seen)[Len(report)].used
        /\ j \in DOMAIN entries /\ TooFew(j)
    BY DEF FilterInv, FilterTyped, LikeScan
  <2>2. Seen \in Seq(Tagged) /\ Len(Seen) = Len(report)
    BY <2>1, SeenIs
  <2>3. ASSUME NEW less \in Seq(Entry), NEW h, Reduces(entries, less, h, matched)
        PROVE  Linear(less) = Linear(entries)
    BY <2>1, <2>2, <2>3, ReducedLeft DEF Linear
  <2>4. CASE matched[j] = 0
    BY <2>1, <2>3, <2>4, RemovedReduces DEF Without
  <2>5. CASE matched[j] # 0
    <3>1. entries[j].count # None /\ matched[j] < entries[j].count
      BY <2>1, <2>5 DEF TooFew
    <3>2. entries[j].count \in Nat
      BY <2>1, <3>1 DEF Entry
    <3> QED BY <2>1, <2>3, <2>5, <3>1, <3>2, LoweredReduces DEF Without
  <2> QED BY <2>4, <2>5
<1> QED BY <1>1, FilterInvariant, PTL

-----------------------------------------------------------------------------
\* A baseline.  What the entry of a key matches.
LEMMA EntryCovers ==
    ASSUME NEW k \in Key, NEW l \in Key
    PROVE  Matches(EntryFor(k), l) <=> Covers(k, l)
<1> DEFINE e == EntryFor(k)
           p == [glob |-> FALSE, segments |-> Keys[k].path]
<1>1. /\ e.messages = {Keys[k].message} /\ e.raw = {}
      /\ e.ids = {Keys[k].id} \ {None} /\ e.paths = {p}
  BY DEF EntryFor
<1> HIDE DEF e, p
<1>2. (e.paths # {} => \E x \in e.paths : PathMatches(x, Keys[l].path))
        <=> PathMatches(p, Keys[l].path)
  BY <1>1
<1>3. (e.ids # {} => Keys[l].id \in e.ids) <=> Keys[k].id \in {None, Keys[l].id}
  BY <1>1
<1>4. (e.messages # {} => Keys[l].message \in e.messages) <=> Keys[k].message = Keys[l].message
  BY <1>1
<1>5. e.raw = {}
  BY <1>1
<1> QED BY <1>2, <1>3, <1>4, <1>5 DEF Matches, Covers, e, p

LEMMA CoversItself ==
    ASSUME NEW k \in Key
    PROVE  Covers(k, k)
<1> DEFINE path == Keys[k].path
           p == [glob |-> FALSE, segments |-> path]
<1>1. Len(path) \in Nat
  BY SuppressAssumption DEF Path
<1> HIDE DEF path
<1>2. IsPrefix(path, path)
  BY <1>1 DEF IsPrefix
<1>3. PathMatches(p, path)
  BY <1>2 DEF PathMatches
<1> QED BY <1>3 DEF Covers, path

\* How often a key is in a list.
Num(s, k) == Cardinality({p \in DOMAIN s : s[p] = k})

LEMMA NumIs ==
    ASSUME NEW s \in Seq(Key), NEW k
    PROVE  /\ IsFiniteSet({p \in DOMAIN s : s[p] = k}) /\ Num(s, k) \in Nat
           /\ Num(s, k) = 0 <=> k \notin ToSet(s)
<1> DEFINE S == {p \in DOMAIN s : s[p] = k}
<1>1. DOMAIN s = 1 .. Len(s) /\ Len(s) \in Nat
  OBVIOUS
<1>2. IsFiniteSet(1 .. Len(s))
  BY <1>1, FS_Interval
<1>3. S \subseteq 1 .. Len(s)
  BY <1>1
<1>4. S = {} <=> k \notin ToSet(s)
  BY DEF ToSet
<1> HIDE DEF S
<1>5. IsFiniteSet(S)
  BY <1>2, <1>3, FS_Subset
<1>6. Cardinality(S) \in Nat /\ (Cardinality(S) = 0 <=> S = {})
  BY <1>5, FS_CardinalityType, FS_EmptySet
<1> QED BY <1>4, <1>5, <1>6 DEF Num, S

LEMMA NumAppend ==
    ASSUME NEW s \in Seq(Key), NEW k \in Key, NEW l
    PROVE  Num(Append(s, k), l) = IF k = l THEN Num(s, l) + 1 ELSE Num(s, l)
<1> DEFINE t == Append(s, k)
           S == {p \in DOMAIN s : s[p] = l}
           T == {p \in DOMAIN t : t[p] = l}
           n1 == Len(s) + 1
<1>1. /\ DOMAIN s = 1 .. Len(s) /\ Len(s) \in Nat /\ DOMAIN t = 1 .. n1
      /\ t[n1] = k /\ \A p \in 1 .. Len(s) : t[p] = s[p]
  OBVIOUS
<1>2. n1 \notin S
  BY <1>1
<1>3. \A p : p \in 1 .. n1 <=> (p \in 1 .. Len(s) \/ p = n1)
  BY <1>1
<1> HIDE DEF t, n1
<1>4. T = IF k = l THEN S \cup {n1} ELSE S
  BY <1>1, <1>3
<1>5. IsFiniteSet(S) /\ Num(s, l) = Cardinality(S)
  BY NumIs DEF Num
<1> HIDE DEF S, T
<1>6. Cardinality(S \cup {n1}) = Cardinality(S) + 1
  BY <1>2, <1>5, FS_AddElement
<1> QED BY <1>4, <1>5, <1>6 DEF Num, T, t

LEMMA NumConcat ==
    ASSUME NEW s \in Seq(Key), NEW t \in Seq(Key), NEW k
    PROVE  Num(s, k) <= Num(s \o t, k)
<1> DEFINE S == {p \in DOMAIN s : s[p] = k}
           T == {p \in DOMAIN (s \o t) : (s \o t)[p] = k}
<1>1. s \o t \in Seq(Key) /\ Len(s) \in Nat /\ Len(t) \in Nat /\ Len(s \o t) = Len(s) + Len(t)
      /\ \A p \in 1 .. Len(s) : (s \o t)[p] = s[p]
  BY ConcatProperties
<1>2. DOMAIN s = 1 .. Len(s) /\ DOMAIN (s \o t) = 1 .. Len(s) + Len(t)
  BY <1>1
<1>3. S \subseteq T
  BY <1>1, <1>2
<1>4. IsFiniteSet(T) /\ Num(s \o t, k) = Cardinality(T) /\ Num(s, k) = Cardinality(S)
  BY <1>1, NumIs DEF Num
<1> HIDE DEF S, T
<1> QED BY <1>3, <1>4, FS_Subset

\* What grows with every step has grown between any two.
LEMMA Grows ==
    ASSUME NEW N \in Nat, NEW f, \A q \in 0 .. N : f[q] \in Nat,
           \A q \in 1 .. N : f[q - 1] <= f[q]
    PROVE  \A a, b \in 0 .. N : a <= b => f[a] <= f[b]
<1> DEFINE bad == {d \in 0 .. N : \E a \in 0 .. N : a + d \in 0 .. N /\ ~ (f[a] <= f[a + d])}
<1>1. bad = {}
  <2> SUFFICES ASSUME bad # {} PROVE FALSE
    OBVIOUS
  <2>1. bad \in SUBSET Nat
    OBVIOUS
  <2>2. PICK d \in bad : \A x \in bad : d <= x
    BY <2>1, NatLeast
  <2>3. PICK a \in 0 .. N : a + d \in 0 .. N /\ ~ (f[a] <= f[a + d])
    BY <2>2
  <2>4. d \in Nat /\ d # 0
    <3>1. f[a] \in Nat /\ a + 0 = a
      BY <2>3
    <3> QED BY <2>1, <2>3, <3>1
  <2>5. /\ d - 1 \in 0 .. N /\ ~ (d <= d - 1) /\ a + (d - 1) \in 0 .. N
        /\ a + d \in 1 .. N /\ (a + d) - 1 = a + (d - 1)
    BY <2>2, <2>3, <2>4
  <2>6. f[a] <= f[a + (d - 1)]
    BY <2>2, <2>3, <2>5
  <2>7. f[a + (d - 1)] <= f[a + d]
    BY <2>5
  <2>8. f[a] \in Nat /\ f[a + (d - 1)] \in Nat /\ f[a + d] \in Nat
    BY <2>3, <2>5
  <2> QED BY <2>3, <2>6, <2>7, <2>8
<1> SUFFICES ASSUME NEW a \in 0 .. N, NEW b \in 0 .. N, a <= b PROVE f[a] <= f[b]
  OBVIOUS
<1>2. b - a \in 0 .. N /\ a + (b - a) = b
  OBVIOUS
<1> QED BY <1>1, <1>2

\* What a finding does to a linear scan.
Outcome(list, left, f, q) ==
    /\ q \in State(list)
    /\ f.marked => q.kept = left.kept /\ q.used = left.used
    /\ ~f.marked /\ Takes(list, left.used, f.key) # {} =>
         /\ q.kept = left.kept
         /\ Min(Takes(list, left.used, f.key)) \in Takes(list, left.used, f.key)
         /\ \A j \in Takes(list, left.used, f.key) : Min(Takes(list, left.used, f.key)) <= j
         /\ \A j \in DOMAIN list :
              q.used[j] = IF j = Min(Takes(list, left.used, f.key))
                          THEN left.used[j] + 1 ELSE left.used[j]
    /\ ~f.marked /\ Takes(list, left.used, f.key) = {} =>
         q.kept = Append(left.kept, f.key) /\ q.used = left.used

LEMMA PassCases ==
    ASSUME NEW list \in Seq(Entry), NEW left \in State(list), NEW f \in Tagged
    PROVE  Outcome(list, left, f, Pass(list, left, f))
<1> DEFINE K == left.kept
           U == left.used
           k == f.key
           marked == f.marked
           T == Takes(list, U, k)
           q == Pass(list, left, f)
<1>1. q \in State(list)
  BY PassTyped
<1>2. U \in [DOMAIN list -> Nat] /\ marked \in BOOLEAN
  BY DEF State, Tagged
<1>3. q = After(list, K, U, k, marked)
  BY PassAfter
<1>4. T # {} => Min(T) \in T /\ \A j \in T : Min(T) <= j
  BY TakesTyped, MinOf
<1> HIDE DEF q, T, K, U, k, marked
<1>5. /\ marked => q = [kept |-> K, used |-> U]
      /\ ~marked /\ T # {} => q = [kept |-> K, used |-> [U EXCEPT ![Min(T)] = U[Min(T)] + 1]]
      /\ ~marked /\ T = {} => q = [kept |-> Append(K, k), used |-> U]
  BY <1>2, <1>3, PassIs DEF T
<1>6. ASSUME ~marked, T # {}
      PROVE  q.kept = K /\ \A j \in DOMAIN list :
               q.used[j] = IF j = Min(T) THEN U[j] + 1 ELSE U[j]
  <2> DEFINE m == Min(T)
             one == [U EXCEPT ![m] = U[m] + 1]
  <2>1. q = [kept |-> K, used |-> one]
    BY <1>5, <1>6
  <2>2. \A j \in DOMAIN list : one[j] = IF j = m THEN U[j] + 1 ELSE U[j]
    BY <1>2
  <2> HIDE DEF one, m
  <2>3. q.kept = K /\ q.used = one
    BY <2>1
  <2> QED BY <2>2, <2>3 DEF m
<1>7. marked => q.kept = K /\ q.used = U
  BY <1>5
<1>8. ~marked /\ T = {} => q.kept = Append(K, k) /\ q.used = U
  BY <1>5
<1>9. /\ ~marked /\ T # {} => Min(T) \in T /\ \A j \in T : Min(T) <= j
      /\ ~marked /\ T # {} => q.kept = K /\ \A j \in DOMAIN list :
           q.used[j] = IF j = Min(T) THEN U[j] + 1 ELSE U[j]
  BY <1>4, <1>6
<1> QED BY <1>1, <1>7, <1>8, <1>9 DEF Outcome, T, K, U, k, marked, q

\* A list of entries that begins with another one and goes on with the entries of
\* some keys, in their order.
Ascending(keys) == \A x, y \in DOMAIN keys : x < y => keys[x] < keys[y]
Extends(list, base, keys) ==
    /\ DOMAIN list = 1 .. Len(base) + Len(keys)
    /\ \A j \in DOMAIN base : list[j] = base[j]
    /\ \A x \in DOMAIN keys :
         /\ list[Len(base) + x].count \in Nat
         /\ \A l \in Key : Matches(list[Len(base) + x], l) <=> Covers(keys[x], l)

\* An entry of the base has been used no more than in a scan of the base.
Behind(base, left, right) == \A j \in DOMAIN base : right.used[j] <= left.used[j]

\* What the base does not take has an entry of its key with room.
HasEntry(list, base, keys, left, right, f) ==
    ~f.marked /\ Takes(base, left.used, f.key) = {} =>
      \E x \in DOMAIN keys : /\ keys[x] = f.key
                             /\ right.used[Len(base) + x] < list[Len(base) + x].count

\* In a longer list, an entry of the base takes what it takes in the base, or it
\* has been used less.
LEMMA TakesMore ==
    ASSUME NEW base \in Seq(Entry), NEW list \in Seq(Entry), NEW keys \in Seq(Key),
           Extends(list, base, keys), NEW k \in Key,
           NEW U \in [DOMAIN base -> Nat], NEW V \in [DOMAIN list -> Nat],
           \A j \in DOMAIN base : V[j] <= U[j]
    PROVE  /\ Takes(base, U, k) \subseteq Takes(list, V, k)
           /\ \A j \in DOMAIN base :
                j \in Takes(list, V, k) => j \in Takes(base, U, k) \/ V[j] < U[j]
<1> DEFINE S == Takes(base, U, k)
           T == Takes(list, V, k)
           D == DOMAIN base
           E == DOMAIN list
<1>1. /\ \A j : j \in S <=> j \in D /\ Matches(base[j], k) /\ Admits(base[j], U[j])
      /\ \A j : j \in T <=> j \in E /\ Matches(list[j], k) /\ Admits(list[j], V[j])
  BY DEF Takes, Admits
<1>2. D \subseteq E /\ \A j \in D : list[j] = base[j]
  <2>1. D = 1 .. Len(base) /\ Len(base) \in Nat /\ Len(keys) \in Nat
    OBVIOUS
  <2> QED BY <2>1 DEF Extends
<1>3. \A j \in D : base[j] \in Entry
  OBVIOUS
<1> HIDE DEF S, T, D, E
<1>4. ASSUME NEW j \in D
      PROVE  /\ Admits(base[j], U[j]) => Admits(base[j], V[j])
             /\ Admits(base[j], V[j]) => Admits(base[j], U[j]) \/ V[j] < U[j]
  <2> DEFINE c == base[j].count
             u == U[j]
             v == V[j]
  <2>1. c \in Nat \cup {None}
    BY <1>3 DEF Entry
  <2>2. u \in Nat /\ v \in Nat /\ v <= u
    BY DEF D, E, Extends
  <2> HIDE DEF c, u, v
  <2>3. /\ c = None \/ u < c => c = None \/ v < c
        /\ c = None \/ v < c => (c = None \/ u < c) \/ v < u
    BY <2>1, <2>2
  <2> QED BY <2>3 DEF Admits, c, u, v
<1> QED BY <1>1, <1>2, <1>4 DEF S, T, D

\* What the scans of the two lists make of a finding.
Spends(base, keys, left, right, f, a, b) ==
    /\ b.kept = <<>>
    /\ Behind(base, a, b)
    /\ \A z \in DOMAIN keys :
         \/ b.used[Len(base) + z] = right.used[Len(base) + z]
         \/ /\ b.used[Len(base) + z] = right.used[Len(base) + z] + 1
            /\ ~f.marked /\ Takes(base, left.used, f.key) = {}
            /\ Covers(keys[z], f.key) /\ keys[z] <= f.key

\* One finding of the second run, and the same one in the first run: what the first
\* run kept finds an entry of its key with room.
LEMMA RerunPass ==
    ASSUME NEW base \in Seq(Entry), NEW list \in Seq(Entry), NEW keys \in Seq(Key),
           Extends(list, base, keys), Ascending(keys),
           NEW left \in State(base), NEW right \in State(list), NEW f \in Tagged,
           right.kept = <<>>, Behind(base, left, right),
           HasEntry(list, base, keys, left, right, f)
    PROVE  Spends(base, keys, left, right, f, Pass(base, left, f), Pass(list, right, f))
<1> DEFINE U == left.used
           V == right.used
           k == f.key
           marked == f.marked
           D == DOMAIN base
           len == Len(base)
           S == Takes(base, U, k)
           T == Takes(list, V, k)
           a == Pass(base, left, f)
           b == Pass(list, right, f)
           A == a.used
           B == b.used
           m == Min(T)
<1>1. /\ U \in [D -> Nat] /\ V \in [DOMAIN list -> Nat] /\ k \in Key /\ marked \in BOOLEAN
      /\ \A j \in D : V[j] <= U[j]
  BY DEF State, Tagged, Behind
<1>2. /\ len \in Nat /\ Len(keys) \in Nat /\ D = 1 .. len /\ DOMAIN keys = 1 .. Len(keys)
      /\ DOMAIN list = 1 .. len + Len(keys)
  BY DEF Extends
<1>3. /\ S \subseteq T
      /\ \A j \in D : j \in T => j \in S \/ V[j] < U[j]
  <2>1. U \in [DOMAIN base -> Nat] /\ V \in [DOMAIN list -> Nat] /\ k \in Key
        /\ \A j \in DOMAIN base : V[j] <= U[j]
    BY <1>1
  <2> HIDE DEF U, V, k
  <2> QED BY <2>1, TakesMore
<1>4. /\ marked => A = U
      /\ ~marked /\ S # {} =>
           /\ Min(S) \in S /\ \A j \in S : Min(S) <= j
           /\ \A j \in D : A[j] = IF j = Min(S) THEN U[j] + 1 ELSE U[j]
      /\ ~marked /\ S = {} => A = U
  <2>1. Outcome(base, left, f, a)
    BY PassCases
  <2> HIDE DEF a
  <2> QED BY <2>1 DEF Outcome
<1>5. /\ marked => b.kept = right.kept /\ B = V
      /\ ~marked /\ T # {} =>
           /\ b.kept = right.kept
           /\ m \in T /\ \A j \in T : m <= j
           /\ \A j \in DOMAIN list : B[j] = IF j = m THEN V[j] + 1 ELSE V[j]
  <2>1. Outcome(list, right, f, b)
    BY PassCases
  <2> HIDE DEF b
  <2> QED BY <2>1 DEF Outcome
<1>6. S \subseteq D /\ T \subseteq DOMAIN list
  BY DEF Takes
<1>7. ~marked /\ S = {} => \E x \in DOMAIN keys : keys[x] = k /\ len + x \in T
  <2> SUFFICES ASSUME ~marked, S = {}
               PROVE  \E x \in DOMAIN keys : keys[x] = k /\ len + x \in T
    OBVIOUS
  <2>1. PICK x \in DOMAIN keys : keys[x] = k /\ V[len + x] < list[len + x].count
    BY DEF HasEntry
  <2>2. Matches(list[len + x], k)
    BY <1>1, <2>1, CoversItself DEF Extends
  <2>3. len + x \in DOMAIN list
    BY <1>2
  <2>4. len + x \in T
    BY <2>1, <2>2, <2>3 DEF Takes
  <2> QED BY <2>1, <2>4
<1>8. ~marked => T # {}
  BY <1>3, <1>7
<1>9. \A z \in DOMAIN keys : len + z \in T => Covers(keys[z], k)
  BY <1>1 DEF Takes, Extends
<1>10. \A x, y \in DOMAIN keys : x < y => keys[x] < keys[y]
  BY DEF Ascending
<1>11. \A x \in DOMAIN keys : keys[x] \in Nat
  BY SuppressAssumption
<1>12. k \in Nat
  BY <1>1, SuppressAssumption
<1>13. right.kept = <<>>
  OBVIOUS
<1> HIDE DEF U, V, k, marked, D, len, S, T, a, b, A, B, m
<1>14. b.kept = <<>>
  BY <1>1, <1>5, <1>8, <1>13
<1>15. ASSUME NEW j \in D
       PROVE  B[j] <= A[j]
  <2>0. j \in 1 .. len /\ j \in 1 .. len + Len(keys)
    BY <1>2
  <2>1. U[j] \in Nat /\ V[j] \in Nat /\ V[j] <= U[j] /\ j \in DOMAIN list /\ j \in Nat
    <3>1. j \in DOMAIN list /\ j \in Nat
      BY <1>2, <2>0
    <3> QED BY <1>1, <3>1
  <2>2. CASE marked
    BY <1>4, <1>5, <2>1, <2>2
  <2>3. CASE ~marked
    <3>1. /\ m \in T /\ \A y \in T : m <= y
          /\ B[j] = IF j = m THEN V[j] + 1 ELSE V[j]
      BY <1>5, <1>8, <2>1, <2>3
    <3>2. A[j] >= U[j] /\ A[j] \in Nat
      BY <1>4, <2>1, <2>3
    <3>3. CASE j # m
      BY <2>1, <3>1, <3>2, <3>3
    <3>4. CASE j = m /\ j \in S
      <4>1. Min(S) \in S /\ Min(S) <= j /\ A[j] = IF j = Min(S) THEN U[j] + 1 ELSE U[j]
        BY <1>4, <2>3, <3>4
      <4>2. Min(S) \in T /\ Min(S) \in Nat
        BY <1>2, <1>3, <1>6, <4>1
      <4>3. j <= Min(S)
        BY <3>1, <3>4, <4>2
      <4>4. j = Min(S)
        BY <2>1, <4>1, <4>2, <4>3
      <4> QED BY <2>1, <3>1, <3>4, <4>1, <4>4
    <3>5. CASE j = m /\ j \notin S
      <4>1. V[j] < U[j] /\ B[j] = V[j] + 1
        BY <1>3, <3>1, <3>5
      <4> QED BY <2>1, <3>2, <4>1
    <3> QED BY <3>3, <3>4, <3>5
  <2> QED BY <2>2, <2>3
<1>16. ASSUME NEW z \in DOMAIN keys
       PROVE  \/ B[len + z] = V[len + z]
              \/ /\ B[len + z] = V[len + z] + 1
                 /\ ~marked /\ S = {} /\ Covers(keys[z], k) /\ keys[z] <= k
  <2>1. len + z \in DOMAIN list /\ len + z \in Nat /\ z \in Nat
    BY <1>2
  <2>2. CASE marked
    BY <1>5, <2>2
  <2>3. CASE ~marked /\ len + z # m
    BY <1>5, <1>8, <2>1, <2>3
  <2>4. CASE ~marked /\ len + z = m
    <3>1. /\ len + z \in T /\ \A y \in T : len + z <= y
          /\ B[len + z] = V[len + z] + 1
      BY <1>5, <1>8, <2>1, <2>4
    <3>2. S = {}
      <4> SUFFICES ASSUME NEW y \in S PROVE FALSE
        OBVIOUS
      <4>1. y \in 1 .. len /\ len + z <= y
        BY <1>2, <1>3, <1>6, <3>1
      <4>2. z >= 1
        BY <1>2
      <4> QED BY <1>2, <2>1, <4>1, <4>2
    <3>3. PICK x \in DOMAIN keys : keys[x] = k /\ len + x \in T
      BY <1>7, <2>4, <3>2
    <3>4. z <= x
      <4>1. len + z <= len + x /\ x \in Nat
        BY <1>2, <3>1, <3>3
      <4> QED BY <1>2, <2>1, <4>1
    <3>5. keys[z] <= k
      <4>1. CASE z = x
        BY <1>12, <3>3, <4>1
      <4>2. CASE z # x
        <5>1. z < x
          BY <1>2, <3>4, <4>2
        <5>2. keys[z] < keys[x]
          BY <1>10, <5>1
        <5> QED BY <1>11, <1>12, <3>3, <5>2
      <4> QED BY <4>1, <4>2
    <3>6. Covers(keys[z], k)
      BY <1>9, <3>1
    <3> QED BY <2>4, <3>1, <3>2, <3>5, <3>6
  <2> QED BY <1>1, <2>2, <2>3, <2>4
<1>17. Behind(base, a, b)
  BY <1>15 DEF Behind, A, B, D
<1> QED BY <1>14, <1>16, <1>17 DEF Spends, U, V, k, marked, len, S, A, B, a, b

\* What a scan has kept and used only grows.
LEMMA ScanGrows ==
    ASSUME NEW base \in Seq(Entry), NEW found \in Seq(Tagged)
    PROVE  \A a, b \in 0 .. Len(found) : a <= b =>
             /\ \A j \in DOMAIN base :
                  Left(base, found)[a].used[j] <= Left(base, found)[b].used[j]
             /\ \A k \in Key :
                  Num(Left(base, found)[a].kept, k) <= Num(Left(base, found)[b].kept, k)
<1> DEFINE N == Len(found)
           L(p) == Left(base, found)[p]
<1>1. N \in Nat /\ \A p \in 1 .. N : found[p] \in Tagged /\ p - 1 \in 0 .. N
  OBVIOUS
<1>2. \A p \in 1 .. N : L(p) = Pass(base, L(p - 1), found[p])
  BY <1>1, LeftIs
<1>3. \A p \in 0 .. N : L(p) \in State(base)
  BY LeftTyped
<1> HIDE DEF L, N
<1>4. ASSUME NEW j \in DOMAIN base
      PROVE  \A a, b \in 0 .. N : a <= b => L(a).used[j] <= L(b).used[j]
  <2> DEFINE u == [p \in 0 .. N |-> L(p).used[j]]
  <2>1. \A p \in 0 .. N : u[p] \in Nat
    BY <1>3 DEF State
  <2>2. ASSUME NEW p \in 1 .. N PROVE u[p - 1] <= u[p]
    <3>1. L(p - 1).used[j] <= L(p).used[j]
      BY <1>1, <1>2, <1>3, PassTyped
    <3>2. p - 1 \in 0 .. N /\ p \in 0 .. N
      BY <1>1
    <3> QED BY <3>1, <3>2
  <2>3. \A p \in 0 .. N : u[p] = L(p).used[j]
    OBVIOUS
  <2> HIDE DEF u
  <2>4. \A a, b \in 0 .. N : a <= b => u[a] <= u[b]
    BY <1>1, <2>1, <2>2, Grows
  <2> QED BY <2>3, <2>4
<1>5. ASSUME NEW k \in Key
      PROVE  \A a, b \in 0 .. N : a <= b => Num(L(a).kept, k) <= Num(L(b).kept, k)
  <2> DEFINE u == [p \in 0 .. N |-> Num(L(p).kept, k)]
  <2>1. \A p \in 0 .. N : u[p] \in Nat
    <3>1. \A p \in 0 .. N : L(p).kept \in Seq(Key)
      BY <1>3 DEF State
    <3>2. \A p \in 0 .. N : Num(L(p).kept, k) \in Nat
      BY <3>1, NumIs
    <3> QED BY <3>2
  <2>2. ASSUME NEW p \in 1 .. N PROVE u[p - 1] <= u[p]
    <3>1. p - 1 \in 0 .. N /\ p \in 0 .. N /\ found[p] \in Tagged
      BY <1>1
    <3>2. L(p - 1) \in State(base) /\ L(p) = Pass(base, L(p - 1), found[p])
      BY <1>2, <1>3, <3>1
    <3>3. Outcome(base, L(p - 1), found[p], L(p))
      BY <3>1, <3>2, PassCases
    <3>4. L(p).kept = L(p - 1).kept \/ L(p).kept = Append(L(p - 1).kept, found[p].key)
      BY <3>1, <3>3 DEF Outcome, Tagged
    <3>5. L(p - 1).kept \in Seq(Key) /\ found[p].key \in Key
      BY <3>1, <3>2 DEF State, Tagged
    <3> DEFINE s == L(p - 1).kept
               t == L(p).kept
               l == found[p].key
    <3> HIDE DEF s, t, l
    <3>6. Num(s, k) \in Nat
      BY <3>5, NumIs DEF s
    <3>7. Num(Append(s, l), k) = IF l = k THEN Num(s, k) + 1 ELSE Num(s, k)
      BY <3>5, NumAppend DEF s, l
    <3>8. t = s \/ t = Append(s, l)
      BY <3>4 DEF s, t, l
    <3>9. Num(s, k) <= Num(t, k)
      <4>1. CASE t = s
        BY <3>6, <4>1
      <4>2. CASE t = Append(s, l)
        <5>1. Num(t, k) = Num(s, k) + 1 \/ Num(t, k) = Num(s, k)
          BY <3>7, <4>2
        <5> QED BY <3>6, <5>1
      <4> QED BY <3>8, <4>1, <4>2
    <3> QED BY <3>1, <3>9 DEF s, t
  <2>3. \A p \in 0 .. N : u[p] = Num(L(p).kept, k)
    OBVIOUS
  <2> HIDE DEF u
  <2>4. \A a, b \in 0 .. N : a <= b => u[a] <= u[b]
    BY <1>1, <2>1, <2>2, Grows
  <2> QED BY <2>3, <2>4
<1> QED BY <1>4, <1>5 DEF L, N

\* A finding that the entry of a lesser key matches comes after those of that key.
Ordered(found) ==
    \A p, q \in DOMAIN found :
        p < q /\ found[q].key < found[p].key => ~Covers(found[q].key, found[p].key)

\* Some of the findings.
Among(again, found, at) ==
    /\ at \in Increasing(Len(again), 1 .. Len(found))
    /\ \A p \in 1 .. Len(again) : again[p] = found[at[p]]

\* Every finding that is left has an entry with room for all of its key.
Enough(list, base, keys, left) ==
    \A k \in ToSet(left.kept) : \E x \in DOMAIN keys :
        keys[x] = k /\ Num(left.kept, k) <= list[Len(base) + x].count

\* What holds while what is left of the findings is scanned with a longer list.
Awaited(again, p, k) == \E o \in 1 .. Len(again) : p < o /\ again[o].key = k
Unspent(again, base, keys, p, left, right) ==
    \A z \in DOMAIN keys : Awaited(again, p, keys[z]) =>
        right.used[Len(base) + z] <= Num(left.kept, keys[z])

LEMMA NothingLeft ==
    ASSUME NEW base \in Seq(Entry), NEW list \in Seq(Entry), NEW keys \in Seq(Key),
           Extends(list, base, keys), Ascending(keys),
           NEW found \in Seq(Tagged), Ordered(found),
           NEW again \in Seq(Tagged), NEW at, Among(again, found, at),
           Enough(list, base, keys, Left(base, found)[Len(found)])
    PROVE  Left(list, again)[Len(again)].kept = <<>>
<1> DEFINE N == Len(found)
           M == Len(again)
           L(q) == Left(base, found)[q]
           R(p) == Left(list, again)[p]
           Of(p) == IF p = 0 THEN 0 ELSE at[p]
           used(p, z) == R(p).used[Len(base) + z]
           num(q, k) == Num(L(q).kept, k)
           Sound(p) == /\ R(p).kept = <<>>
                       /\ Behind(base, L(Of(p)), R(p))
                       /\ Unspent(again, base, keys, p, L(Of(p)), R(p))
           bad == {p \in 0 .. M : ~ Sound(p)}
<1>1. /\ N \in Nat /\ M \in Nat /\ DOMAIN found = 1 .. N
      /\ \A q \in 1 .. N : found[q] \in Tagged
      /\ \A p \in 1 .. M : again[p] \in Tagged
      /\ Len(base) \in Nat
  OBVIOUS
<1>2. /\ L(0) = Start(base) /\ R(0) = Start(list)
      /\ \A q \in 1 .. N : L(q) = Pass(base, L(q - 1), found[q])
      /\ \A p \in 1 .. M : R(p) = Pass(list, R(p - 1), again[p])
  BY <1>1, LeftIs
<1>3. /\ \A q \in 0 .. N : L(q) \in State(base)
      /\ \A p \in 0 .. M : R(p) \in State(list)
  BY LeftTyped
<1>4. \A a, b \in 0 .. N : a <= b =>
        /\ \A j \in DOMAIN base : L(a).used[j] <= L(b).used[j]
        /\ \A k \in Key : num(a, k) <= num(b, k)
  BY ScanGrows
<1>5. /\ at \in [1 .. M -> 1 .. N]
      /\ \A p, q \in 1 .. M : p < q => at[p] < at[q]
      /\ \A p \in 1 .. M : again[p] = found[at[p]]
  BY DEF Among, Increasing
<1>6. Enough(list, base, keys, L(N))
  OBVIOUS
<1>7. /\ DOMAIN keys \subseteq Nat /\ \A z \in DOMAIN keys : keys[z] \in Key /\ keys[z] \in Nat
      /\ \A z \in DOMAIN keys : Len(base) + z \in DOMAIN list
      /\ DOMAIN base \subseteq DOMAIN list
  <2>1. DOMAIN base = 1 .. Len(base) /\ DOMAIN keys = 1 .. Len(keys) /\ Len(keys) \in Nat
    OBVIOUS
  <2>2. \A z \in DOMAIN keys : keys[z] \in Key /\ keys[z] \in Nat
    BY SuppressAssumption
  <2> QED BY <1>1, <2>1, <2>2 DEF Extends
<1>8. /\ \A q \in 0 .. N, k \in Key : num(q, k) \in Nat
      /\ \A p \in 0 .. M, z \in DOMAIN keys : used(p, z) \in Nat
      /\ \A q \in 0 .. N, j \in DOMAIN base : L(q).used[j] \in Nat
      /\ \A p \in 0 .. M, j \in DOMAIN base : R(p).used[j] \in Nat
      /\ \A z \in DOMAIN keys : list[Len(base) + z].count \in Nat
  <2>1. \A q \in 0 .. N, k \in Key : num(q, k) \in Nat
    BY <1>3, NumIs DEF State
  <2>2. /\ \A p \in 0 .. M, z \in DOMAIN keys : used(p, z) \in Nat
        /\ \A q \in 0 .. N, j \in DOMAIN base : L(q).used[j] \in Nat
        /\ \A p \in 0 .. M, j \in DOMAIN base : R(p).used[j] \in Nat
    BY <1>3, <1>7 DEF State
  <2>3. \A z \in DOMAIN keys : list[Len(base) + z].count \in Nat
    BY DEF Extends
  <2> QED BY <2>1, <2>2, <2>3
<1> HIDE DEF N, M, L, R, used, num
<1>9. Sound(0)
  <2>1. /\ L(0).kept = <<>> /\ R(0).kept = <<>>
        /\ \A j \in DOMAIN base : L(0).used[j] = 0
        /\ \A j \in DOMAIN list : R(0).used[j] = 0
    BY <1>2 DEF Start
  <2>2. Behind(base, L(0), R(0))
    BY <1>7, <2>1 DEF Behind
  <2>3. \A z \in DOMAIN keys : used(0, z) = 0 /\ num(0, keys[z]) \in Nat
    <3>1. 0 \in 0 .. N
      BY <1>1
    <3>2. \A z \in DOMAIN keys : num(0, keys[z]) \in Nat
      BY <1>7, <1>8, <3>1
    <3>3. \A z \in DOMAIN keys : used(0, z) = 0
      <4> TAKE z \in DOMAIN keys
      <4>1. Len(base) + z \in DOMAIN list
        BY <1>7
      <4>2. R(0).used[Len(base) + z] = 0
        BY <2>1, <4>1
      <4> QED BY <4>2 DEF used
    <3> QED BY <3>2, <3>3
  <2>4. Unspent(again, base, keys, 0, L(0), R(0))
    <3>1. \A z \in DOMAIN keys : used(0, z) <= num(0, keys[z])
      BY <2>3
    <3> QED BY <3>1 DEF Unspent, used, num
  <2> QED BY <2>1, <2>2, <2>4
<1>10. ASSUME NEW p \in 1 .. M, Sound(p - 1)
       PROVE  Sound(p)
  <2> DEFINE q == at[p]
             f == again[p]
             k == f.key
             c == Of(p - 1)
  <2>1. /\ p - 1 \in 0 .. M /\ p \in Nat /\ p \in 0 .. M /\ p # 0
        /\ q \in 1 .. N /\ q - 1 \in 0 .. N /\ q \in 0 .. N /\ q - 1 <= q /\ q <= N
        /\ N \in 0 .. N
    BY <1>1, <1>5
  <2>2. c \in 0 .. N /\ c <= q - 1
    <3>1. CASE p = 1
      BY <1>1, <2>1, <3>1
    <3>2. CASE p # 1
      <4>1. p - 1 \in 1 .. M /\ p - 1 < p /\ p - 1 # 0
        BY <1>1, <3>2
      <4>2. at[p - 1] < at[p] /\ at[p - 1] \in 1 .. N
        BY <1>5, <4>1
      <4> QED BY <1>1, <2>1, <4>1, <4>2
    <3> QED BY <3>1, <3>2
  <2>3. /\ f \in Tagged /\ f = found[q] /\ k \in Key /\ k \in Nat
        /\ L(q - 1) \in State(base) /\ R(p - 1) \in State(list)
        /\ L(q) = Pass(base, L(q - 1), f) /\ R(p) = Pass(list, R(p - 1), f)
    <3>1. f \in Tagged /\ f = found[q]
      BY <1>1, <1>5
    <3>2. k \in Key
      BY <3>1 DEF Tagged
    <3>3. k \in Nat
      BY <3>2, SuppressAssumption
    <3> QED BY <1>2, <1>3, <2>1, <3>1, <3>2, <3>3
  <2>4. /\ R(p - 1).kept = <<>>
        /\ Behind(base, L(c), R(p - 1))
        /\ \A z \in DOMAIN keys : Awaited(again, p - 1, keys[z]) =>
             used(p - 1, z) <= num(c, keys[z])
    BY <1>10 DEF Unspent, used, num
  <2>5. Of(p) = q
    BY <2>1
  <2>6. \A l \in Key : num(c, l) <= num(q - 1, l) /\ num(q - 1, l) <= num(q, l)
                      /\ num(q, l) <= num(N, l)
    BY <1>4, <2>1, <2>2
  <2>7. Behind(base, L(q - 1), R(p - 1))
    <3>1. ASSUME NEW j \in DOMAIN base
          PROVE  R(p - 1).used[j] <= L(q - 1).used[j]
      <4>1. R(p - 1).used[j] <= L(c).used[j] /\ L(c).used[j] <= L(q - 1).used[j]
        BY <1>4, <2>1, <2>2, <2>4 DEF Behind
      <4>2. R(p - 1).used[j] \in Nat /\ L(c).used[j] \in Nat /\ L(q - 1).used[j] \in Nat
        BY <1>8, <2>1, <2>2
      <4> QED BY <4>1, <4>2
    <3> QED BY <3>1 DEF Behind
  <2>8. ~f.marked /\ Takes(base, L(q - 1).used, k) = {} => num(q, k) = num(q - 1, k) + 1
    <3> SUFFICES ASSUME ~f.marked, Takes(base, L(q - 1).used, k) = {}
                 PROVE  num(q, k) = num(q - 1, k) + 1
      OBVIOUS
    <3>1. Outcome(base, L(q - 1), f, L(q))
      BY <2>3, PassCases
    <3>2. L(q).kept = Append(L(q - 1).kept, k)
      BY <3>1 DEF Outcome
    <3>3. L(q - 1).kept \in Seq(Key)
      BY <2>3 DEF State
    <3>4. Num(Append(L(q - 1).kept, k), k) = Num(L(q - 1).kept, k) + 1
      BY <2>3, <3>3, NumAppend
    <3> QED BY <3>2, <3>4 DEF num
  <2> HIDE DEF q, f, k, c
  <2>9. HasEntry(list, base, keys, L(q - 1), R(p - 1), f)
    <3> SUFFICES ASSUME ~f.marked, Takes(base, L(q - 1).used, k) = {}
                 PROVE  \E x \in DOMAIN keys :
                          keys[x] = k /\ used(p - 1, x) < list[Len(base) + x].count
      BY DEF HasEntry, k, used
    <3>1. num(q, k) = num(q - 1, k) + 1 /\ num(q, k) <= num(N, k)
          /\ num(q - 1, k) \in Nat /\ num(N, k) \in Nat
      BY <1>8, <2>1, <2>3, <2>6, <2>8
    <3>2. num(N, k) # 0
      BY <3>1
    <3>3. k \in ToSet(L(N).kept)
      <4>1. L(N).kept \in Seq(Key)
        BY <1>3, <2>1 DEF State
      <4> QED BY <3>2, <4>1, NumIs DEF num
    <3>4. PICK x \in DOMAIN keys : keys[x] = k /\ num(N, k) <= list[Len(base) + x].count
      BY <1>6, <3>3 DEF Enough, num
    <3>5. Awaited(again, p - 1, k)
      <4>1. p - 1 < p
        BY <2>1
      <4> QED BY <4>1 DEF Awaited, k, f, M
    <3>6. used(p - 1, x) <= num(c, k) /\ num(c, k) <= num(q - 1, k)
      BY <2>3, <2>4, <2>6, <3>4, <3>5
    <3>7. used(p - 1, x) \in Nat /\ num(c, k) \in Nat /\ list[Len(base) + x].count \in Nat
      BY <1>8, <2>1, <2>2, <2>3
    <3>8. used(p - 1, x) < list[Len(base) + x].count
      <4> DEFINE u == used(p - 1, x)
                 a == num(c, k)
                 b == num(q - 1, k)
                 d == num(q, k)
                 e == num(N, k)
                 o == list[Len(base) + x].count
      <4>1. /\ d = b + 1 /\ d <= e /\ e <= o /\ u <= a /\ a <= b
            /\ u \in Nat /\ a \in Nat /\ b \in Nat /\ e \in Nat /\ o \in Nat
        BY <3>1, <3>4, <3>6, <3>7
      <4> HIDE DEF u, a, b, d, e, o
      <4>2. u < o
        BY <4>1
      <4> QED BY <4>2 DEF u, o
    <3> QED BY <3>4, <3>8
  <2>10. /\ R(p).kept = <<>>
         /\ Behind(base, L(q), R(p))
         /\ \A z \in DOMAIN keys :
              \/ used(p, z) = used(p - 1, z)
              \/ /\ used(p, z) = used(p - 1, z) + 1
                 /\ ~f.marked /\ Takes(base, L(q - 1).used, k) = {}
                 /\ Covers(keys[z], k) /\ keys[z] <= k
    <3>1. Spends(base, keys, L(q - 1), R(p - 1), f, L(q), R(p))
      BY <2>3, <2>4, <2>7, <2>9, RerunPass
    <3> QED BY <3>1 DEF Spends, used, k
  <2>11. ASSUME NEW z \in DOMAIN keys, Awaited(again, p, keys[z])
         PROVE  used(p, z) <= num(q, keys[z])
    <3>1. PICK o \in 1 .. M : p < o /\ again[o].key = keys[z]
      BY <2>11 DEF Awaited, M
    <3>2. Awaited(again, p - 1, keys[z])
      <4>1. p - 1 < o
        BY <2>1, <3>1
      <4> QED BY <3>1, <4>1 DEF Awaited, M
    <3>3. used(p - 1, z) <= num(c, keys[z]) /\ num(c, keys[z]) <= num(q - 1, keys[z])
          /\ num(q - 1, keys[z]) <= num(q, keys[z])
      BY <1>7, <2>4, <2>6, <3>2
    <3>4. /\ used(p - 1, z) \in Nat /\ used(p, z) \in Nat /\ num(c, keys[z]) \in Nat
          /\ num(q - 1, keys[z]) \in Nat /\ num(q, keys[z]) \in Nat
          /\ keys[z] \in Nat
      BY <1>7, <1>8, <2>1, <2>2
    <3>5. CASE used(p, z) = used(p - 1, z)
      BY <3>3, <3>4, <3>5
    <3>6. CASE /\ used(p, z) = used(p - 1, z) + 1
               /\ ~f.marked /\ Takes(base, L(q - 1).used, k) = {}
               /\ Covers(keys[z], k) /\ keys[z] <= k
      <4>1. keys[z] = k
        <5> SUFFICES ASSUME keys[z] # k PROVE FALSE
          OBVIOUS
        <5>1. keys[z] < k
          BY <2>3, <3>4, <3>6
        <5>2. at[o] \in 1 .. N /\ q < at[o] /\ found[at[o]].key = keys[z]
          BY <1>5, <3>1 DEF q
        <5>3. found[q].key = k /\ q \in DOMAIN found /\ at[o] \in DOMAIN found
          BY <1>1, <2>1, <2>3, <5>2 DEF k
        <5>4. ~Covers(keys[z], k)
          BY <5>1, <5>2, <5>3 DEF Ordered
        <5> QED BY <3>6, <5>4
      <4>2. num(q, k) = num(q - 1, k) + 1
        BY <2>8, <3>6
      <4> QED BY <3>3, <3>4, <3>6, <4>1, <4>2
    <3> QED BY <2>10, <3>5, <3>6
  <2>12. Unspent(again, base, keys, p, L(q), R(p))
    BY <2>11 DEF Unspent, used, num
  <2> QED BY <2>5, <2>10, <2>12
<1> HIDE DEF Sound, Of
<1>11. bad = {}
  <2> SUFFICES ASSUME bad # {} PROVE FALSE
    OBVIOUS
  <2>1. bad \in SUBSET Nat
    BY <1>1
  <2>2. PICK p \in bad : \A o \in bad : p <= o
    BY <2>1, NatLeast
  <2>3. p \in 1 .. M
    BY <1>1, <1>9, <2>2
  <2>4. p - 1 \in 0 .. M /\ ~ (p <= p - 1)
    BY <1>1, <2>3
  <2>5. Sound(p - 1)
    BY <2>2, <2>4
  <2> QED BY <1>10, <2>2, <2>3, <2>5
<1>12. Sound(M)
  <2>1. M \in 0 .. M
    BY <1>1
  <2> QED BY <1>11, <2>1
<1> QED BY <1>12 DEF Sound, R, M

\* What a marker is meant to take, told from the source.
Meant(f) ==
    /\ Keys[f.key].path = Keys[Broken].path
    /\ f.line \in 1 .. Len(source) + 1
    /\ \E m \in 1 .. Len(source) : AppliesTo(m) = f.line /\ Ignores(m, Keys[f.key].id)
Meanings == [p \in DOMAIN report |-> [key |-> report[p].key, marked |-> Meant(report[p])]]

\* A later run: some of what an earlier one was given, and a baseline of all that
\* it left.
LaterRun ==
    \E base \in Seq(Entry), keys \in Seq(Key), found \in Seq(Tagged) : \E at :
        /\ Extends(entries, base, keys) /\ Ascending(keys)
        /\ Ordered(found)
        /\ Among(Meanings, found, at)
        /\ Enough(entries, base, keys, Left(base, found)[Len(found)])

RunInv ==
    /\ first \in Nat
    /\ pc \in {"match", "report", "done"} => i = Len(source) + 1
    /\ pc = "report" => ~(first <= Len(entries))
    /\ pc = "done" => first <= Len(entries)
    /\ IF first <= Len(entries) THEN LaterRun ELSE Ordered(report)

\* After the scan, what is marked is what is meant to be.
LEMMA SeenAsMeant ==
    ASSUME ScanInv, report \in Seq(Finding), i = Len(source) + 1
    PROVE  Seen = Meanings
<1>1. Len(source) \in Nat /\ DOMAIN map = 1 .. Len(source) + 1
  <2>1. source \in Seq(Marker) /\ map \in [1 .. Len(source) + 1 -> Ignored]
    BY DEF ScanInv, ScanTyped
  <2> QED BY <2>1
<1>2. Scanned = 1 .. Len(source)
  BY <1>1 DEF Scanned
<1>3. MarksExactly
  BY DEF ScanInv
<1>4. ASSUME NEW f PROVE Marked(f) = Meant(f)
  <2>1. CASE f.line \in DOMAIN map
    <3>1. Suppressed(f.line, Keys[f.key].id) <=>
            \E m \in Scanned : AppliesTo(m) = f.line /\ Ignores(m, Keys[f.key].id)
      BY <1>3, <2>1 DEF MarksExactly
    <3> QED BY <1>1, <1>2, <2>1, <3>1 DEF Marked, Meant
  <2>2. CASE f.line \notin DOMAIN map
    BY <1>1, <2>2 DEF Marked, Meant, Suppressed
  <2> QED BY <2>1, <2>2
<1> QED BY <1>4 DEF Seen, Meanings

LEMMA MeaningsTyped ==
    ASSUME report \in Seq(Finding)
    PROVE  /\ Meanings \in Seq(Tagged) /\ Len(Meanings) = Len(report)
           /\ DOMAIN Meanings = DOMAIN report
           /\ \A p \in DOMAIN report :
                Meanings[p] = [key |-> report[p].key, marked |-> Meant(report[p])]
<1> DEFINE len == Len(report)
<1>1. len \in Nat /\ DOMAIN report = 1 .. len /\ \A p \in 1 .. len : report[p] \in Finding
  OBVIOUS
<1> HIDE DEF len
<1>2. \A f : Meant(f) \in BOOLEAN
  BY DEF Meant
<1>3. Meanings \in [1 .. len -> Tagged]
  BY <1>1, <1>2 DEF Meanings, Tagged, Finding
<1>4. Meanings \in Seq(Tagged) /\ Len(Meanings) = len /\ DOMAIN Meanings = 1 .. len
  BY <1>1, <1>3
<1>5. \A p \in DOMAIN report :
        Meanings[p] = [key |-> report[p].key, marked |-> Meant(report[p])]
  BY DEF Meanings
<1> QED BY <1>1, <1>4, <1>5 DEF len

\* Repairing malformed markers changes nothing for the findings: they took none.
LEMMA RepairsTakeNothing ==
    ASSUME ScanInv, NEW ls \in SUBSET ToSet(errors), source' = Unmarked(ls)
    PROVE  \A f : Meant(f)' = Meant(f)
<1> DEFINE len == Len(source)
<1>1. source \in Seq(Marker) /\ len \in Nat /\ DOMAIN source = 1 .. len
      /\ \A l \in 1 .. len : source[l] \in Marker
  BY DEF ScanInv, ScanTyped
<1>2. \A l \in ls : IsStrict(l) /\ ~WellFormed(source[l].rest)
  BY DEF ScanInv, ErrorsAreMalformed
<1>3. source' \in Seq(Marker) /\ DOMAIN source' = 1 .. len
  <2>1. source' \in Seq(Marker)
    BY <1>1, UnmarkedTyped
  <2>2. DOMAIN source' = DOMAIN source
    BY DEF Unmarked
  <2> QED BY <1>1, <2>1, <2>2
<1>4. Len(source') = len
  BY <1>1, <1>3
<1>5. ASSUME NEW l \in 1 .. len
      PROVE  /\ source'[l].form = source[l].form /\ source'[l].trailing = source[l].trailing
             /\ l \notin ls => source'[l] = source[l]
             /\ l \in ls => source'[l].prefix = "none"
  BY <1>1 DEF Unmarked, Marker
<1>6. ASSUME NEW l \in 1 .. len, NEW id
      PROVE  AppliesTo(l)' = AppliesTo(l) /\ (Ignores(l, id)' <=> Ignores(l, id))
  <2>1. AppliesTo(l)' = AppliesTo(l)
    BY <1>5 DEF AppliesTo
  <2>2. CASE l \in ls
    <3>1. ~Ignores(l, id)'
      BY <1>5, <2>2 DEF Ignores
    <3>2. ~Ignores(l, id)
      BY <1>2, <2>2 DEF Ignores, IsStrict
    <3> QED BY <2>1, <3>1, <3>2
  <2>3. CASE l \notin ls
    BY <1>5, <2>1, <2>3 DEF Ignores, IsStrict
  <2> QED BY <2>2, <2>3
<1> QED BY <1>4, <1>6 DEF Meant

\* Numbers in increasing order, as many as there are, are all of them.
LEMMA AllAreListed ==
    ASSUME NEW S, IsFiniteSet(S), S \subseteq Nat,
           NEW keys \in Increasing(Cardinality(S), S)
    PROVE  /\ keys \in Seq(S) /\ Ascending(keys) /\ Len(keys) = Cardinality(S)
           /\ \A k \in S : \E x \in DOMAIN keys : keys[x] = k
<1> DEFINE c == Cardinality(S)
<1>1. c \in Nat
  BY FS_CardinalityType
<1>2. keys \in [1 .. c -> S] /\ \A p, q \in 1 .. c : p < q => keys[p] < keys[q]
  BY DEF Increasing
<1>3. Cardinality(1 .. c) = c
  BY <1>1, FS_Interval
<1> HIDE DEF c
<1>4. \A p, q \in 1 .. c : keys[p] = keys[q] => p = q
  <2> SUFFICES ASSUME NEW p \in 1 .. c, NEW q \in 1 .. c, keys[p] = keys[q], p # q
               PROVE  FALSE
    OBVIOUS
  <2>1. p < q \/ q < p
    BY <1>1
  <2>2. keys[p] \in Nat /\ keys[q] \in Nat
    BY <1>2
  <2> QED BY <1>2, <2>1, <2>2
<1>5. keys \in Injection(1 .. c, S)
  BY <1>2, <1>4 DEF Injection, IsInjective
<1>6. keys \in Surjection(1 .. c, S)
  BY <1>3, <1>5, FS_Injection DEF c
<1>7. \A k \in S : \E x \in 1 .. c : keys[x] = k
  BY <1>6 DEF Surjection
<1>8. keys \in Seq(S) /\ Len(keys) = c /\ DOMAIN keys = 1 .. c
  BY <1>1, <1>2
<1>9. Ascending(keys)
  BY <1>2, <1>8 DEF Ascending
<1> QED BY <1>7, <1>8, <1>9 DEF c

\* The run that has generated a baseline was an earlier run to the one that merges it.
LEMMA BaselineIsEnough ==
    ASSUME ScanInv, FilterInv, RunInv, GenerateAndRerun
    PROVE  RunInv'
<1> DEFINE S == ToSet(kept)
           c == Cardinality(S)
           len == Len(entries)
           last == Left(entries, Meanings)[Len(Meanings)]
<1>1. /\ pc = "report" /\ pc' = "scan" /\ first' = len + 1 /\ kept # <<>>
  BY DEF GenerateAndRerun, Rescan, AtLine
<1>2. /\ entries \in Seq(Entry) /\ report \in Seq(Finding) /\ kept \in Seq(Key)
      /\ kept = Linear(entries) \o MarkerErrors
  BY <1>1 DEF FilterInv, FilterTyped, LikeScan, Closed
<1>3. PICK keys \in Increasing(c, S) : entries' = entries \o Baseline(keys)
  BY DEF GenerateAndRerun
<1>4. PICK m \in 0 .. Len(report) :
        \E at \in Increasing(m, DOMAIN report) : report' = Staying(at)
  BY DEF GenerateAndRerun
<1>5. PICK at \in Increasing(m, DOMAIN report) : report' = Staying(at)
  BY <1>4
<1>6. PICK ls \in SUBSET ToSet(errors) : source' = Unmarked(ls)
  BY DEF GenerateAndRerun, Rescan
<1>7. len \in Nat /\ DOMAIN entries = 1 .. len /\ Len(report) \in Nat /\ m \in Nat
      /\ DOMAIN report = 1 .. Len(report)
  BY <1>2
<1>8. S \subseteq Key /\ S # {} /\ S \subseteq Nat /\ IsFiniteSet(S)
  <2>1. S \subseteq Key
    BY <1>2 DEF ToSet
  <2>2. IsFiniteSet(Key)
    <3>1. Key = 1 .. Len(Keys) /\ 1 \in Int /\ Len(Keys) \in Int
      BY SuppressAssumption
    <3> QED BY <3>1, FS_Interval
  <2>5. Key \subseteq Nat
    BY SuppressAssumption
  <2>3. kept[1] \in S
    <3>1. 1 \in DOMAIN kept
      BY <1>1, <1>2
    <3> QED BY <3>1 DEF ToSet
  <2> HIDE DEF S
  <2>4. IsFiniteSet(S)
    BY <2>1, <2>2, FS_Subset
  <2> QED BY <2>1, <2>3, <2>4, <2>5
<1> HIDE DEF S
<1>9. /\ keys \in Seq(S) /\ Ascending(keys) /\ Len(keys) = c
      /\ \A k \in S : \E x \in DOMAIN keys : keys[x] = k
  BY <1>3, <1>8, AllAreListed
<1>10. keys \in Seq(Key) /\ DOMAIN keys = 1 .. c /\ c \in Nat /\ c # 0
       /\ \A x \in 1 .. c : keys[x] \in Key
  <2>1. keys \in Seq(Key) /\ DOMAIN keys = 1 .. c /\ c \in Nat
    <3>1. DOMAIN keys = 1 .. c /\ c \in Nat /\ keys \in [1 .. c -> S]
      BY <1>9
    <3>2. keys \in [1 .. c -> Key]
      BY <1>8, <3>1
    <3> QED BY <3>1, <3>2
  <2>2. c # 0
    BY <1>8, FS_EmptySet
  <2> QED BY <2>1, <2>2
<1> HIDE DEF c, len
<1>11. /\ Baseline(keys) \in Seq(Entry) /\ Len(Baseline(keys)) = c
       /\ \A x \in 1 .. c : Baseline(keys)[x] = EntryFor(keys[x])
  <2>1. \A x \in 1 .. c : EntryFor(keys[x]) \in Entry
    BY <1>2, <1>10, EntryForTyped
  <2>2. Baseline(keys) \in [1 .. c -> Entry]
    BY <1>10, <2>1 DEF Baseline
  <2> QED BY <1>10, <2>2 DEF Baseline
<1>12. /\ entries' \in Seq(Entry) /\ Len(entries') = len + c
       /\ \A j \in 1 .. len : entries'[j] = entries[j]
       /\ \A x \in 1 .. c : entries'[len + x] = EntryFor(keys[x])
  <2> DEFINE b == Baseline(keys)
  <2>1. b \in Seq(Entry) /\ Len(b) = c /\ entries' = entries \o b
    BY <1>3, <1>11
  <2>2. \A x \in 1 .. c : b[x] = EntryFor(keys[x])
    BY <1>11
  <2> HIDE DEF b
  <2>3. /\ entries' \in Seq(Entry) /\ Len(entries') = len + c
        /\ \A j \in 1 .. len + c :
             entries'[j] = IF j <= len THEN entries[j] ELSE b[j - len]
    BY <1>2, <2>1, ConcatProperties DEF len
  <2>4. \A j \in 1 .. len : entries'[j] = entries[j]
    BY <1>7, <1>10, <2>3
  <2>5. ASSUME NEW x \in 1 .. c PROVE entries'[len + x] = EntryFor(keys[x])
    <3>1. len + x \in 1 .. len + c /\ ~ (len + x <= len) /\ (len + x) - len = x
      BY <1>7, <1>10
    <3> QED BY <2>2, <2>3, <3>1
  <2> QED BY <2>3, <2>4, <2>5
<1>13. Extends(entries', entries, keys)
  <2>1. DOMAIN entries' = 1 .. Len(entries) + Len(keys)
    BY <1>9, <1>12 DEF len
  <2>2. ASSUME NEW x \in DOMAIN keys
        PROVE  /\ entries'[len + x].count \in Nat
               /\ \A l \in Key : Matches(entries'[len + x], l) <=> Covers(keys[x], l)
    <3>1. entries'[len + x] = EntryFor(keys[x]) /\ keys[x] \in Key
      BY <1>10, <1>12
    <3>2. EntryFor(keys[x]).count = Num(kept, keys[x])
      BY DEF EntryFor, CountOf, Num
    <3>3. Num(kept, keys[x]) \in Nat
      BY <1>2, NumIs
    <3>4. \A l \in Key : Matches(EntryFor(keys[x]), l) <=> Covers(keys[x], l)
      BY <3>1, EntryCovers
    <3> QED BY <3>1, <3>2, <3>3, <3>4
  <2> QED BY <1>7, <1>12, <2>1, <2>2 DEF Extends, len
<1>14. /\ Meanings \in Seq(Tagged) /\ Len(Meanings) = Len(report)
       /\ DOMAIN Meanings = DOMAIN report
       /\ \A p \in DOMAIN report :
            Meanings[p] = [key |-> report[p].key, marked |-> Meant(report[p])]
  BY <1>2, MeaningsTyped
<1>15. ~(first <= Len(entries)) /\ Ordered(report) /\ i = Len(source) + 1
  BY <1>1 DEF RunInv
<1>16. Ordered(Meanings)
  <2>1. \A p \in DOMAIN report : Meanings[p].key = report[p].key
    BY <1>14
  <2> QED BY <1>14, <1>15, <2>1 DEF Ordered
<1>17. Enough(entries', entries, keys, last)
  <2>1. Linear(entries) = last.kept
    BY <1>2, <1>14, <1>15, SeenAsMeant DEF Linear
  <2>2. last.kept \in Seq(Key)
    <3>1. Len(Meanings) \in 0 .. Len(Meanings)
      BY <1>7, <1>14
    <3> QED BY <1>2, <1>14, <3>1, LeftTyped DEF State
  <2> DEFINE s == last.kept
  <2> HIDE DEF last
  <2>3. MarkerErrors \in Seq(Key)
    <3>1. errors \in Seq(Nat) /\ Broken \in Key
      BY SuppressAssumption DEF ScanInv, ScanTyped
    <3>2. DOMAIN errors = 1 .. Len(errors) /\ Len(errors) \in Nat
      BY <3>1
    <3> QED BY <3>1, <3>2 DEF MarkerErrors
  <2>4. kept = s \o MarkerErrors
    BY <1>2, <2>1
  <2> HIDE DEF s
  <2>5. ASSUME NEW k \in ToSet(s)
        PROVE  \E x \in DOMAIN keys : keys[x] = k /\ Num(s, k) <= entries'[len + x].count
    <3>1. Num(s, k) <= Num(kept, k)
      BY <2>2, <2>3, <2>4, NumConcat DEF s
    <3>2. Num(s, k) \in Nat /\ Num(s, k) # 0 /\ Num(kept, k) \in Nat
      BY <1>2, <2>2, <2>5, NumIs DEF s
    <3>3. k \in S
      <4>1. Num(kept, k) # 0
        BY <3>1, <3>2
      <4> QED BY <1>2, <4>1, NumIs DEF S
    <3>4. PICK x \in DOMAIN keys : keys[x] = k
      BY <1>9, <3>3
    <3>5. entries'[len + x] = EntryFor(k)
      BY <1>10, <1>12, <3>4
    <3>6. EntryFor(k).count = Num(kept, k)
      BY DEF EntryFor, CountOf, Num
    <3> QED BY <3>1, <3>4, <3>5, <3>6
  <2> QED BY <2>5 DEF Enough, s, len
<1>18. Among(Meanings', Meanings, at)
  <2>1. at \in [1 .. m -> DOMAIN report] /\ DOMAIN at = 1 .. m
    BY <1>5 DEF Increasing
  <2>2. DOMAIN report' = 1 .. m /\ \A p \in 1 .. m : report'[p] = report[at[p]]
    BY <1>5, <2>1 DEF Staying
  <2>3. ASSUME NEW p \in 1 .. m
        PROVE  /\ (report[p].key)' = report[at[p]].key
               /\ Meant(report[p])' = Meant(report[at[p]])
    <3>1. PICK f : f = report[at[p]]
      OBVIOUS
    <3>2. report'[p] = f
      BY <2>2, <3>1
    <3>3. Meant(report[p])' = Meant(f)'
      BY <3>2 DEF Meant
    <3>4. Meant(f)' = Meant(f)
      BY <1>6, RepairsTakeNothing
    <3> QED BY <3>1, <3>2, <3>3, <3>4
  <2>5. Meanings' = [p \in 1 .. m |-> [key |-> report[at[p]].key, marked |-> Meant(report[at[p]])]]
    <3>1. Meanings' = [p \in DOMAIN report' |->
                         [key |-> (report[p].key)', marked |-> Meant(report[p])']]
      BY DEF Meanings
    <3> QED BY <2>2, <2>3, <3>1
  <2>6. Len(Meanings') = m
    BY <1>7, <2>5
  <2>7. \A p \in 1 .. m : Meanings'[p] = Meanings[at[p]]
    BY <1>14, <2>1, <2>5
  <2>8. at \in Increasing(m, 1 .. Len(Meanings))
    BY <1>5, <1>7, <1>14
  <2> QED BY <2>6, <2>7, <2>8 DEF Among
<1>19. LaterRun'
  <2>1. \E base \in Seq(Entry), ks \in Seq(Key), found \in Seq(Tagged) : \E a :
          /\ Extends(entries', base, ks) /\ Ascending(ks)
          /\ Ordered(found)
          /\ Among(Meanings', found, a)
          /\ Enough(entries', base, ks, Left(base, found)[Len(found)])
    BY <1>2, <1>9, <1>10, <1>13, <1>14, <1>16, <1>17, <1>18
  <2> QED BY <2>1 DEF LaterRun, Extends, Ascending, Ordered, Among, Enough, Matches, PathMatches
<1>20. first' \in Nat /\ first' <= Len(entries')
  BY <1>1, <1>7, <1>10, <1>12
<1> QED BY <1>1, <1>19, <1>20 DEF RunInv

LEMMA SameRun ==
    ASSUME entries' = entries, report' = report, source' = source, first' = first, RunInv
    PROVE  (IF first <= Len(entries) THEN LaterRun ELSE Ordered(report))'
<1>1. Meanings' = Meanings
  BY DEF Meanings, Meant, AppliesTo, Ignores, IsStrict
<1>2. LaterRun' <=> LaterRun
  BY <1>1 DEF LaterRun
<1>3. Ordered(report)' <=> Ordered(report)
  BY DEF Ordered, Covers, PathMatches
<1> QED BY <1>2, <1>3 DEF RunInv

LEMMA ScanKeepsRun ==
    ASSUME ScanInv, RunInv, NextScan, UNCHANGED filter
    PROVE  RunInv'
<1>1. pc' \in {"scan", "ids", "comment"} /\ source' = source
  <2>1. CASE Scan
    BY <2>1 DEF Scan, NextLine, AtLine
  <2>2. CASE Strict
    BY <2>2 DEF Strict
  <2>3. CASE End
    BY <2>3 DEF End, Malformed, NextLine, AtLine
  <2>4. CASE Identifier
    BY <2>4 DEF Identifier, Malformed, NextLine, AtLine
  <2>5. CASE Separator
    BY <2>5 DEF Separator, Malformed, NextLine, AtLine
  <2>6. CASE Comment
    BY <2>6 DEF Comment, Malformed, NextLine, AtLine
  <2> QED BY <2>1, <2>2, <2>3, <2>4, <2>5, <2>6 DEF NextScan
<1>2. entries' = entries /\ report' = report /\ first' = first
  BY DEF filter
<1>3. (IF first <= Len(entries) THEN LaterRun ELSE Ordered(report))'
  BY <1>1, <1>2, SameRun
<1> QED BY <1>1, <1>2, <1>3 DEF RunInv

LEMMA FilterKeepsRun ==
    ASSUME ScanInv, FilterInv, RunInv, Match \/ Consider \/ Close \/ UNCHANGED vars
    PROVE  RunInv'
<1>1. /\ entries' = entries /\ report' = report /\ source' = source /\ first' = first
      /\ i' = i
  BY DEF Match, Consider, Close, vars, ignores, filter
<1>2. (IF first <= Len(entries) THEN LaterRun ELSE Ordered(report))'
  BY <1>1, SameRun
<1>3. /\ pc' \in {"match", "report", "done"} => i' = Len(source') + 1
      /\ pc' = "report" => ~(first <= Len(entries))
      /\ pc' = "done" => first <= Len(entries)
  <2>1. CASE Match
    <3>1. i > Len(source) /\ pc' = "match" /\ i \in 1 .. Len(source) + 1 /\ Len(source) \in Nat
      <4>1. source \in Seq(Marker)
        BY DEF ScanInv, ScanTyped
      <4> QED BY <2>1, <4>1 DEF Match, ScanInv, ScanTyped
    <3> QED BY <1>1, <3>1
  <2>2. CASE Consider
    BY <1>1, <2>2 DEF Consider, RunInv
  <2>3. CASE Close
    <3>1. first \in Nat /\ Len(entries) \in Nat /\ i = Len(source) + 1
          /\ pc' = IF first > Len(entries) THEN "report" ELSE "done"
      BY <2>3 DEF Close, RunInv, FilterInv, FilterTyped
    <3> QED BY <1>1, <3>1
  <2>4. CASE UNCHANGED vars
    BY <1>1, <2>4 DEF vars, RunInv
  <2> QED BY <2>1, <2>2, <2>3, <2>4
<1> QED BY <1>1, <1>2, <1>3 DEF RunInv

\* "snapshot current findings so a legacy codebase passes": with the baseline merged,
\* nothing comes back of what it was made from, whatever has been repaired since.
THEOREM BaselineHidesAll ==
    ASSUME InOrder
    PROVE  Spec => []BaselineHides
<1>1. Init => RunInv
  <2> SUFFICES ASSUME Init PROVE RunInv
    OBVIOUS
  <2>1. PICK r \in Inputs : InitScan(r.source) /\ entries = r.entries /\ report = r.findings
    BY DEF Init
  <2>2. first = Len(entries) + 1 /\ pc = "scan"
    BY <2>1 DEF Init, InitScan
  <2>3. Len(entries) \in Nat
    <3>1. entries \in Seq(Entry)
      BY <2>1, SuppressAssumption
    <3> QED BY <3>1
  <2>4. ~(first <= Len(entries))
    BY <2>2, <2>3
  <2>5. Ordered(report)
    BY <2>1 DEF InOrder, Ordered
  <2> QED BY <2>2, <2>3, <2>4, <2>5 DEF RunInv
<1>2. ScanInv /\ FilterInv /\ RunInv /\ [Next]_vars => RunInv'
  <2> SUFFICES ASSUME ScanInv, FilterInv, RunInv, [Next]_vars PROVE RunInv'
    OBVIOUS
  <2>1. CASE NextScan /\ UNCHANGED filter
    BY <2>1, ScanKeepsRun
  <2>2. CASE Match \/ Consider \/ Close \/ UNCHANGED vars
    BY <2>2, FilterKeepsRun
  <2>3. CASE GenerateAndRerun
    BY <2>3, BaselineIsEnough
  <2> QED BY <2>1, <2>2, <2>3 DEF Next, Filter
<1>3. ScanInv /\ FilterInv /\ RunInv => BaselineHides
  <2> SUFFICES ASSUME ScanInv, FilterInv, RunInv, pc = "done", NEW p \in DOMAIN kept
               PROVE  Keys[kept[p]].id = ParseError
    BY DEF BaselineHides
  <2>1. /\ entries \in Seq(Entry) /\ report \in Seq(Finding)
        /\ kept = Linear(entries) \o MarkerErrors
    BY DEF FilterInv, FilterTyped, LikeScan, Closed
  <2>2. i = Len(source) + 1 /\ LaterRun
    BY DEF RunInv
  <2>3. PICK base \in Seq(Entry), keys \in Seq(Key), found \in Seq(Tagged) : \E at :
          /\ Extends(entries, base, keys) /\ Ascending(keys)
          /\ Ordered(found)
          /\ Among(Meanings, found, at)
          /\ Enough(entries, base, keys, Left(base, found)[Len(found)])
    BY <2>2 DEF LaterRun
  <2>4. Meanings \in Seq(Tagged) /\ Len(Meanings) = Len(report)
    BY <2>1, MeaningsTyped
  <2>5. Left(entries, Meanings)[Len(Meanings)].kept = <<>>
    BY <2>1, <2>3, <2>4, NothingLeft
  <2>6. Linear(entries) = <<>>
    BY <2>1, <2>2, <2>4, <2>5, SeenAsMeant DEF Linear
  <2>7. errors \in Seq(Nat) /\ Broken \in Key /\ Keys[Broken].id = ParseError
    BY SuppressAssumption DEF ScanInv, ScanTyped
  <2>8. MarkerErrors \in Seq(Key)
    <3>1. DOMAIN errors = 1 .. Len(errors) /\ Len(errors) \in Nat
      BY <2>7
    <3> QED BY <2>7, <3>1 DEF MarkerErrors
  <2>9. kept = MarkerErrors
    BY <2>1, <2>6, <2>8, ConcatEmptySeq
  <2>10. kept[p] = Broken
    BY <2>9 DEF MarkerErrors
  <2> QED BY <2>7, <2>10
<1> QED BY <1>1, <1>2, <1>3, ScanInvariant, FilterInvariant, PTL DEF Spec
=============================================================================
