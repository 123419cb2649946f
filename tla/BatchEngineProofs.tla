-------------------------- MODULE BatchEngineProofs --------------------------
(***************************************************************************)
(* Proof that both engines keep the promise of Engine, for any project,    *)
(* number of files, size of batches and order in which the workers finish: *)
(* every behaviour of BatchEngine is one of Engine.                        *)
(***************************************************************************)
EXTENDS BatchEngine, TLAPS, FiniteSetTheorems, WellFoundedInduction

-----------------------------------------------------------------------------
\* The least and the greatest of some numbers.
LEMMA NatLeast ==
    ASSUME NEW S \in SUBSET Nat, S # {}
    PROVE  \E x \in S : \A y \in S : x <= y
<1> DEFINE less == {ss \in Nat \X Nat : ss[1] < ss[2]}
<1>1. IsWellFoundedOn(less, Nat)
  <2>1. OpToRel(<, Nat) = less
     BY DEF OpToRel
  <2> QED BY <2>1, NatLessThanWellFounded
<1> HIDE DEF less
<1>2. PICK x \in S : \A y \in S : ~ (<<y, x>> \in less)
  BY <1>1, WFMin
<1>3. ASSUME NEW y \in S
      PROVE  x <= y
  <2>1. ~ (y < x)
    BY <1>2 DEF less
  <2> QED BY <2>1
<1> QED BY <1>3

LEMMA MinIs ==
    ASSUME NEW S \in SUBSET Nat, NEW x \in S, \A y \in S : x <= y
    PROVE  Min(S) = x
<1> DEFINE m == CHOOSE z \in S : \A y \in S : z <= y
<1>1. m \in S /\ \A y \in S : m <= y
  OBVIOUS
<1> HIDE DEF m
<1>2. m = x
  BY <1>1
<1> QED BY <1>2 DEF m, Min

LEMMA MaxIs ==
    ASSUME NEW S \in SUBSET Nat, NEW x \in S, \A y \in S : x >= y
    PROVE  Max(S) = x
<1> DEFINE m == CHOOSE z \in S : \A y \in S : z >= y
<1>1. m \in S /\ \A y \in S : m >= y
  OBVIOUS
<1> HIDE DEF m
<1>2. m = x
  BY <1>1
<1> QED BY <1>2 DEF m, Max

LEMMA MinOfTwo ==
    ASSUME NEW a \in Nat, NEW b \in Nat
    PROVE  Min({a, b}) = IF a <= b THEN a ELSE b
<1>1. CASE a <= b
  BY <1>1, MinIs
<1>2. CASE b < a
  BY <1>2, MinIs
<1> QED BY <1>1, <1>2

-----------------------------------------------------------------------------
\* The position of a number in a set, and the numbers of a set in order.
Rank(S, i) == Cardinality({j \in S : j <= i})
InOrder(S) == [r \in 1 .. Cardinality(S) |-> CHOOSE i \in S : Rank(S, i) = r]

LEMMA PromisedCardinality ==
    \A S : Promise!Cardinality(S) = Cardinality(S)
BY DEF Promise!Cardinality, Cardinality

LEMMA PromisedRank ==
    \A S, i : Promise!Rank(S, i) = Rank(S, i)
BY PromisedCardinality DEF Promise!Rank, Rank

LEMMA PromisedOrder ==
    \A S : Promise!InOrder(S) = InOrder(S)
BY PromisedCardinality, PromisedRank DEF Promise!InOrder, InOrder

Numbers == {S \in SUBSET Nat : IsFiniteSet(S)}

LEMMA NumbersAre ==
    ASSUME NEW S \in Numbers
    PROVE  /\ IsFiniteSet(S) /\ Cardinality(S) \in Nat
           /\ \A i \in S : i \in Nat /\ i \in Int
           /\ \A T \in SUBSET S : T \in Numbers
<1>1. S \in SUBSET Nat /\ IsFiniteSet(S)
  BY DEF Numbers
<1>2. ASSUME NEW T \in SUBSET S
      PROVE  T \in SUBSET Nat /\ IsFiniteSet(T)
  BY <1>1, FS_Subset
<1>3. Cardinality(S) \in Nat
  BY <1>1, FS_CardinalityType
<1> QED BY <1>1, <1>2, <1>3 DEF Numbers

LEMMA IntervalNumbers ==
    ASSUME NEW a \in Nat, NEW b \in Nat, NEW S \in SUBSET (a .. b)
    PROVE  S \in Numbers
<1>1. IsFiniteSet(a .. b)
  BY FS_Interval
<1>2. IsFiniteSet(S)
  BY <1>1, FS_Subset
<1> QED BY <1>2 DEF Numbers

LEMMA RankType ==
    ASSUME NEW S \in Numbers, NEW i
    PROVE  /\ Rank(S, i) \in 0 .. Cardinality(S)
           /\ i \in S => Rank(S, i) \in 1 .. Cardinality(S)
<1> DEFINE upto == {j \in S : j <= i}
<1>1. upto \in SUBSET S
  OBVIOUS
<1>2. i \in S => i \in upto
  BY NumbersAre
<1>3. Rank(S, i) = Cardinality(upto)
  BY DEF Rank
<1> HIDE DEF upto
<1>4. /\ IsFiniteSet(S) /\ Cardinality(S) \in Nat
      /\ IsFiniteSet(upto) /\ Cardinality(upto) \in Nat
  BY <1>1, NumbersAre
<1>5. Cardinality(upto) <= Cardinality(S)
  BY <1>1, <1>4, FS_Subset
<1>6. i \in S => Cardinality(upto) # 0
  BY <1>2, <1>4, FS_EmptySet
<1> QED BY <1>3, <1>4, <1>5, <1>6

LEMMA RankGrows ==
    ASSUME NEW S \in Numbers, NEW i \in S, NEW j \in S, i < j
    PROVE  Rank(S, i) < Rank(S, j)
<1> DEFINE low == {m \in S : m <= i}
           high == {m \in S : m <= j}
<1>1. \A m \in S : m \in Int
  BY NumbersAre
<1>2. low \in SUBSET high /\ high \in SUBSET S /\ j \in high /\ j \notin low
  BY <1>1
<1>3. Rank(S, i) = Cardinality(low) /\ Rank(S, j) = Cardinality(high)
  BY DEF Rank
<1> HIDE DEF low, high
<1>4. high \in Numbers /\ low \in Numbers
  <2>1. high \in Numbers
    BY <1>2, NumbersAre
  <2> QED BY <1>2, <2>1, NumbersAre
<1>5. /\ IsFiniteSet(high) /\ Cardinality(high) \in Nat /\ Cardinality(low) \in Nat
  BY <1>4, NumbersAre
<1>6. /\ Cardinality(low) <= Cardinality(high)
      /\ Cardinality(low) # Cardinality(high)
  BY <1>2, <1>5, FS_Subset
<1> QED BY <1>3, <1>5, <1>6

LEMMA RankInjective ==
    ASSUME NEW S \in Numbers, NEW i \in S, NEW j \in S, Rank(S, i) = Rank(S, j)
    PROVE  i = j
<1>1. i \in Int /\ j \in Int
  BY NumbersAre
<1>2. Rank(S, i) \in Int /\ Rank(S, j) \in Int
  BY NumbersAre, RankType
<1>3. ~ (i < j)
  BY <1>2, RankGrows
<1>4. ~ (j < i)
  BY <1>2, RankGrows
<1> QED BY <1>1, <1>3, <1>4

LEMMA RankOnto ==
    ASSUME NEW S \in Numbers, NEW r \in 1 .. Cardinality(S)
    PROVE  \E i \in S : Rank(S, i) = r
<1> DEFINE at == [i \in S |-> Rank(S, i)]
           To == 1 .. Cardinality(S)
<1>1. IsFiniteSet(S) /\ Cardinality(S) \in Nat
  BY NumbersAre
<1>2. \A i \in S : Rank(S, i) \in To
  BY RankType
<1>3. \A i, j \in S : Rank(S, i) = Rank(S, j) => i = j
  BY RankInjective
<1>4. IsFiniteSet(To) /\ Cardinality(To) = Cardinality(S)
  BY <1>1, FS_Interval
<1> HIDE DEF To
<1>5. at \in Injection(S, To)
  BY <1>2, <1>3 DEF Injection, IsInjective
<1>6. at \in Surjection(S, To)
  <2> HIDE DEF at
  <2> QED BY <1>4, <1>5, FS_Injection
<1>7. r \in To
  BY DEF To
<1>8. PICK i \in S : at[i] = r
  <2> HIDE DEF at
  <2> QED BY <1>6, <1>7 DEF Surjection
<1> QED BY <1>8

LEMMA InOrderOf ==
    ASSUME NEW S \in Numbers
    PROVE  /\ InOrder(S) \in Seq(S)
           /\ Len(InOrder(S)) = Cardinality(S)
           /\ DOMAIN InOrder(S) = 1 .. Cardinality(S)
           /\ \A r \in 1 .. Cardinality(S) :
                InOrder(S)[r] \in S /\ Rank(S, InOrder(S)[r]) = r
           /\ \A i \in S : InOrder(S)[Rank(S, i)] = i
<1>1. Cardinality(S) \in Nat
  BY NumbersAre
<1>2. ASSUME NEW r \in 1 .. Cardinality(S)
      PROVE  InOrder(S)[r] \in S /\ Rank(S, InOrder(S)[r]) = r
  <2>1. \E i \in S : Rank(S, i) = r
    BY RankOnto
  <2>2. InOrder(S)[r] = CHOOSE i \in S : Rank(S, i) = r
    BY DEF InOrder
  <2> QED BY <2>1, <2>2
<1>3. ASSUME NEW i \in S
      PROVE  InOrder(S)[Rank(S, i)] = i
  <2>1. Rank(S, i) \in 1 .. Cardinality(S)
    BY RankType
  <2>2. /\ InOrder(S)[Rank(S, i)] \in S
        /\ Rank(S, InOrder(S)[Rank(S, i)]) = Rank(S, i)
    BY <1>2, <2>1
  <2> QED BY <2>2, RankInjective
<1>4. InOrder(S) = [r \in 1 .. Cardinality(S) |-> InOrder(S)[r]]
  BY DEF InOrder
<1>5. InOrder(S) \in [1 .. Cardinality(S) -> S]
  BY <1>2, <1>4
<1>6. InOrder(S) \in Seq(S) /\ Len(InOrder(S)) = Cardinality(S)
  <2> DEFINE s == InOrder(S)
             c == Cardinality(S)
  <2>1. s \in [1 .. c -> S] /\ c \in Nat
    BY <1>1, <1>5
  <2> HIDE DEF s, c
  <2>2. s \in Seq(S) /\ Len(s) = c
    BY <2>1
  <2> QED BY <2>2 DEF s, c
<1> QED BY <1>2, <1>3, <1>5, <1>6

\* What comes first is in front.
LEMMA RankOfUnion ==
    ASSUME NEW S \in Numbers, NEW T \in Numbers, \A i \in S, j \in T : i < j
    PROVE  /\ S \cup T \in Numbers
           /\ Cardinality(S \cup T) = Cardinality(S) + Cardinality(T)
           /\ \A i \in S : Rank(S \cup T, i) = Rank(S, i)
           /\ \A i \in T : Rank(S \cup T, i) = Cardinality(S) + Rank(T, i)
<1>1. (\A i \in S : i \in Int) /\ (\A i \in T : i \in Int)
  BY NumbersAre
<1>2. ASSUME NEW U \in SUBSET T
      PROVE  /\ S \cup U \in Numbers
             /\ Cardinality(S \cup U) = Cardinality(S) + Cardinality(U)
  <2>1. U \in Numbers
    BY NumbersAre
  <2>2. /\ IsFiniteSet(S) /\ Cardinality(S) \in Nat /\ S \in SUBSET Nat
        /\ IsFiniteSet(U) /\ Cardinality(U) \in Nat /\ U \in SUBSET Nat
    BY <2>1, NumbersAre
  <2>3. S \cap U = {}
    BY <1>1
  <2>4. Cardinality({}) = 0
    BY FS_EmptySet
  <2>5. /\ IsFiniteSet(S \cup U)
        /\ Cardinality(S \cup U) = Cardinality(S) + Cardinality(U) - Cardinality(S \cap U)
    BY <2>2, FS_Union
  <2>6. S \cup U \in Numbers
    BY <2>2, <2>5 DEF Numbers
  <2>7. Cardinality(S \cap U) = 0
    BY <2>3, <2>4
  <2> QED BY <2>2, <2>5, <2>6, <2>7
<1>3. ASSUME NEW i \in S
      PROVE  Rank(S \cup T, i) = Rank(S, i)
  <2>1. \A j \in T : ~ (j <= i)
    BY <1>1
  <2>2. {j \in S \cup T : j <= i} = {j \in S : j <= i}
    BY <2>1
  <2> QED BY <2>2 DEF Rank
<1>4. ASSUME NEW i \in T
      PROVE  Rank(S \cup T, i) = Cardinality(S) + Rank(T, i)
  <2>1. \A j \in S : j <= i
    BY <1>1
  <2>2. {j \in S \cup T : j <= i} = S \cup {j \in T : j <= i}
    BY <2>1
  <2>3. {j \in T : j <= i} \in SUBSET T
    OBVIOUS
  <2> QED BY <1>2, <2>2, <2>3 DEF Rank
<1> QED BY <1>2, <1>3, <1>4

LEMMA InOrderOfUnion ==
    ASSUME NEW S \in Numbers, NEW T \in Numbers, \A i \in S, j \in T : i < j
    PROVE  InOrder(S \cup T) = InOrder(S) \o InOrder(T)
<1> DEFINE all == InOrder(S \cup T)
           both == InOrder(S) \o InOrder(T)
<1>1. /\ S \cup T \in Numbers
      /\ Cardinality(S) \in Nat /\ Cardinality(T) \in Nat
      /\ Cardinality(S \cup T) = Cardinality(S) + Cardinality(T)
  BY NumbersAre, RankOfUnion
<1>2. /\ all \in Seq(S \cup T) /\ Len(all) = Cardinality(S) + Cardinality(T)
      /\ \A i \in S \cup T : all[Rank(S \cup T, i)] = i
  BY <1>1, InOrderOf
<1>3. /\ InOrder(S) \in Seq(S \cup T) /\ InOrder(T) \in Seq(S \cup T)
      /\ Len(InOrder(S)) = Cardinality(S) /\ Len(InOrder(T)) = Cardinality(T)
  <2>1. InOrder(S) \in Seq(S) /\ InOrder(T) \in Seq(T)
    BY InOrderOf
  <2>2. Len(InOrder(S)) = Cardinality(S) /\ Len(InOrder(T)) = Cardinality(T)
    BY InOrderOf
  <2> QED BY <2>1, <2>2
<1>4. both \in Seq(S \cup T) /\ Len(both) = Len(all)
  BY <1>2, <1>3
<1>5. ASSUME NEW r \in 1 .. Len(all)
      PROVE  all[r] = both[r]
  <2>1. CASE r <= Cardinality(S)
    <3>1. r \in 1 .. Cardinality(S)
      BY <1>1, <1>2, <2>1
    <3>2. InOrder(S)[r] \in S /\ Rank(S, InOrder(S)[r]) = r
      BY <3>1, InOrderOf
    <3>3. Rank(S \cup T, InOrder(S)[r]) = r
      BY <3>2, RankOfUnion
    <3>4. all[r] = InOrder(S)[r]
      BY <1>2, <3>2, <3>3
    <3>5. both[r] = InOrder(S)[r]
      BY <1>3, <3>1
    <3> QED BY <3>4, <3>5
  <2>2. CASE r > Cardinality(S)
    <3>1. PICK q \in 1 .. Cardinality(T) : r = Cardinality(S) + q
      <4>1. r - Cardinality(S) \in 1 .. Cardinality(T)
        BY <1>1, <1>2, <2>2
      <4>2. r = Cardinality(S) + (r - Cardinality(S))
        BY <1>1, <1>2
      <4> QED BY <4>1, <4>2
    <3>2. both[r] = InOrder(T)[q]
      <4> DEFINE s == InOrder(S)
                 u == InOrder(T)
      <4>1. /\ s \in Seq(S \cup T) /\ u \in Seq(S \cup T)
            /\ q \in 1 .. Len(u) /\ r = Len(s) + q
        BY <1>3, <3>1
      <4> HIDE DEF s, u
      <4>2. (s \o u)[r] = u[q]
        BY <4>1
      <4> QED BY <4>2 DEF s, u
    <3>3. InOrder(T)[q] \in T /\ Rank(T, InOrder(T)[q]) = q
      BY <3>1, InOrderOf
    <3>4. Rank(S \cup T, InOrder(T)[q]) = r
      BY <3>1, <3>3, RankOfUnion
    <3>5. all[r] = InOrder(T)[q]
      BY <1>2, <3>3, <3>4
    <3> QED BY <3>2, <3>5
  <2>3. r <= Cardinality(S) \/ r > Cardinality(S)
    <3>1. r \in Int
      OBVIOUS
    <3> QED BY <1>1, <3>1
  <2> QED BY <2>1, <2>2, <2>3
<1> HIDE DEF all, both
<1>6. all = both
  BY <1>2, <1>4, <1>5
<1> QED BY <1>6 DEF all, both

-----------------------------------------------------------------------------
\* The invariant: what the engines have gathered of the files that they have
\* gone through is what Engine says of these files.
Analyzed(m) == {i \in 1 .. m : Files[i].analyze}
Scanned(m)  == {i \in 1 .. m : ~Files[i].analyze /\ ~Promise!IsStub(i)}
Staying(m)  == {i \in 1 .. m : Files[i].analyze \/ ~streaming}
Leaving(m)  == {i \in 1 .. m : ~Files[i].analyze /\ streaming}

Typed ==
    /\ project \in Inputs
    /\ infer \in BOOLEAN /\ streaming \in BOOLEAN
    /\ pc \in {"parse", "index", "reparse", "harvest", "analyze", "done"}
    /\ first \in 0 .. Total /\ indexed \in 0 .. Total /\ harvested \in 0 .. Total
    /\ index \in [Name -> Nat \cup {None}]

Staged ==
    /\ pc = "parse" => indexed = first
    /\ pc \notin {"parse", "index"} => first = Total /\ indexed = Total
    /\ pc \in {"parse", "index"} => harvested = 0
    /\ pc \in {"reparse", "harvest"} => infer /\ harvested < Total
    /\ pc \in {"analyze", "done"} /\ infer => harvested = Total
    /\ pc # "done" => report = None

\* A batch is the next files, and what is taken for a stub is one.
Batched ==
    pc = "index" =>
        /\ Len(batch) \in 1 .. Total - first
        /\ batch = [i \in 1 .. Len(batch) |-> first + i]
        /\ indexed \in first .. first + Len(batch)
        /\ stub = {i \in first + 1 .. first + Len(batch) : Promise!IsStub(i)}

\* The declaration that holds is the one that wins among the indexed files.
StubsWith(k, m) == {i \in 1 .. m : k \in Files[i].declares /\ Promise!IsStub(i)}
OthersWith(k, m) ==
    {i \in 1 .. m : /\ k \in Files[i].declares /\ ~Promise!IsStub(i)
                    /\ k \in Builtin => Files[i].analyze}
Wins(w, k, m) ==
    \/ w \in StubsWith(k, m) /\ \A i \in StubsWith(k, m) : i <= w
    \/ /\ StubsWith(k, m) = {}
       /\ w \in OthersWith(k, m) /\ \A i \in OthersWith(k, m) : w <= i
    \/ /\ StubsWith(k, m) = {} /\ OthersWith(k, m) = {}
       /\ w = IF k \in Builtin THEN 0 ELSE None
Winning == \A k \in Name : Wins(index[k], k, indexed)

\* Every file is where its slot says.
SlotOf(i, m) ==
    IF i \in Staying(m)
    THEN [analyzed |-> TRUE, slot |-> Rank(Staying(m), i)]
    ELSE [analyzed |-> FALSE, slot |-> Rank(Leaving(m), i)]
Placed ==
    /\ retained = InOrder(Staying(first))
    /\ deferred = InOrder(Leaving(first))
    /\ order = [i \in 1 .. first |-> SlotOf(i, first)]

Counted ==
    counts = [analyzed |-> Cardinality(Analyzed(first)),
              scanned |-> Cardinality(Scanned(first))]

\* The call sites are those of the files so far, in their order.
Gathered ==
    evidence = [k \in Name |-> [i \in 1 .. harvested |-> Promise!CalledWith(i, k)]]

\* A worker's findings are those of the file it took, and no file is taken twice.
Worked ==
    /\ pc \notin {"analyze", "done"} => done = <<>>
    /\ done \in Seq([at : DOMAIN retained, findings : {Promise!FindingsIn(i) : i \in 1 .. Total}])
    /\ \A d \in DOMAIN done :
         /\ Files[retained[done[d].at]].analyze
         /\ done[d].findings = Promise!FindingsIn(retained[done[d].at])
    /\ \A c, d \in DOMAIN done : done[c].at = done[d].at => c = d

EngineInv ==
    /\ Typed /\ Staged /\ Batched /\ Winning /\ Placed /\ Counted /\ Gathered /\ Worked

-----------------------------------------------------------------------------
\* What is assumed of a project.
LEMMA ProjectFacts ==
    ASSUME Typed
    PROVE  /\ Total \in Nat /\ project.stubs \in 0 .. Total
           /\ DOMAIN Files = 1 .. Total
           /\ Promise!Files = Files /\ Promise!File = 1 .. Total
           /\ \A i \in 1 .. Total :
                /\ Files[i] \in Promise!InputFile
                /\ Files[i].declares \subseteq Name
                /\ Files[i].calls \in [Name -> Type \cup {None}]
                /\ Files[i].analyze \in BOOLEAN
                /\ Promise!IsStub(i) <=> i > Total - project.stubs
                /\ Promise!IsStub(i) => ~Files[i].analyze
<1>1. /\ project \in [files : Seq(Promise!InputFile), stubs : Nat]
      /\ project.stubs <= Len(project.files)
      /\ \A i \in DOMAIN project.files :
           i > Len(project.files) - project.stubs => ~project.files[i].analyze
  BY BatchAssumption DEF Typed, Promise!EngineAssumption
<1>2. Files \in Seq(Promise!InputFile) /\ project.stubs \in Nat
  BY <1>1 DEF Files
<1>3. Total \in Nat /\ project.stubs \in 0 .. Total /\ DOMAIN Files = 1 .. Total
  BY <1>1, <1>2 DEF Files, Total
<1>4. Promise!Files = Files /\ Promise!File = 1 .. Total
  BY <1>3 DEF Promise!Files, Promise!File, Files
<1>5. ASSUME NEW i \in 1 .. Total
      PROVE  /\ Files[i] \in Promise!InputFile
             /\ Promise!IsStub(i) <=> i > Total - project.stubs
             /\ Promise!IsStub(i) => ~Files[i].analyze
  BY <1>1, <1>2, <1>3 DEF Files, Total, Promise!IsStub, Promise!Files
<1>6. ASSUME NEW f \in Promise!InputFile
      PROVE  /\ f.declares \subseteq Name
             /\ f.calls \in [Name -> Type \cup {None}]
             /\ f.analyze \in BOOLEAN
  BY DEF Promise!InputFile
<1> QED BY <1>3, <1>4, <1>5, <1>6

LEMMA ConstantFacts ==
    /\ Builtin \subseteq Name /\ Global \in [Name -> Name]
    /\ None \notin Type /\ None \notin Nat
    /\ StreamBatch \in Nat /\ StreamBatch > 0
BY BatchAssumption DEF Promise!EngineAssumption

\* Engine speaks of the project and the setting only.
LEMMA SameProject ==
    ASSUME UNCHANGED <<project, infer>>
    PROVE  /\ \A i : Promise!IsStub(i)' = Promise!IsStub(i)
           /\ \A k : Promise!Winner(k)' = Promise!Winner(k)
           /\ \A i, k : Promise!CalledWith(i, k)' = Promise!CalledWith(i, k)
           /\ \A i : Promise!FindingsIn(i)' = Promise!FindingsIn(i)
<1>1. Promise!Files' = Promise!Files /\ Promise!File' = Promise!File
  BY DEF Promise!Files, Promise!File
<1>2. \A i : Promise!IsStub(i)' = Promise!IsStub(i)
  BY DEF Promise!IsStub, Promise!Files
<1>3. \A k : Promise!Declaring(k)' = Promise!Declaring(k)
  BY <1>1 DEF Promise!Declaring
<1>4. \A k : Promise!Winner(k)' = Promise!Winner(k)
  BY <1>1, <1>2, <1>3 DEF Promise!Winner
<1>5. \A k : Promise!Callee(k)' = Promise!Callee(k)
  BY <1>4 DEF Promise!Callee
<1>6. \A i, k : Promise!CalledWith(i, k)' = Promise!CalledWith(i, k)
  BY <1>1, <1>5 DEF Promise!CalledWith
<1>7. \A k : Promise!Evidence(k)' = Promise!Evidence(k)
  BY <1>1, <1>6 DEF Promise!Evidence
<1>8. \A k : Promise!Known(k)' = Promise!Known(k)
  BY <1>4, <1>7 DEF Promise!Known
<1>9. \A i : Promise!FindingsIn(i)' = Promise!FindingsIn(i)
  BY <1>1, <1>5, <1>8 DEF Promise!FindingsIn
<1> QED BY <1>2, <1>4, <1>6, <1>9

-----------------------------------------------------------------------------
\* Once every file is indexed, the declaration that holds is the winner.
LEMMA WinnerIs ==
    ASSUME Typed, Winning, indexed = Total, NEW k \in Name
    PROVE  index[k] = Promise!Winner(k)
<1> DEFINE stubs == StubsWith(k, Total)
           others == OthersWith(k, Total)
           w == index[k]
<1>1. /\ Promise!File = 1 .. Total /\ Promise!Files = Files /\ Total \in Nat
  BY ProjectFacts
<1>2. {i \in Promise!Declaring(k) : Promise!IsStub(i)} = stubs
  BY <1>1 DEF Promise!Declaring, StubsWith
<1>3. {i \in Promise!Declaring(k) \ stubs : k \in Builtin => Promise!Files[i].analyze} = others
  BY <1>1 DEF Promise!Declaring, StubsWith, OthersWith
<1>4. Promise!Winner(k) =
        CASE stubs # {}                -> Promise!Max(stubs)
          [] stubs = {} /\ others # {} -> Promise!Min(others)
          [] OTHER                     -> IF k \in Builtin THEN 0 ELSE None
  BY <1>2, <1>3 DEF Promise!Winner
<1>5. stubs \in SUBSET Nat /\ others \in SUBSET Nat
  BY <1>1 DEF StubsWith, OthersWith
<1>6. Wins(w, k, Total)
  BY DEF Winning
<1>7. (\A S : Promise!Max(S) = Max(S)) /\ (\A S : Promise!Min(S) = Min(S))
  BY DEF Promise!Max, Promise!Min, Max, Min
<1>8. \/ w \in stubs /\ \A i \in stubs : i <= w
      \/ stubs = {} /\ w \in others /\ \A i \in others : w <= i
      \/ stubs = {} /\ others = {} /\ w = IF k \in Builtin THEN 0 ELSE None
  BY <1>6 DEF Wins
<1> HIDE DEF stubs, others, w
<1>9. CASE w \in stubs /\ \A i \in stubs : i <= w
  <2>1. \A i \in stubs : w >= i
    BY <1>5, <1>9
  <2>2. Max(stubs) = w
    BY <1>5, <1>9, <2>1, MaxIs
  <2>3. stubs # {}
    BY <1>9
  <2> QED BY <1>4, <1>7, <2>2, <2>3 DEF w
<1>10. CASE stubs = {} /\ w \in others /\ \A i \in others : w <= i
  <2>1. Min(others) = w
    BY <1>5, <1>10, MinIs
  <2>2. others # {}
    BY <1>10
  <2> QED BY <1>4, <1>7, <1>10, <2>1, <2>2 DEF w
<1>11. CASE stubs = {} /\ others = {} /\ w = IF k \in Builtin THEN 0 ELSE None
  BY <1>4, <1>11 DEF w
<1> QED BY <1>8, <1>9, <1>10, <1>11

LEMMA ResolvedIs ==
    ASSUME Typed, Winning, indexed = Total, NEW k \in Name
    PROVE  Resolved(k) = Promise!Callee(k) /\ Resolved(k) \in Name
BY WinnerIs, ConstantFacts DEF Resolved, Promise!Callee

LEMMA ObservedIs ==
    ASSUME Typed, Winning, indexed = Total, NEW i, NEW k
    PROVE  Observed(i, k) = Promise!CalledWith(i, k)
<1>1. {l \in Name : Resolved(l) = k} = {l \in Name : Promise!Callee(l) = k}
  BY ResolvedIs
<1>2. Promise!Files = Files
  BY ProjectFacts
<1> QED BY <1>1, <1>2 DEF Observed, Promise!CalledWith

LEMMA CalledWithType ==
    ASSUME Typed, NEW i \in 1 .. Total, NEW k
    PROVE  Promise!CalledWith(i, k) \in SUBSET Type
<1>1. Promise!Files[i].calls \in [Name -> Type \cup {None}]
  BY ProjectFacts
<1> QED BY <1>1 DEF Promise!CalledWith

\* With all the evidence, an analyzed file gets the findings it should.
LEMMA FindingsAre ==
    ASSUME EngineInv, indexed = Total, infer => harvested = Total, NEW i \in 1 .. Total
    PROVE  Findings(i) = Promise!FindingsIn(i)
<1> USE DEF EngineInv
<1>1. Promise!Files = Files /\ Promise!File = 1 .. Total
  BY ProjectFacts
<1>2. ASSUME NEW k \in Name
      PROVE  [winner |-> index[k], params |-> Params(k)] = Promise!Known(k)
  <2>1. index[k] = Promise!Winner(k)
    BY WinnerIs
  <2>2. ASSUME infer
        PROVE  Union(evidence[k]) = Promise!Evidence(k)
    <3>1. evidence[k] = [j \in 1 .. Total |-> Promise!CalledWith(j, k)]
      BY <2>2 DEF Gathered
    <3>2. DOMAIN evidence[k] = 1 .. Total
      BY <3>1
    <3>3. ASSUME NEW j \in 1 .. Total
          PROVE  {evidence[k][l] : l \in 1 .. j - 1}
                   = {Promise!CalledWith(l, k) : l \in 1 .. j - 1}
      <4>1. Total \in Nat
        BY ProjectFacts
      <4>2. \A l \in 1 .. j - 1 : l \in 1 .. Total
        BY <4>1
      <4>3. \A l \in 1 .. j - 1 : evidence[k][l] = Promise!CalledWith(l, k)
        BY <3>1, <4>2
      <4> QED BY <4>3
    <3>4. \A j \in 1 .. Total : evidence[k][j] = Promise!CalledWith(j, k)
      BY <3>1
    <3>5. Union(evidence[k]) =
            [j \in 1 .. Total |-> Promise!CalledWith(j, k)
                                    \ UNION {Promise!CalledWith(l, k) : l \in 1 .. j - 1}]
      BY <3>2, <3>3, <3>4 DEF Union
    <3> QED BY <1>1, <3>5 DEF Promise!Evidence
  <2> QED BY <2>1, <2>2 DEF Params, Promise!Known
<1>3. \A l \in Name : Resolved(l) = Promise!Callee(l) /\ Resolved(l) \in Name
  BY ResolvedIs
<1> DEFINE called == {l \in Name : Files[i].calls[l] # None}
<1>4. {Resolved(l) : l \in called} = {Promise!Callee(l) : l \in called}
  BY <1>3
<1>5. {Resolved(l) : l \in called} \subseteq Name
  BY <1>3
<1>6. Findings(i) =
        [file |-> i,
         about |-> [k \in {Resolved(l) : l \in called}
                      |-> [winner |-> index[k], params |-> Params(k)]]]
  BY DEF Findings
<1>7. Promise!FindingsIn(i) =
        [file |-> i, about |-> [k \in {Promise!Callee(l) : l \in called} |-> Promise!Known(k)]]
  BY <1>1 DEF Promise!FindingsIn
<1> HIDE DEF called
<1> QED BY <1>2, <1>4, <1>5, <1>6, <1>7

-----------------------------------------------------------------------------
\* The steps.
LEMMA BatchType ==
    ASSUME Typed, first < Total
    PROVE  Min({BatchSize, Total - first}) \in 1 .. Total - first
<1>1. Total \in Nat /\ first \in Nat /\ StreamBatch \in Nat /\ StreamBatch > 0
  BY ProjectFacts, ConstantFacts DEF Typed
<1>2. BatchSize \in Nat /\ BatchSize > 0
  BY <1>1 DEF BatchSize
<1>3. Total - first \in Nat /\ Total - first > 0
  BY <1>1
<1> QED BY <1>2, <1>3, MinOfTwo

LEMMA InitEngine == Init => EngineInv
<1> SUFFICES ASSUME Init
             PROVE  EngineInv
  OBVIOUS
<1> USE DEF Init
<1>1. Total \in Nat
  <2>1. project \in [files : Seq(Promise!InputFile), stubs : Nat]
    BY BatchAssumption DEF Promise!EngineAssumption
  <2> QED BY <2>1 DEF Total, Files
<1>2. index \in [Name -> Nat \cup {None}]
  OBVIOUS
<1>3. Typed
  <2>1. streaming \in BOOLEAN
    OBVIOUS
  <2> QED BY <1>1, <1>2, <2>1 DEF Typed
<1>4. Staged
  BY DEF Staged
<1>5. Batched
  BY DEF Batched
<1>6. Winning
  <2>1. \A k \in Name : StubsWith(k, 0) = {} /\ OthersWith(k, 0) = {}
    BY DEF StubsWith, OthersWith
  <2> QED BY <2>1 DEF Winning, Wins
<1>7. Staying(0) = {} /\ Leaving(0) = {} /\ Analyzed(0) = {} /\ Scanned(0) = {}
  BY DEF Staying, Leaving, Analyzed, Scanned
<1>8. Cardinality({}) = 0 /\ InOrder({}) = <<>>
  <2>1. Cardinality({}) = 0
    BY FS_EmptySet
  <2> QED BY <2>1 DEF InOrder
<1>9. Placed
  <2>1. [i \in 1 .. 0 |-> SlotOf(i, 0)] = <<>>
    OBVIOUS
  <2> QED BY <1>7, <1>8, <2>1 DEF Placed
<1>10. Counted
  BY <1>7, <1>8 DEF Counted
<1>11. Gathered
  BY DEF Gathered
<1>12. Worked
  BY DEF Worked
<1> QED BY <1>3, <1>4, <1>5, <1>6, <1>9, <1>10, <1>11, <1>12 DEF EngineInv

\* What a step leaves alone keeps its part of the invariant.
LEMMA KeepsWinning ==
    ASSUME Winning, UNCHANGED <<project, infer, index, indexed>>
    PROVE  Winning'
BY SameProject DEF Winning, Wins, StubsWith, OthersWith, Files

LEMMA KeepsPlaced ==
    ASSUME Placed, UNCHANGED <<project, streaming, first, order, retained, deferred>>
    PROVE  Placed'
BY DEF Placed, SlotOf, Staying, Leaving, Files

LEMMA KeepsCounted ==
    ASSUME Counted, UNCHANGED <<project, infer, first, counts>>
    PROVE  Counted'
BY SameProject DEF Counted, Analyzed, Scanned, Files

LEMMA KeepsGathered ==
    ASSUME Gathered, UNCHANGED <<project, infer, harvested, evidence>>
    PROVE  Gathered'
BY SameProject DEF Gathered

LEMMA KeepsWorked ==
    ASSUME Worked, UNCHANGED <<project, infer, retained, done>>,
           pc' \in {"analyze", "done"} \/ pc \notin {"analyze", "done"}
    PROVE  Worked'
BY SameProject DEF Worked, Files, Total

LEMMA ParseStep ==
    ASSUME EngineInv, Parse
    PROVE  EngineInv'
<1> USE DEF EngineInv, Parse
<1> DEFINE m == Min({BatchSize, Total - first})
<1>1. /\ Total \in Nat /\ first \in Nat
      /\ m \in 1 .. Total - first /\ batch' = [i \in 1 .. m |-> first + i]
  BY BatchType, ProjectFacts DEF Typed
<1>2. Files' = Files /\ Total' = Total
  BY DEF Files, Total
<1>3. Typed'
  BY <1>2 DEF Typed
<1>4. Staged'
  BY <1>2 DEF Staged
<1>5. Batched'
  <2>1. /\ stub' = MarkedStubs(batch')
        /\ UNCHANGED <<first, indexed, project, infer>>
    OBVIOUS
  <2>2. indexed' = first
    BY DEF Staged
  <2>3. Typed
    OBVIOUS
  <2> HIDE DEF m, Parse, EngineInv
  <2>4. Len(batch') = m /\ DOMAIN batch' = 1 .. m
    <3>1. m \in Nat
      BY <1>1
    <3> QED BY <1>1, <3>1
  <2>5. stub' = {i \in first + 1 .. first + m : Promise!IsStub(i)}
    <3>1. stub' = {batch'[i] : i \in {j \in 1 .. m : first + j > Total - project.stubs}}
      BY <2>1, <2>4 DEF MarkedStubs
    <3>2. \A j \in 1 .. m : batch'[j] = first + j /\ first + j \in 1 .. Total
      BY <1>1
    <3>3. \A j \in 1 .. m : first + j > Total - project.stubs <=> Promise!IsStub(first + j)
      BY <2>3, <3>2, ProjectFacts
    <3>4. \A i \in first + 1 .. first + m : i - first \in 1 .. m /\ first + (i - first) = i
      BY <1>1
    <3>5. \A j \in 1 .. m : first + j \in first + 1 .. first + m
      BY <1>1
    <3>6. stub' \subseteq {i \in first + 1 .. first + m : Promise!IsStub(i)}
      BY <3>1, <3>2, <3>3, <3>5
    <3>7. \A i \in first + 1 .. first + m : Promise!IsStub(i) => i \in stub'
      <4> SUFFICES ASSUME NEW i \in first + 1 .. first + m, Promise!IsStub(i)
                   PROVE  i \in stub'
        OBVIOUS
      <4>1. i - first \in 1 .. m /\ first + (i - first) = i
        BY <3>4
      <4>2. first + (i - first) > Total - project.stubs /\ batch'[i - first] = i
        BY <3>2, <3>3, <4>1
      <4> QED BY <3>1, <4>1, <4>2
    <3> QED BY <3>6, <3>7
  <2>6. \A i : Promise!IsStub(i)' = Promise!IsStub(i)
    BY <2>1, SameProject
  <2>7. first' = first /\ m \in 1 .. Total - first /\ first \in first .. first + m
    BY <1>1, <2>1
  <2> QED BY <1>1, <1>2, <2>4, <2>2, <2>5, <2>6, <2>7 DEF Batched
<1>6. Winning' /\ Placed' /\ Counted' /\ Gathered' /\ Worked'
  BY KeepsWinning, KeepsPlaced, KeepsCounted, KeepsGathered, KeepsWorked
<1> QED BY <1>3, <1>4, <1>5, <1>6

\* The file that is indexed.
LEMMA IndexedFile ==
    ASSUME EngineInv, IndexFile
    PROVE  /\ indexed \in Nat /\ indexed + 1 \in 1 .. Total
           /\ batch[indexed - first + 1] = indexed + 1
           /\ indexed + 1 \in stub <=> Promise!IsStub(indexed + 1)
<1> USE DEF EngineInv, IndexFile
<1>1. Total \in Nat /\ first \in Nat /\ first <= Total /\ indexed \in Nat
  BY ProjectFacts DEF Typed
<1>2. /\ Len(batch) \in 1 .. Total - first
      /\ batch = [i \in 1 .. Len(batch) |-> first + i]
      /\ indexed \in first .. first + Len(batch)
      /\ stub = {i \in first + 1 .. first + Len(batch) : Promise!IsStub(i)}
  BY DEF Batched
<1>3. Len(batch) \in Nat
  BY <1>1, <1>2
<1>4. indexed + 1 \in 1 .. Total /\ indexed + 1 \in first + 1 .. first + Len(batch)
  BY <1>1, <1>2, <1>3
<1>5. indexed - first + 1 \in 1 .. Len(batch) /\ first + (indexed - first + 1) = indexed + 1
  BY <1>1, <1>2, <1>3
<1>6. batch[indexed - first + 1] = first + (indexed - first + 1)
  BY <1>2, <1>5
<1> QED BY <1>1, <1>2, <1>4, <1>5, <1>6

LEMMA IndexStep ==
    ASSUME EngineInv, IndexFile
    PROVE  EngineInv'
<1> USE DEF EngineInv, IndexFile
<1> DEFINE f == indexed + 1
<1>1. /\ indexed \in Nat /\ f \in 1 .. Total /\ Total \in Nat
      /\ f \in stub <=> Promise!IsStub(f)
  BY IndexedFile, ProjectFacts
<1>2. index' = [k \in Name |-> IF k \in Files[f].declares /\ Accepts(f, k) THEN f ELSE index[k]]
  BY IndexedFile
<1>3. Files' = Files /\ Total' = Total
  BY DEF Files, Total
<1>4. Typed'
  <2>1. index \in [Name -> Nat \cup {None}]
    BY DEF Typed
  <2>2. f \in Nat
    BY <1>1
  <2> HIDE DEF f
  <2>3. index' \in [Name -> Nat \cup {None}]
    BY <1>2, <2>1, <2>2
  <2>4. indexed' \in 0 .. Total
    BY <1>1 DEF f
  <2> QED BY <1>3, <2>3, <2>4 DEF Typed
<1>5. Staged'
  BY <1>3 DEF Staged
<1>6. Batched'
  <2>1. indexed' \in first .. first + Len(batch)
    <3>1. /\ first \in Nat /\ Len(batch) \in Nat
          /\ indexed \in first .. first + Len(batch)
      BY <1>1 DEF Batched, Typed
    <3> QED BY <1>1, <3>1
  <2>2. \A i : Promise!IsStub(i)' = Promise!IsStub(i)
    BY SameProject
  <2> QED BY <1>3, <2>1, <2>2 DEF Batched
<1>7. Winning'
  <2> SUFFICES ASSUME NEW k \in Name
               PROVE  Wins(index'[k], k, f)
    <3>1. \A i : Promise!IsStub(i)' = Promise!IsStub(i)
      BY SameProject
    <3> QED BY <1>3, <3>1 DEF Winning, Wins, StubsWith, OthersWith
  <2> DEFINE w == index[k]
             declared == k \in Files[f].declares
  <2>1. \A i \in 1 .. f : i \in 1 .. indexed \/ i = f
    BY <1>1
  <2>2. \A i \in 1 .. indexed : i \in 1 .. f /\ i # f /\ i <= f
    BY <1>1
  <2>3. f \in 1 .. f /\ f \in Nat
    BY <1>1
  <2>4. StubsWith(k, f) = StubsWith(k, indexed)
                            \cup (IF declared /\ Promise!IsStub(f) THEN {f} ELSE {})
    BY <2>1, <2>2, <2>3 DEF StubsWith
  <2>5. OthersWith(k, f) = OthersWith(k, indexed)
                             \cup (IF declared /\ ~Promise!IsStub(f)
                                        /\ (k \in Builtin => Files[f].analyze)
                                   THEN {f} ELSE {})
    BY <2>1, <2>2, <2>3 DEF OthersWith
  <2>6. Wins(w, k, indexed)
    BY DEF Winning
  <2>7. index'[k] = IF declared /\ Accepts(f, k) THEN f ELSE w
    BY <1>2
  <2>8. Accepts(f, k) <=> w = None \/ Promise!IsStub(f) \/ (w = 0 /\ Files[f].analyze)
    BY <1>1 DEF Accepts
  <2>9. /\ \A i \in StubsWith(k, indexed) : i \in Nat /\ i > 0 /\ i <= f /\ Promise!IsStub(f)
        /\ \A i \in OthersWith(k, indexed) : i \in Nat /\ i > 0 /\ i <= f
    <3>1. \A i \in 1 .. indexed : i \in 1 .. Total /\ i \in Nat /\ i > 0 /\ i <= f
      BY <1>1
    <3>2. \A i \in 1 .. indexed : Promise!IsStub(i) => Promise!IsStub(f)
      <4>1. /\ \A i \in 1 .. Total : Promise!IsStub(i) <=> i > Total - project.stubs
            /\ project.stubs \in Nat
        BY ProjectFacts
      <4> QED BY <1>1, <3>1, <4>1
    <3> QED BY <3>1, <3>2 DEF StubsWith, OthersWith
  <2>10. None \notin Nat
    BY ConstantFacts
  <2> HIDE DEF f, w, declared
  <2>11. CASE declared /\ Promise!IsStub(f)
    <3>1. index'[k] = f
      BY <2>7, <2>8, <2>11
    <3>2. f \in StubsWith(k, f) /\ \A i \in StubsWith(k, f) : i <= f
      BY <2>3, <2>4, <2>9, <2>11
    <3> QED BY <3>1, <3>2 DEF Wins
  <2>12. CASE declared /\ ~Promise!IsStub(f) /\ (k \in Builtin => Files[f].analyze)
    <3>1. StubsWith(k, f) = {} /\ StubsWith(k, indexed) = {}
      BY <2>4, <2>9, <2>12
    <3>2. OthersWith(k, f) = OthersWith(k, indexed) \cup {f}
      BY <2>5, <2>12
    <3>3. CASE w \in OthersWith(k, indexed)
      <4>1. \A i \in OthersWith(k, indexed) : w <= i
        BY <2>6, <2>9, <2>10, <3>1, <3>3 DEF Wins
      <4>2. index'[k] = w
        BY <2>7, <2>8, <2>9, <2>10, <2>12, <3>3
      <4> QED BY <2>9, <3>1, <3>2, <3>3, <4>1, <4>2 DEF Wins
    <3>4. CASE w \notin OthersWith(k, indexed)
      <4>1. OthersWith(k, indexed) = {} /\ w = IF k \in Builtin THEN 0 ELSE None
        BY <2>6, <3>1, <3>4 DEF Wins
      <4>2. index'[k] = f
        BY <2>7, <2>8, <2>12, <4>1
      <4> QED BY <2>3, <3>1, <3>2, <4>1, <4>2 DEF Wins
    <3> QED BY <3>3, <3>4
  <2>13. CASE ~declared \/ (~Promise!IsStub(f) /\ k \in Builtin /\ ~Files[f].analyze)
    <3>1. StubsWith(k, f) = StubsWith(k, indexed) /\ OthersWith(k, f) = OthersWith(k, indexed)
      BY <2>4, <2>5, <2>13
    <3>2. index'[k] = w
      <4>1. CASE ~declared
        BY <2>7, <4>1
      <4>2. CASE ~Promise!IsStub(f) /\ k \in Builtin /\ ~Files[f].analyze
        <5>1. w # None
          BY <2>6, <2>9, <2>10, <4>2 DEF Wins
        <5> QED BY <2>7, <2>8, <4>2, <5>1
      <4> QED BY <2>13, <4>1, <4>2
    <3> QED BY <2>6, <3>1, <3>2 DEF Wins
  <2> QED BY <2>11, <2>12, <2>13
<1>8. Placed' /\ Counted' /\ Gathered' /\ Worked'
  BY KeepsPlaced, KeepsCounted, KeepsGathered, KeepsWorked
<1> QED BY <1>4, <1>5, <1>6, <1>7, <1>8

\* A batch comes after all files before it, and ends where the next one starts.
LEMMA BatchFollows ==
    ASSUME EngineInv, Stow
    PROVE  /\ first' \in Nat /\ first \in Nat /\ Len(batch) \in Nat
           /\ first' = first + Len(batch) /\ first' = indexed /\ first' \in 0 .. Total
           /\ ToSet(batch) = first + 1 .. first'
           /\ \A i \in 1 .. Len(batch) : batch[i] = first + i
           /\ stub = {i \in ToSet(batch) : Promise!IsStub(i)}
<1> USE DEF EngineInv
<1>1. /\ first \in Nat /\ indexed \in 0 .. Total
      /\ Len(batch) \in Nat
      /\ batch = [i \in 1 .. Len(batch) |-> first + i]
      /\ stub = {i \in first + 1 .. first + Len(batch) : Promise!IsStub(i)}
      /\ first' = first + Len(batch) /\ first' = indexed
  <2>1. Total \in Nat
    BY ProjectFacts
  <2> QED BY <2>1 DEF Typed, Batched, Stow
<1> DEFINE m == Len(batch)
<1> HIDE DEF EngineInv
<1>2. DOMAIN batch = 1 .. m
  BY <1>1
<1>3. \A i \in 1 .. m : batch[i] = first + i /\ first + i \in first + 1 .. first'
  BY <1>1
<1>4. \A j \in first + 1 .. first' : j - first \in 1 .. m /\ first + (j - first) = j
  BY <1>1
<1>5. ToSet(batch) = first + 1 .. first'
  <2>1. ToSet(batch) = {batch[i] : i \in 1 .. m}
    BY <1>2 DEF ToSet
  <2>2. ToSet(batch) \subseteq first + 1 .. first'
    BY <1>3, <2>1
  <2>3. ASSUME NEW j \in first + 1 .. first'
        PROVE  j \in ToSet(batch)
    <3>1. j - first \in 1 .. m /\ batch[j - first] = j
      BY <1>3, <1>4
    <3> QED BY <2>1, <3>1
  <2> QED BY <2>2, <2>3
<1>6. first' \in Nat
  BY <1>1
<1> QED BY <1>1, <1>3, <1>5, <1>6

\* What a batch adds to some kind of file.
LEMMA BatchAdds ==
    ASSUME NEW a \in Nat, NEW b \in Nat, a <= b,
           NEW S \in SUBSET (1 .. a), NEW T \in SUBSET (a + 1 .. b)
    PROVE  /\ S \in Numbers /\ T \in Numbers
           /\ \A i \in S, j \in T : i < j
<1>1. S \in Numbers /\ T \in Numbers
  <2>1. a + 1 \in Nat
    OBVIOUS
  <2> QED BY <2>1, IntervalNumbers
<1> QED BY <1>1

LEMMA BatchKinds ==
    ASSUME EngineInv, Stow
    PROVE  LET b == ToSet(batch)
           IN /\ Staying(first') = Staying(first) \cup Kept(b)
              /\ Leaving(first') = Leaving(first) \cup Deferred(b)
              /\ Analyzed(first') = Analyzed(first) \cup (b \ NotAnalyzed(b))
              /\ Scanned(first') = Scanned(first) \cup (NotAnalyzed(b) \ stub)
              /\ Staying(first) \in Numbers /\ Leaving(first) \in Numbers
              /\ Analyzed(first) \in Numbers /\ Scanned(first) \in Numbers
              /\ Kept(b) \in Numbers /\ Deferred(b) \in Numbers
              /\ b \ NotAnalyzed(b) \in Numbers /\ NotAnalyzed(b) \ stub \in Numbers
              /\ \A i \in 1 .. first, j \in b : i < j
<1> DEFINE b == ToSet(batch)
<1>1. /\ first' \in Nat /\ first \in Nat /\ first <= first'
      /\ b = first + 1 .. first' /\ stub = {i \in b : Promise!IsStub(i)}
  BY BatchFollows
<1> HIDE DEF b
<1>2. \A i : i \in 1 .. first' <=> i \in 1 .. first \/ i \in b
  BY <1>1
<1>3. /\ Staying(first') = Staying(first) \cup Kept(b)
      /\ Leaving(first') = Leaving(first) \cup Deferred(b)
      /\ Analyzed(first') = Analyzed(first) \cup (b \ NotAnalyzed(b))
  BY <1>2 DEF Staying, Leaving, Analyzed, Kept, Deferred, NotAnalyzed
<1>4. Scanned(first') = Scanned(first) \cup (NotAnalyzed(b) \ stub)
  BY <1>1, <1>2 DEF Scanned, NotAnalyzed
<1>5. /\ Staying(first) \in SUBSET (1 .. first) /\ Leaving(first) \in SUBSET (1 .. first)
      /\ Analyzed(first) \in SUBSET (1 .. first) /\ Scanned(first) \in SUBSET (1 .. first)
  BY DEF Staying, Leaving, Analyzed, Scanned
<1>6. /\ Kept(b) \in SUBSET b /\ Deferred(b) \in SUBSET b
      /\ b \ NotAnalyzed(b) \in SUBSET b /\ NotAnalyzed(b) \ stub \in SUBSET b
  BY DEF Kept, Deferred, NotAnalyzed
<1>7. \A S \in SUBSET (1 .. first) : S \in Numbers
  BY <1>1, IntervalNumbers
<1>8. \A S \in SUBSET b : S \in Numbers
  <2>1. first + 1 \in Nat
    BY <1>1
  <2> QED BY <1>1, <2>1, IntervalNumbers
<1>9. \A i \in 1 .. first, j \in b : i < j
  BY <1>1
<1> QED BY <1>3, <1>4, <1>5, <1>6, <1>7, <1>8, <1>9 DEF b

LEMMA TwoParts ==
    ASSUME NEW f, NEW a \in Nat, NEW m \in Nat, NEW S, f \in [1 .. a + m -> S]
    PROVE  [i \in 1 .. a |-> f[i]] \o [i \in 1 .. m |-> f[a + i]] = f
<1> DEFINE s == [i \in 1 .. a |-> f[i]]
           u == [i \in 1 .. m |-> f[a + i]]
<1>1. /\ \A i \in 1 .. a : i \in 1 .. a + m
      /\ \A i \in 1 .. m : a + i \in 1 .. a + m
  OBVIOUS
<1>2. s \in Seq(S) /\ u \in Seq(S) /\ Len(s) = a /\ Len(u) = m
  BY <1>1
<1>3. /\ \A i \in 1 .. a : s[i] = f[i]
      /\ \A i \in 1 .. m : u[i] = f[a + i]
  OBVIOUS
<1> HIDE DEF s, u
<1>4. s \o u \in Seq(S) /\ Len(s \o u) = a + m
  BY <1>2
<1>5. ASSUME NEW i \in 1 .. a + m
      PROVE  (s \o u)[i] = f[i]
  <2>1. CASE i <= a
    BY <1>2, <1>3, <2>1
  <2>2. CASE i > a
    <3>1. i - a \in 1 .. m /\ a + (i - a) = i
      BY <2>2
    <3>2. (s \o u)[i] = u[i - a]
      BY <1>2, <2>2
    <3> QED BY <1>3, <3>1, <3>2
  <2>3. i <= a \/ i > a
    OBVIOUS
  <2> QED BY <2>1, <2>2, <2>3
<1>6. DOMAIN (s \o u) = 1 .. a + m
  BY <1>4
<1>7. s \o u = f
  BY <1>4, <1>5, <1>6
<1> QED BY <1>7 DEF s, u

LEMMA StowStep ==
    ASSUME EngineInv, Stow
    PROVE  EngineInv'
<1> DEFINE b == ToSet(batch)
           m == Len(batch)
<1>1. /\ first' \in Nat /\ first \in Nat /\ m \in Nat
      /\ first' = first + m /\ first' = indexed /\ first' \in 0 .. Total
      /\ b = first + 1 .. first'
      /\ \A i \in 1 .. m : batch[i] = first + i
      /\ DOMAIN batch = 1 .. m
  <2>1. DOMAIN batch = 1 .. m
    BY BatchFollows DEF EngineInv, Batched, Stow
  <2> QED BY <2>1, BatchFollows
<1>2. /\ Staying(first') = Staying(first) \cup Kept(b)
      /\ Leaving(first') = Leaving(first) \cup Deferred(b)
      /\ Analyzed(first') = Analyzed(first) \cup (b \ NotAnalyzed(b))
      /\ Scanned(first') = Scanned(first) \cup (NotAnalyzed(b) \ stub)
      /\ Staying(first) \in Numbers /\ Leaving(first) \in Numbers
      /\ Analyzed(first) \in Numbers /\ Scanned(first) \in Numbers
      /\ Kept(b) \in Numbers /\ Deferred(b) \in Numbers
      /\ b \ NotAnalyzed(b) \in Numbers /\ NotAnalyzed(b) \ stub \in Numbers
      /\ \A i \in 1 .. first, j \in b : i < j
  BY BatchKinds
<1>3. /\ Staying(first) \subseteq 1 .. first /\ Leaving(first) \subseteq 1 .. first
      /\ Analyzed(first) \subseteq 1 .. first /\ Scanned(first) \subseteq 1 .. first
      /\ Kept(b) \subseteq b /\ Deferred(b) \subseteq b
      /\ b \ NotAnalyzed(b) \subseteq b /\ NotAnalyzed(b) \ stub \subseteq b
  BY DEF Staying, Leaving, Analyzed, Scanned, Kept, Deferred, NotAnalyzed
<1>4. /\ order' = order \o [i \in 1 .. m |-> Slot(batch[i], b)]
      /\ retained' = retained \o InOrder(Kept(b))
      /\ deferred' = deferred \o InOrder(Deferred(b))
      /\ counts' = [analyzed |-> counts.analyzed + Cardinality(b \ NotAnalyzed(b)),
                    scanned |-> counts.scanned + Cardinality(NotAnalyzed(b) \ stub)]
      /\ UNCHANGED <<project, infer, streaming, index, indexed, evidence, done, report, harvested>>
      /\ pc = "index" /\ pc' = "parse"
  BY <1>1, PromisedOrder DEF Stow
<1>5. Typed /\ Staged /\ Batched /\ Winning /\ Placed /\ Counted /\ Gathered /\ Worked
  BY DEF EngineInv
<1> HIDE DEF b, m
<1>6. Files' = Files /\ Total' = Total
  BY <1>4 DEF Files, Total
<1>7. Typed' /\ Staged' /\ Batched'
  <2>1. Typed'
    BY <1>1, <1>4, <1>5, <1>6 DEF Typed
  <2>2. Staged'
    BY <1>1, <1>4, <1>5, <1>6 DEF Staged
  <2>3. Batched'
    BY <1>4 DEF Batched
  <2> QED BY <2>1, <2>2, <2>3
<1>8. Winning' /\ Gathered'
  BY <1>4, <1>5, KeepsWinning, KeepsGathered
<1>9. Worked'
  <2>1. done' = <<>>
    BY <1>4, <1>5 DEF Worked
  <2> QED BY <2>1 DEF Worked
<1>10. Counted'
  <2>1. Cardinality(Analyzed(first'))
          = Cardinality(Analyzed(first)) + Cardinality(b \ NotAnalyzed(b))
    <3> DEFINE added == b \ NotAnalyzed(b)
    <3>1. /\ added \in Numbers /\ Analyzed(first) \in Numbers
          /\ Analyzed(first') = Analyzed(first) \cup added
          /\ \A i \in Analyzed(first), j \in added : i < j
      BY <1>2, <1>3
    <3> HIDE DEF added
    <3>2. Cardinality(Analyzed(first')) = Cardinality(Analyzed(first)) + Cardinality(added)
      BY <3>1, RankOfUnion
    <3> QED BY <3>2 DEF added
  <2>2. Cardinality(Scanned(first'))
          = Cardinality(Scanned(first)) + Cardinality(NotAnalyzed(b) \ stub)
    <3> DEFINE added == NotAnalyzed(b) \ stub
    <3>1. /\ added \in Numbers /\ Scanned(first) \in Numbers
          /\ Scanned(first') = Scanned(first) \cup added
          /\ \A i \in Scanned(first), j \in added : i < j
      BY <1>2, <1>3
    <3> HIDE DEF added
    <3>2. Cardinality(Scanned(first')) = Cardinality(Scanned(first)) + Cardinality(added)
      BY <3>1, RankOfUnion
    <3> QED BY <3>2 DEF added
  <2>3. counts' = [analyzed |-> Cardinality(Analyzed(first')),
                   scanned |-> Cardinality(Scanned(first'))]
    BY <1>4, <1>5, <2>1, <2>2 DEF Counted
  <2>4. Analyzed(first)' = Analyzed(first') /\ Scanned(first)' = Scanned(first')
    BY <1>4, <1>6, SameProject DEF Analyzed, Scanned
  <2> QED BY <2>3, <2>4 DEF Counted
<1>11. Placed'
  <2>1. /\ retained' = InOrder(Staying(first'))
        /\ deferred' = InOrder(Leaving(first'))
    BY <1>2, <1>3, <1>4, <1>5, InOrderOfUnion DEF Placed
  <2>2. /\ Len(retained) = Cardinality(Staying(first))
        /\ Len(deferred) = Cardinality(Leaving(first))
    BY <1>2, <1>5, InOrderOf DEF Placed
  <2>3. /\ \A i \in Staying(first) : Rank(Staying(first'), i) = Rank(Staying(first), i)
        /\ \A i \in Kept(b) : Rank(Staying(first'), i) = Len(retained) + Rank(Kept(b), i)
        /\ \A i \in Leaving(first) : Rank(Leaving(first'), i) = Rank(Leaving(first), i)
        /\ \A i \in Deferred(b) : Rank(Leaving(first'), i) = Len(deferred) + Rank(Deferred(b), i)
    <3>1. /\ \A i \in Staying(first), j \in Kept(b) : i < j
          /\ \A i \in Leaving(first), j \in Deferred(b) : i < j
      BY <1>2, <1>3
    <3>2. /\ \A i \in Staying(first) : Rank(Staying(first'), i) = Rank(Staying(first), i)
          /\ \A i \in Kept(b) : Rank(Staying(first'), i) = Len(retained) + Rank(Kept(b), i)
      BY <1>2, <2>2, <3>1, RankOfUnion
    <3>3. /\ \A i \in Leaving(first) : Rank(Leaving(first'), i) = Rank(Leaving(first), i)
          /\ \A i \in Deferred(b) : Rank(Leaving(first'), i) = Len(deferred) + Rank(Deferred(b), i)
      BY <1>2, <2>2, <3>1, RankOfUnion
    <3> QED BY <3>2, <3>3
  <2>4. ASSUME NEW i \in 1 .. first
        PROVE  SlotOf(i, first) = SlotOf(i, first')
    <3>1. i \in Staying(first') <=> i \in Staying(first)
      BY <1>1, <1>2, <1>3
    <3>2. i \notin Staying(first) => i \in Leaving(first)
      <4>1. Files[i].analyze \in BOOLEAN /\ streaming \in BOOLEAN
        BY <1>1, <1>5, ProjectFacts DEF Typed
      <4> QED BY <4>1 DEF Staying, Leaving
    <3> QED BY <2>3, <3>1, <3>2 DEF SlotOf
  <2>5. ASSUME NEW i \in 1 .. m
        PROVE  Slot(batch[i], b) = SlotOf(first + i, first')
    <3> DEFINE f == first + i
    <3>1. batch[i] = f /\ f \in b /\ f \notin 1 .. first /\ f \in 1 .. Total
      <4>1. Total \in Nat
        BY <1>5, ProjectFacts
      <4> QED BY <1>1, <4>1
    <3> HIDE DEF f
    <3>2. f \in Kept(b) <=> f \in Staying(first')
      BY <1>2, <1>3, <3>1
    <3>3. f \notin Kept(b) => f \in Deferred(b)
      <4>1. Files[f].analyze \in BOOLEAN /\ streaming \in BOOLEAN
        BY <1>5, <3>1, ProjectFacts DEF Typed
      <4> QED BY <3>1, <4>1 DEF Kept, Deferred
    <3>4. Slot(f, b) = SlotOf(f, first')
      BY <2>3, <3>2, <3>3, PromisedRank DEF Slot, SlotOf, Place
    <3> QED BY <3>1, <3>4 DEF f
  <2>6. order' = [i \in 1 .. first' |-> SlotOf(i, first')]
    <3> DEFINE all == [i \in 1 .. first + m |-> SlotOf(i, first')]
               SlotsOf == {SlotOf(i, first') : i \in 1 .. first + m}
    <3>1. all \in [1 .. first + m -> SlotsOf]
      OBVIOUS
    <3>2. order = [i \in 1 .. first |-> all[i]]
      <4>1. order = [i \in 1 .. first |-> SlotOf(i, first)]
        BY <1>5 DEF Placed
      <4>2. \A i \in 1 .. first : i \in 1 .. first + m
        BY <1>1
      <4> QED BY <2>4, <4>1, <4>2
    <3>3. [i \in 1 .. m |-> Slot(batch[i], b)] = [i \in 1 .. m |-> all[first + i]]
      <4>1. \A i \in 1 .. m : first + i \in 1 .. first + m
        BY <1>1
      <4> QED BY <2>5, <4>1
    <3> HIDE DEF all, SlotsOf
    <3>4. order' = all
      BY <1>1, <1>4, <3>1, <3>2, <3>3, TwoParts
    <3> QED BY <1>1, <3>4 DEF all
  <2>7. /\ Staying(first)' = Staying(first') /\ Leaving(first)' = Leaving(first')
        /\ \A i : SlotOf(i, first)' = SlotOf(i, first')
    BY <1>4, <1>6 DEF Staying, Leaving, SlotOf
  <2> QED BY <2>1, <2>6, <2>7 DEF Placed
<1> QED BY <1>7, <1>8, <1>9, <1>10, <1>11 DEF EngineInv

LEMMA FinalizeStep ==
    ASSUME EngineInv, Finalize
    PROVE  EngineInv'
<1> USE DEF EngineInv, Finalize
<1>1. Files' = Files /\ Total' = Total /\ Total \in Nat
  BY ProjectFacts DEF Files, Total
<1>2. Typed'
  BY <1>1 DEF Typed
<1>3. Staged'
  BY <1>1 DEF Staged, Typed
<1>4. Batched'
  BY DEF Batched
<1>5. Worked'
  <2>1. done' = <<>>
    BY DEF Worked
  <2> QED BY <2>1 DEF Worked
<1>6. Winning' /\ Placed' /\ Counted' /\ Gathered'
  BY KeepsWinning, KeepsPlaced, KeepsCounted, KeepsGathered
<1> QED BY <1>2, <1>3, <1>4, <1>5, <1>6

LEMMA ReparseStep ==
    ASSUME EngineInv, Reparse
    PROVE  EngineInv'
<1> USE DEF EngineInv, Reparse
<1>1. Files' = Files /\ Total' = Total
  BY DEF Files, Total
<1>2. Typed' /\ Staged' /\ Batched'
  BY <1>1 DEF Typed, Staged, Batched
<1>3. Winning' /\ Placed' /\ Counted' /\ Gathered' /\ Worked'
  BY KeepsWinning, KeepsPlaced, KeepsCounted, KeepsGathered, KeepsWorked
<1> QED BY <1>2, <1>3

\* A slot leads to the file it was made for.
LEMMA ProgramIs ==
    ASSUME Typed, Placed, first = Total, NEW i \in 1 .. Total
    PROVE  ProgramAt(order[i]) = i
<1>1. order[i] = SlotOf(i, Total) /\ Total \in Nat
  BY ProjectFacts DEF Placed
<1>2. Staying(Total) \in Numbers /\ Leaving(Total) \in Numbers
  <2>1. Staying(Total) \in SUBSET (1 .. Total) /\ Leaving(Total) \in SUBSET (1 .. Total)
    BY DEF Staying, Leaving
  <2> QED BY <1>1, <2>1, IntervalNumbers
<1>3. i \in Staying(Total) \/ i \in Leaving(Total)
  <2>1. Files[i].analyze \in BOOLEAN /\ streaming \in BOOLEAN
    BY ProjectFacts DEF Typed
  <2> QED BY <2>1 DEF Staying, Leaving
<1>4. CASE i \in Staying(Total)
  <2>1. retained[Rank(Staying(Total), i)] = i
    BY <1>2, <1>4, InOrderOf DEF Placed
  <2> QED BY <1>1, <1>4, <2>1 DEF SlotOf, ProgramAt
<1>5. CASE i \notin Staying(Total)
  <2>1. deferred[Rank(Leaving(Total), i)] = i
    BY <1>2, <1>3, <1>5, InOrderOf DEF Placed
  <2> QED BY <1>1, <1>5, <2>1 DEF SlotOf, ProgramAt
<1> QED BY <1>4, <1>5

\* The programs of a batch are the next files, in their order.
LEMMA ProgramsAre ==
    ASSUME EngineInv, pc \in {"reparse", "harvest"}
    PROVE  /\ harvested \in Nat
           /\ Len(Slots) \in 1 .. Total - harvested
           /\ Programs = [i \in 1 .. Len(Slots) |-> harvested + i]
<1> DEFINE last == Min({harvested + BatchSize, Total})
           m == last - harvested
<1>1. /\ Typed /\ Placed /\ first = Total /\ Total \in Nat
      /\ harvested \in Nat /\ harvested < Total
  BY ProjectFacts DEF EngineInv, Staged, Typed
<1>2. BatchSize \in Nat /\ BatchSize > 0
  BY <1>1, ConstantFacts DEF BatchSize, Typed
<1>3. last \in Nat /\ harvested < last /\ last <= Total
  <2>1. harvested + BatchSize \in Nat
    BY <1>1, <1>2
  <2> QED BY <1>1, <1>2, <2>1, MinOfTwo
<1> HIDE DEF last
<1>4. m \in 1 .. Total - harvested /\ harvested + m = last
  BY <1>1, <1>3
<1>5. order = [i \in 1 .. Total |-> SlotOf(i, Total)]
  BY <1>1 DEF Placed
<1>6. Slots = [i \in 1 .. m |-> order[harvested + i]]
  <2>1. Slots = SubSeq(order, harvested + 1, last)
    BY DEF Slots, last
  <2>2. order \in Seq({SlotOf(i, Total) : i \in 1 .. Total}) /\ Len(order) = Total
    BY <1>1, <1>5
  <2> HIDE DEF m
  <2>3. /\ Len(SubSeq(order, harvested + 1, last)) = m
        /\ SubSeq(order, harvested + 1, last) \in Seq({SlotOf(i, Total) : i \in 1 .. Total})
    BY <1>1, <1>3, <1>4, <2>2
  <2>4. \A i \in 1 .. m : SubSeq(order, harvested + 1, last)[i] = order[harvested + i]
    BY <1>1, <1>3, <1>4, <2>2
  <2> QED BY <1>4, <2>1, <2>3, <2>4
<1>7. Len(Slots) = m /\ DOMAIN Slots = 1 .. m
  <2>1. m \in Nat
    BY <1>1, <1>4
  <2> HIDE DEF m
  <2> QED BY <1>6, <2>1
<1>8. ASSUME NEW i \in 1 .. m
      PROVE  ProgramAt(Slots[i]) = harvested + i
  <2>1. harvested + i \in 1 .. Total
    BY <1>1, <1>3, <1>4
  <2>2. Slots[i] = order[harvested + i]
    BY <1>6
  <2> QED BY <1>1, <2>1, <2>2, ProgramIs
<1> QED BY <1>1, <1>4, <1>7, <1>8 DEF Programs

LEMMA HarvestStep ==
    ASSUME EngineInv, Harvest
    PROVE  EngineInv'
<1> DEFINE m == Len(Slots)
<1>1. /\ harvested \in Nat /\ m \in 1 .. Total - harvested /\ Total \in Nat
      /\ Programs = [i \in 1 .. m |-> harvested + i]
      /\ Typed /\ Staged /\ Batched /\ Winning /\ Placed /\ Counted /\ Gathered /\ Worked
      /\ first = Total /\ indexed = Total /\ infer
  BY ProgramsAre, ProjectFacts DEF EngineInv, Staged, Harvest
<1>2. /\ evidence' = [k \in Name |-> Harvested(k)]
      /\ harvested' = harvested + m
      /\ pc = "harvest" /\ pc' = IF harvested' = Total THEN "analyze" ELSE "reparse"
      /\ UNCHANGED <<project, infer, streaming, batch, stub, first, index, order, retained,
                     deferred, counts, done, report, indexed>>
  BY DEF Harvest
<1> HIDE DEF m
<1>3. Files' = Files /\ Total' = Total
  BY <1>2 DEF Files, Total
<1>4. harvested' \in 0 .. Total
  BY <1>1, <1>2
<1>5. Typed'
  BY <1>1, <1>2, <1>3, <1>4 DEF Typed
<1>6. Staged'
  BY <1>1, <1>2, <1>3, <1>4 DEF Staged
<1>7. Batched'
  BY <1>2 DEF Batched
<1>8. Winning' /\ Placed' /\ Counted'
  BY <1>1, <1>2, KeepsWinning, KeepsPlaced, KeepsCounted
<1>9. Worked'
  <2>1. done' = <<>>
    BY <1>1, <1>2 DEF Worked
  <2> QED BY <2>1 DEF Worked
<1>10. Gathered'
  <2> SUFFICES ASSUME NEW k \in Name
               PROVE  Harvested(k) = [i \in 1 .. harvested' |-> Promise!CalledWith(i, k)]
    BY <1>2, SameProject DEF Gathered
  <2> DEFINE all == [i \in 1 .. harvested + m |-> Promise!CalledWith(i, k)]
  <2>1. evidence[k] = [i \in 1 .. harvested |-> all[i]]
    <3>1. evidence[k] = [i \in 1 .. harvested |-> Promise!CalledWith(i, k)]
      BY <1>1 DEF Gathered
    <3>2. \A i \in 1 .. harvested : i \in 1 .. harvested + m
      BY <1>1
    <3> QED BY <3>1, <3>2
  <2>2. [i \in DOMAIN Programs |-> Observed(Programs[i], k)] = [i \in 1 .. m |-> all[harvested + i]]
    <3>1. DOMAIN Programs = 1 .. m
      BY <1>1
    <3>2. ASSUME NEW i \in 1 .. m
          PROVE  Observed(Programs[i], k) = all[harvested + i]
      <4>1. harvested + i \in 1 .. harvested + m
        BY <1>1
      <4>2. Programs[i] = harvested + i
        BY <1>1
      <4> QED BY <1>1, <4>1, <4>2, ObservedIs
    <3> QED BY <3>1, <3>2
  <2>3. all \in [1 .. harvested + m -> SUBSET Type]
    <3>1. \A i \in 1 .. harvested + m : i \in 1 .. Total
      BY <1>1
    <3> QED BY <1>1, <3>1, CalledWithType
  <2>4. m \in Nat
    BY <1>1
  <2> HIDE DEF all
  <2>5. [i \in 1 .. harvested |-> all[i]] \o [i \in 1 .. m |-> all[harvested + i]] = all
    BY <1>1, <2>3, <2>4, TwoParts
  <2>6. Harvested(k) = evidence[k] \o [i \in DOMAIN Programs |-> Observed(Programs[i], k)]
    BY DEF Harvested
  <2>7. Harvested(k) = all
    BY <2>1, <2>2, <2>5, <2>6
  <2> QED BY <1>2, <2>7 DEF all
<1> QED BY <1>5, <1>6, <1>7, <1>8, <1>9, <1>10 DEF EngineInv

\* What stays is the files that stay, in their order.
LEMMA RetainedAre ==
    ASSUME EngineInv, first = Total
    PROVE  /\ Staying(Total) \in Numbers
           /\ retained \in Seq(Staying(Total))
           /\ DOMAIN retained = 1 .. Cardinality(Staying(Total))
           /\ \A p \in DOMAIN retained :
                /\ retained[p] \in Staying(Total) /\ retained[p] \in 1 .. Total
                /\ Rank(Staying(Total), retained[p]) = p
           /\ \A i \in Staying(Total) :
                /\ Rank(Staying(Total), i) \in DOMAIN retained
                /\ retained[Rank(Staying(Total), i)] = i
<1>1. Total \in Nat /\ retained = InOrder(Staying(Total))
  BY ProjectFacts DEF EngineInv, Placed
<1>2. Staying(Total) \in SUBSET (1 .. Total)
  BY DEF Staying
<1>3. Staying(Total) \in Numbers
  BY <1>1, <1>2, IntervalNumbers
<1> QED BY <1>1, <1>2, <1>3, InOrderOf, RankType

LEMMA AnalyzeStep ==
    ASSUME EngineInv, NEW p \in DOMAIN retained, Analyze(p)
    PROVE  EngineInv'
<1> DEFINE item == [at |-> p, findings |-> Findings(retained[p])]
           Items == [at : DOMAIN retained, findings : {Promise!FindingsIn(i) : i \in 1 .. Total}]
<1>1. /\ Typed /\ Staged /\ Batched /\ Winning /\ Placed /\ Counted /\ Gathered /\ Worked
      /\ pc = "analyze" /\ first = Total /\ indexed = Total
      /\ infer => harvested = Total
  BY DEF EngineInv, Staged, Analyze
<1>2. /\ done' = Append(done, item)
      /\ Files[retained[p]].analyze
      /\ \A d \in DOMAIN done : done[d].at # p
      /\ UNCHANGED <<project, infer, streaming, pc, batch, stub, first, index, order,
                     retained, deferred, counts, live, evidence, report, indexed, harvested>>
  BY DEF Analyze
<1>3. retained[p] \in 1 .. Total
  <2>1. first = Total
    BY <1>1
  <2> QED BY <2>1, RetainedAre
<1>4. item.at = p /\ item.findings = Promise!FindingsIn(retained[p]) /\ item \in Items
  <2>1. indexed = Total /\ (infer => harvested = Total)
    BY <1>1
  <2>2. Findings(retained[p]) = Promise!FindingsIn(retained[p])
    BY <1>3, <2>1, FindingsAre
  <2> QED BY <1>3, <2>2
<1>5. Files' = Files /\ Total' = Total
  BY <1>2 DEF Files, Total
<1>6. Typed' /\ Staged' /\ Batched'
  <2>1. \A i : Promise!IsStub(i)' = Promise!IsStub(i)
    BY <1>2, SameProject
  <2> QED BY <1>1, <1>2, <1>5, <2>1 DEF Typed, Staged, Batched
<1>7. Winning' /\ Placed' /\ Counted' /\ Gathered'
  BY <1>1, <1>2, KeepsWinning, KeepsPlaced, KeepsCounted, KeepsGathered
<1> HIDE DEF item
<1>8. Worked'
  <2>1. done \in Seq(Items)
    BY <1>1 DEF Worked
  <2>2. done' \in Seq(Items)
    BY <1>2, <1>4, <2>1
  <2> HIDE DEF Items
  <2>3. /\ DOMAIN done' = DOMAIN done \cup {Len(done) + 1}
        /\ \A d \in DOMAIN done : done'[d] = done[d] /\ d # Len(done) + 1
        /\ done'[Len(done) + 1] = item
    BY <1>2, <2>1
  <2>4. \A d \in DOMAIN done' :
          /\ Files[retained[done'[d].at]].analyze
          /\ done'[d].findings = Promise!FindingsIn(retained[done'[d].at])
    BY <1>1, <1>2, <1>4, <2>3 DEF Worked
  <2>5. \A c, d \in DOMAIN done' : done'[c].at = done'[d].at => c = d
    BY <1>1, <1>2, <1>4, <2>3 DEF Worked
  <2>6. \A i : Promise!FindingsIn(i)' = Promise!FindingsIn(i)
    BY <1>2, SameProject
  <2>7. done' \in Seq([at : DOMAIN retained, findings : {Promise!FindingsIn(i) : i \in 1 .. Total}])
    BY <2>2 DEF Items
  <2>8. {Promise!FindingsIn(i)' : i \in 1 .. Total'} = {Promise!FindingsIn(i) : i \in 1 .. Total}
    BY <1>5, <2>6
  <2>9. retained' = retained /\ pc' = "analyze"
    BY <1>1, <1>2
  <2> QED BY <1>5, <2>4, <2>5, <2>6, <2>7, <2>8, <2>9 DEF Worked
<1> QED BY <1>6, <1>7, <1>8 DEF EngineInv

LEMMA AssembleStep ==
    ASSUME EngineInv, Assemble
    PROVE  EngineInv'
<1> USE DEF EngineInv, Assemble
<1>1. Files' = Files /\ Total' = Total
  BY DEF Files, Total
<1>2. Typed' /\ Staged' /\ Batched'
  BY <1>1 DEF Typed, Staged, Batched
<1>3. Winning' /\ Placed' /\ Counted' /\ Gathered' /\ Worked'
  BY KeepsWinning, KeepsPlaced, KeepsCounted, KeepsGathered, KeepsWorked
<1> QED BY <1>2, <1>3

LEMMA EngineStep ==
    ASSUME EngineInv, [Next]_vars
    PROVE  EngineInv'
<1>1. CASE Parse
  BY <1>1, ParseStep
<1>2. CASE IndexFile
  BY <1>2, IndexStep
<1>3. CASE Stow
  BY <1>3, StowStep
<1>4. CASE Finalize
  BY <1>4, FinalizeStep
<1>5. CASE Reparse
  BY <1>5, ReparseStep
<1>6. CASE Harvest
  BY <1>6, HarvestStep
<1>7. ASSUME NEW p \in DOMAIN retained, Analyze(p)
      PROVE  EngineInv'
  BY <1>7, AnalyzeStep
<1>8. CASE Assemble
  BY <1>8, AssembleStep
<1>9. CASE UNCHANGED vars
  <2> USE <1>9 DEF EngineInv, vars
  <2>1. Files' = Files /\ Total' = Total
    BY DEF Files, Total
  <2>2. \A i : Promise!IsStub(i)' = Promise!IsStub(i)
    BY SameProject
  <2>3. Typed' /\ Staged' /\ Batched'
    BY <2>1, <2>2 DEF Typed, Staged, Batched
  <2>4. Winning' /\ Placed' /\ Counted' /\ Gathered' /\ Worked'
    BY KeepsWinning, KeepsPlaced, KeepsCounted, KeepsGathered, KeepsWorked
  <2> QED BY <2>3, <2>4
<1> QED BY <1>1, <1>2, <1>3, <1>4, <1>5, <1>6, <1>7, <1>8, <1>9 DEF Next

\* Either engine has, of the files that it has gone through, what the promise
\* says of them, in whatever batches and whichever worker is done first.
THEOREM Invariant == Spec => []EngineInv
<1>1. EngineInv /\ [Next]_vars => EngineInv'
  BY EngineStep
<1> QED BY InitEngine, <1>1, PTL DEF Spec

-----------------------------------------------------------------------------
\* A map that keeps the order of some numbers keeps their ranks.
LEMMA RankOfImage ==
    ASSUME NEW S \in Numbers, NEW T \in Numbers, NEW f \in [S -> T],
           \A p, q \in S : p < q => f[p] < f[q],
           \A j \in T : \E p \in S : f[p] = j,
           NEW r \in S
    PROVE  Rank(T, f[r]) = Rank(S, r)
<1> DEFINE low == {p \in S : p <= r}
           high == {j \in T : j <= f[r]}
           g == [p \in low |-> f[p]]
<1>1. /\ \A p \in S : p \in Int /\ f[p] \in T /\ f[p] \in Int
      /\ low \in SUBSET S /\ high \in SUBSET T
  BY NumbersAre
<1>2. \A p \in S : p <= r <=> f[p] <= f[r]
  <2> TAKE p \in S
  <2>1. p \in Int /\ r \in Int /\ f[p] \in Int /\ f[r] \in Int
    BY <1>1
  <2>2. CASE p < r
    BY <2>1, <2>2
  <2>3. CASE r < p
    BY <2>1, <2>3
  <2>4. CASE p = r
    BY <2>1, <2>4
  <2> QED BY <2>1, <2>2, <2>3, <2>4
<1>3. \A p, q \in S : f[p] = f[q] => p = q
  <2> TAKE p, q \in S
  <2> HAVE f[p] = f[q]
  <2>1. p \in Int /\ q \in Int /\ f[p] \in Int
    BY <1>1
  <2>2. ~ (p < q) /\ ~ (q < p)
    BY <2>1
  <2> QED BY <2>1, <2>2
<1>4. g \in [low -> high]
  BY <1>1, <1>2
<1>5. \A p, q \in low : g[p] = g[q] => p = q
  BY <1>3
<1>6. \A j \in high : \E p \in low : g[p] = j
  BY <1>2
<1>7. Rank(S, r) = Cardinality(low) /\ Rank(T, f[r]) = Cardinality(high)
  BY DEF Rank
<1>8. low \in Numbers
  BY <1>1, NumbersAre
<1> HIDE DEF low, high, g
<1>9. g \in Bijection(low, high)
  BY <1>4, <1>5, <1>6 DEF Bijection, Injection, Surjection, IsInjective
<1>10. IsFiniteSet(low) /\ ExistsBijection(low, high)
  BY <1>8, <1>9, NumbersAre DEF ExistsBijection
<1>11. Cardinality(high) = Cardinality(low)
  BY <1>10, FS_Bijection
<1> QED BY <1>7, <1>11

\* The workers' results, sorted, are the findings of the analyzed files in the
\* order of the inputs.
LEMMA ReportIs ==
    ASSUME EngineInv, Assemble
    PROVE  report' = Promise!Expected
<1> DEFINE A == Analyzed(Total)
           S == Staying(Total)
           at == [d \in DOMAIN done |-> done[d].at]
           Ats == {done[d].at : d \in DOMAIN done}
<1>1. /\ Typed /\ Placed /\ Worked /\ Total \in Nat
      /\ first = Total /\ Len(done) = Cardinality(A)
      /\ counts = [analyzed |-> Cardinality(A), scanned |-> Cardinality(Scanned(Total))]
  BY ProjectFacts DEF EngineInv, Staged, Counted, Assemble
<1>2. /\ S \in Numbers /\ DOMAIN retained = 1 .. Cardinality(S)
      /\ \A p \in DOMAIN retained :
           retained[p] \in S /\ retained[p] \in 1 .. Total /\ Rank(S, retained[p]) = p
      /\ \A i \in S : Rank(S, i) \in DOMAIN retained /\ retained[Rank(S, i)] = i
  BY <1>1, RetainedAre
<1>3. A \in Numbers /\ A \subseteq S
  <2>1. A \in SUBSET (1 .. Total)
    BY DEF Analyzed
  <2>2. A \in Numbers
    BY <1>1, <2>1, IntervalNumbers
  <2> QED BY <2>2 DEF Analyzed, Staying
<1>4. /\ DOMAIN done = 1 .. Cardinality(A) /\ Cardinality(A) \in Nat
      /\ \A d \in DOMAIN done :
           /\ done[d].at \in DOMAIN retained /\ retained[done[d].at] \in A
           /\ done[d].findings = Promise!FindingsIn(retained[done[d].at])
      /\ \A c, d \in DOMAIN done : done[c].at = done[d].at => c = d
  <2>1. Cardinality(A) \in Nat
    BY <1>3, NumbersAre
  <2>2. /\ done \in Seq([at : DOMAIN retained,
                         findings : {Promise!FindingsIn(i) : i \in 1 .. Total}])
        /\ \A d \in DOMAIN done :
             /\ Files[retained[done[d].at]].analyze
             /\ done[d].findings = Promise!FindingsIn(retained[done[d].at])
        /\ \A c, d \in DOMAIN done : done[c].at = done[d].at => c = d
    BY <1>1 DEF Worked
  <2>3. DOMAIN done = 1 .. Cardinality(A) /\ \A d \in DOMAIN done : done[d].at \in DOMAIN retained
    <3> DEFINE Items == [at : DOMAIN retained,
                         findings : {Promise!FindingsIn(i) : i \in 1 .. Total}]
    <3>1. \A item \in Items : item.at \in DOMAIN retained
      OBVIOUS
    <3>2. done \in Seq(Items)
      BY <2>2
    <3> HIDE DEF Items
    <3>3. DOMAIN done = 1 .. Len(done) /\ \A d \in DOMAIN done : done[d] \in Items
      BY <3>2
    <3> QED BY <1>1, <3>1, <3>3
  <2>4. \A d \in DOMAIN done : retained[done[d].at] \in A
    BY <1>2, <2>2, <2>3 DEF Analyzed
  <2> QED BY <2>1, <2>2, <2>3, <2>4
<1> HIDE DEF A, S
\* Every analyzed file is taken by a worker: there are as many results as files.
<1>5. \A i \in A : \E d \in DOMAIN done : retained[done[d].at] = i
  <2> DEFINE g == [d \in 1 .. Cardinality(A) |-> retained[done[d].at]]
             D == 1 .. Cardinality(A)
  <2>1. \A c, d \in D : g[c] = g[d] => c = d
    <3> TAKE c, d \in D
    <3> HAVE g[c] = g[d]
    <3>1. retained[done[c].at] = retained[done[d].at]
      OBVIOUS
    <3>2. done[c].at = done[d].at
      BY <1>2, <1>4, <3>1
    <3> QED BY <1>4, <3>2
  <2>2. g \in [D -> A]
    BY <1>4
  <2>3. IsFiniteSet(D) /\ Cardinality(D) = Cardinality(A) /\ IsFiniteSet(A)
    BY <1>3, <1>4, FS_Interval, NumbersAre
  <2>4. \A d \in D : g[d] = retained[done[d].at]
    OBVIOUS
  <2>5. D = DOMAIN done
    BY <1>4
  <2> HIDE DEF g, D
  <2>6. g \in Injection(D, A)
    BY <2>1, <2>2 DEF Injection, IsInjective
  <2>7. g \in Surjection(D, A)
    BY <2>3, <2>6, FS_Injection
  <2> QED BY <2>4, <2>5, <2>7 DEF Surjection
<1>6. Ats \in Numbers /\ Cardinality(Ats) = Cardinality(A)
  <2> DEFINE D == 1 .. Cardinality(A)
  <2>1. at \in [D -> Ats] /\ (\A c, d \in D : at[c] = at[d] => c = d)
    BY <1>4
  <2>2. \A j \in Ats : \E d \in D : at[d] = j
    BY <1>4
  <2>3. IsFiniteSet(D) /\ Cardinality(D) = Cardinality(A)
    BY <1>4, FS_Interval
  <2>4. Ats \in SUBSET Nat
    <3>1. Cardinality(S) \in Nat
      BY <1>2, NumbersAre
    <3> QED BY <1>2, <1>4, <3>1
  <2> HIDE DEF at, Ats, D
  <2>5. at \in Bijection(D, Ats)
    BY <2>1, <2>2 DEF Bijection, Injection, Surjection, IsInjective
  <2>6. ExistsBijection(D, Ats)
    BY <2>5 DEF ExistsBijection
  <2>7. IsFiniteSet(Ats) /\ Cardinality(Ats) = Cardinality(D)
    BY <2>3, <2>6, FS_Bijection
  <2> QED BY <2>3, <2>4, <2>7 DEF Numbers
<1>7. /\ \A p \in Ats : p \in DOMAIN retained /\ retained[p] \in A
      /\ \A i \in A : \E p \in Ats : retained[p] = i
  BY <1>4, <1>5
<1>8. \A p, q \in Ats : p < q => retained[p] < retained[q]
  <2> TAKE p, q \in Ats
  <2> HAVE p < q
  <2>1. /\ p \in Int /\ q \in Int /\ retained[p] \in S /\ retained[q] \in S
        /\ Rank(S, retained[p]) = p /\ Rank(S, retained[q]) = q
    BY <1>2, <1>6, <1>7, NumbersAre
  <2>2. retained[p] \in Int /\ retained[q] \in Int
    BY <1>2, <2>1, NumbersAre
  <2>3. ~ (retained[q] < retained[p])
    <3> SUFFICES ASSUME retained[q] < retained[p]
                 PROVE  FALSE
      OBVIOUS
    <3>1. Rank(S, retained[q]) < Rank(S, retained[p])
      BY <1>2, <2>1, RankGrows
    <3> QED BY <2>1, <3>1
  <2>4. retained[q] # retained[p]
    BY <2>1
  <2> QED BY <2>2, <2>3, <2>4
\* So the r-th position in the order is that of the r-th analyzed file.
<1>9. ASSUME NEW r \in 1 .. Cardinality(A)
      PROVE  InFileOrder[r].findings = Promise!FindingsIn(InOrder(A)[r])
  <2> DEFINE p == InOrder(Ats)[r]
             f == [q \in Ats |-> retained[q]]
             chosen == CHOOSE d \in DOMAIN done : done[d].at = p
  <2>1. p \in Ats /\ Rank(Ats, p) = r
    BY <1>6, InOrderOf
  <2>2. Rank(A, retained[p]) = r
    <3>1. f \in [Ats -> A] /\ f[p] = retained[p]
      BY <1>7, <2>1
    <3>2. \A q, s \in Ats : q < s => f[q] < f[s]
      BY <1>8
    <3>3. \A j \in A : \E q \in Ats : f[q] = j
      BY <1>7
    <3> HIDE DEF f, Ats, p
    <3> QED BY <1>3, <1>6, <2>1, <3>1, <3>2, <3>3, RankOfImage
  <2>3. InOrder(A)[r] = retained[p]
    <3>1. retained[p] \in A
      BY <1>7, <2>1
    <3> QED BY <1>3, <2>2, <3>1, InOrderOf
  <2>4. chosen \in DOMAIN done /\ done[chosen].at = p
    <3>1. \E d \in DOMAIN done : done[d].at = p
      BY <2>1
    <3> HIDE DEF p
    <3> QED BY <3>1
  <2>5. InFileOrder[r] = done[chosen]
    <3>1. r \in DOMAIN done
      BY <1>4
    <3> QED BY <3>1, PromisedOrder DEF InFileOrder
  <2> HIDE DEF chosen, p
  <2> QED BY <1>4, <2>3, <2>4, <2>5
<1>10. Promise!Analyzed = A
         /\ {i \in Promise!File : ~Promise!Files[i].analyze /\ ~Promise!IsStub(i)} = Scanned(Total)
  BY <1>1, ProjectFacts DEF A, Analyzed, Scanned, Promise!Analyzed
<1>11. Promise!Expected =
         [findings |-> [r \in 1 .. Cardinality(A) |-> Promise!FindingsIn(InOrder(A)[r])],
          analyzed |-> Cardinality(A),
          scanned |-> Cardinality(Scanned(Total))]
  <2>1. DOMAIN InOrder(A) = 1 .. Cardinality(A)
    BY <1>3, InOrderOf
  <2> QED BY <1>10, <2>1, PromisedOrder, PromisedCardinality DEF Promise!Expected
<1>12. report' = [findings |-> [r \in 1 .. Cardinality(A) |-> InFileOrder[r].findings],
                  analyzed |-> Cardinality(A),
                  scanned |-> Cardinality(Scanned(Total))]
  BY <1>1, <1>4 DEF Assemble
<1> QED BY <1>9, <1>11, <1>12

\* A step of either engine is a step of Engine, or changes nothing it speaks of.
LEMMA StepKeepsPromise ==
    ASSUME EngineInv, [Next]_vars
    PROVE  [Promise!Next]_Promise!engine
<1> USE DEF Promise!engine
<1>1. CASE Parse
  BY <1>1 DEF Parse
<1>2. CASE IndexFile
  <2>1. harvested = 0 /\ report = None
    BY <1>2 DEF EngineInv, Staged, IndexFile
  <2>2. indexed' \in indexed + 1 .. Len(Promise!Files)
    <3>1. indexed + 1 \in 1 .. Total /\ indexed \in Nat /\ Total \in Nat
      BY <1>2, IndexedFile, ProjectFacts DEF EngineInv
    <3>2. Len(Promise!Files) = Total
      BY DEF Promise!Files, Files, Total
    <3> QED BY <1>2, <3>1, <3>2 DEF IndexFile
  <2> QED BY <1>2, <2>1, <2>2 DEF IndexFile, Promise!Next, Promise!Index
<1>3. CASE Stow
  BY <1>3 DEF Stow
<1>4. CASE Finalize
  BY <1>4 DEF Finalize
<1>5. CASE Reparse
  BY <1>5 DEF Reparse
<1>6. CASE Harvest
  <2>1. infer /\ report = None /\ indexed = Total
    BY <1>6 DEF EngineInv, Staged, Harvest
  <2>2. harvested' \in harvested + 1 .. Total
    <3>1. harvested \in Nat /\ Len(Slots) \in 1 .. Total - harvested /\ Total \in Nat
      BY <1>6, ProgramsAre, ProjectFacts DEF EngineInv, Harvest
    <3> QED BY <1>6, <3>1 DEF Harvest
  <2>3. Len(Promise!Files) = Total
    BY DEF Promise!Files, Files, Total
  <2> QED BY <1>6, <2>1, <2>2, <2>3 DEF Harvest, Promise!Next, Promise!Harvest
<1>7. ASSUME NEW p \in DOMAIN retained, Analyze(p)
      PROVE  UNCHANGED Promise!engine
  BY <1>7 DEF Analyze
<1>8. CASE Assemble
  <2>1. report = None /\ indexed = Total /\ (infer => harvested = Total)
    BY <1>8 DEF EngineInv, Staged, Assemble
  <2>2. report' = Promise!Expected
    BY <1>8, ReportIs
  <2>3. Len(Promise!Files) = Total
    BY DEF Promise!Files, Files, Total
  <2> QED BY <1>8, <2>1, <2>2, <2>3 DEF Assemble, Promise!Next, Promise!Report
<1>9. CASE UNCHANGED vars
  BY <1>9 DEF vars
<1> QED BY <1>1, <1>2, <1>3, <1>4, <1>5, <1>6, <1>7, <1>8, <1>9 DEF Next

\* Both engines do what Engine promises: every behaviour of theirs, with the
\* batches, the parsing of the deferred files and the workers left out, is one
\* of Engine, in which the report is a function of the project.
THEOREM Refinement == Spec => KeepsPromise
<1>1. Init => Promise!Init
  BY DEF Init, Promise!Init
<1>2. EngineInv /\ [Next]_vars => [Promise!Next]_Promise!engine
  BY StepKeepsPromise
<1> QED BY <1>1, <1>2, Invariant, PTL DEF Spec, KeepsPromise, Promise!Spec
=============================================================================
