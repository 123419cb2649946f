---------------------------- MODULE SessionProofs ----------------------------
(***************************************************************************)
(* Proofs about the incremental session.  First what the analysis of one   *)
(* file depends on: the lookups it makes are the least set closed under    *)
(* what their answers lead to, and two indexes that answer those lookups   *)
(* alike give the same findings.  Then the session: its variables keep     *)
(* their types, and in the scope of SessionScope it reports what the batch *)
(* engine would report, for every project, every set of inputs, any number *)
(* of passes and any edits between the reads of a pass.                    *)
(***************************************************************************)
EXTENDS SessionScope, TLAPS, WellFoundedInduction

\* A set of paths has a first one.
LEMMA FirstIn ==
    ASSUME NEW S \in SUBSET Path, S # {}
    PROVE  First(S) \in S
<1> DEFINE less == {ss \in Nat \X Nat : ss[1] < ss[2]}
<1>1. IsWellFoundedOn(less, Nat)
  <2>1. OpToRel(<, Nat) = less
     BY DEF OpToRel
  <2> QED BY <2>1, NatLessThanWellFounded
<1>2. S \subseteq Nat
  BY IndexAssumption
<1> HIDE DEF less
<1>3. PICK x \in S : \A y \in S : ~ (<<y, x>> \in less)
  BY <1>1, <1>2, WFMin
<1>4. ASSUME NEW y \in S
      PROVE  x <= y
  <2>1. x \in Nat /\ y \in Nat
    BY <1>2
  <2>2. ~ (<<y, x>> \in less)
    BY <1>3
  <2>3. ~ (y < x)
    BY <2>1, <2>2 DEF less
  <2> QED BY <2>1, <2>3
<1> QED BY <1>4 DEF First

-----------------------------------------------------------------------------
\* The three kinds of queries, what the indexes answer to each and where the
\* answer leads.
LEMMA QueryKinds ==
    ASSUME NEW q \in Query
    PROVE  \/ \E k \in Symbol : q = <<"surface", k>>
           \/ \E k \in Symbol : q = <<"body", k>>
           \/ q = <<"global", None>>
BY DEF Query

LEMMA QueryTuples ==
    /\ \A k \in Symbol : <<"surface", k>> \in Query /\ <<"body", k>> \in Query
    /\ <<"global", None>> \in Query
BY DEF Query

LEMMA ViewSurface ==
    ASSUME NEW tree, NEW i, NEW stub, NEW inf, NEW k \in Symbol
    PROVE  View(tree, i, stub, inf)[<<"surface", k>>]
             = SurfaceOf(tree, i, stub, inf, k)
BY DEF View, Query

LEMMA ViewBody ==
    ASSUME NEW tree, NEW i, NEW stub, NEW inf, NEW k \in Symbol
    PROVE  View(tree, i, stub, inf)[<<"body", k>>] = BodyOf(tree, i, stub, k)
BY DEF View, Query

LEMMA ViewGlobal ==
    ASSUME NEW tree, NEW i, NEW stub, NEW inf
    PROVE  View(tree, i, stub, inf)[<<"global", None>>]
             = [k \in Symbol |-> SurfaceOf(tree, i, stub, inf, k)]
BY DEF View, Query

LEMMA FollowSurface ==
    ASSUME NEW a, NEW k
    PROVE  Follow(<<"surface", k>>, a) = {"surface"} \X NamedBy(a)
BY DEF Follow

LEMMA FollowBody ==
    ASSUME NEW a, NEW k
    PROVE  Follow(<<"body", k>>, a)
             = (IF a.file = None THEN {} ELSE BodyReads[a.file.source])
                 \cup (IF a.stub = None THEN {} ELSE BodyReads[a.stub])
BY DEF Follow

LEMMA FollowGlobal ==
    ASSUME NEW a, NEW k
    PROVE  Follow(<<"global", k>>, a) = {}
BY DEF Follow

\* The lookups made contain the first ones and all that they lead to.
LEMMA ConsultedClosed ==
    ASSUME NEW seeds, NEW idx
    PROVE  /\ seeds \subseteq Consulted(seeds, idx)
           /\ Closed(Consulted(seeds, idx), idx.leads)
<1> DEFINE C == Consulted(seeds, idx)
           reachable == UNION {l[2] : l \in idx.leads}
           closed == {R \in SUBSET reachable : Closed(seeds \cup R, idx.leads)}
<1>1. seeds \subseteq C
  BY DEF Consulted
<1>2. ASSUME NEW l \in idx.leads, l[1] \in C, NEW x \in l[2]
      PROVE  x \in C
  <2>1. x \in reachable
    OBVIOUS
  <2>2. ASSUME NEW R \in closed
        PROVE  x \in seeds \cup R
    <3>1. l[1] \in seeds \cup R
      BY <1>2 DEF Consulted
    <3> QED BY <3>1 DEF Closed
  <2> QED BY <2>1, <2>2 DEF Consulted
<1> QED BY <1>1, <1>2 DEF Closed

\* They are in every closed set that contains the first ones.
LEMMA ConsultedLeast ==
    ASSUME NEW seeds, NEW idx, NEW D,
           seeds \subseteq D, Closed(D, idx.leads)
    PROVE  Consulted(seeds, idx) \subseteq D
<1> DEFINE reachable == UNION {l[2] : l \in idx.leads}
           R == D \cap reachable
<1>1. Closed(seeds \cup R, idx.leads)
  <2> SUFFICES ASSUME NEW l \in idx.leads, l[1] \in seeds \cup R
               PROVE  l[2] \subseteq seeds \cup R
    BY DEF Closed
  <2>1. l[2] \subseteq D
    BY DEF Closed
  <2>2. l[2] \subseteq reachable
    OBVIOUS
  <2> QED BY <2>1, <2>2
<1>2. R \in {Q \in SUBSET reachable : Closed(seeds \cup Q, idx.leads)}
  BY <1>1
<1> QED BY <1>2 DEF Consulted

\* Two indexes that answer alike what was looked up in the first are looked up
\* alike.
LEMMA ConsultedLocal ==
    ASSUME NEW v0, NEW v1, NEW seeds,
           \A q \in Consulted(seeds, [answer |-> v0, leads |-> Leads(v0)]) \cap Query :
              v0[q] = v1[q]
    PROVE  Consulted(seeds, [answer |-> v0, leads |-> Leads(v0)])
             = Consulted(seeds, [answer |-> v1, leads |-> Leads(v1)])
<1> DEFINE i0 == [answer |-> v0, leads |-> Leads(v0)]
           i1 == [answer |-> v1, leads |-> Leads(v1)]
           C0 == Consulted(seeds, i0)
           C1 == Consulted(seeds, i1)
<1>a. i0.leads = Leads(v0) /\ i1.leads = Leads(v1)
  OBVIOUS
<1>1. /\ seeds \subseteq C0 /\ Closed(C0, Leads(v0))
      /\ seeds \subseteq C1 /\ Closed(C1, Leads(v1))
  BY <1>a, ConsultedClosed
<1> HIDE DEF C0, C1
<1>2. ASSUME NEW q \in C0 \cap Query
      PROVE  v0[q] = v1[q]
  BY DEF C0
<1>3. C1 \subseteq C0
  <2>1. Closed(C0, Leads(v1))
    <3> SUFFICES ASSUME NEW q \in Query, q \in C0
                 PROVE  Follow(q, v1[q]) \subseteq C0
      BY DEF Closed, Leads
    <3>1. v0[q] = v1[q]
      BY <1>2
    <3>2. <<q, Follow(q, v0[q])>> \in Leads(v0)
      BY DEF Leads
    <3>3. Follow(q, v0[q]) \subseteq C0
      BY <1>1, <3>2 DEF Closed
    <3> QED BY <3>1, <3>3
  <2> QED BY <1>a, <1>1, <2>1, ConsultedLeast DEF C1
<1>4. C0 \subseteq C1
  <2>1. Closed(C1, Leads(v0))
    <3> SUFFICES ASSUME NEW q \in Query, q \in C1
                 PROVE  Follow(q, v0[q]) \subseteq C1
      BY DEF Closed, Leads
    <3>1. v0[q] = v1[q]
      BY <1>2, <1>3
    <3>2. <<q, Follow(q, v1[q])>> \in Leads(v1)
      BY DEF Leads
    <3>3. Follow(q, v1[q]) \subseteq C1
      BY <1>1, <3>2 DEF Closed
    <3> QED BY <3>1, <3>3
  <2> QED BY <1>a, <1>1, <2>1, ConsultedLeast DEF C0
<1> QED BY <1>3, <1>4 DEF C0, C1

-----------------------------------------------------------------------------
\* What an index answers has the type of a surface, or is "not there".
LEMMA DeclaredType ==
    ASSUME NEW tree \in Tree, NEW i \in Input, NEW stub \in Content,
           NEW k \in Symbol
    PROVE  /\ Declared(tree, i, stub, k) \in Surface \cup {None}
           /\ ProjectEntry(tree, i, stub, k).shape \in Surface \cup {None}
<1> USE IndexAssumption
<1>1. \A p \in Declarers(tree, k) \cup NameDeclarers(tree, k) :
         /\ p \in Path
         /\ tree[p] \in File
  BY DEF Declarers, NameDeclarers, Tree
<1>2. \A c \in Content : Reflects[c][k] \in Surface \cup {None}
  OBVIOUS
<1>3. Builtin[i][k] \in Surface \cup {None}
  OBVIOUS
<1>4. Declared(tree, i, stub, k) \in Surface \cup {None}
  <2>1. CASE Accepted(tree, i, k) # {}
    <3>1. Accepted(tree, i, k) \subseteq Declarers(tree, k)
      BY DEF Accepted
    <3>2. First(Accepted(tree, i, k)) \in Accepted(tree, i, k)
      BY <1>1, <2>1, <3>1, FirstIn
    <3>3. tree[First(Accepted(tree, i, k))].source \in Content
      BY <1>1, <3>1, <3>2 DEF File
    <3> QED BY <1>2, <2>1, <3>3 DEF Declared
  <2>2. CASE Accepted(tree, i, k) = {}
    BY <1>2, <1>3, <2>2 DEF Declared
  <2> QED BY <2>1, <2>2
<1>5. ProjectEntry(tree, i, stub, k).shape \in Surface \cup {None}
  <2>1. CASE NameDeclarers(tree, k) # {}
    <3>1. First(NameDeclarers(tree, k)) \in NameDeclarers(tree, k)
      BY <1>1, <2>1, FirstIn
    <3>2. tree[First(NameDeclarers(tree, k))].source \in Content
      BY <1>1, <3>1 DEF File
    <3> QED BY <1>2, <1>3, <2>1, <3>2 DEF ProjectEntry
  <2>2. CASE NameDeclarers(tree, k) = {}
    BY <1>2, <1>3, <2>2 DEF ProjectEntry
  <2> QED BY <2>1, <2>2
<1> QED BY <1>4, <1>5

LEMMA NamedByType ==
    ASSUME NEW tree \in Tree, NEW i \in Input, NEW stub \in Content, NEW inf,
           NEW k \in Symbol
    PROVE  NamedBy(SurfaceOf(tree, i, stub, inf, k)) \subseteq Symbol
<1> DEFINE a == SurfaceOf(tree, i, stub, inf, k)
           Of(s) == IF s = None THEN {} ELSE Reaches[s]
<1>1. \A s \in Surface \cup {None} : Of(s) \subseteq Symbol
  BY IndexAssumption
<1>2. a.declared \in Surface \cup {None} /\ a.entry.shape \in Surface \cup {None}
  BY DeclaredType DEF SurfaceOf
<1>3. ASSUME NEW j \in DOMAIN a.imported
      PROVE  a.imported[j] \in Surface \cup {None}
  <2>1. a.imported = Imported(tree, i, stub, k)
    BY DEF SurfaceOf
  <2>2. Declared(tree, i, stub, k) \in Surface /\ j \in Imports[Declared(tree, i, stub, k)]
    BY <1>3, <2>1, DeclaredType DEF Imported
  <2>3. j \in Symbol
    BY <2>2, IndexAssumption
  <2>4. a.imported[j] = Declared(tree, i, stub, j)
    BY <1>3, <2>1 DEF Imported
  <2> QED BY <2>3, <2>4, DeclaredType
<1> HIDE DEF a
<1>4. NamedBy(a) = Of(a.declared) \cup Of(a.entry.shape)
                     \cup UNION {Of(a.imported[j]) : j \in DOMAIN a.imported}
  BY DEF NamedBy
<1> HIDE DEF Of
<1>5. UNION {Of(a.imported[j]) : j \in DOMAIN a.imported} \subseteq Symbol
  BY <1>1, <1>3
<1> QED BY <1>1, <1>2, <1>4, <1>5 DEF a

\* The path a body is answered with is a file of the tree that declares it.
LEMMA BodyType ==
    ASSUME NEW tree \in Tree, NEW i \in Input, NEW stub \in Content,
           NEW k \in Symbol
    PROVE  LET a == BodyOf(tree, i, stub, k)
           IN /\ a.path = None => a.file = None
              /\ a.path # None => /\ a.path \in Path
                                  /\ a.file = tree[a.path]
                                  /\ a.file \in File
              /\ a.stub \in {None, stub}
<1> USE IndexAssumption
<1> DEFINE A == Accepted(tree, i, k)
<1>1. CASE A # {}
  <2>1. A \subseteq Path
    BY DEF Accepted, Declarers
  <2>2. First(A) \in A
    BY <1>1, <2>1, FirstIn
  <2>3. First(A) \in Path /\ tree[First(A)] \in File
    BY <2>2 DEF Accepted, Declarers, Tree
  <2> HIDE DEF A
  <2> QED BY <1>1, <2>3 DEF BodyOf, A
<1>2. CASE A = {}
  BY <1>2 DEF BodyOf
<1> QED BY <1>1, <1>2

\* Answers lead to queries.
LEMMA ConsultedType ==
    ASSUME NEW tree \in Tree, NEW i \in Input, NEW stub \in Content, NEW inf,
           NEW seeds \in SUBSET Query
    PROVE  Consulted(seeds, Indexed(tree, i, stub, inf)) \subseteq Query
<1> DEFINE view == View(tree, i, stub, inf)
<1>1. ASSUME NEW q \in Query
      PROVE  Follow(q, view[q]) \subseteq Query
  <2>1. CASE \E k \in Symbol : q = <<"surface", k>>
    <3>1. PICK k \in Symbol : q = <<"surface", k>>
      BY <2>1
    <3>0. view[q] = SurfaceOf(tree, i, stub, inf, k)
      BY <3>1, ViewSurface
    <3>2. Follow(q, view[q]) = {"surface"} \X NamedBy(SurfaceOf(tree, i, stub, inf, k))
      BY <3>0, <3>1, FollowSurface
    <3>3. NamedBy(SurfaceOf(tree, i, stub, inf, k)) \subseteq Symbol
      BY NamedByType
    <3>4. \A N : N \subseteq Symbol => {"surface"} \X N \subseteq Query
      BY DEF Query
    <3> QED BY <3>2, <3>3, <3>4, Zenon
  <2>2. CASE \E k \in Symbol : q = <<"body", k>>
    <3>1. PICK k \in Symbol : q = <<"body", k>>
      BY <2>2
    <3> DEFINE a == BodyOf(tree, i, stub, k)
    <3>2. view[q] = a
      BY <3>1, ViewBody
    <3>3. Follow(q, a) = (IF a.file = None THEN {} ELSE BodyReads[a.file.source])
                    \cup (IF a.stub = None THEN {} ELSE BodyReads[a.stub])
      BY <3>1, FollowBody
    <3>4. a.file = None \/ a.file \in File
      BY BodyType, Zenon
    <3>5. a.stub \in {None, stub}
      BY BodyType, Zenon
    <3>6. \A c \in Content : BodyReads[c] \subseteq Query
      BY IndexAssumption
    <3> HIDE DEF a
    <3> QED BY <3>2, <3>3, <3>4, <3>5, <3>6 DEF File
  <2>3. CASE q = <<"global", None>>
    BY <2>3, FollowGlobal
  <2> QED BY <2>1, <2>2, <2>3, QueryKinds
<1> HIDE DEF view
<1>2. Closed(Query, Leads(view))
  BY <1>1 DEF Closed, Leads
<1> QED BY <1>2, ConsultedLeast DEF Indexed, view

-----------------------------------------------------------------------------
\* Two versions of a file that declare k, or not, in the same way.
Names(file, k) == file # None /\ k \in IndexNames(file.source)

Alike(file0, file1, k) ==
    /\ Names(file0, k) <=> Names(file1, k)
    /\ Names(file0, k) => Reflects[file0.source][k] = Reflects[file1.source][k]

\* The flags count for a symbol that is also a builtin.
SameFlag(file0, file1, k, i) ==
    Builtin[i][k] # None /\ Names(file0, k) /\ Names(file1, k)
        => file0.analyze = file1.analyze

\* Projects whose files declare k alike answer alike for k itself.
LEMMA DeclaredFrame ==
    ASSUME NEW t0 \in Tree, NEW t1 \in Tree, NEW i \in Input,
           NEW stub \in Content, NEW k \in Symbol,
           \A p \in Path : /\ Alike(t0[p], t1[p], k)
                           /\ SameFlag(t0[p], t1[p], k, i)
    PROVE  /\ Declared(t0, i, stub, k) = Declared(t1, i, stub, k)
           /\ ProjectEntry(t0, i, stub, k) = ProjectEntry(t1, i, stub, k)
<1>1. NameDeclarers(t0, k) = NameDeclarers(t1, k)
  BY DEF NameDeclarers, Alike, Names
<1>2. \A p \in NameDeclarers(t0, k) :
         /\ p \in Path
         /\ Reflects[t0[p].source][k] = Reflects[t1[p].source][k]
  BY DEF NameDeclarers, Alike, Names
<1>3. \A p : /\ p \in Declarers(t0, k) <=> /\ p \in NameDeclarers(t0, k)
                                           /\ Reflects[t0[p].source][k] # None
             /\ p \in Declarers(t1, k) <=> /\ p \in NameDeclarers(t1, k)
                                           /\ Reflects[t1[p].source][k] # None
  BY DEF Declarers, NameDeclarers, IndexNames, DeclaredKeys
<1>4. Declarers(t0, k) = Declarers(t1, k)
  BY <1>1, <1>2, <1>3
<1>5. Accepted(t0, i, k) = Accepted(t1, i, k)
  <2>1. CASE Builtin[i][k] = None
    BY <1>4, <2>1 DEF Accepted
  <2>2. CASE Builtin[i][k] # None
    <3>1. \A p \in Declarers(t0, k) : t0[p].analyze = t1[p].analyze
      <4> TAKE p \in Declarers(t0, k)
      <4>1. p \in Path /\ Names(t0[p], k) /\ Names(t1[p], k)
        BY <1>1, <1>3 DEF NameDeclarers, Names
      <4> QED BY <2>2, <4>1 DEF SameFlag
    <3> QED BY <1>4, <3>1 DEF Accepted
  <2> QED BY <2>1, <2>2
<1>6. Declared(t0, i, stub, k) = Declared(t1, i, stub, k)
  <2>1. CASE Accepted(t0, i, k) # {}
    <3> DEFINE p == First(Accepted(t0, i, k))
    <3>1. p \in NameDeclarers(t0, k)
      <4>1. Accepted(t0, i, k) \subseteq Path
        BY DEF Accepted, Declarers
      <4>2. p \in Accepted(t0, i, k)
        BY <2>1, <4>1, FirstIn
      <4> QED BY <1>3, <4>2 DEF Accepted
    <3> HIDE DEF p
    <3>2. Reflects[t0[p].source][k] = Reflects[t1[p].source][k]
      BY <1>2, <3>1
    <3> QED BY <1>5, <2>1, <3>2 DEF Declared, p
  <2>2. CASE Accepted(t0, i, k) = {}
    BY <1>5, <2>2 DEF Declared
  <2> QED BY <2>1, <2>2
<1>7. ProjectEntry(t0, i, stub, k) = ProjectEntry(t1, i, stub, k)
  <2>1. CASE NameDeclarers(t0, k) # {}
    <3> DEFINE p == First(NameDeclarers(t0, k))
    <3>1. p \in NameDeclarers(t0, k)
      <4>1. NameDeclarers(t0, k) \subseteq Path
        BY DEF NameDeclarers
      <4> QED BY <2>1, <4>1, FirstIn
    <3> HIDE DEF p
    <3>2. Reflects[t0[p].source][k] = Reflects[t1[p].source][k]
      BY <1>2, <3>1
    <3> QED BY <1>1, <2>1, <3>2 DEF ProjectEntry, p
  <2>2. CASE NameDeclarers(t0, k) = {}
    BY <1>1, <2>2 DEF ProjectEntry
  <2> QED BY <2>1, <2>2
<1> QED BY <1>6, <1>7

\* A whole surface is answered alike if the symbol, and every symbol its
\* answer names, is: as long as what finalization reads is also named.
LEMMA SurfaceFrame ==
    ASSUME NEW t0 \in Tree, NEW t1 \in Tree, NEW i \in Input,
           NEW stub \in Content, NEW inf0, NEW inf1, NEW k \in Symbol,
           \A s \in Surface : Imports[s] \cup (Mentions[s] \cap TypeAlias[i])
                                \subseteq Reaches[s],
           ProjectEntry(t0, i, stub, k) = ProjectEntry(t1, i, stub, k),
           Declared(t0, i, stub, k) = Declared(t1, i, stub, k),
           \A j \in NamedBy(SurfaceOf(t0, i, stub, inf0, k)) :
              Declared(t0, i, stub, j) = Declared(t1, i, stub, j),
           inf0[k] = inf1[k]
    PROVE  SurfaceOf(t0, i, stub, inf0, k) = SurfaceOf(t1, i, stub, inf1, k)
<1> DEFINE s == Declared(t0, i, stub, k)
<1>1. s \in Surface \cup {None}
  BY DeclaredType
<1>2. s # None => Reaches[s] \subseteq NamedBy(SurfaceOf(t0, i, stub, inf0, k))
  BY DEF NamedBy, SurfaceOf
<1>3. s = Declared(t1, i, stub, k)
  OBVIOUS
<1> HIDE DEF s
<1>4. s # None => \A j \in Imports[s] \cup (Mentions[s] \cap TypeAlias[i]) :
                     Declared(t0, i, stub, j) = Declared(t1, i, stub, j)
  BY <1>1, <1>2
<1>5. Imported(t0, i, stub, k) = Imported(t1, i, stub, k)
  BY <1>3, <1>4 DEF Imported, s
<1>6. Expanded(t0, i, stub, k) = Expanded(t1, i, stub, k)
  BY <1>3, <1>4 DEF Expanded, s
<1> QED BY <1>5, <1>6 DEF SurfaceOf

\* A body is answered alike if the files that declare it are the same.
LEMMA BodyFrame ==
    ASSUME NEW t0 \in Tree, NEW t1 \in Tree, NEW i \in Input,
           NEW stub \in Content, NEW k \in Symbol,
           \A p \in Path : \/ t0[p] = t1[p]
                           \/ p \notin Declarers(t0, k) \cup Declarers(t1, k)
    PROVE  BodyOf(t0, i, stub, k) = BodyOf(t1, i, stub, k)
<1>1. Declarers(t0, k) = Declarers(t1, k)
  BY DEF Declarers
<1>2. \A p \in Declarers(t0, k) : p \in Path /\ t0[p] = t1[p]
  BY <1>1 DEF Declarers
<1>3. Accepted(t0, i, k) = Accepted(t1, i, k)
  BY <1>1, <1>2 DEF Accepted
<1>4. CASE Accepted(t0, i, k) # {}
  <2> DEFINE p == First(Accepted(t0, i, k))
  <2>1. p \in Declarers(t0, k)
    <3>1. Accepted(t0, i, k) \subseteq Path /\ Accepted(t0, i, k) \subseteq Declarers(t0, k)
      BY <1>2 DEF Accepted
    <3> QED BY <1>4, <3>1, FirstIn
  <2> HIDE DEF p
  <2>2. t0[p] = t1[p]
    BY <1>2, <2>1
  <2> QED BY <1>3, <1>4, <2>2 DEF BodyOf, p
<1>5. CASE Accepted(t0, i, k) = {}
  BY <1>3, <1>5 DEF BodyOf
<1> QED BY <1>4, <1>5

-----------------------------------------------------------------------------
\* Two projects that differ, for the readers of an index, at most in the surface
\* of the symbols surface and the bodies of the symbols body.
AlikeBut(surface, body, t0, t1, i, inf0, inf1) ==
    /\ \A p \in Path, k \in Symbol :
         /\ k \notin surface => Alike(t0[p], t1[p], k)
         /\ SameFlag(t0[p], t1[p], k, i)
         /\ k \notin body => \/ t0[p] = t1[p]
                             \/ p \notin Declarers(t0, k) \cup Declarers(t1, k)
    /\ \A k \in Symbol \ surface : inf0[k] = inf1[k]

\* Lookups that none of these symbols concerns; a scan is concerned by any.
Avoids(Q, surface, body) ==
    /\ \A k \in surface : <<"surface", k>> \notin Q
    /\ \A k \in body : <<"body", k>> \notin Q
    /\ <<"global", None>> \in Q => surface = {}

\* What finalization reads to rewrite a reflection is also named by it.
Reached(i) ==
    \A s \in Surface :
        Imports[s] \cup (Mentions[s] \cap TypeAlias[i]) \subseteq Reaches[s]

\* The reason entries may be reused (Session::run): if no lookup of an analysis
\* is of a changed surface or a changed body, and a whole-index scan is among
\* them only when no surface changed, then analyzing again would find the same,
\* look up the same and locate findings in the same files.
THEOREM ReuseIsSound ==
    ASSUME NEW t0 \in Tree, NEW t1 \in Tree, NEW i \in Input,
           NEW stub \in Content, NEW c \in Content, NEW path,
           NEW inf0, NEW inf1, NEW surface, NEW body,
           Reached(i),
           AlikeBut(surface, body, t0, t1, i, inf0, inf1),
           Avoids(Consulted(Reads[c], Indexed(t0, i, stub, inf0)), surface, body)
    PROVE  /\ Findings(c, Indexed(t0, i, stub, inf0))
                = Findings(c, Indexed(t1, i, stub, inf1))
           /\ RecordedDeps(c, Indexed(t0, i, stub, inf0))
                = RecordedDeps(c, Indexed(t1, i, stub, inf1))
           /\ EmittedInto(path, c, Indexed(t0, i, stub, inf0))
                = EmittedInto(path, c, Indexed(t1, i, stub, inf1))
<1> DEFINE v0 == View(t0, i, stub, inf0)
           v1 == View(t1, i, stub, inf1)
           idx0 == Indexed(t0, i, stub, inf0)
           idx1 == Indexed(t1, i, stub, inf1)
           C == Consulted(Reads[c], idx0)
<1>1. /\ idx0 = [answer |-> v0, leads |-> Leads(v0)]
      /\ idx1 = [answer |-> v1, leads |-> Leads(v1)]
  BY DEF Indexed
<1>2. /\ \A k \in surface : <<"surface", k>> \notin C
      /\ \A k \in body : <<"body", k>> \notin C
      /\ <<"global", None>> \in C => surface = {}
  BY DEF Avoids
<1>3. Closed(C, Leads(v0))
  <2>1. Closed(C, idx0.leads)
    BY ConsultedClosed
  <2> QED BY <1>1, <2>1
<1>4. C \subseteq Query
  BY ConsultedType, IndexAssumption
<1> HIDE DEF idx0, idx1, C
<1>5. ASSUME NEW k \in Symbol, k \notin surface
      PROVE  /\ Declared(t0, i, stub, k) = Declared(t1, i, stub, k)
             /\ ProjectEntry(t0, i, stub, k) = ProjectEntry(t1, i, stub, k)
  BY <1>5, DeclaredFrame DEF AlikeBut
<1>6. ASSUME NEW k \in Symbol, k \notin surface,
             NamedBy(SurfaceOf(t0, i, stub, inf0, k)) \cap surface = {}
      PROVE  SurfaceOf(t0, i, stub, inf0, k) = SurfaceOf(t1, i, stub, inf1, k)
  <2>1. NamedBy(SurfaceOf(t0, i, stub, inf0, k)) \subseteq Symbol
    BY NamedByType
  <2>2. \A j \in NamedBy(SurfaceOf(t0, i, stub, inf0, k)) :
           Declared(t0, i, stub, j) = Declared(t1, i, stub, j)
    BY <1>5, <1>6, <2>1
  <2>3. inf0[k] = inf1[k]
    BY <1>6 DEF AlikeBut
  <2> QED BY <1>5, <1>6, <2>2, <2>3, SurfaceFrame DEF Reached
<1>7. ASSUME NEW q \in C
      PROVE  v0[q] = v1[q]
  <2>1. CASE \E k \in Symbol : q = <<"surface", k>>
    <3>1. PICK k \in Symbol : q = <<"surface", k>>
      BY <2>1
    <3>2. v0[q] = SurfaceOf(t0, i, stub, inf0, k)
      BY <3>1, ViewSurface
    <3>3. v1[q] = SurfaceOf(t1, i, stub, inf1, k)
      BY <3>1, ViewSurface
    <3>4. Follow(q, v0[q]) = {"surface"} \X NamedBy(SurfaceOf(t0, i, stub, inf0, k))
      BY <3>1, <3>2, FollowSurface
    <3>5. <<q, Follow(q, v0[q])>> \in Leads(v0)
      BY <1>4 DEF Leads
    <3> HIDE DEF v0, v1
    <3>6. Follow(q, v0[q]) \subseteq C
      BY <1>3, <3>5 DEF Closed
    <3>7. NamedBy(SurfaceOf(t0, i, stub, inf0, k)) \cap surface = {}
      BY <1>2, <3>4, <3>6
    <3>8. k \notin surface
      BY <1>2, <3>1
    <3> QED BY <1>6, <3>2, <3>3, <3>7, <3>8
  <2>2. CASE \E k \in Symbol : q = <<"body", k>>
    <3>1. PICK k \in Symbol : q = <<"body", k>>
      BY <2>2
    <3>2. v0[q] = BodyOf(t0, i, stub, k) /\ v1[q] = BodyOf(t1, i, stub, k)
      BY <3>1, ViewBody
    <3>3. k \notin body
      BY <1>2, <3>1
    <3>4. BodyOf(t0, i, stub, k) = BodyOf(t1, i, stub, k)
      BY <3>3, BodyFrame DEF AlikeBut
    <3> QED BY <3>2, <3>4
  <2>3. CASE q = <<"global", None>>
    <3>1. surface = {}
      BY <1>2, <2>3
    <3>2. \A k \in Symbol :
             SurfaceOf(t0, i, stub, inf0, k) = SurfaceOf(t1, i, stub, inf1, k)
      BY <1>6, <3>1
    <3>3. [k \in Symbol |-> SurfaceOf(t0, i, stub, inf0, k)]
            = [k \in Symbol |-> SurfaceOf(t1, i, stub, inf1, k)]
      BY <3>2
    <3>4. v0[q] = [k \in Symbol |-> SurfaceOf(t0, i, stub, inf0, k)]
      BY <2>3, ViewGlobal
    <3>5. v1[q] = [k \in Symbol |-> SurfaceOf(t1, i, stub, inf1, k)]
      BY <2>3, ViewGlobal
    <3> QED BY <3>3, <3>4, <3>5
  <2> QED BY <1>4, <2>1, <2>2, <2>3, QueryKinds
<1> HIDE DEF v0, v1
<1>8. C = Consulted(Reads[c], idx1)
  BY <1>1, <1>7, ConsultedLocal DEF C
<1>9. \A q \in C : idx0.answer[q] = idx1.answer[q]
  BY <1>1, <1>7
<1>10. Findings(c, idx0) = Findings(c, idx1)
  BY <1>8, <1>9 DEF Findings, C
<1>11. RecordedDeps(c, idx0) = RecordedDeps(c, idx1)
  BY <1>8 DEF RecordedDeps, C
<1>12. EmittedInto(path, c, idx0) = EmittedInto(path, c, idx1)
  BY <1>8, <1>9 DEF EmittedInto, C
<1> QED BY <1>10, <1>11, <1>12 DEF idx0, idx1

-----------------------------------------------------------------------------
\* The session.
Analyzed(p) == files[p] # None /\ files[p].analyze

-----------------------------------------------------------------------------
\* Types.
LEMMA NamesTyped ==
    \A c \in Content : IndexNames(c) \subseteq Symbol /\ DeclaredKeys(c) \subseteq Symbol
BY IndexAssumption DEF IndexNames, DeclaredKeys

LEMMA DiscoveredType ==
    ASSUME TypeOK
    PROVE  Discovered \in Tree
BY DEF Discovered, TypeOK, Tree, File

LEMMA InitTyped == Init => TypeOK
<1> SUFFICES ASSUME Init PROVE TypeOK
  OBVIOUS
<1>1. files \in Tree
  BY DEF Init, Tree
<1>2. stubs \in StubText /\ inputs \in Input /\ discovery \in Discovery
  BY DEF Init
<1>3. /\ deps \in [Path -> SUBSET Query]
      /\ emitted \in [Path -> SUBSET Path]
      /\ \A p \in Path : p \notin emitted[p]
  BY DEF Init
<1>4. /\ findings = [p \in Path |-> findings[p]]
      /\ report = [p \in Path |-> report[p]]
  BY DEF Init
<1>5. drift \in 0..MaxDrift
  BY SessionAssumption DEF Init
<1> QED BY <1>1, <1>2, <1>3, <1>4, <1>5 DEF Init, TypeOK

LEMMA EditTyped == TypeOK /\ Edit => TypeOK'
<1> SUFFICES ASSUME TypeOK, Edit PROVE TypeOK'
  OBVIOUS
<1>1. disk' \in [Path -> Content \cup {None}]
  <2>1. ASSUME NEW p \in Path, EditFile(p)
        PROVE  disk' \in [Path -> Content \cup {None}]
    <3>1. PICK c \in Versions[p] \cup {None} : disk' = [disk EXCEPT ![p] = c]
      BY <2>1 DEF EditFile
    <3>2. Versions[p] \subseteq Content
      BY SessionAssumption
    <3> QED BY <3>1, <3>2 DEF TypeOK
  <2> QED BY <2>1 DEF Edit, EditStubs, EditInputs, EditDiscovery, TypeOK
<1>2. inputs' \in Input /\ discovery' \in Discovery /\ stubs' \in StubText
  BY DEF Edit, EditFile, EditStubs, EditInputs, EditDiscovery, TypeOK
<1>3. drift' \in 0..MaxDrift
  BY SessionAssumption DEF Edit, TypeOK
<1>4. settled' \in BOOLEAN
  BY DEF Edit
<1> QED BY <1>1, <1>2, <1>3, <1>4
        DEF Edit, TypeOK, entries, seen, pass

LEMMA StartPassTyped ==
    ASSUME TypeOK,
           NEW changed \in SUBSET (Path \X BOOLEAN),
           NEW removed \in SUBSET {p \in Path : files[p] # None},
           NEW complete \in BOOLEAN,
           StartPass(changed, removed, complete)
    PROVE  TypeOK'
<1>1. files' \in Tree
  BY DEF StartPass, TypeOK, Tree
<1>2. deps' \in [Path -> SUBSET Query]
  BY DEF StartPass, TypeOK
<1>3. emitted' \in [Path -> SUBSET Path] /\ \A p \in Path : p \notin emitted'[p]
  BY DEF StartPass, TypeOK
<1>4. \A p \in removed : files[p].source \in Content
  BY DEF TypeOK, Tree, File
<1>5. changedSurface' \subseteq Symbol /\ changedBody' \subseteq Symbol
  BY <1>4, NamesTyped DEF StartPass, NamesOf, KeysOf
<1>6. changedFiles' \subseteq Path /\ todo' \subseteq Path \X BOOLEAN
  BY DEF StartPass
<1>7. findings' = [p \in Path |-> findings'[p]]
  BY DEF StartPass
<1>8. drift' \in 0..MaxDrift
  BY SessionAssumption DEF StartPass, TypeOK
<1> QED BY <1>1, <1>2, <1>3, <1>5, <1>6, <1>7, <1>8 DEF StartPass, TypeOK, world

LEMMA ReadTyped ==
    ASSUME TypeOK, NEW p \in Path, NEW a \in BOOLEAN, ReadFile(p, a)
    PROVE  TypeOK'
<1> DEFINE c == ReadSource(p)
<1>1. c \in Content
  BY IndexAssumption DEF ReadSource, TypeOK
<1>2. files' \in Tree
  BY <1>1 DEF ReadFile, TypeOK, Tree, File
<1>3. files[p] # None => files[p].source \in Content
  BY DEF TypeOK, Tree, File
<1>4. SurfaceChange(p, c) \subseteq Symbol
  BY <1>1, <1>3, NamesTyped DEF SurfaceChange, DiffArtifacts
<1>5. changedSurface' \subseteq Symbol /\ changedBody' \subseteq Symbol
  BY <1>1, <1>3, <1>4, NamesTyped DEF ReadFile, TypeOK
<1>6. deps' \in [Path -> SUBSET Query]
  BY DEF ReadFile, TypeOK
<1>7. emitted' \in [Path -> SUBSET Path] /\ \A q \in Path : q \notin emitted'[q]
  BY DEF ReadFile, TypeOK
<1>8. findings' = [q \in Path |-> findings'[q]]
  BY DEF ReadFile, TypeOK
<1>9. todo' \subseteq Path \X BOOLEAN
  BY DEF ReadFile, TypeOK
<1> QED BY <1>2, <1>5, <1>6, <1>7, <1>8, <1>9 DEF ReadFile, TypeOK, world, seen

LEMMA EmittedType ==
    ASSUME NEW tree \in Tree, NEW i \in Input, NEW stub \in Content, NEW inf,
           NEW c \in Content, NEW p
    PROVE  EmittedInto(p, c, Indexed(tree, i, stub, inf)) \subseteq Path \ {p}
<1> DEFINE idx == Indexed(tree, i, stub, inf)
<1>1. Consulted(Reads[c], idx) \subseteq Query
  BY ConsultedType, IndexAssumption
<1>2. idx.answer = View(tree, i, stub, inf)
  BY DEF Indexed
<1> HIDE DEF idx
<1>3. ASSUME NEW q \in Query, q[1] = "body",
             idx.answer[q].path \notin {p, None}
      PROVE  idx.answer[q].path \in Path \ {p}
  <2>1. PICK k \in Symbol : q = <<"body", k>>
    BY <1>3, QueryKinds
  <2>2. idx.answer[q] = BodyOf(tree, i, stub, k)
    BY <1>2, <2>1, ViewBody
  <2> QED BY <1>3, <2>2, BodyType
<1> QED BY <1>1, <1>3 DEF EmittedInto, idx

LEMMA InferredType ==
    ASSUME NEW tree, NEW i, NEW stub
    PROVE  Inferred(tree, i, stub) \in [Symbol -> SUBSET ArgType]
BY DEF Inferred

\* The parts of Finish: the indexes of the pass, the surfaces it finds changed
\* and the files it analyzes again.
Fresh == Indexed(files, seenInputs, stubs, Inferred(files, seenInputs, stubs))

Moved ==
    changedSurface
      \cup AliasChange(seenAliases, Alias[seenInputs])
      \cup (IF Infers[seenInputs] /\ prevInferred # None
            THEN DiffInferred(prevInferred, Inferred(files, seenInputs, stubs))
            ELSE {})

Again == {p \in Path : Invalid(p, Moved, seenStubs # None /\ stubs # seenStubs)}

LEMMA FinishEntries ==
    ASSUME Finish
    PROVE  /\ findings' = [p \in Path |-> IF p \in Again
                                         THEN Findings(files[p].source, Fresh)
                                         ELSE findings[p]]
           /\ deps' = [p \in Path |-> IF p \in Again
                                     THEN RecordedDeps(files[p].source, Fresh)
                                     ELSE deps[p]]
           /\ emitted' = [p \in Path |-> IF p \in Again
                                        THEN EmittedInto(p, files[p].source, Fresh)
                                        ELSE emitted[p]]
           /\ reanalyzed' = Again
           /\ report' = findings'
BY Zenon DEF Finish, Fresh, Moved, Again

LEMMA FinishTyped ==
    ASSUME TypeOK, seenInputs \in Input, Finish
    PROVE  TypeOK'
<1> DEFINE inferred == Inferred(files, seenInputs, stubs)
           idx == Indexed(files, seenInputs, stubs, inferred)
<1>1. inferred \in [Symbol -> SUBSET ArgType]
  BY InferredType
<1>2. stubs \in Content /\ files \in Tree
  BY SessionAssumption DEF TypeOK
<1> HIDE DEF inferred
<1>3. ASSUME NEW p \in Path, files[p] # None
      PROVE  /\ RecordedDeps(files[p].source, idx) \subseteq Query
             /\ EmittedInto(p, files[p].source, idx) \subseteq Path \ {p}
  <2>1. files[p].source \in Content
    BY <1>2, <1>3 DEF Tree, File
  <2>2. Reads[files[p].source] \subseteq Query
    BY <2>1, IndexAssumption
  <2> QED BY <1>2, <2>1, <2>2, ConsultedType, EmittedType DEF RecordedDeps
<1> HIDE DEF idx
<1>4. /\ deps' = [p \in Path |-> IF p \in Again
                                THEN RecordedDeps(files[p].source, idx)
                                ELSE deps[p]]
      /\ emitted' = [p \in Path |-> IF p \in Again
                                   THEN EmittedInto(p, files[p].source, idx)
                                   ELSE emitted[p]]
      /\ findings' = [p \in Path |-> IF p \in Again
                                    THEN Findings(files[p].source, idx)
                                    ELSE findings[p]]
      /\ reanalyzed' = Again
  BY FinishEntries DEF idx, inferred, Fresh
<1>5. \A p \in Path : p \in Again => files[p] # None
  BY DEF Again, Invalid
<1>6. deps' \in [Path -> SUBSET Query]
  BY <1>3, <1>4, <1>5 DEF TypeOK
<1>7. emitted' \in [Path -> SUBSET Path] /\ \A p \in Path : p \notin emitted'[p]
  BY <1>3, <1>4, <1>5 DEF TypeOK
<1>8. findings' = [p \in Path |-> findings'[p]] /\ report' = [p \in Path |-> report'[p]]
  BY <1>4 DEF Finish
<1>9. reanalyzed' \subseteq Path
  BY <1>4 DEF Again
<1>10. /\ seenStubs' \in StubText /\ pc' = "idle"
       /\ seenAliases' \subseteq Symbol
       /\ prevInferred' \in [Symbol -> SUBSET ArgType] \cup {None}
  BY <1>1, IndexAssumption DEF Finish, TypeOK, inferred
<1> QED BY <1>6, <1>7, <1>8, <1>9, <1>10 DEF Finish, TypeOK, world

-----------------------------------------------------------------------------
\* While a pass runs its inputs are known; between passes it collects nothing.
Phase ==
    /\ pc = "reading" => seenInputs \in Input
    /\ pc = "idle" => todo = {} /\ changedFiles = {}
    /\ FirstPass => \A p \in Path : files[p] = None

\* What the passes start from.
LEMMA FullDiffTyped ==
    ASSUME TypeOK
    PROVE  FullDiff \in SUBSET (Path \X BOOLEAN)
<1>1. \A p \in Path : Discovered[p] # None => Discovered[p].analyze \in BOOLEAN
  BY DiscoveredType DEF Tree, File
<1> QED BY <1>1 DEF FullDiff

LEMMA HintedDiffTyped ==
    ASSUME TypeOK, NEW hint \in SUBSET Path, HintUsable(hint)
    PROVE  HintedDiff(hint) \in SUBSET (Path \X BOOLEAN)
<1>1. \A p \in hint : files[p].analyze \in BOOLEAN
  BY DEF HintUsable, TypeOK, Tree, File
<1> QED BY <1>1 DEF HintedDiff

LEMMA BeginIsStart ==
    ASSUME TypeOK, Begin
    PROVE  \E changed \in SUBSET (Path \X BOOLEAN),
              removed \in SUBSET {p \in Path : files[p] # None},
              complete \in BOOLEAN :
             /\ StartPass(changed, removed, complete)
             /\ \/ \E hint \in SUBSET Path :
                     /\ HintUsable(hint)
                     /\ changed = HintedDiff(hint)
                     /\ removed = {}
                     /\ complete = \A p \in Path \ hint : Discovered[p] = files[p]
                \/ /\ changed = FullDiff
                   /\ removed = {p \in Path : files[p] # None /\ Discovered[p] = None}
                   /\ complete = TRUE
<1>1. CASE BeginFull
  <2>1. {p \in Path : files[p] # None /\ Discovered[p] = None}
          \in SUBSET {p \in Path : files[p] # None}
    OBVIOUS
  <2> QED BY <1>1, <2>1, FullDiffTyped DEF BeginFull
<1>2. ASSUME NEW hint \in SUBSET Path, BeginHinted(hint)
      PROVE  /\ HintUsable(hint)
             /\ HintedDiff(hint) \in SUBSET (Path \X BOOLEAN)
             /\ (\A p \in Path \ hint : Discovered[p] = files[p]) \in BOOLEAN
             /\ StartPass(HintedDiff(hint), {},
                          \A p \in Path \ hint : Discovered[p] = files[p])
  BY <1>2, HintedDiffTyped DEF BeginHinted
<1>3. CASE \E hint \in SUBSET Path : BeginHinted(hint)
  <2>1. PICK hint \in SUBSET Path : BeginHinted(hint)
    BY <1>3
  <2> DEFINE complete == \A p \in Path \ hint : Discovered[p] = files[p]
  <2>2. /\ HintUsable(hint)
        /\ HintedDiff(hint) \in SUBSET (Path \X BOOLEAN)
        /\ complete \in BOOLEAN
        /\ StartPass(HintedDiff(hint), {}, complete)
    BY <1>2, <2>1
  <2> HIDE DEF complete
  <2>3. {} \in SUBSET {p \in Path : files[p] # None}
    OBVIOUS
  <2> QED BY <2>2, <2>3, Zenon DEF complete
<1> QED BY <1>1, <1>3 DEF Begin

LEMMA TypedStep == TypeOK /\ Phase /\ [Next]_vars => TypeOK' /\ Phase'
<1> SUFFICES ASSUME TypeOK, Phase, [Next]_vars
             PROVE  TypeOK' /\ Phase'
  OBVIOUS
<1>1. CASE Edit
  BY <1>1, EditTyped DEF Edit, Phase, FirstPass, entries, seen, pass
<1>2. CASE Begin
  <2>1. PICK changed \in SUBSET (Path \X BOOLEAN),
             removed \in SUBSET {p \in Path : files[p] # None},
             complete \in BOOLEAN :
           StartPass(changed, removed, complete)
    BY <1>2, BeginIsStart, Zenon
  <2>2. TypeOK'
    BY <2>1, StartPassTyped
  <2>3. pc' = "reading" /\ seenInputs' \in Input
    BY <2>1 DEF StartPass, TypeOK
  <2> QED BY <2>2, <2>3, IndexAssumption DEF Phase, FirstPass
<1>3. CASE Read
  <2>1. PICK p \in Path, a \in BOOLEAN : ReadFile(p, a)
    BY <1>3 DEF Read
  <2>2. pc' = "reading" /\ seenInputs' = seenInputs /\ seenInputs \in Input
    BY <2>1 DEF ReadFile, Phase, seen
  <2> QED BY <2>1, <2>2, ReadTyped, IndexAssumption DEF Phase, FirstPass
<1>4. CASE Finish
  <2>1. seenInputs \in Input
    BY <1>4 DEF Finish, Phase
  <2> QED BY <1>4, <2>1, FinishTyped, IndexAssumption DEF Finish, Phase, FirstPass
<1>5. CASE UNCHANGED vars
  BY <1>5 DEF vars, world, entries, seen, pass, TypeOK, Phase, FirstPass
<1> QED BY <1>1, <1>2, <1>3, <1>4, <1>5 DEF Next

\* Every reachable state has the types of Session and FileEntry.
THEOREM Typed == Spec => []TypeOK
<1>1. Init => TypeOK /\ Phase
  BY InitTyped DEF Init, Phase
<1> QED BY <1>1, TypedStep, PTL DEF Spec

-----------------------------------------------------------------------------
\* The entries a file can have: some text it was given (or the text of an
\* unreadable file), with the flag that some settings give it.
RoleOf(analyze) == IF analyze THEN "analyze" ELSE "scan"

HasRole(p, analyze) == \E d \in Discovery : Role[d][p] = RoleOf(analyze)

Fits(p, file) ==
    file # None => /\ file.source \in Versions[p] \cup {Empty}
                   /\ HasRole(p, file.analyze)

Plausible ==
    /\ \A p \in Path : disk[p] \in Versions[p] \cup {None}
    /\ \A p \in Path : Fits(p, files[p])
    /\ \A f \in todo : HasRole(f[1], f[2])
    /\ \A f \in todo, g \in todo : f[1] = g[1] => f[2] = g[2]

\* A file that is not analyzed carries nothing of an analysis.
Dormant ==
    \A p \in Path : ~Analyzed(p) => /\ findings[p] = None
                                    /\ deps[p] = {}
                                    /\ emitted[p] = {}

LEMMA DiscoveredRole ==
    ASSUME TypeOK, NEW p \in Path, Discovered[p] # None
    PROVE  /\ disk[p] # None
           /\ Discovered[p].source = disk[p]
           /\ RoleOf(Discovered[p].analyze) = Role[discovery][p]
<1> DEFINE r == Role[discovery][p] = "analyze"
<1>1. disk[p] # None /\ Role[discovery][p] # "skip"
  BY DEF Discovered
<1>2. Discovered[p] = [source |-> disk[p], analyze |-> r]
  BY <1>1 DEF Discovered
<1>3. r <=> Role[discovery][p] = "analyze"
  OBVIOUS
<1>4. Role[discovery][p] \in {"analyze", "scan", "skip"}
  BY SessionAssumption DEF TypeOK
<1> HIDE DEF r
<1>5. Discovered[p].source = disk[p] /\ Discovered[p].analyze = r
  BY <1>2
<1> QED BY <1>1, <1>3, <1>4, <1>5 DEF RoleOf

LEMMA DiscoveredFits ==
    ASSUME TypeOK, Plausible, NEW p \in Path, Discovered[p] # None
    PROVE  /\ Discovered[p].source \in Versions[p]
           /\ HasRole(p, Discovered[p].analyze)
<1>1. discovery \in Discovery
  BY DEF TypeOK
<1> QED BY <1>1, DiscoveredRole DEF Plausible, HasRole

LEMMA PlausibleStep ==
    TypeOK /\ Phase /\ Plausible /\ [Next]_vars => Plausible'
<1> SUFFICES ASSUME TypeOK, Phase, Plausible, [Next]_vars
             PROVE  Plausible'
  OBVIOUS
<1>1. CASE Edit
  <2>1. disk' \in [Path -> Content \cup {None}]
    BY <1>1, EditTyped DEF TypeOK
  <2>2. \A p \in Path : disk'[p] \in Versions[p] \cup {None}
    <3>1. ASSUME NEW f \in Path, EditFile(f)
          PROVE  \A p \in Path : disk'[p] \in Versions[p] \cup {None}
      BY <3>1 DEF EditFile, TypeOK, Plausible
    <3> QED BY <1>1, <3>1 DEF Edit, EditStubs, EditInputs, EditDiscovery, Plausible
  <2> QED BY <1>1, <2>2 DEF Edit, Plausible, entries, pass
<1>2. CASE Begin
  <2>1. PICK changed \in SUBSET (Path \X BOOLEAN),
             removed \in SUBSET {p \in Path : files[p] # None},
             complete \in BOOLEAN :
           /\ StartPass(changed, removed, complete)
           /\ \/ \E hint \in SUBSET Path :
                   /\ HintUsable(hint)
                   /\ changed = HintedDiff(hint)
                   /\ removed = {}
                   /\ complete = \A p \in Path \ hint : Discovered[p] = files[p]
              \/ /\ changed = FullDiff
                 /\ removed = {p \in Path : files[p] # None /\ Discovered[p] = None}
                 /\ complete = TRUE
    BY <1>2, BeginIsStart, Zenon
  <2>2. /\ \A f \in changed : HasRole(f[1], f[2])
        /\ \A f \in changed, g \in changed : f[1] = g[1] => f[2] = g[2]
    <3>1. ASSUME NEW hint \in SUBSET Path, HintUsable(hint), changed = HintedDiff(hint)
          PROVE  /\ \A f \in changed : HasRole(f[1], f[2])
                 /\ \A f \in changed, g \in changed : f[1] = g[1] => f[2] = g[2]
      BY <3>1 DEF HintedDiff, HintUsable, Plausible, Fits
    <3>2. CASE changed = FullDiff
      BY <3>2, DiscoveredFits DEF FullDiff
    <3> QED BY <2>1, <3>1, <3>2
  <2>3. \A p \in Path : Fits(p, files'[p])
    BY <2>1 DEF StartPass, Plausible, Fits
  <2> QED BY <2>1, <2>2, <2>3 DEF StartPass, Plausible, world
<1>3. CASE Read
  <2>1. PICK p \in Path, a \in BOOLEAN : ReadFile(p, a)
    BY <1>3 DEF Read
  <2>2. ReadSource(p) \in Versions[p] \cup {Empty} /\ HasRole(p, a)
    BY <2>1 DEF ReadSource, ReadFile, Plausible
  <2>3. \A q \in Path : Fits(q, files'[q])
    BY <2>1, <2>2 DEF ReadFile, Plausible, Fits, TypeOK, Tree
  <2> QED BY <2>1, <2>3 DEF ReadFile, Plausible, world
<1>4. CASE Finish
  BY <1>4 DEF Finish, Plausible, world
<1>5. CASE UNCHANGED vars
  BY <1>5 DEF vars, world, entries, pass, Plausible
<1> QED BY <1>1, <1>2, <1>3, <1>4, <1>5 DEF Next

LEMMA DormantStep ==
    TypeOK /\ Phase /\ Dormant /\ [Next]_vars => Dormant'
<1> SUFFICES ASSUME TypeOK, Phase, Dormant, [Next]_vars
             PROVE  Dormant'
  OBVIOUS
<1>1. CASE Edit
  BY <1>1 DEF Edit, Dormant, Analyzed, entries
<1>2. CASE Begin
  <2>1. PICK changed \in SUBSET (Path \X BOOLEAN),
             removed \in SUBSET {p \in Path : files[p] # None},
             complete \in BOOLEAN :
           StartPass(changed, removed, complete)
    BY <1>2, BeginIsStart, Zenon
  <2> QED BY <2>1 DEF StartPass, Dormant, Analyzed
<1>3. CASE Read
  <2>1. PICK p \in Path, a \in BOOLEAN : ReadFile(p, a)
    BY <1>3 DEF Read
  <2>2. \A q \in Path \ {p} : /\ files'[q] = files[q]
                              /\ findings'[q] = findings[q]
                              /\ deps'[q] = deps[q]
                              /\ emitted'[q] = emitted[q]
    BY <2>1 DEF ReadFile, TypeOK, Tree
  <2>3. files'[p] = [source |-> ReadSource(p), analyze |-> a] /\ files' \in Tree
    BY <2>1, ReadTyped DEF ReadFile, TypeOK, Tree
  <2>4. Demoted(p, a) => findings'[p] = None /\ deps'[p] = {} /\ emitted'[p] = {}
    BY <2>1 DEF ReadFile, TypeOK
  <2>5. ~Demoted(p, a) => /\ findings'[p] = findings[p]
                          /\ deps'[p] = deps[p]
                          /\ emitted'[p] = emitted[p]
    BY <2>1 DEF ReadFile, TypeOK
  <2>6. ~a /\ ~Demoted(p, a) => ~Analyzed(p)
    BY DEF Demoted, Analyzed
  <2>7. \A q \in Path \ {p} : ~Analyzed(q)' => /\ findings'[q] = None
                                              /\ deps'[q] = {}
                                              /\ emitted'[q] = {}
    BY <2>2 DEF Dormant, Analyzed
  <2>8. a => Analyzed(p)'
    <3>1. ReadSource(p) \in Content
      BY IndexAssumption DEF ReadSource, TypeOK
    <3>2. files'[p] \in File
      BY <2>3, <3>1 DEF File
    <3>3. files'[p] # None
      BY <3>2, IndexAssumption
    <3> QED BY <2>3, <3>3 DEF Analyzed
  <2>9. ~Analyzed(p)' => /\ findings'[p] = None
                         /\ deps'[p] = {}
                         /\ emitted'[p] = {}
    BY <2>4, <2>5, <2>6, <2>8 DEF Dormant
  <2> QED BY <2>7, <2>9 DEF Dormant
<1>4. CASE Finish
  <2>1. \A p \in Path : p \in Again => Analyzed(p)
    BY DEF Again, Invalid, Analyzed
  <2>2. files' = files
    BY <1>4 DEF Finish
  <2> QED BY <1>4, <2>1, <2>2, FinishEntries DEF Dormant, Analyzed
<1>5. CASE UNCHANGED vars
  BY <1>5 DEF vars, entries, Dormant, Analyzed
<1> QED BY <1>1, <1>2, <1>3, <1>4, <1>5 DEF Next

-----------------------------------------------------------------------------
\* The invariant behind reuse.  There is a project, tree, on which every entry
\* kept so far is what a batch run would have found: the one of the last
\* pass.  It differs from the current one only in the changed files, and once
\* such a file is read the sets of changed symbols account for the difference.
Declares(file, k) == file # None /\ k \in DeclaredKeys(file.source)

Noted(file0, file1) ==
    \A k \in Symbol :
        /\ k \notin changedSurface => Alike(file0, file1, k)
        /\ k \notin changedBody => ~Declares(file0, k) /\ ~Declares(file1, k)

Pending(p) == \E f \in todo : f[1] = p

Base(tree) ==
    Indexed(tree, seenInputs, seenStubs, Inferred(tree, seenInputs, seenStubs))

Kept(p, tree) ==
    /\ findings[p] = Findings(tree[p].source, Base(tree))
    /\ deps[p] = RecordedDeps(tree[p].source, Base(tree))
    /\ emitted[p] = EmittedInto(p, tree[p].source, Base(tree))

Remembers(tree) ==
    /\ tree \in Tree
    /\ \A p \in Path : Fits(p, tree[p])
    /\ seenInputs \in Input
    /\ seenStubs \in StubText
    /\ seenAliases = Alias[seenInputs]
    /\ prevInferred = IF Infers[seenInputs]
                      THEN Inferred(tree, seenInputs, seenStubs)
                      ELSE None
    /\ \A p \in Path : p \notin changedFiles =>
          files[p] = tree[p] /\ (Analyzed(p) => Kept(p, tree))
    /\ \A p \in Path : p \in changedFiles =>
          \/ Pending(p) /\ files[p] = tree[p]
          \/ ~Pending(p) /\ Noted(tree[p], files[p])
    /\ \A f \in todo : f[1] \in changedFiles

Tracking ==
    /\ pc = "idle" /\ ~FirstPass => report = findings /\ Remembers(files)
    /\ pc = "reading" /\ ~analysisChanged => \E tree : Remembers(tree)

Inv == TypeOK /\ Phase /\ Plausible /\ Dormant /\ Tracking

\* A changed file's reflections and symbol tables, once compared, say which
\* symbols it may declare differently.
LEMMA SurfaceChangeSound ==
    ASSUME NEW p, NEW c, NEW a, NEW k \in Symbol \ SurfaceChange(p, c),
           None # [source |-> c, analyze |-> a]
    PROVE  Alike(files[p], [source |-> c, analyze |-> a], k)
<1> DEFINE new == [source |-> c, analyze |-> a]
<1>1. new # None /\ new.source = c
  OBVIOUS
<1> HIDE DEF new
<1>2. CASE files[p] = None
  BY <1>1, <1>2 DEF SurfaceChange, Alike, Names
<1>3. CASE files[p] # None /\ SameFileIndex(files[p].source, c)
  BY <1>1, <1>3 DEF SurfaceChange, SameFileIndex, IndexNames, DiffArtifacts, Alike, Names
<1>4. CASE files[p] # None /\ ~SameFileIndex(files[p].source, c)
  BY <1>1, <1>4 DEF SurfaceChange, DiffArtifacts, Alike, Names
<1> QED BY <1>2, <1>3, <1>4 DEF new

LEMMA TrackingEdit ==
    Tracking /\ Edit => Tracking'
BY DEF Tracking, Edit, FirstPass, Remembers, Noted, Pending, Kept, Base, Analyzed,
       entries, seen, pass

LEMMA TrackingBegin ==
    Inv /\ Begin => Tracking'
<1> SUFFICES ASSUME Inv, Begin
             PROVE  Tracking'
  OBVIOUS
<1>1. PICK changed \in SUBSET (Path \X BOOLEAN),
           removed \in SUBSET {p \in Path : files[p] # None},
           complete \in BOOLEAN :
         /\ StartPass(changed, removed, complete)
         /\ \/ \E hint \in SUBSET Path :
                 /\ HintUsable(hint)
                 /\ changed = HintedDiff(hint)
                 /\ removed = {}
                 /\ complete = \A p \in Path \ hint : Discovered[p] = files[p]
            \/ /\ changed = FullDiff
               /\ removed = {p \in Path : files[p] # None /\ Discovered[p] = None}
               /\ complete = TRUE
  BY BeginIsStart, Zenon DEF Inv
<1>2. pc' = "reading"
  BY <1>1 DEF StartPass
<1>3. ASSUME ~analysisChanged'
      PROVE  \E tree : Remembers(tree)'
  <2>1. seenInputs' = seenInputs /\ seenInputs \in Input
    BY <1>1, <1>3 DEF StartPass, Inv, TypeOK
  <2>2. ~FirstPass
    BY <2>1, IndexAssumption DEF FirstPass
  <2>3. pc = "idle" /\ todo = {} /\ changedFiles = {}
    BY <1>1 DEF StartPass, Inv, Phase
  <2>4. Remembers(files)
    BY <2>2, <2>3 DEF Inv, Tracking
  <2>5. PICK t : t = files
    OBVIOUS
  <2>6. /\ t \in Tree
        /\ \A p \in Path : Fits(p, t[p])
        /\ seenStubs \in StubText
        /\ seenAliases = Alias[seenInputs]
        /\ prevInferred = IF Infers[seenInputs]
                          THEN Inferred(t, seenInputs, seenStubs)
                          ELSE None
    BY <2>4, <2>5 DEF Remembers
  <2>7. \A f \in changed : f[1] \notin removed
    <3>1. CASE removed = {}
      BY <3>1
    <3>2. CASE /\ changed = FullDiff
               /\ removed = {p \in Path : files[p] # None /\ Discovered[p] = None}
      <4>1. \A f \in FullDiff : Discovered[f[1]] # None
        BY DEF FullDiff
      <4> QED BY <3>2, <4>1
    <3> QED BY <1>1, <3>1, <3>2
  <2>8. ASSUME NEW p \in Path, p \notin changedFiles'
        PROVE  files'[p] = t[p] /\ (Analyzed(p)' => Kept(p, t)')
    <3>1. p \notin removed
      BY <1>1, <2>8 DEF StartPass
    <3>2. /\ files'[p] = files[p]
          /\ findings'[p] = findings[p]
          /\ deps'[p] = deps[p]
          /\ emitted'[p] = emitted[p]
      BY <1>1, <3>1 DEF StartPass
    <3>3. Base(t)' = Base(t)
      BY <1>1, <2>1 DEF StartPass, Base
    <3>4. Analyzed(p) => Kept(p, t)
      BY <2>3, <2>4, <2>5 DEF Remembers
    <3> QED BY <2>5, <3>2, <3>3, <3>4 DEF Kept, Analyzed
  <2>9. ASSUME NEW p \in Path, p \in changedFiles'
        PROVE  \/ Pending(p)' /\ files'[p] = t[p]
               \/ ~Pending(p)' /\ Noted(t[p], files[p])'
    <3>1. CASE p \in removed
      <4>1. ~Pending(p)'
        BY <1>1, <2>7, <3>1 DEF Pending, StartPass
      <4>2. files'[p] = None
        BY <1>1, <3>1 DEF StartPass
      <4>3. \A k \in IndexNames(t[p].source) : k \in changedSurface'
        BY <1>1, <2>5, <3>1 DEF StartPass, NamesOf
      <4>4. \A k \in DeclaredKeys(t[p].source) : k \in changedBody'
        BY <1>1, <2>5, <3>1 DEF StartPass, KeysOf
      <4> QED BY <4>1, <4>2, <4>3, <4>4 DEF Noted, Alike, Names, Declares
    <3>2. CASE p \notin removed
      <4>1. PICK f \in changed : f[1] = p
        BY <1>1, <2>9, <3>2 DEF StartPass
      <4>2. Pending(p)'
        BY <1>1, <4>1 DEF Pending, StartPass
      <4>3. files'[p] = t[p]
        BY <1>1, <2>5, <3>2 DEF StartPass
      <4> QED BY <4>2, <4>3
    <3> QED BY <3>1, <3>2
  <2>10. \A f \in todo' : f[1] \in changedFiles'
    BY <1>1 DEF StartPass
  <2>11. Remembers(t)'
    <3>1. seenStubs' = seenStubs /\ seenAliases' = seenAliases /\ prevInferred' = prevInferred
      BY <1>1 DEF StartPass
    <3> QED BY <2>1, <2>6, <2>8, <2>9, <2>10, <3>1 DEF Remembers
  <2> QED BY <2>11
<1> QED BY <1>2, <1>3 DEF Tracking

LEMMA TrackingRead ==
    Inv /\ Read => Tracking'
<1> SUFFICES ASSUME Inv, Read
             PROVE  Tracking'
  OBVIOUS
<1>1. PICK p \in Path, a \in BOOLEAN : ReadFile(p, a)
  BY DEF Read
<1>2. pc' = "reading" /\ pc = "reading" /\ analysisChanged' = analysisChanged
  BY <1>1 DEF ReadFile
<1>3. ASSUME NEW t, Remembers(t)
      PROVE  Remembers(t)'
  <2> DEFINE c == ReadSource(p)
  <2>1. c \in Content
    BY IndexAssumption DEF ReadSource, Inv, TypeOK
  <2>2. /\ files'[p] = [source |-> c, analyze |-> a]
        /\ \A q \in Path \ {p} : /\ files'[q] = files[q]
                                 /\ findings'[q] = findings[q]
                                 /\ deps'[q] = deps[q]
                                 /\ emitted'[q] = emitted[q]
    BY <1>1 DEF ReadFile, Inv, TypeOK, Tree
  <2>3. /\ <<p, a>> \in todo /\ todo' = todo \ {<<p, a>>}
        /\ changedFiles' = changedFiles
        /\ seenInputs' = seenInputs /\ seenStubs' = seenStubs
        /\ seenAliases' = seenAliases /\ prevInferred' = prevInferred
        /\ changedSurface' = changedSurface \cup SurfaceChange(p, c)
        /\ changedBody' = changedBody \cup DeclaredKeys(c)
             \cup (IF files[p] = None THEN {} ELSE DeclaredKeys(files[p].source))
    BY <1>1 DEF ReadFile, seen
  <2>4. p \in changedFiles /\ Pending(p) /\ files[p] = t[p]
    BY <1>3, <2>3 DEF Remembers, Pending
  <2>5. ~Pending(p)'
    <3>1. \A f \in todo : f[1] = p => f[2] = a
      BY <2>3 DEF Inv, Plausible
    <3>2. \A f \in todo : f \in Path \X BOOLEAN
      BY DEF Inv, TypeOK
    <3>3. \A f \in todo' : f[1] # p
      BY <2>3, <3>1, <3>2
    <3> QED BY <3>3 DEF Pending
  <2>6. \A q \in Path \ {p} : Pending(q)' <=> Pending(q)
    BY <2>3 DEF Pending
  <2>7. Noted(t[p], files[p])'
    <3>1. None # [source |-> c, analyze |-> a]
      BY <2>1, IndexAssumption DEF File
    <3>2. \A k \in Symbol \ changedSurface' : Alike(t[p], files'[p], k)
      <4> TAKE k \in Symbol \ changedSurface'
      <4>1. k \in Symbol \ SurfaceChange(p, c)
        BY <2>3
      <4>2. Alike(files[p], [source |-> c, analyze |-> a], k)
        BY <3>1, <4>1, SurfaceChangeSound
      <4> QED BY <2>2, <2>4, <4>2
    <3>3. \A k \in Symbol \ changedBody' : ~Declares(t[p], k) /\ ~Declares(files'[p], k)
      BY <2>2, <2>3, <2>4 DEF Declares
    <3> QED BY <3>2, <3>3 DEF Noted
  <2>8. ASSUME NEW q \in Path \ {p}, Noted(t[q], files[q])
        PROVE  Noted(t[q], files[q])'
    BY <2>2, <2>3, <2>8 DEF Noted
  <2>9. ASSUME NEW q \in Path, q \in changedFiles'
        PROVE  \/ Pending(q)' /\ files'[q] = t[q]
               \/ ~Pending(q)' /\ Noted(t[q], files[q])'
    <3>1. CASE q = p
      BY <2>5, <2>7, <3>1
    <3>2. CASE q # p
      <4>1. \/ Pending(q) /\ files[q] = t[q]
            \/ ~Pending(q) /\ Noted(t[q], files[q])
        BY <1>3, <2>3, <2>9 DEF Remembers
      <4> QED BY <2>2, <2>6, <2>8, <3>2, <4>1
    <3> QED BY <3>1, <3>2
  <2>10. ASSUME NEW q \in Path, q \notin changedFiles'
         PROVE  files'[q] = t[q] /\ (Analyzed(q)' => Kept(q, t)')
    <3>1. q # p
      BY <2>3, <2>4, <2>10
    <3>2. files[q] = t[q] /\ (Analyzed(q) => Kept(q, t))
      BY <1>3, <2>3, <2>10 DEF Remembers
    <3>3. Base(t)' = Base(t)
      BY <2>3 DEF Base
    <3> QED BY <2>2, <3>1, <3>2, <3>3 DEF Kept, Analyzed
  <2>11. \A f \in todo' : f[1] \in changedFiles'
    BY <1>3, <2>3 DEF Remembers
  <2>12. /\ t \in Tree
         /\ \A q \in Path : Fits(q, t[q])
         /\ seenInputs' \in Input
         /\ seenStubs' \in StubText
         /\ seenAliases' = Alias[seenInputs']
         /\ prevInferred' = IF Infers[seenInputs']
                            THEN Inferred(t, seenInputs', seenStubs')
                            ELSE None
    BY <1>3, <2>3 DEF Remembers
  <2> QED BY <2>9, <2>10, <2>11, <2>12 DEF Remembers
<1> QED BY <1>2, <1>3 DEF Tracking, Inv

\* What a pass that analyzes only the invalid files keeps is what it would
\* have found by analyzing everything.
LEMMA KeptIsFresh ==
    ASSUME Inv, pc = "reading", todo = {}, ~analysisChanged, stubs = seenStubs,
           NEW t, Remembers(t),
           NEW p \in Path, Analyzed(p), p \notin Again
    PROVE  /\ findings[p] = Findings(files[p].source, Fresh)
           /\ deps[p] = RecordedDeps(files[p].source, Fresh)
           /\ emitted[p] = EmittedInto(p, files[p].source, Fresh)
<1> DEFINE i == seenInputs
           inf0 == Inferred(t, i, stubs)
           inf1 == Inferred(files, i, stubs)
           c == files[p].source
           C == Consulted(Reads[c], Indexed(t, i, stubs, inf0))
<1>1. /\ t \in Tree /\ files \in Tree /\ i \in Input
      /\ stubs \in Content
  BY SessionAssumption DEF Remembers, Inv, TypeOK
<1>2. /\ p \notin changedFiles
      /\ <<"global", None>> \in deps[p] => Moved = {}
      /\ \A k \in changedBody : <<"body", k>> \notin deps[p]
      /\ \A k \in Moved : <<"surface", k>> \notin deps[p]
  BY DEF Again, Invalid, Analyzed
<1>3. files[p] = t[p] /\ Kept(p, t)
  BY <1>2 DEF Remembers
<1>4. c \in Content
  BY <1>1 DEF Analyzed, Tree, File
<1>5. Base(t) = Indexed(t, i, stubs, inf0) /\ Fresh = Indexed(files, i, stubs, inf1)
  BY DEF Base, Fresh
<1>6. deps[p] = C
  BY <1>3, <1>5 DEF Kept, RecordedDeps
<1>7. Avoids(C, Moved, changedBody)
  BY <1>2, <1>6 DEF Avoids
<1>8. ASSUME NEW q \in Path
      PROVE  files[q] = t[q] \/ Noted(t[q], files[q])
  BY DEF Remembers, Pending
<1>9. changedSurface \subseteq Moved
  BY DEF Moved
<1>10. ASSUME NEW q \in Path, NEW k \in Symbol
       PROVE  /\ k \notin Moved => Alike(t[q], files[q], k)
              /\ SameFlag(t[q], files[q], k, i)
              /\ k \notin changedBody =>
                    \/ t[q] = files[q]
                    \/ q \notin Declarers(t, k) \cup Declarers(files, k)
  <2>1. k \notin Moved => Alike(t[q], files[q], k)
    BY <1>8, <1>9 DEF Noted, Alike
  <2>2. k \notin changedBody =>
           \/ t[q] = files[q]
           \/ q \notin Declarers(t, k) \cup Declarers(files, k)
    BY <1>8 DEF Noted, Declares, Declarers
  <2>3. SameFlag(t[q], files[q], k, i)
    <3> SUFFICES ASSUME Builtin[i][k] # None, Names(t[q], k), Names(files[q], k)
                 PROVE  t[q].analyze = files[q].analyze
      BY DEF SameFlag
    <3>1. /\ t[q] \in File /\ files[q] \in File
          /\ Fits(q, t[q]) /\ Fits(q, files[q])
      BY <1>1 DEF Names, Tree, Remembers, Inv, Plausible
    <3>2. /\ t[q].analyze \in BOOLEAN /\ files[q].analyze \in BOOLEAN
          /\ t[q].source \in Versions[q] \cup {Empty}
          /\ HasRole(q, t[q].analyze) /\ HasRole(q, files[q].analyze)
      BY <3>1 DEF File, Fits, Names
    <3>3. k \in IndexNames(t[q].source)
      BY DEF Names
    <3>4. ~(HasRole(q, TRUE) /\ HasRole(q, FALSE))
      BY <1>1, <3>2, <3>3, BuiltinsKeepTheirFlag DEF HasRole, RoleOf
    <3> QED BY <3>2, <3>4
  <2> QED BY <2>1, <2>2, <2>3
<1>11. ASSUME NEW k \in Symbol \ Moved
       PROVE  inf0[k] = inf1[k]
  <2>1. CASE Infers[i]
    <3>1. prevInferred = inf0
      BY <2>1 DEF Remembers
    <3>2. prevInferred # None
      BY <3>1, InferredType, IndexAssumption
    <3>3. DiffInferred(inf0, inf1) \subseteq Moved
      BY <2>1, <3>1, <3>2 DEF Moved
    <3> QED BY <3>3 DEF DiffInferred
  <2>2. CASE ~Infers[i]
    BY <2>2 DEF Inferred
  <2> QED BY <2>1, <2>2
<1>12. Reached(i)
  BY <1>1, ResolvedIsReached DEF Reached
<1>13. AlikeBut(Moved, changedBody, t, files, i, inf0, inf1)
  BY <1>10, <1>11 DEF AlikeBut
<1> HIDE DEF i, inf0, inf1, c
<1>14. /\ Findings(c, Indexed(t, i, stubs, inf0))
            = Findings(c, Indexed(files, i, stubs, inf1))
       /\ RecordedDeps(c, Indexed(t, i, stubs, inf0))
            = RecordedDeps(c, Indexed(files, i, stubs, inf1))
       /\ EmittedInto(p, c, Indexed(t, i, stubs, inf0))
            = EmittedInto(p, c, Indexed(files, i, stubs, inf1))
  BY <1>1, <1>4, <1>7, <1>12, <1>13, ReuseIsSound
<1> QED BY <1>3, <1>5, <1>14 DEF Kept, c

LEMMA TrackingFinish ==
    Inv /\ Finish => Tracking'
<1> SUFFICES ASSUME Inv, Finish
             PROVE  Tracking'
  OBVIOUS
<1>1. /\ pc = "reading" /\ pc' = "idle" /\ todo = {} /\ todo' = {}
      /\ changedFiles' = {} /\ files' = files
      /\ seenInputs' = seenInputs /\ seenStubs' = stubs
      /\ seenAliases' = Alias[seenInputs]
      /\ prevInferred' = IF Infers[seenInputs]
                         THEN Inferred(files, seenInputs, stubs)
                         ELSE None
      /\ report' = findings'
  BY DEF Finish
<1>2. seenInputs \in Input /\ stubs \in StubText /\ files \in Tree
  BY <1>1 DEF Inv, Phase, TypeOK
<1>3. PICK t : t = files
  OBVIOUS
<1>4. Base(t)' = Fresh
  BY <1>1, <1>3 DEF Base, Fresh
<1>5. ASSUME NEW p \in Path, Analyzed(p)
      PROVE  /\ findings'[p] = Findings(files[p].source, Fresh)
             /\ deps'[p] = RecordedDeps(files[p].source, Fresh)
             /\ emitted'[p] = EmittedInto(p, files[p].source, Fresh)
  <2>1. CASE p \in Again
    BY <2>1, FinishEntries
  <2>2. CASE p \notin Again
    <3>1. /\ findings'[p] = findings[p]
          /\ deps'[p] = deps[p]
          /\ emitted'[p] = emitted[p]
      BY <2>2, FinishEntries
    <3>2. ~analysisChanged /\ ~(seenStubs # None /\ stubs # seenStubs)
      BY <1>5, <2>2 DEF Again, Invalid, Analyzed
    <3>3. PICK old : Remembers(old)
      BY <1>1, <3>2 DEF Inv, Tracking
    <3>4. stubs = seenStubs
      <4>1. seenStubs \in Content
        BY <3>3, SessionAssumption DEF Remembers
      <4>2. seenStubs # None
        BY <4>1, IndexAssumption
      <4> QED BY <3>2, <4>2
    <3> QED BY <1>1, <1>5, <2>2, <3>1, <3>2, <3>3, <3>4, KeptIsFresh
  <2> QED BY <2>1, <2>2
<1>6. Remembers(t)'
  <2>1. \A p \in Path : Analyzed(p)' => Kept(p, t)'
    BY <1>1, <1>3, <1>4, <1>5 DEF Kept, Analyzed
  <2>2. \A p \in Path : Fits(p, t[p])
    BY <1>3 DEF Inv, Plausible
  <2> QED BY <1>1, <1>2, <1>3, <2>1, <2>2 DEF Remembers
<1>7. Remembers(files)'
  BY <1>1, <1>3, <1>6 DEF Remembers, Kept, Base, Analyzed, Pending, Noted
<1> QED BY <1>1, <1>7 DEF Tracking

LEMMA InitInv == Init => Inv
<1> SUFFICES ASSUME Init PROVE Inv
  OBVIOUS
<1>1. TypeOK
  BY InitTyped
<1>2. Phase
  BY DEF Init, Phase
<1>3. Plausible
  BY IndexAssumption DEF Init, Plausible, Fits
<1>4. Dormant
  BY DEF Init, Dormant
<1>5. Tracking
  BY DEF Init, Tracking, FirstPass
<1> QED BY <1>1, <1>2, <1>3, <1>4, <1>5 DEF Inv

LEMMA InvStep == Inv /\ [Next]_vars => Inv'
<1> SUFFICES ASSUME Inv, [Next]_vars PROVE Inv'
  OBVIOUS
<1>1. TypeOK' /\ Phase'
  BY TypedStep DEF Inv
<1>2. Plausible'
  BY PlausibleStep DEF Inv
<1>3. Dormant'
  BY DormantStep DEF Inv
<1>4. Tracking'
  <2>1. CASE Edit
    BY <2>1, TrackingEdit DEF Inv
  <2>2. CASE Begin
    BY <2>2, TrackingBegin
  <2>3. CASE Read
    BY <2>3, TrackingRead
  <2>4. CASE Finish
    BY <2>4, TrackingFinish
  <2>5. CASE UNCHANGED vars
    BY <2>5 DEF vars, entries, seen, pass, Inv, Tracking, FirstPass, Remembers,
                Noted, Pending, Kept, Base, Analyzed
  <2> QED BY <2>1, <2>2, <2>3, <2>4, <2>5 DEF Next
<1> QED BY <1>1, <1>2, <1>3, <1>4 DEF Inv

THEOREM Invariance == Spec => []Inv
BY InitInv, InvStep, PTL DEF Spec

-----------------------------------------------------------------------------
\* Session::run reports what the batch engine reports on the files, inputs and
\* stubs it read ("Equivalence with the batch engine", incremental.rs).
THEOREM IncrementalIsBatch == Spec => []BatchEquivalent
<1>1. Inv => BatchEquivalent
  <2> SUFFICES ASSUME Inv, pc = "idle", ~FirstPass
               PROVE  report = Batch(files, seenInputs, seenStubs)
    BY DEF BatchEquivalent
  <2>1. report = findings /\ Remembers(files)
    BY DEF Inv, Tracking
  <2>2. changedFiles = {} /\ findings = [p \in Path |-> findings[p]]
    BY DEF Inv, Phase, TypeOK
  <2>3. ASSUME NEW p \in Path
        PROVE  findings[p] = IF Analyzed(p)
                             THEN Findings(files[p].source, Base(files))
                             ELSE None
    BY <2>1, <2>2 DEF Inv, Dormant, Remembers, Kept
  <2>4. Batch(files, seenInputs, seenStubs)
          = [p \in Path |-> IF Analyzed(p)
                            THEN Findings(files[p].source, Base(files))
                            ELSE None]
    BY Zenon DEF Batch, Base, Analyzed
  <2> QED BY <2>1, <2>2, <2>3, <2>4
<1> QED BY <1>1, Invariance, PTL

\* The lookups kept with an entry are the ones its analysis would make now.
THEOREM DepsStayCurrent == Spec => []DepsCurrent
<1>1. Inv => DepsCurrent
  <2> SUFFICES ASSUME Inv, pc = "idle", ~FirstPass
               PROVE  \A p \in Path :
                        deps[p] = IF files[p] # None /\ files[p].analyze
                                  THEN Consulted(Reads[files[p].source], Base(files))
                                  ELSE {}
    BY Zenon DEF DepsCurrent, Base
  <2>1. Remembers(files) /\ changedFiles = {}
    BY DEF Inv, Tracking, Phase
  <2> QED BY <2>1 DEF Inv, Dormant, Remembers, Kept, Analyzed, RecordedDeps
<1> QED BY <1>1, Invariance, PTL

\* No entry keeps findings located in a file that is gone or only scanned.
THEOREM FindingsLiveOn == Spec => []LocatedAtLiveFiles
<1>1. Inv => LocatedAtLiveFiles
  <2> SUFFICES ASSUME Inv, pc = "idle", NEW p \in Path, NEW t \in emitted[p]
               PROVE  files[t] # None /\ files[t].analyze
    BY DEF LocatedAtLiveFiles
  <2>1. Analyzed(p)
    BY DEF Inv, Dormant
  <2>2. ~FirstPass
    BY <2>1 DEF Inv, Phase, Analyzed
  <2>3. Remembers(files) /\ changedFiles = {}
    BY <2>2 DEF Inv, Tracking, Phase
  <2>4. /\ seenInputs \in Input /\ seenStubs \in Content
        /\ files \in Tree /\ files[p].source \in Content
    BY <2>1, <2>3, SessionAssumption DEF Remembers, Tree, File, Analyzed
  <2> DEFINE idx == Base(files)
             Q == Consulted(Reads[files[p].source], idx)
  <2>5. emitted[p] = EmittedInto(p, files[p].source, idx)
    BY <2>1, <2>3 DEF Remembers, Kept
  <2>6. idx.answer = View(files, seenInputs, seenStubs,
                          Inferred(files, seenInputs, seenStubs))
    BY DEF Base, Indexed
  <2>7. Q \subseteq Query
    <3>1. Reads[files[p].source] \subseteq Query
      BY <2>4, IndexAssumption
    <3> QED BY <2>4, <3>1, ConsultedType DEF Base
  <2> HIDE DEF idx
  <2>8. PICK r \in Q : /\ r[1] = "body"
                       /\ t = idx.answer[r].path
                       /\ idx.answer[r].path \notin {p, None}
                       /\ idx.answer[r].file.analyze
    BY <2>5 DEF EmittedInto
  <2>9. PICK k \in Symbol : r = <<"body", k>>
    BY <2>7, <2>8, QueryKinds
  <2>10. idx.answer[r] = BodyOf(files, seenInputs, seenStubs, k)
    BY <2>6, <2>9, ViewBody
  <2>11. idx.answer[r].file = files[t] /\ files[t] \in File
    BY <2>4, <2>8, <2>10, BodyType
  <2> QED BY <2>8, <2>11, IndexAssumption
<1> QED BY <1>1, Invariance, PTL

-----------------------------------------------------------------------------
\* The flags of the entries are those of the settings last seen, and a pass
\* nobody disturbs leaves no difference between the disk and the entries.
FlagsSeen ==
    /\ \A f \in todo : Role[seenDiscovery][f[1]] = RoleOf(f[2])
    /\ \A p \in Path : files[p] # None /\ ~Pending(p) =>
          Role[seenDiscovery][p] = RoleOf(files[p].analyze)

Synced ==
    /\ pc = "reading" /\ settled =>
          /\ seenInputs = inputs
          /\ seenDiscovery = discovery
          /\ \A p \in Path : Pending(p) => disk[p] # None
          /\ \A p \in Path : ~Pending(p) => files[p] = Discovered[p]
    /\ pc = "idle" /\ settled /\ ~FirstPass =>
          /\ seenInputs = inputs
          /\ seenStubs = stubs
          /\ files = Discovered

FreshInv == TypeOK /\ Phase /\ Plausible /\ FlagsSeen /\ Synced

LEMMA DiscoveredIs ==
    ASSUME TypeOK, NEW p \in Path, NEW a \in BOOLEAN,
           disk[p] # None, Role[discovery][p] = RoleOf(a)
    PROVE  Discovered[p] = [source |-> disk[p], analyze |-> a]
<1> DEFINE r == Role[discovery][p] = "analyze"
<1>1. Role[discovery][p] # "skip"
  BY DEF RoleOf
<1>2. Discovered[p] = [source |-> disk[p], analyze |-> r]
  BY <1>1 DEF Discovered
<1>3. r = a
  BY DEF RoleOf
<1> QED BY <1>2, <1>3

LEMMA FreshBegin ==
    FreshInv /\ Begin => FlagsSeen' /\ Synced'
<1> SUFFICES ASSUME FreshInv, Begin
             PROVE  FlagsSeen' /\ Synced'
  OBVIOUS
<1>1. PICK changed \in SUBSET (Path \X BOOLEAN),
           removed \in SUBSET {p \in Path : files[p] # None},
           complete \in BOOLEAN :
         /\ StartPass(changed, removed, complete)
         /\ \/ \E hint \in SUBSET Path :
                 /\ HintUsable(hint)
                 /\ changed = HintedDiff(hint)
                 /\ removed = {}
                 /\ complete = \A p \in Path \ hint : Discovered[p] = files[p]
            \/ /\ changed = FullDiff
               /\ removed = {p \in Path : files[p] # None /\ Discovered[p] = None}
               /\ complete = TRUE
  BY BeginIsStart, Zenon DEF FreshInv
<1>2. /\ todo' = changed /\ pc' = "reading" /\ settled' = complete
      /\ seenInputs' = inputs /\ seenDiscovery' = discovery
      /\ inputs' = inputs /\ discovery' = discovery
      /\ disk' = disk /\ stubs' = stubs
      /\ \A p \in Path : files'[p] = IF p \in removed THEN None ELSE files[p]
      /\ todo = {}
  BY <1>1 DEF StartPass, world, FreshInv, Phase
<1>3. Discovered' = Discovered
  BY <1>2 DEF Discovered
<1>4. \A p \in Path : files[p] # None => files[p] \in File
  BY DEF FreshInv, TypeOK, Tree
<1>5. ASSUME NEW hint \in SUBSET Path, HintUsable(hint),
             changed = HintedDiff(hint), removed = {},
             complete = \A p \in Path \ hint : Discovered[p] = files[p]
      PROVE  /\ \A f \in changed : Role[discovery][f[1]] = RoleOf(f[2])
             /\ \A f \in changed : disk[f[1]] # None
             /\ \A p \in Path : files'[p] # None /\ (\A f \in changed : f[1] # p) =>
                   Role[discovery][p] = RoleOf(files'[p].analyze)
             /\ complete => \A p \in Path : (\A f \in changed : f[1] # p) =>
                   files'[p] = Discovered[p]
  <2>1. /\ \A p \in Path : files'[p] = files[p]
        /\ \A p \in Path : files[p] # None => Role[discovery][p] = RoleOf(files[p].analyze)
    BY <1>2, <1>5 DEF FreshInv, FlagsSeen, HintUsable, Pending
  <2>2. \A p \in hint : p \in Path /\ files[p] # None /\ disk[p] # None
    BY <1>5 DEF HintUsable
  <2>3. /\ \A f \in changed : /\ f[1] \in hint
                              /\ f[2] = files[f[1]].analyze
        /\ \A p \in hint : disk[p] # files[p].source => <<p, files[p].analyze>> \in changed
    BY <1>5 DEF HintedDiff
  <2>4. ASSUME NEW p \in hint, \A f \in changed : f[1] # p
        PROVE  files[p] = Discovered[p]
    <3>1. disk[p] = files[p].source
      BY <2>3, <2>4
    <3>2. files[p] \in File /\ Role[discovery][p] = RoleOf(files[p].analyze)
      BY <1>4, <2>1, <2>2
    <3>3. Discovered[p] = [source |-> disk[p], analyze |-> files[p].analyze]
      BY <2>2, <3>2, DiscoveredIs DEF FreshInv, File
    <3> QED BY <3>1, <3>2, <3>3 DEF File
  <2> QED BY <1>5, <2>1, <2>2, <2>3, <2>4
<1>6. ASSUME changed = FullDiff,
             removed = {p \in Path : files[p] # None /\ Discovered[p] = None}
      PROVE  /\ \A f \in changed : Role[discovery][f[1]] = RoleOf(f[2])
             /\ \A f \in changed : disk[f[1]] # None
             /\ \A p \in Path : files'[p] # None /\ (\A f \in changed : f[1] # p) =>
                   Role[discovery][p] = RoleOf(files'[p].analyze)
             /\ \A p \in Path : (\A f \in changed : f[1] # p) =>
                   files'[p] = Discovered[p]
  <2>1. \A f \in changed : /\ f[1] \in Path
                           /\ Discovered[f[1]] # None
                           /\ f[2] = Discovered[f[1]].analyze
    BY <1>6 DEF FullDiff
  <2>2. \A p \in Path : (\A f \in changed : f[1] # p) => files'[p] = Discovered[p]
    <3> SUFFICES ASSUME NEW p \in Path, \A f \in changed : f[1] # p
                 PROVE  files'[p] = Discovered[p]
      OBVIOUS
    <3>1. Discovered[p] # None /\ Discovered[p] # files[p]
             => <<p, Discovered[p].analyze>> \in changed
      BY <1>6 DEF FullDiff
    <3>2. Discovered[p] = None \/ Discovered[p] = files[p]
      BY <3>1
    <3> QED BY <1>2, <1>6, <3>2
  <2> QED BY <2>1, <2>2, DiscoveredRole DEF FreshInv
<1>7. /\ \A f \in changed : Role[discovery][f[1]] = RoleOf(f[2])
      /\ \A f \in changed : disk[f[1]] # None
      /\ \A p \in Path : files'[p] # None /\ (\A f \in changed : f[1] # p) =>
            Role[discovery][p] = RoleOf(files'[p].analyze)
      /\ complete => \A p \in Path : (\A f \in changed : f[1] # p) =>
            files'[p] = Discovered[p]
  BY <1>1, <1>5, <1>6, Zenon
<1>8. FlagsSeen'
  BY <1>2, <1>7 DEF FlagsSeen, Pending
<1>9. Synced'
  BY <1>2, <1>3, <1>7 DEF Synced, Pending
<1> QED BY <1>8, <1>9

LEMMA FreshRead ==
    FreshInv /\ Read => FlagsSeen' /\ Synced'
<1> SUFFICES ASSUME FreshInv, Read
             PROVE  FlagsSeen' /\ Synced'
  OBVIOUS
<1>1. PICK p \in Path, a \in BOOLEAN : ReadFile(p, a)
  BY DEF Read
<1>2. /\ <<p, a>> \in todo /\ todo' = todo \ {<<p, a>>}
      /\ pc = "reading" /\ pc' = "reading" /\ settled' = settled
      /\ seenInputs' = seenInputs /\ seenDiscovery' = seenDiscovery
      /\ inputs' = inputs /\ discovery' = discovery /\ disk' = disk
      /\ files'[p] = [source |-> ReadSource(p), analyze |-> a]
      /\ \A q \in Path \ {p} : files'[q] = files[q]
  BY <1>1 DEF ReadFile, world, seen, FreshInv, TypeOK, Tree
<1>3. Discovered' = Discovered
  BY <1>2 DEF Discovered
<1>4. \A q \in Path \ {p} : Pending(q)' <=> Pending(q)
  BY <1>2 DEF Pending
<1>5. ~Pending(p)'
  <2>1. \A f \in todo : f[1] = p => f = <<p, a>>
    BY <1>2 DEF FreshInv, Plausible, TypeOK
  <2> QED BY <1>2, <2>1 DEF Pending
<1>6. Role[seenDiscovery][p] = RoleOf(a)
  BY <1>2 DEF FreshInv, FlagsSeen
<1>7. FlagsSeen'
  <2>1. \A q \in Path \ {p} : files'[q] # None /\ ~Pending(q)' =>
           Role[seenDiscovery'][q] = RoleOf(files'[q].analyze)
    BY <1>2, <1>4 DEF FreshInv, FlagsSeen
  <2>2. Role[seenDiscovery'][p] = RoleOf(files'[p].analyze)
    BY <1>2, <1>6
  <2>3. \A f \in todo' : Role[seenDiscovery'][f[1]] = RoleOf(f[2])
    BY <1>2 DEF FreshInv, FlagsSeen
  <2> QED BY <2>1, <2>2, <2>3 DEF FlagsSeen
<1>8. ASSUME settled
      PROVE  files'[p] = Discovered[p]
  <2>1. disk[p] # None /\ seenDiscovery = discovery
    BY <1>2, <1>8 DEF FreshInv, Synced, Pending
  <2>2. ReadSource(p) = disk[p]
    BY <2>1 DEF ReadSource
  <2> QED BY <1>2, <1>6, <2>1, <2>2, DiscoveredIs DEF FreshInv
<1>9. Synced'
  BY <1>2, <1>3, <1>4, <1>5, <1>8 DEF FreshInv, Synced
<1> QED BY <1>7, <1>9

\* A pass that looked at, or was told of, every difference, undisturbed, has
\* read what is there; with IncrementalIsBatch its report is that of a batch
\* run started afterwards.
THEOREM ReportsAreFresh == Spec => []FreshReport
<1>1. Init => FreshInv
  BY InitInv DEF Inv, FreshInv, Init, FlagsSeen, Synced
<1>2. FreshInv /\ [Next]_vars => FreshInv'
  <2> SUFFICES ASSUME FreshInv, [Next]_vars PROVE FreshInv'
    OBVIOUS
  <2>1. TypeOK' /\ Phase' /\ Plausible'
    BY TypedStep, PlausibleStep DEF FreshInv
  <2>2. FlagsSeen' /\ Synced'
    <3>1. CASE Edit
      BY <3>1 DEF Edit, FreshInv, FlagsSeen, Synced, Pending, entries, seen, pass
    <3>2. CASE Begin
      BY <3>2, FreshBegin
    <3>3. CASE Read
      BY <3>3, FreshRead
    <3>4. CASE Finish
      <4>1. /\ pc = "reading" /\ todo = {} /\ todo' = {} /\ files' = files
            /\ pc' = "idle" /\ seenInputs' = seenInputs
            /\ seenDiscovery' = seenDiscovery /\ seenStubs' = stubs
            /\ inputs' = inputs /\ stubs' = stubs /\ settled' = settled
            /\ disk' = disk /\ discovery' = discovery
        BY <3>4 DEF Finish, world
      <4>2. Discovered' = Discovered
        BY <4>1 DEF Discovered
      <4>3. \A p \in Path : ~Pending(p)
        BY <4>1 DEF Pending
      <4>4. files \in Tree /\ Discovered \in Tree
        BY DiscoveredType DEF FreshInv, TypeOK
      <4>5. settled => files = Discovered
        BY <4>1, <4>3, <4>4 DEF FreshInv, Synced, Tree
      <4>6. Synced'
        BY <4>1, <4>2, <4>5 DEF FreshInv, Synced
      <4>7. FlagsSeen'
        BY <4>1, <4>3 DEF FreshInv, FlagsSeen, Pending
      <4> QED BY <4>6, <4>7
    <3>5. CASE UNCHANGED vars
      BY <3>5 DEF vars, world, entries, seen, pass, FreshInv, FlagsSeen, Synced,
                  Pending, FirstPass, Discovered
    <3> QED BY <3>1, <3>2, <3>3, <3>4, <3>5 DEF Next
  <2> QED BY <2>1, <2>2 DEF FreshInv
<1>3. FreshInv => FreshReport
  BY DEF FreshInv, Synced, FreshReport
<1> QED BY <1>1, <1>2, <1>3, PTL DEF Spec

-----------------------------------------------------------------------------
\* What the last pass left for the next one to compare with is what a pass over the
\* same files, inputs and stubs computes.
Known ==
    /\ seenAliases = Alias[seenInputs]
    /\ prevInferred = IF Infers[seenInputs] THEN Inferred(files, seenInputs, seenStubs) ELSE None

QuietInv ==
    /\ pc = "idle" /\ ~FirstPass => Known
    /\ pc = "reading" => \A f \in todo : f[1] \in changedFiles
    /\ pc = "reading" /\ changedFiles = {} /\ ~analysisChanged =>
         Known /\ changedSurface = {} /\ changedBody = {}

LEMMA QuietStep ==
    ASSUME TypeOK, Phase, QuietInv, [Next]_vars
    PROVE  QuietInv'
<1>1. CASE Edit
  <2>1. Known' = Known
    BY <1>1 DEF Edit, Known, entries, seen
  <2> QED BY <1>1, <2>1 DEF Edit, QuietInv, FirstPass, entries, seen, pass
<1>2. CASE Begin
  <2>1. PICK changed \in SUBSET (Path \X BOOLEAN),
             removed \in SUBSET {p \in Path : files[p] # None},
             complete \in BOOLEAN :
           StartPass(changed, removed, complete)
    BY <1>2, BeginIsStart, Zenon
  <2>2. /\ pc = "idle" /\ pc' = "reading" /\ todo' = changed
        /\ changedFiles' = {f[1] : f \in changed} \cup removed
        /\ changedSurface' = NamesOf(removed) /\ changedBody' = KeysOf(removed)
        /\ analysisChanged' = (inputs # seenInputs) /\ seenInputs' = inputs
        /\ files' = [p \in Path |-> IF p \in removed THEN None ELSE files[p]]
        /\ seenStubs' = seenStubs /\ seenAliases' = seenAliases /\ prevInferred' = prevInferred
    BY <2>1 DEF StartPass
  <2>3. ASSUME changedFiles' = {}, ~analysisChanged'
        PROVE  Known' /\ changedSurface' = {} /\ changedBody' = {}
    <3>1. removed = {}
      BY <2>2, <2>3
    <3>2. seenInputs' = seenInputs /\ ~FirstPass
      <4>1. inputs = seenInputs /\ seenInputs' = inputs
        BY <2>2, <2>3
      <4>2. inputs # None
        BY IndexAssumption DEF TypeOK
      <4> QED BY <4>1, <4>2 DEF FirstPass
    <3>3. files' = files
      BY <2>2, <3>1 DEF TypeOK, Tree
    <3>4. Known
      BY <2>2, <3>2 DEF QuietInv
    <3>5. Known'
      BY <2>2, <3>2, <3>3, <3>4 DEF Known
    <3>6. NamesOf({}) = {} /\ KeysOf({}) = {}
      BY DEF NamesOf, KeysOf
    <3> QED BY <2>2, <3>1, <3>5, <3>6
  <2> QED BY <2>2, <2>3 DEF QuietInv
<1>3. CASE Read
  <2>1. PICK p \in Path, a \in BOOLEAN : ReadFile(p, a)
    BY <1>3 DEF Read
  <2>2. /\ pc = "reading" /\ pc' = "reading" /\ <<p, a>> \in todo /\ todo' \subseteq todo
        /\ changedFiles' = changedFiles
    BY <2>1 DEF ReadFile
  <2>3. changedFiles # {}
    BY <2>2 DEF QuietInv
  <2> QED BY <2>2, <2>3 DEF QuietInv
<1>4. CASE Finish
  <2>1. /\ pc' = "idle" /\ files' = files /\ seenInputs' = seenInputs /\ seenStubs' = stubs
        /\ seenAliases' = Alias[seenInputs]
        /\ prevInferred' = IF Infers[seenInputs] THEN Inferred(files, seenInputs, stubs) ELSE None
    BY <1>4 DEF Finish
  <2>2. Known'
    BY <2>1 DEF Known
  <2> QED BY <2>1, <2>2 DEF QuietInv
<1>5. CASE UNCHANGED vars
  <2>1. Known' = Known
    BY <1>5 DEF vars, Known, entries, seen
  <2> QED BY <1>5, <2>1 DEF vars, QuietInv, FirstPass, entries, seen, pass
<1> QED BY <1>1, <1>2, <1>3, <1>4, <1>5 DEF Next

LEMMA QuietFinish ==
    ASSUME QuietInv, Finish, changedFiles = {}, ~analysisChanged, stubs = seenStubs
    PROVE  reanalyzed' = {}
<1>1. Known /\ changedSurface = {} /\ changedBody = {}
  BY DEF QuietInv, Finish
<1>2. AliasChange(seenAliases, Alias[seenInputs]) = {}
  BY <1>1 DEF Known, AliasChange
<1>3. Infers[seenInputs] =>
        DiffInferred(prevInferred, Inferred(files, seenInputs, stubs)) = {}
  BY <1>1 DEF Known, DiffInferred
<1>4. Moved = {}
  BY <1>1, <1>2, <1>3 DEF Moved
<1>5. Again = {}
  BY <1>1, <1>4 DEF Again, Invalid
<1> QED BY <1>5, FinishEntries

\* A pass that finds nothing changed on the disk, in the inputs or in the stubs
\* analyzes nothing again.
THEOREM QuietPassesReuse == Spec => QuietPassReusesAll
<1>1. Init => QuietInv
  BY DEF Init, QuietInv, FirstPass
<1>2. TypeOK /\ Phase /\ QuietInv /\ [Next]_vars => QuietInv'
  BY QuietStep
<1>3. QuietInv /\ [Next]_vars =>
        [ /\ pc = "reading" /\ pc' = "idle"
          /\ changedFiles = {} /\ ~analysisChanged /\ stubs = seenStubs
          => reanalyzed' = {} ]_vars
  <2> SUFFICES ASSUME QuietInv, Next, pc = "reading", pc' = "idle", changedFiles = {},
                      ~analysisChanged, stubs = seenStubs
               PROVE  reanalyzed' = {}
    OBVIOUS
  <2>1. Finish
    BY DEF Next, Edit, Begin, BeginFull, BeginHinted, StartPass, Read, ReadFile
  <2> QED BY <2>1, QuietFinish
<1>4. Init => TypeOK /\ Phase
  BY InitTyped DEF Init, Phase
<1> QED BY <1>1, <1>2, <1>3, <1>4, TypedStep, PTL DEF Spec, QuietPassReusesAll
=============================================================================
