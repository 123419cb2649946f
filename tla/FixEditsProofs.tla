--------------------------- MODULE FixEditsProofs ---------------------------
(***************************************************************************)
(* Proofs about FixEdits, for any text and any repairs of it: a file is    *)
(* left alone exactly when two of its repairs clash or one is not usable,  *)
(* and the text that is written is the one that was wanted.                *)
(***************************************************************************)
EXTENDS FixEdits, TLAPS, FiniteSetTheorems, SequenceTheorems, WellFoundedInduction

-----------------------------------------------------------------------------
\* Keys to sort by, and the place a key gets.
Keys(keys) == Len(keys) \in Nat /\ keys \in [1 .. Len(keys) -> Nat]

Rank(keys, i) == Cardinality(UpTo(keys, i))

\* Of two keys one comes first, and what comes up to it is less.
LEMMA RankOrders ==
    ASSUME NEW keys, Keys(keys), NEW i \in 1 .. Len(keys), NEW j \in 1 .. Len(keys), i # j,
           keys[i] < keys[j] \/ (keys[i] = keys[j] /\ i < j)
    PROVE  Rank(keys, i) \in Nat /\ Rank(keys, j) \in Nat /\ Rank(keys, i) < Rank(keys, j)
<1> DEFINE n == Len(keys)
<1>1. n \in Nat /\ DOMAIN keys = 1 .. n /\ \A k \in 1 .. n : keys[k] \in Nat
  BY DEF Keys
<1> HIDE DEF n
<1>2. i \in 1 .. n /\ j \in 1 .. n
  BY DEF n
<1>3. IsFiniteSet(1 .. n)
  BY <1>1, FS_Interval
<1>4. UpTo(keys, i) \subseteq 1 .. n /\ UpTo(keys, j) \subseteq 1 .. n
  BY <1>1 DEF UpTo
<1>5. IsFiniteSet(UpTo(keys, i)) /\ IsFiniteSet(UpTo(keys, j))
  BY <1>3, <1>4, FS_Subset
<1>6. UpTo(keys, i) \subseteq UpTo(keys, j)
  BY <1>1, <1>2 DEF UpTo
<1>7. j \in UpTo(keys, j) /\ j \notin UpTo(keys, i)
  BY <1>1, <1>2 DEF UpTo
<1>8. /\ Cardinality(UpTo(keys, i)) <= Cardinality(UpTo(keys, j))
      /\ Cardinality(UpTo(keys, j)) # Cardinality(UpTo(keys, i))
  BY <1>5, <1>6, <1>7, FS_Subset
<1>9. Cardinality(UpTo(keys, i)) \in Nat /\ Cardinality(UpTo(keys, j)) \in Nat
  BY <1>5, FS_CardinalityType
<1> QED BY <1>8, <1>9 DEF Rank

LEMMA RankBounded ==
    ASSUME NEW keys, Keys(keys), NEW i \in 1 .. Len(keys)
    PROVE  Rank(keys, i) \in 1 .. Len(keys)
<1> DEFINE n == Len(keys)
<1>1. n \in Nat /\ DOMAIN keys = 1 .. n /\ \A k \in 1 .. n : keys[k] \in Nat
  BY DEF Keys
<1> HIDE DEF n
<1>2. i \in 1 .. n
  BY DEF n
<1>3. IsFiniteSet(1 .. n) /\ Cardinality(1 .. n) = n
  BY <1>1, FS_Interval
<1>4. UpTo(keys, i) \subseteq 1 .. n
  BY <1>1 DEF UpTo
<1>5. IsFiniteSet(UpTo(keys, i)) /\ Cardinality(UpTo(keys, i)) <= n
  BY <1>3, <1>4, FS_Subset
<1>6. i \in UpTo(keys, i)
  BY <1>1, <1>2 DEF UpTo
<1>7. Cardinality(UpTo(keys, i)) \in Nat /\ Cardinality(UpTo(keys, i)) # 0
  BY <1>5, <1>6, FS_CardinalityType, FS_EmptySet
<1> QED BY <1>1, <1>5, <1>7 DEF Rank, n

\* No two elements get the same place.
LEMMA RankInjective ==
    ASSUME NEW keys, Keys(keys), NEW i \in 1 .. Len(keys), NEW j \in 1 .. Len(keys), i # j
    PROVE  Rank(keys, i) # Rank(keys, j)
<1>1. i \in Nat /\ j \in Nat /\ keys[i] \in Nat /\ keys[j] \in Nat
  BY DEF Keys
<1>2. CASE keys[i] < keys[j] \/ (keys[i] = keys[j] /\ i < j)
  <2>1. Rank(keys, i) \in Nat /\ Rank(keys, j) \in Nat /\ Rank(keys, i) < Rank(keys, j)
    BY <1>2, RankOrders
  <2> QED BY <2>1
<1>3. CASE keys[j] < keys[i] \/ (keys[j] = keys[i] /\ j < i)
  <2>1. Rank(keys, i) \in Nat /\ Rank(keys, j) \in Nat /\ Rank(keys, j) < Rank(keys, i)
    BY <1>3, RankOrders
  <2> QED BY <2>1
<1> QED BY <1>1, <1>2, <1>3

\* Every place of the sorted list is the rank of one element.
LEMMA RankCovers ==
    ASSUME NEW keys, Keys(keys), NEW k \in 1 .. Len(keys)
    PROVE  \E i \in 1 .. Len(keys) : Rank(keys, i) = k
<1> DEFINE n == Len(keys)
           f == [i \in 1 .. n |-> Rank(keys, i)]
<1>1. n \in Nat
  BY DEF Keys
<1>2. f \in [1 .. n -> 1 .. n]
  BY RankBounded
<1>3. ASSUME NEW i \in 1 .. n, NEW j \in 1 .. n, i # j
      PROVE  f[i] # f[j]
  BY <1>3, RankInjective
<1> HIDE DEF f
<1>4. f \in Injection(1 .. n, 1 .. n)
  BY <1>2, <1>3 DEF Injection, IsInjective
<1>5. IsFiniteSet(1 .. n)
  BY <1>1, FS_Interval
<1>6. f \in Surjection(1 .. n, 1 .. n)
  BY <1>4, <1>5, FS_Injection
<1>7. PICK i \in 1 .. n : f[i] = k
  BY <1>6 DEF Surjection
<1> QED BY <1>7 DEF f

\* Where the element at place k comes from.
From(keys, k) == CHOOSE i \in 1 .. Len(keys) : Cardinality(UpTo(keys, i)) = k

LEMMA FromPlace ==
    ASSUME NEW keys, Keys(keys), NEW k \in 1 .. Len(keys)
    PROVE  From(keys, k) \in 1 .. Len(keys) /\ Rank(keys, From(keys, k)) = k
<1>1. \E i \in 1 .. Len(keys) : Cardinality(UpTo(keys, i)) = k
  BY RankCovers DEF Rank
<1> QED BY <1>1 DEF From, Rank

\* The keys of the sorted list ascend, and it rearranges the elements.
LEMMA KeysAscend ==
    ASSUME NEW keys, Keys(keys)
    PROVE  /\ \A a, b \in 1 .. Len(keys) :
                a < b => /\ From(keys, a) # From(keys, b)
                         /\ keys[From(keys, a)] <= keys[From(keys, b)]
           /\ \A i \in 1 .. Len(keys) : \E k \in 1 .. Len(keys) : From(keys, k) = i
<1>1. Len(keys) \in Nat /\ DOMAIN keys = 1 .. Len(keys)
  BY DEF Keys
<1>2. ASSUME NEW a \in 1 .. Len(keys), NEW b \in 1 .. Len(keys), a < b
      PROVE  From(keys, a) # From(keys, b) /\ keys[From(keys, a)] <= keys[From(keys, b)]
  <2> DEFINE i == From(keys, a)
             j == From(keys, b)
  <2>1. i \in 1 .. Len(keys) /\ j \in 1 .. Len(keys) /\ Rank(keys, i) = a /\ Rank(keys, j) = b
    BY FromPlace
  <2> HIDE DEF i, j
  <2>2. i # j /\ a \in Nat /\ b \in Nat
    BY <1>2, <2>1
  <2>3. keys[i] \in Nat /\ keys[j] \in Nat
    BY <2>1 DEF Keys
  <2>4. ~ (keys[j] < keys[i])
    <3>1. SUFFICES ASSUME keys[j] < keys[i] PROVE FALSE
      OBVIOUS
    <3>2. Rank(keys, j) < Rank(keys, i)
      BY <2>1, <2>2, <3>1, RankOrders
    <3> QED BY <1>2, <2>1, <2>2, <3>2
  <2> QED BY <2>2, <2>3, <2>4 DEF i, j
<1>3. ASSUME NEW i \in 1 .. Len(keys)
      PROVE  \E k \in 1 .. Len(keys) : From(keys, k) = i
  <2> DEFINE k == Rank(keys, i)
             j == From(keys, k)
  <2>1. k \in 1 .. Len(keys)
    BY RankBounded
  <2>2. j \in 1 .. Len(keys) /\ Rank(keys, j) = Rank(keys, i)
    BY <2>1, FromPlace
  <2> HIDE DEF j
  <2>3. j = i
    BY <2>2, RankInjective
  <2> QED BY <2>1, <2>3 DEF j
<1> QED BY <1>2, <1>3

\* sort_by_key, place by place.
LEMMA SortIs ==
    ASSUME NEW s, NEW keys, Keys(keys), DOMAIN s = 1 .. Len(keys)
    PROVE  /\ DOMAIN SortByKey(s, keys) = 1 .. Len(keys)
           /\ \A k \in 1 .. Len(keys) : SortByKey(s, keys)[k] = s[From(keys, k)]
<1>1. SortByKey(s, keys) = [k \in 1 .. Len(keys) |-> s[From(keys, k)]]
  BY DEF SortByKey, From
<1> QED BY <1>1

-----------------------------------------------------------------------------
\* What the lemmas ask of a list of edits.
Edits(es) ==
    /\ Len(es) \in Nat /\ DOMAIN es = 1 .. Len(es)
    /\ \A i \in 1 .. Len(es) : es[i].start \in Nat /\ es[i].end \in Nat

Starts(es) == [i \in DOMAIN es |-> es[i].start]

LEMMA StartsAreKeys ==
    ASSUME NEW es, Edits(es)
    PROVE  /\ Keys(Starts(es)) /\ Len(Starts(es)) = Len(es)
           /\ SortedByStart(es) = SortByKey(es, Starts(es))
<1>1. Len(Starts(es)) = Len(es) /\ Starts(es) \in [1 .. Len(es) -> Nat]
  BY DEF Edits, Starts
<1>2. SortedByStart(es) = SortByKey(es, Starts(es))
  BY DEF SortedByStart, Starts
<1> QED BY <1>1, <1>2 DEF Keys, Edits

\* The list is sorted, and a rearrangement of the edits.
LEMMA Sorts ==
    ASSUME NEW es, Edits(es)
    PROVE  \E from \in [1 .. Len(es) -> 1 .. Len(es)] :
             /\ Edits(SortedByStart(es)) /\ Len(SortedByStart(es)) = Len(es)
             /\ \A k \in 1 .. Len(es) : SortedByStart(es)[k] = es[from[k]]
             /\ \A a, b \in 1 .. Len(es) :
                  a < b => /\ from[a] # from[b]
                           /\ SortedByStart(es)[a].start <= SortedByStart(es)[b].start
             /\ \A i \in 1 .. Len(es) : \E k \in 1 .. Len(es) : from[k] = i
<1> DEFINE keys == Starts(es)
           n == Len(es)
           s == SortedByStart(es)
           from == [k \in 1 .. n |-> From(keys, k)]
<1>1. Keys(keys) /\ Len(keys) = n /\ s = SortByKey(es, keys)
  BY StartsAreKeys
<1>2. n \in Nat /\ DOMAIN es = 1 .. n
  BY DEF Edits
<1>3. \A i \in 1 .. n : keys[i] = es[i].start
  BY <1>2 DEF Starts
<1>4. \A i \in 1 .. n : es[i].start \in Nat /\ es[i].end \in Nat
  BY DEF Edits
<1> HIDE DEF keys, s, n
<1>5. \A k \in 1 .. n : from[k] \in 1 .. n /\ from[k] = From(keys, k)
  BY <1>1, FromPlace
<1>6. from \in [1 .. n -> 1 .. n]
  BY <1>5
<1>7. DOMAIN s = 1 .. n /\ \A k \in 1 .. n : s[k] = es[From(keys, k)]
  BY <1>1, <1>2, SortIs
<1>8. \A a, b \in 1 .. n :
        a < b => From(keys, a) # From(keys, b) /\ keys[From(keys, a)] <= keys[From(keys, b)]
  BY <1>1, KeysAscend
<1>9. \A i \in 1 .. n : \E k \in 1 .. n : From(keys, k) = i
  BY <1>1, KeysAscend
<1> HIDE DEF from
<1>10. \A k \in 1 .. n : s[k] = es[from[k]] /\ from[k] \in 1 .. n
  BY <1>5, <1>7
<1>11. ASSUME NEW a \in 1 .. n, NEW b \in 1 .. n, a < b
       PROVE  from[a] # from[b] /\ s[a].start <= s[b].start
  <2>1. from[a] # from[b] /\ keys[from[a]] <= keys[from[b]]
    BY <1>5, <1>8, <1>11
  <2>2. keys[from[a]] = s[a].start /\ keys[from[b]] = s[b].start
    BY <1>3, <1>10
  <2> QED BY <2>1, <2>2
<1>12. \A i \in 1 .. n : \E k \in 1 .. n : from[k] = i
  BY <1>5, <1>9
<1>13. Edits(s) /\ Len(s) = n
  <2>1. s = [k \in 1 .. n |-> es[From(keys, k)]]
    BY <1>1, <1>2 DEF SortByKey, From
  <2>2. Len(s) = n
    BY <1>2, <2>1
  <2> QED BY <1>2, <1>4, <1>7, <1>10, <2>2 DEF Edits
<1> QED BY <1>6, <1>10, <1>11, <1>12, <1>13 DEF n, s

-----------------------------------------------------------------------------
\* Two edits that cannot both be applied.
Touch(a, b) == a.start = b.start \/ (a.start < b.start /\ b.start < a.end)

\* The neighbours of the sorted list tell of all pairs.
LEMMA NeighboursTell ==
    ASSUME NEW es, Edits(es)
    PROVE  Conflict(SortedByStart(es))
             <=> \E i, j \in 1 .. Len(es) : i # j /\ Touch(es[i], es[j])
<1> DEFINE n == Len(es)
           s == SortedByStart(es)
<1>1. n \in Nat
  BY DEF Edits
<1>2. PICK from \in [1 .. n -> 1 .. n] :
             /\ Edits(s) /\ Len(s) = n
             /\ \A k \in 1 .. n : s[k] = es[from[k]]
             /\ \A a, b \in 1 .. n : a < b => from[a] # from[b] /\ s[a].start <= s[b].start
             /\ \A i \in 1 .. n : \E k \in 1 .. n : from[k] = i
  BY Sorts
<1>3. \A k \in 1 .. n : s[k].start \in Nat /\ s[k].end \in Nat
  BY <1>2 DEF Edits
<1>4. \A a, b \in 1 .. n : a < b => from[a] # from[b] /\ s[a].start <= s[b].start
  BY <1>2
<1>5. \A i \in 1 .. n : \E k \in 1 .. n : from[k] = i
  BY <1>2
<1>6. Len(s) = n /\ \A k \in 1 .. n : from[k] \in 1 .. n /\ s[k] = es[from[k]]
  BY <1>2
<1> HIDE DEF n, s
<1>7. ASSUME NEW k \in 1 .. n - 1, s[k].start = s[k + 1].start \/ s[k].end > s[k + 1].start
      PROVE  \E i, j \in 1 .. n : i # j /\ Touch(es[i], es[j])
  <2>1. k \in 1 .. n /\ k + 1 \in 1 .. n /\ k < k + 1
    BY <1>1
  <2>2. s[k].start <= s[k + 1].start /\ from[k] # from[k + 1]
    BY <1>4, <2>1
  <2>3. Touch(s[k], s[k + 1])
    BY <1>3, <1>7, <2>1, <2>2 DEF Touch
  <2> QED BY <1>6, <2>1, <2>2, <2>3
<1>8. ASSUME NEW a \in 1 .. n, NEW b \in 1 .. n, a < b, s[a].start = s[b].start \/ s[b].start < s[a].end
      PROVE  Conflict(s)
  <2>1. a \in 1 .. n - 1 /\ a + 1 \in 1 .. n /\ a < a + 1 /\ (a + 1 = b \/ a + 1 < b)
    BY <1>1, <1>8
  <2>2. s[a].start <= s[a + 1].start /\ s[a + 1].start <= s[b].start
    BY <1>3, <1>4, <2>1
  <2>3. s[a].start = s[a + 1].start \/ s[a].end > s[a + 1].start
    BY <1>3, <1>8, <2>1, <2>2
  <2>4. a \in 1 .. Len(s) - 1
    BY <1>1, <1>6, <2>1
  <2> QED BY <2>3, <2>4 DEF Conflict
<1>9. ASSUME NEW i \in 1 .. n, NEW j \in 1 .. n, i # j, Touch(es[i], es[j])
      PROVE  Conflict(s)
  <2>1. PICK a \in 1 .. n : from[a] = i
    BY <1>5
  <2>2. PICK b \in 1 .. n : from[b] = j
    BY <1>5
  <2>3. a # b /\ Touch(s[a], s[b])
    BY <1>6, <1>9, <2>1, <2>2
  <2>4. a \in Nat /\ b \in Nat
    BY <1>1
  <2>5. CASE a < b
    BY <1>8, <2>3, <2>5 DEF Touch
  <2>6. CASE b < a
    <3>1. s[b].start <= s[a].start
      BY <1>4, <2>6
    <3>2. s[a].start = s[b].start
      BY <1>3, <2>3, <3>1 DEF Touch
    <3> QED BY <1>8, <2>6, <3>2
  <2> QED BY <2>3, <2>4, <2>5, <2>6
<1>10. Conflict(s) => \E k \in 1 .. n - 1 : s[k].start = s[k + 1].start \/ s[k].end > s[k + 1].start
  BY <1>6 DEF Conflict
<1> QED BY <1>7, <1>9, <1>10 DEF n, s

-----------------------------------------------------------------------------
\* The repairs that have been looked at.
Seen == IF pc = "group" THEN next - 1 ELSE Len(fixes)

TypesOK ==
    /\ fixes \in Seq(Fixes)
    /\ pc \in {"group", "apply", "refused", "done"}
    /\ pc = "group" => next \in 1 .. Len(fixes) + 1
    /\ groups \in Seq([anchor : FixAnchor, members : Seq(DocTagFix)])
    /\ replaces \in Seq(ReplaceFix)

\* The groups are those of the tags seen, one for each anchor.
GroupsHold ==
    /\ \A g, h \in DOMAIN groups : groups[g].anchor = groups[h].anchor => g = h
    /\ \A g \in DOMAIN groups :
         \E i \in 1 .. Seen : fixes[i].type = "tag" /\ fixes[i].anchor = groups[g].anchor
    /\ \A i \in 1 .. Seen :
         fixes[i].type = "tag" => \E g \in DOMAIN groups : groups[g].anchor = fixes[i].anchor

\* The replacements are those seen, each one once.
ReplacesHold ==
    /\ \A r, s \in DOMAIN replaces : replaces[r] = replaces[s] => r = s
    /\ \A r \in DOMAIN replaces :
         \E i \in 1 .. Seen : fixes[i].type = "replace" /\ fixes[i] = replaces[r]
    /\ \A i \in 1 .. Seen :
         fixes[i].type = "replace" => \E r \in DOMAIN replaces : replaces[r] = fixes[i]

GatherInv == TypesOK /\ GroupsHold /\ ReplacesHold

\* A repair is a tag or a replacement.
LEMMA FixKinds ==
    ASSUME NEW f \in Fixes
    PROVE  \/ f \in ReplaceFix /\ f.type = "replace"
           \/ f \in DocTagFix /\ f.type = "tag"
BY EditsAssumption DEF ReplaceFix, DocTagFix

LEMMA GatherInit == Init => GatherInv
<1> SUFFICES ASSUME Init PROVE GatherInv
  OBVIOUS
<1>1. PICK n \in 1 .. MaxFixes : fixes \in [1 .. n -> Fixes]
  BY DEF Init
<1>2. n \in Nat
  BY EditsAssumption
<1>3. fixes \in Seq(Fixes) /\ Len(fixes) \in Nat
  BY <1>1, <1>2
<1>4. Seen = 0
  BY DEF Init, Seen
<1>5. TypesOK
  BY <1>3 DEF Init, TypesOK
<1>6. DOMAIN groups = {} /\ DOMAIN replaces = {}
  BY DEF Init
<1> QED BY <1>4, <1>5, <1>6 DEF GatherInv, GroupsHold, ReplacesHold

\* A tag that is looked at has its group, and no other group changes its anchor.
LEMMA GroupedHolds ==
    ASSUME TypesOK, GroupsHold, pc = "group", next <= Len(fixes), pc' = "group",
           next' = next + 1, fixes' = fixes,
           fixes[next].type = "tag", groups' = Grouped(fixes[next])
    PROVE  /\ groups' \in Seq([anchor : FixAnchor, members : Seq(DocTagFix)])
           /\ GroupsHold'
<1> DEFINE fix == fixes[next]
           Entry == [anchor : FixAnchor, members : Seq(DocTagFix)]
<1>1. next \in 1 .. Len(fixes) /\ Len(fixes) \in Nat
  BY DEF TypesOK
<1>2. fix \in DocTagFix
  <2>1. fix \in Fixes
    BY <1>1 DEF TypesOK
  <2>2. fix.type = "tag"
    OBVIOUS
  <2> QED BY <2>1, <2>2, FixKinds
<1>3. fix.anchor \in FixAnchor
  BY <1>2 DEF DocTagFix
<1>4. Seen = next - 1 /\ Seen' = next
  BY <1>1 DEF Seen
<1>5. groups \in Seq(Entry) /\ Len(groups) \in Nat /\ DOMAIN groups = 1 .. Len(groups)
  BY DEF TypesOK
<1> HIDE DEF Entry
<1>6. CASE \E g \in DOMAIN groups : groups[g].anchor = fix.anchor
  <2>1. groups' = [g \in DOMAIN groups |->
                     IF groups[g].anchor = fix.anchor
                     THEN [groups[g] EXCEPT !.members = Append(@, fix)]
                     ELSE groups[g]]
    BY <1>6 DEF Grouped
  <2>2. ASSUME NEW g \in DOMAIN groups
        PROVE  groups'[g] \in Entry /\ groups'[g].anchor = groups[g].anchor
    <3>1. groups[g] \in Entry
      BY <1>5
    <3>2. CASE groups[g].anchor = fix.anchor
      <4>1. groups'[g] = [groups[g] EXCEPT !.members = Append(@, fix)]
        BY <2>1, <3>2
      <4>2. groups[g].members \in Seq(DocTagFix) /\ groups[g].anchor \in FixAnchor
        BY <3>1 DEF Entry
      <4>3. Append(groups[g].members, fix) \in Seq(DocTagFix)
        BY <1>2, <4>2
      <4>4. groups'[g] = [anchor |-> groups[g].anchor, members |-> Append(groups[g].members, fix)]
        BY <3>1, <4>1 DEF Entry
      <4> QED BY <4>2, <4>3, <4>4 DEF Entry
    <3>3. CASE groups[g].anchor # fix.anchor
      BY <2>1, <3>1, <3>3
    <3> QED BY <3>2, <3>3
  <2>3. DOMAIN groups' = DOMAIN groups /\ DOMAIN groups' = 1 .. Len(groups)
    BY <1>5, <2>1
  <2>4. groups' \in Seq(Entry)
    <3>1. groups' \in [1 .. Len(groups) -> Entry]
      BY <2>1, <2>2, <2>3
    <3> QED BY <1>5, <3>1
  <2>5. \A g, h \in DOMAIN groups' : groups'[g].anchor = groups'[h].anchor => g = h
    BY <2>2, <2>3 DEF GroupsHold
  <2>6. \A g \in DOMAIN groups' :
          \E i \in 1 .. next : fixes[i].type = "tag" /\ fixes[i].anchor = groups'[g].anchor
    BY <1>1, <1>4, <2>2, <2>3 DEF GroupsHold
  <2>7. \A i \in 1 .. next :
          fixes[i].type = "tag" => \E g \in DOMAIN groups' : groups'[g].anchor = fixes[i].anchor
    <3> SUFFICES ASSUME NEW i \in 1 .. next, fixes[i].type = "tag"
                 PROVE  \E g \in DOMAIN groups' : groups'[g].anchor = fixes[i].anchor
      OBVIOUS
    <3>1. CASE i = next
      BY <1>6, <2>2, <2>3, <3>1
    <3>2. CASE i # next
      <4>1. i \in 1 .. Seen
        BY <1>1, <1>4, <3>2
      <4> QED BY <2>2, <2>3, <4>1 DEF GroupsHold
    <3> QED BY <3>1, <3>2
  <2> QED BY <1>4, <2>4, <2>5, <2>6, <2>7 DEF GroupsHold, Entry
<1>7. CASE ~ \E g \in DOMAIN groups : groups[g].anchor = fix.anchor
  <2> DEFINE new == [anchor |-> fix.anchor, members |-> <<fix>>]
             m == Len(groups)
  <2>1. groups' = Append(groups, new)
    BY <1>7 DEF Grouped
  <2>2. new \in Entry /\ new.anchor = fix.anchor
    BY <1>2, <1>3 DEF Entry
  <2> HIDE DEF new
  <2>3. /\ groups' \in Seq(Entry) /\ DOMAIN groups' = 1 .. m + 1
        /\ groups'[m + 1] = new /\ \A g \in 1 .. m : groups'[g] = groups[g]
    BY <1>5, <2>1, <2>2
  <2> HIDE DEF m
  <2>4. m \in Nat /\ DOMAIN groups = 1 .. m
    BY <1>5 DEF m
  <2>5. ASSUME NEW g \in 1 .. m + 1
        PROVE  \/ g = m + 1 /\ groups'[g].anchor = fix.anchor
               \/ g \in 1 .. m /\ groups'[g] = groups[g] /\ groups[g].anchor # fix.anchor
    <3>1. g = m + 1 \/ g \in 1 .. m
      BY <2>4
    <3> QED BY <1>7, <2>2, <2>3, <2>4, <3>1
  <2>6. \A g, h \in DOMAIN groups' : groups'[g].anchor = groups'[h].anchor => g = h
    BY <2>3, <2>4, <2>5 DEF GroupsHold
  <2>7. \A g \in DOMAIN groups' :
          \E i \in 1 .. next : fixes[i].type = "tag" /\ fixes[i].anchor = groups'[g].anchor
    <3> SUFFICES ASSUME NEW g \in 1 .. m + 1
                 PROVE  \E i \in 1 .. next :
                          fixes[i].type = "tag" /\ fixes[i].anchor = groups'[g].anchor
      BY <2>3
    <3>1. CASE g = m + 1
      <4>1. groups'[g].anchor = fixes[next].anchor /\ next \in 1 .. next
        BY <1>1, <2>2, <2>3, <3>1
      <4> QED BY <4>1
    <3>2. CASE g \in 1 .. m
      <4>1. \E i \in 1 .. Seen : fixes[i].type = "tag" /\ fixes[i].anchor = groups[g].anchor
        BY <2>4, <3>2 DEF GroupsHold
      <4> QED BY <1>1, <1>4, <2>3, <3>2, <4>1
    <3> QED BY <2>5, <3>1, <3>2
  <2>8. \A i \in 1 .. next :
          fixes[i].type = "tag" => \E g \in DOMAIN groups' : groups'[g].anchor = fixes[i].anchor
    <3> SUFFICES ASSUME NEW i \in 1 .. next, fixes[i].type = "tag"
                 PROVE  \E g \in DOMAIN groups' : groups'[g].anchor = fixes[i].anchor
      OBVIOUS
    <3>1. CASE i = next
      <4>1. m + 1 \in DOMAIN groups'
        BY <2>3, <2>4
      <4> QED BY <2>2, <2>3, <3>1, <4>1
    <3>2. CASE i # next
      <4>1. i \in 1 .. Seen
        BY <1>1, <1>4, <3>2
      <4>2. PICK g \in 1 .. m : groups[g].anchor = fixes[i].anchor
        BY <2>4, <4>1 DEF GroupsHold
      <4>3. g \in DOMAIN groups' /\ groups'[g] = groups[g]
        BY <2>3, <2>4
      <4> QED BY <4>2, <4>3
    <3> QED BY <3>1, <3>2
  <2> QED BY <1>4, <2>3, <2>6, <2>7, <2>8 DEF GroupsHold, Entry
<1> QED BY <1>6, <1>7

Joined == IF Contains(replaces, fixes[next]) THEN replaces ELSE Append(replaces, fixes[next])

\* A replacement that is looked at is kept once.
LEMMA ReplacedHolds ==
    ASSUME TypesOK, ReplacesHold, pc = "group", next <= Len(fixes), pc' = "group",
           next' = next + 1, fixes' = fixes, fixes[next].type = "replace",
           replaces' = Joined
    PROVE  replaces' \in Seq(ReplaceFix) /\ ReplacesHold'
<1> DEFINE fix == fixes[next]
           m == Len(replaces)
<1>1. next \in 1 .. Len(fixes) /\ Len(fixes) \in Nat
  BY DEF TypesOK
<1>2. fix \in ReplaceFix
  <2>1. fix \in Fixes
    BY <1>1 DEF TypesOK
  <2>2. fix.type = "replace"
    OBVIOUS
  <2> QED BY <2>1, <2>2, FixKinds
<1>3. Seen = next - 1 /\ Seen' = next
  BY <1>1 DEF Seen
<1>4. replaces \in Seq(ReplaceFix) /\ m \in Nat /\ DOMAIN replaces = 1 .. m
  BY DEF TypesOK
<1>5. Contains(replaces, fix) <=> \E r \in 1 .. m : replaces[r] = fix
  BY DEF Contains
<1> HIDE DEF m
<1>6. CASE \E r \in 1 .. m : replaces[r] = fix
  <2>1. replaces' = replaces
    BY <1>5, <1>6 DEF Joined
  <2>2. \A r \in DOMAIN replaces' :
          \E i \in 1 .. next : fixes[i].type = "replace" /\ fixes[i] = replaces'[r]
    BY <1>1, <1>3, <2>1 DEF ReplacesHold
  <2>3. ASSUME NEW i \in 1 .. next, fixes[i].type = "replace"
        PROVE  \E r \in DOMAIN replaces' : replaces'[r] = fixes[i]
    <3>1. CASE i = next
      BY <1>4, <1>6, <2>1, <3>1
    <3>2. CASE i # next
      <4>1. i \in 1 .. Seen
        BY <1>1, <1>3, <3>2
      <4> QED BY <2>1, <2>3, <4>1 DEF ReplacesHold
    <3> QED BY <3>1, <3>2
  <2> QED BY <1>3, <1>4, <2>1, <2>2, <2>3 DEF ReplacesHold
<1>7. CASE ~ \E r \in 1 .. m : replaces[r] = fix
  <2>1. replaces' = Append(replaces, fix)
    BY <1>5, <1>7 DEF Joined
  <2>2. /\ replaces' \in Seq(ReplaceFix) /\ DOMAIN replaces' = 1 .. m + 1
        /\ replaces'[m + 1] = fix /\ \A r \in 1 .. m : replaces'[r] = replaces[r]
    BY <1>2, <1>4, <2>1 DEF m
  <2>3. ASSUME NEW r \in 1 .. m + 1
        PROVE  \/ r = m + 1 /\ replaces'[r] = fix
               \/ r \in 1 .. m /\ replaces'[r] = replaces[r] /\ replaces[r] # fix
    <3>1. r = m + 1 \/ r \in 1 .. m
      BY <1>4
    <3> QED BY <1>7, <2>2, <3>1
  <2>4. \A r, s \in DOMAIN replaces' : replaces'[r] = replaces'[s] => r = s
    BY <1>4, <2>2, <2>3 DEF ReplacesHold
  <2>5. ASSUME NEW r \in 1 .. m + 1
        PROVE  \E i \in 1 .. next : fixes[i].type = "replace" /\ fixes[i] = replaces'[r]
    <3>1. CASE r = m + 1
      <4>1. next \in 1 .. next
        BY <1>1
      <4> QED BY <2>2, <3>1, <4>1
    <3>2. CASE r \in 1 .. m
      <4>1. PICK i \in 1 .. Seen : fixes[i].type = "replace" /\ fixes[i] = replaces[r]
        BY <1>4, <3>2 DEF ReplacesHold
      <4>2. i \in 1 .. next
        BY <1>1, <1>3
      <4> QED BY <2>2, <3>2, <4>1, <4>2
    <3> QED BY <2>3, <3>1, <3>2
  <2>6. ASSUME NEW i \in 1 .. next, fixes[i].type = "replace"
        PROVE  \E r \in DOMAIN replaces' : replaces'[r] = fixes[i]
    <3>1. CASE i = next
      <4>1. m + 1 \in DOMAIN replaces'
        BY <1>4, <2>2
      <4> QED BY <2>2, <3>1, <4>1
    <3>2. CASE i # next
      <4>1. i \in 1 .. Seen
        BY <1>1, <1>3, <3>2
      <4>2. PICK r \in 1 .. m : replaces[r] = fixes[i]
        BY <1>4, <2>6, <4>1 DEF ReplacesHold
      <4>3. r \in DOMAIN replaces' /\ replaces'[r] = replaces[r]
        BY <1>4, <2>2
      <4> QED BY <4>2, <4>3
    <3> QED BY <3>1, <3>2
  <2>7. \A r \in DOMAIN replaces' :
          \E i \in 1 .. next : fixes[i].type = "replace" /\ fixes[i] = replaces'[r]
    BY <2>2, <2>5
  <2>8. \A i \in 1 .. next :
          fixes[i].type = "replace" => \E r \in DOMAIN replaces' : replaces'[r] = fixes[i]
    BY <2>6
  <2>9. ReplacesHold'
    BY <1>3, <2>4, <2>7, <2>8 DEF ReplacesHold
  <2> QED BY <2>2, <2>9
<1> QED BY <1>6, <1>7

LEMMA GatherStep == GatherInv /\ [Next]_vars => GatherInv'
<1> SUFFICES ASSUME GatherInv, [Next]_vars PROVE GatherInv'
  OBVIOUS
<1> USE DEF GatherInv
<1>1. CASE Group
  <2>1. /\ pc = "group" /\ next <= Len(fixes) /\ pc' = "group" /\ next' = next + 1
        /\ fixes' = fixes
    BY <1>1 DEF Group
  <2>2. next \in 1 .. Len(fixes) /\ Len(fixes) \in Nat /\ fixes[next] \in Fixes
    BY <2>1 DEF TypesOK
  <2>3. Seen = next - 1 /\ Seen' = next
    BY <2>1, <2>2 DEF Seen
  <2>4. next' \in 1 .. Len(fixes') + 1
    BY <2>1, <2>2
  <2>5. \A i \in 1 .. next : i \in 1 .. Seen \/ i = next
    BY <2>2, <2>3
  <2>6. \A i \in 1 .. Seen : i \in 1 .. next
    BY <2>2, <2>3
  <2>7. CASE fixes[next].type = "tag"
    <3>1. groups' = Grouped(fixes[next]) /\ replaces' = replaces
      BY <1>1, <2>7 DEF Group
    <3>2. groups' \in Seq([anchor : FixAnchor, members : Seq(DocTagFix)]) /\ GroupsHold'
      BY <2>1, <2>7, <3>1, GroupedHolds
    <3>3. ReplacesHold'
      BY <2>1, <2>3, <2>5, <2>6, <2>7, <3>1 DEF ReplacesHold
    <3> QED BY <2>1, <2>4, <3>1, <3>2, <3>3 DEF TypesOK
  <2>8. CASE fixes[next].type # "tag"
    <3>1. fixes[next].type = "replace"
      BY <2>2, <2>8, FixKinds
    <3>2. /\ groups' = groups
          /\ replaces' = Joined
      BY <1>1, <2>8 DEF Group, Joined
    <3>3. replaces' \in Seq(ReplaceFix) /\ ReplacesHold'
      BY <2>1, <3>1, <3>2, ReplacedHolds
    <3>4. GroupsHold'
      BY <2>1, <2>3, <2>5, <2>6, <2>8, <3>2 DEF GroupsHold
    <3> QED BY <2>1, <2>4, <3>2, <3>3, <3>4 DEF TypesOK
  <2> QED BY <2>7, <2>8
<1>2. CASE MakeEdits \/ Apply \/ Done \/ UNCHANGED vars
  <2>1. fixes' = fixes /\ groups' = groups /\ replaces' = replaces
    BY <1>2 DEF MakeEdits, Apply, Done, vars
  <2>2. Len(fixes) \in Nat
    BY DEF TypesOK
  <2>3. /\ pc' \in {"group", "apply", "refused", "done"}
        /\ pc' = "group" => pc = "group" /\ next' = next
        /\ pc' # "group" /\ pc = "group" => next = Len(fixes) + 1
    BY <1>2 DEF MakeEdits, Apply, Done, vars, TypesOK
  <2>4. Seen' = Seen
    BY <2>1, <2>2, <2>3 DEF Seen
  <2>5. TypesOK'
    BY <2>1, <2>3 DEF TypesOK
  <2> QED BY <2>1, <2>4, <2>5 DEF GroupsHold, ReplacesHold
<1> QED BY <1>1, <1>2 DEF Next

-----------------------------------------------------------------------------
\* The edits, place by place.
LEMMA MadeIs ==
    ASSUME TypesOK
    PROVE  /\ Len(replaces) \in Nat /\ DOMAIN replaces = 1 .. Len(replaces)
           /\ Len(groups) \in Nat /\ DOMAIN groups = 1 .. Len(groups)
           /\ Edits(Made) /\ Len(Made) = Len(replaces) + Len(groups)
           /\ \A r \in 1 .. Len(replaces) :
                Made[r] = [start |-> replaces[r].start, end |-> replaces[r].end,
                           text |-> replaces[r].text]
           /\ \A g \in 1 .. Len(groups) : Made[Len(replaces) + g] = TagEdit(groups[g])
<1> DEFINE R == Len(replaces)
           G == Len(groups)
           first == [i \in DOMAIN replaces |->
                       [start |-> replaces[i].start, end |-> replaces[i].end,
                        text |-> replaces[i].text]]
           second == [i \in DOMAIN groups |-> TagEdit(groups[i])]
<1>1. R \in Nat /\ DOMAIN replaces = 1 .. R /\ G \in Nat /\ DOMAIN groups = 1 .. G
  BY DEF TypesOK
<1>2. Len(first) = R /\ Len(second) = G
  BY <1>1
<1>3. /\ \A r \in 1 .. R : replaces[r] \in ReplaceFix
      /\ \A g \in 1 .. G : groups[g].anchor \in FixAnchor
  <2>1. ASSUME NEW r \in 1 .. R PROVE replaces[r] \in ReplaceFix
    <3>1. replaces \in Seq(ReplaceFix)
      BY DEF TypesOK
    <3> QED BY <3>1, ElementOfSeq
  <2>2. ASSUME NEW g \in 1 .. G PROVE groups[g].anchor \in FixAnchor
    <3>1. groups \in Seq([anchor : FixAnchor, members : Seq(DocTagFix)])
      BY DEF TypesOK
    <3>2. groups[g] \in [anchor : FixAnchor, members : Seq(DocTagFix)]
      BY <3>1, ElementOfSeq
    <3> QED BY <3>2
  <2> QED BY <2>1, <2>2
<1>4. Made = first \o second
  BY DEF Made
<1>5. \A r \in 1 .. R :
        first[r] = [start |-> replaces[r].start, end |-> replaces[r].end,
                    text |-> replaces[r].text]
  BY <1>1
<1>6. \A g \in 1 .. G : second[g] = TagEdit(groups[g])
  BY <1>1
<1> DEFINE All == {first[i] : i \in 1 .. R} \cup {second[i] : i \in 1 .. G}
<1> HIDE DEF R, G, first, second
<1>7. first \in Seq(All) /\ second \in Seq(All)
  <2>1. \A i \in 1 .. R : first[i] \in All
    OBVIOUS
  <2>2. \A i \in 1 .. G : second[i] \in All
    OBVIOUS
  <2> HIDE DEF All
  <2>3. first \in [1 .. R -> All] /\ second \in [1 .. G -> All]
    BY <1>1, <2>1, <2>2 DEF first, second
  <2> QED BY <1>1, <2>3
<1> HIDE DEF All
<1>8. Len(Made) = R + G /\ DOMAIN Made = 1 .. R + G
  <2>1. Made \in Seq(All) /\ Len(Made) = R + G
    BY <1>2, <1>4, <1>7, ConcatProperties
  <2> QED BY <2>1
<1>9. \A i \in 1 .. R + G : Made[i] = IF i <= R THEN first[i] ELSE second[i - R]
  BY <1>2, <1>4, <1>7, ConcatProperties
<1>10. \A r \in 1 .. R : Made[r] = first[r]
  BY <1>1, <1>9
<1>11. \A g \in 1 .. G : Made[R + g] = second[g]
  <2> SUFFICES ASSUME NEW g \in 1 .. G PROVE Made[R + g] = second[g]
    OBVIOUS
  <2>1. R + g \in 1 .. R + G /\ ~ (R + g <= R) /\ (R + g) - R = g
    BY <1>1
  <2> QED BY <1>9, <2>1
<1>12. ASSUME NEW i \in 1 .. R + G
       PROVE  Made[i].start \in Nat /\ Made[i].end \in Nat
  <2>1. CASE i \in 1 .. R
    <3>1. replaces[i] \in ReplaceFix
      BY <1>3, <2>1
    <3>2. Made[i] = [start |-> replaces[i].start, end |-> replaces[i].end,
                     text |-> replaces[i].text]
      BY <1>5, <1>10, <2>1
    <3> QED BY <3>1, <3>2 DEF ReplaceFix
  <2>2. CASE i \notin 1 .. R
    <3>1. i - R \in 1 .. G /\ R + (i - R) = i
      BY <1>1, <2>2
    <3>2. Made[i] = TagEdit(groups[i - R])
      BY <1>6, <1>11, <3>1
    <3>3. groups[i - R].anchor \in FixAnchor
      BY <1>3, <3>1
    <3> QED BY <3>2, <3>3 DEF TagEdit, FixAnchor
  <2> QED BY <2>1, <2>2
<1>13. Edits(Made)
  BY <1>1, <1>8, <1>12 DEF Edits
<1> QED BY <1>1, <1>5, <1>6, <1>8, <1>10, <1>11, <1>13 DEF R, G

\* Where the edit of a group is.
LEMMA TagEditSpan ==
    ASSUME NEW g
    PROVE  TagEdit(g).start = g.anchor[2] /\ TagEdit(g).end = g.anchor[3]
BY DEF TagEdit

\* When all are gathered: the groups stand for the tags, the replacements for
\* those asked for.
LEMMA Collected ==
    ASSUME GatherInv, Seen = Len(fixes)
    PROVE  /\ \A t \in Tags : t \in DocTagFix /\ \E g \in DOMAIN groups : groups[g].anchor = t.anchor
           /\ \A g \in DOMAIN groups : \E t \in Tags : t.anchor = groups[g].anchor
           /\ \A r \in Swaps : r \in ReplaceFix /\ \E i \in DOMAIN replaces : replaces[i] = r
           /\ \A i \in DOMAIN replaces : replaces[i] \in Swaps
<1>1. Len(fixes) \in Nat /\ DOMAIN fixes = 1 .. Len(fixes) /\ \A i \in 1 .. Len(fixes) : fixes[i] \in Fixes
  BY DEF GatherInv, TypesOK
<1>2. ASSUME NEW t \in Tags
      PROVE  t \in DocTagFix /\ \E g \in DOMAIN groups : groups[g].anchor = t.anchor
  <2>1. PICK i \in 1 .. Len(fixes) : fixes[i].type = "tag" /\ t = fixes[i]
    BY <1>1 DEF Tags
  <2>2. fixes[i] \in DocTagFix
    BY <1>1, <2>1, FixKinds
  <2>3. \E g \in DOMAIN groups : groups[g].anchor = fixes[i].anchor
    BY <2>1 DEF GatherInv, GroupsHold
  <2> QED BY <2>1, <2>2, <2>3
<1>3. ASSUME NEW g \in DOMAIN groups
      PROVE  \E t \in Tags : t.anchor = groups[g].anchor
  <2>1. PICK i \in 1 .. Len(fixes) : fixes[i].type = "tag" /\ fixes[i].anchor = groups[g].anchor
    BY DEF GatherInv, GroupsHold
  <2>2. fixes[i] \in Tags
    BY <1>1, <2>1 DEF Tags
  <2> QED BY <2>1, <2>2
<1>4. ASSUME NEW r \in Swaps
      PROVE  r \in ReplaceFix /\ \E i \in DOMAIN replaces : replaces[i] = r
  <2>1. PICK i \in 1 .. Len(fixes) : fixes[i].type = "replace" /\ r = fixes[i]
    BY <1>1 DEF Swaps
  <2>2. fixes[i] \in ReplaceFix
    BY <1>1, <2>1, FixKinds
  <2>3. \E k \in DOMAIN replaces : replaces[k] = fixes[i]
    BY <2>1 DEF GatherInv, ReplacesHold
  <2> QED BY <2>1, <2>2, <2>3
<1>5. ASSUME NEW k \in DOMAIN replaces
      PROVE  replaces[k] \in Swaps
  <2>1. PICK i \in 1 .. Len(fixes) : fixes[i].type = "replace" /\ fixes[i] = replaces[k]
    BY DEF GatherInv, ReplacesHold
  <2> QED BY <1>1, <2>1 DEF Swaps
<1> QED BY <1>2, <1>3, <1>4, <1>5

\* The edit of each replacement and of each anchor.
At(e, s, f) == e.start = s /\ e.end = f

LEMMA MadeSpans ==
    ASSUME TypesOK
    PROVE  /\ Edits(Made)
           /\ \A r \in DOMAIN replaces :
                r \in 1 .. Len(Made) /\ At(Made[r], replaces[r].start, replaces[r].end)
           /\ \A g \in DOMAIN groups :
                /\ Len(replaces) + g \in 1 .. Len(Made)
                /\ At(Made[Len(replaces) + g], groups[g].anchor[2], groups[g].anchor[3])
           /\ \A i \in 1 .. Len(Made) :
                i \in DOMAIN replaces \/ \E g \in DOMAIN groups : i = Len(replaces) + g
           /\ \A r \in DOMAIN replaces, g \in DOMAIN groups : r # Len(replaces) + g
<1> DEFINE R == Len(replaces)
           G == Len(groups)
<1>1. /\ R \in Nat /\ DOMAIN replaces = 1 .. R
      /\ G \in Nat /\ DOMAIN groups = 1 .. G
      /\ Edits(Made) /\ Len(Made) = R + G
  BY MadeIs
<1>2. \A r \in 1 .. R :
        Made[r] = [start |-> replaces[r].start, end |-> replaces[r].end,
                   text |-> replaces[r].text]
  BY MadeIs
<1>3. \A g \in 1 .. G : Made[R + g] = TagEdit(groups[g])
  BY MadeIs
<1> HIDE DEF R, G
<1>4. ASSUME NEW r \in 1 .. R
      PROVE  r \in 1 .. Len(Made) /\ At(Made[r], replaces[r].start, replaces[r].end)
  <2>1. r \in 1 .. Len(Made)
    BY <1>1
  <2>2. Made[r] = [start |-> replaces[r].start, end |-> replaces[r].end,
                   text |-> replaces[r].text]
    BY <1>2
  <2>3. Made[r].start = replaces[r].start /\ Made[r].end = replaces[r].end
    BY <2>2
  <2> QED BY <2>1, <2>3 DEF At
<1>5. ASSUME NEW g \in 1 .. G
      PROVE  /\ R + g \in 1 .. Len(Made)
             /\ At(Made[R + g], groups[g].anchor[2], groups[g].anchor[3])
  <2>1. R + g \in 1 .. Len(Made)
    BY <1>1
  <2> QED BY <1>3, <2>1, TagEditSpan DEF At
<1>6. ASSUME NEW i \in 1 .. Len(Made), i \notin 1 .. R
      PROVE  \E g \in 1 .. G : i = R + g
  <2>1. i - R \in 1 .. G /\ i = R + (i - R)
    BY <1>1, <1>6
  <2> QED BY <2>1
<1>7. \A r \in 1 .. R, g \in 1 .. G : r # R + g
  BY <1>1
<1> QED BY <1>1, <1>4, <1>5, <1>6, <1>7 DEF R, G

\* Two repairs that touch, in terms of what is asked for.
Pairs == \E i, j \in 1 .. Len(Made) : i # j /\ Touch(Made[i], Made[j])
Unfit ==
    \/ \E r \in Swaps : ~InBounds(r.start, r.end)
    \/ \E t \in Tags : t.anchor[1] = "existing" /\ <<t.anchor[2], t.anchor[3]>> \notin Docblocks

LEMMA UsableIsFit ==
    ASSUME GatherInv, Seen = Len(fixes)
    PROVE  Usable <=> ~Unfit
<1>1. Usable => ~Unfit
  <2> SUFFICES ASSUME Usable, Unfit PROVE FALSE
    OBVIOUS
  <2>1. CASE \E r \in Swaps : ~InBounds(r.start, r.end)
    BY <2>1, Collected DEF Usable
  <2>2. CASE \E t \in Tags : t.anchor[1] = "existing" /\ <<t.anchor[2], t.anchor[3]>> \notin Docblocks
    <3>1. PICK t \in Tags : t.anchor[1] = "existing" /\ <<t.anchor[2], t.anchor[3]>> \notin Docblocks
      BY <2>2
    <3>2. PICK g \in DOMAIN groups : groups[g].anchor = t.anchor
      BY Collected
    <3> QED BY <3>1, <3>2 DEF Usable
  <2> QED BY <2>1, <2>2 DEF Unfit
<1>2. ~Unfit => Usable
  <2> SUFFICES ASSUME ~Unfit PROVE Usable
    OBVIOUS
  <2>1. \A i \in DOMAIN replaces : InBounds(replaces[i].start, replaces[i].end)
    BY Collected DEF Unfit
  <2>2. ASSUME NEW g \in DOMAIN groups, groups[g].anchor[1] = "existing"
        PROVE  <<groups[g].anchor[2], groups[g].anchor[3]>> \in Docblocks
    <3>1. PICK t \in Tags : t.anchor = groups[g].anchor
      BY Collected
    <3> QED BY <2>2, <3>1 DEF Unfit
  <2> QED BY <2>1, <2>2 DEF Usable
<1> QED BY <1>1, <1>2

\* Repairs that clash have edits that touch, or are unusable.
LEMMA ClashIsTold ==
    ASSUME GatherInv, Seen = Len(fixes), Clash
    PROVE  Pairs \/ Unfit
<1> DEFINE spanOf(i) == <<Made[i].start, Made[i].end>>
           n == Len(Made)
<1>1. TypesOK
  BY DEF GatherInv
<1>2. ASSUME NEW r \in Swaps
      PROVE  \E i \in DOMAIN replaces : replaces[i] = r /\ i \in 1 .. n /\ At(Made[i], r.start, r.end)
  <2>1. PICK i \in DOMAIN replaces : replaces[i] = r
    BY Collected
  <2> QED BY <1>1, <2>1, MadeSpans
<1>3. ASSUME NEW t \in Tags
      PROVE  \E g \in DOMAIN groups :
               /\ groups[g].anchor = t.anchor /\ Len(replaces) + g \in 1 .. n
               /\ At(Made[Len(replaces) + g], t.anchor[2], t.anchor[3])
  <2>1. PICK g \in DOMAIN groups : groups[g].anchor = t.anchor
    BY Collected
  <2> QED BY <1>1, <2>1, MadeSpans
<1>4. ASSUME NEW a \in Spans
      PROVE  \E i \in 1 .. n : At(Made[i], a[1], a[2])
  <2>1. CASE \E t \in Tags : a = <<t.anchor[2], t.anchor[3]>>
    <3>1. PICK t \in Tags : a = <<t.anchor[2], t.anchor[3]>>
      BY <2>1
    <3>2. a[1] = t.anchor[2] /\ a[2] = t.anchor[3]
      BY <3>1
    <3> QED BY <1>3, <3>2
  <2>2. CASE \E r \in Swaps : a = <<r.start, r.end>>
    <3>1. PICK r \in Swaps : a = <<r.start, r.end>>
      BY <2>2
    <3>2. a[1] = r.start /\ a[2] = r.end
      BY <3>1
    <3> QED BY <1>2, <3>2
  <2> QED BY <2>1, <2>2 DEF Spans
<1> HIDE DEF n
<1>5. CASE \E a, b \in Spans : a # b /\ (a[1] = b[1] \/ (a[1] < b[1] /\ b[1] < a[2]))
  <2>1. PICK a \in Spans, b \in Spans : a # b /\ (a[1] = b[1] \/ (a[1] < b[1] /\ b[1] < a[2]))
    BY <1>5
  <2>2. PICK i \in 1 .. n : At(Made[i], a[1], a[2])
    BY <1>4
  <2>3. PICK j \in 1 .. n : At(Made[j], b[1], b[2])
    BY <1>4
  <2>4. a = <<a[1], a[2]>> /\ b = <<b[1], b[2]>>
    BY DEF Spans
  <2>5. i # j
    BY <2>1, <2>2, <2>3, <2>4 DEF At
  <2>6. Touch(Made[i], Made[j])
    BY <2>1, <2>2, <2>3 DEF At, Touch
  <2> QED BY <2>5, <2>6 DEF Pairs, n
<1>6. CASE \E r, s \in Swaps : r # s /\ <<r.start, r.end>> = <<s.start, s.end>>
  <2>1. PICK r \in Swaps, s \in Swaps : r # s /\ <<r.start, r.end>> = <<s.start, s.end>>
    BY <1>6
  <2>2. r.start = s.start
    BY <2>1
  <2>3. PICK i \in DOMAIN replaces : replaces[i] = r /\ i \in 1 .. n /\ At(Made[i], r.start, r.end)
    BY <1>2
  <2>4. PICK j \in DOMAIN replaces : replaces[j] = s /\ j \in 1 .. n /\ At(Made[j], s.start, s.end)
    BY <1>2
  <2>5. i # j
    BY <2>1, <2>3, <2>4
  <2>6. Touch(Made[i], Made[j])
    BY <2>2, <2>3, <2>4 DEF At, Touch
  <2> QED BY <2>3, <2>4, <2>5, <2>6 DEF Pairs, n
<1>7. CASE \E r \in Swaps, t \in Tags : <<r.start, r.end>> = <<t.anchor[2], t.anchor[3]>>
  <2>1. PICK r \in Swaps, t \in Tags : <<r.start, r.end>> = <<t.anchor[2], t.anchor[3]>>
    BY <1>7
  <2>2. r.start = t.anchor[2]
    BY <2>1
  <2>3. PICK i \in DOMAIN replaces : replaces[i] = r /\ i \in 1 .. n /\ At(Made[i], r.start, r.end)
    BY <1>2
  <2>4. PICK g \in DOMAIN groups :
          /\ groups[g].anchor = t.anchor /\ Len(replaces) + g \in 1 .. n
          /\ At(Made[Len(replaces) + g], t.anchor[2], t.anchor[3])
    BY <1>3
  <2>5. i # Len(replaces) + g
    BY <1>1, <2>3, <2>4, MadeSpans
  <2>6. Touch(Made[i], Made[Len(replaces) + g])
    BY <2>2, <2>3, <2>4 DEF At, Touch
  <2> QED BY <2>3, <2>4, <2>5, <2>6 DEF Pairs, n
<1>8. CASE \E t, u \in Tags : t.anchor # u.anchor /\ t.anchor[2] = u.anchor[2]
  <2>1. PICK t \in Tags, u \in Tags : t.anchor # u.anchor /\ t.anchor[2] = u.anchor[2]
    BY <1>8
  <2>2. PICK g \in DOMAIN groups :
          /\ groups[g].anchor = t.anchor /\ Len(replaces) + g \in 1 .. n
          /\ At(Made[Len(replaces) + g], t.anchor[2], t.anchor[3])
    BY <1>3
  <2>3. PICK h \in DOMAIN groups :
          /\ groups[h].anchor = u.anchor /\ Len(replaces) + h \in 1 .. n
          /\ At(Made[Len(replaces) + h], u.anchor[2], u.anchor[3])
    BY <1>3
  <2>4. Len(replaces) + g # Len(replaces) + h
    <3>1. g # h
      BY <2>1, <2>2, <2>3
    <3>2. Len(replaces) \in Nat /\ g \in Nat /\ h \in Nat
      BY <1>1, MadeIs
    <3> QED BY <3>1, <3>2
  <2>5. Touch(Made[Len(replaces) + g], Made[Len(replaces) + h])
    BY <2>1, <2>2, <2>3 DEF At, Touch
  <2> QED BY <2>2, <2>3, <2>4, <2>5 DEF Pairs, n
<1> QED BY <1>5, <1>6, <1>7, <1>8 DEF Clash, Unfit

\* Spans that touch clash.
LEMMA TouchingSpans ==
    ASSUME NEW a \in Spans, NEW b \in Spans, NEW d, NEW e,
           At(d, a[1], a[2]), At(e, b[1], b[2]), Touch(d, e), a # b
    PROVE  Clash
<1>1. a[1] = b[1] \/ (a[1] < b[1] /\ b[1] < a[2])
  BY DEF At, Touch
<1> QED BY <1>1 DEF Clash

\* Edits that touch are of repairs that clash.
LEMMA TouchIsClash ==
    ASSUME GatherInv, Seen = Len(fixes), Pairs
    PROVE  Clash
<1>1. TypesOK
  BY DEF GatherInv
<1>2. PICK i \in 1 .. Len(Made), j \in 1 .. Len(Made) : i # j /\ Touch(Made[i], Made[j])
  BY DEF Pairs
<1>3. ASSUME NEW k \in DOMAIN replaces
      PROVE  /\ replaces[k] \in Swaps /\ At(Made[k], replaces[k].start, replaces[k].end)
             /\ <<replaces[k].start, replaces[k].end>> \in Spans
  BY <1>1, MadeSpans, Collected DEF Spans
<1>4. ASSUME NEW g \in DOMAIN groups
      PROVE  \E t \in Tags :
               /\ t.anchor = groups[g].anchor
               /\ At(Made[Len(replaces) + g], t.anchor[2], t.anchor[3])
               /\ <<t.anchor[2], t.anchor[3]>> \in Spans
  <2>1. PICK t \in Tags : t.anchor = groups[g].anchor
    BY Collected
  <2>2. At(Made[Len(replaces) + g], t.anchor[2], t.anchor[3])
    BY <1>1, <2>1, MadeSpans
  <2> QED BY <2>1, <2>2 DEF Spans
<1>5. CASE i \in DOMAIN replaces /\ j \in DOMAIN replaces
  <2> DEFINE r == replaces[i]
             s == replaces[j]
  <2>1. r \in Swaps /\ s \in Swaps /\ r # s
    BY <1>2, <1>3, <1>5 DEF GatherInv, ReplacesHold
  <2>2. /\ At(Made[i], r.start, r.end) /\ At(Made[j], s.start, s.end)
        /\ <<r.start, r.end>> \in Spans /\ <<s.start, s.end>> \in Spans
    BY <1>3, <1>5
  <2> HIDE DEF r, s
  <2>3. CASE <<r.start, r.end>> = <<s.start, s.end>>
    BY <2>1, <2>3 DEF Clash
  <2>4. CASE <<r.start, r.end>> # <<s.start, s.end>>
    BY <1>2, <2>2, <2>4, TouchingSpans
  <2> QED BY <2>3, <2>4
<1>6. ASSUME NEW k \in DOMAIN replaces, NEW g \in DOMAIN groups,
             Touch(Made[k], Made[Len(replaces) + g]) \/ Touch(Made[Len(replaces) + g], Made[k])
      PROVE  Clash
  <2> DEFINE r == replaces[k]
  <2>1. r \in Swaps /\ At(Made[k], r.start, r.end) /\ <<r.start, r.end>> \in Spans
    BY <1>3
  <2> HIDE DEF r
  <2>2. PICK t \in Tags :
               /\ t.anchor = groups[g].anchor
               /\ At(Made[Len(replaces) + g], t.anchor[2], t.anchor[3])
               /\ <<t.anchor[2], t.anchor[3]>> \in Spans
    BY <1>4
  <2>3. CASE <<r.start, r.end>> = <<t.anchor[2], t.anchor[3]>>
    BY <2>1, <2>3 DEF Clash
  <2>4. CASE <<r.start, r.end>> # <<t.anchor[2], t.anchor[3]>>
    BY <1>6, <2>1, <2>2, <2>4, TouchingSpans
  <2> QED BY <2>3, <2>4
<1>7. ASSUME NEW g \in DOMAIN groups, NEW h \in DOMAIN groups, g # h,
             Touch(Made[Len(replaces) + g], Made[Len(replaces) + h])
      PROVE  Clash
  <2>1. PICK t \in Tags :
               /\ t.anchor = groups[g].anchor
               /\ At(Made[Len(replaces) + g], t.anchor[2], t.anchor[3])
               /\ <<t.anchor[2], t.anchor[3]>> \in Spans
    BY <1>4
  <2>2. PICK u \in Tags :
               /\ u.anchor = groups[h].anchor
               /\ At(Made[Len(replaces) + h], u.anchor[2], u.anchor[3])
               /\ <<u.anchor[2], u.anchor[3]>> \in Spans
    BY <1>4
  <2>3. t.anchor # u.anchor
    BY <1>7, <2>1, <2>2 DEF GatherInv, GroupsHold
  <2>4. CASE t.anchor[2] = u.anchor[2]
    BY <2>3, <2>4 DEF Clash
  <2>5. CASE t.anchor[2] # u.anchor[2]
    <3>1. <<t.anchor[2], t.anchor[3]>> # <<u.anchor[2], u.anchor[3]>>
      BY <2>5
    <3> QED BY <1>7, <2>1, <2>2, <3>1, TouchingSpans
  <2> QED BY <2>4, <2>5
<1>8. \A k \in 1 .. Len(Made) : k \in DOMAIN replaces \/ \E g \in DOMAIN groups : k = Len(replaces) + g
  BY <1>1, MadeSpans
<1>9. CASE i \in DOMAIN replaces /\ j \notin DOMAIN replaces
  <2>1. PICK g \in DOMAIN groups : j = Len(replaces) + g
    BY <1>8, <1>9
  <2> QED BY <1>2, <1>6, <1>9, <2>1
<1>10. CASE i \notin DOMAIN replaces /\ j \in DOMAIN replaces
  <2>1. PICK g \in DOMAIN groups : i = Len(replaces) + g
    BY <1>8, <1>10
  <2> QED BY <1>2, <1>6, <1>10, <2>1
<1>11. CASE i \notin DOMAIN replaces /\ j \notin DOMAIN replaces
  <2>1. PICK g \in DOMAIN groups : i = Len(replaces) + g
    BY <1>8, <1>11
  <2>2. PICK h \in DOMAIN groups : j = Len(replaces) + h
    BY <1>8, <1>11
  <2> QED BY <1>2, <1>7, <2>1, <2>2
<1> QED BY <1>5, <1>9, <1>10, <1>11

\* The adjacent pairs of the sorted edits tell of all clashes.
LEMMA RefusalIsClash ==
    ASSUME GatherInv, Seen = Len(fixes)
    PROVE  (Usable /\ ~Conflict(SortedByStart(Made))) <=> ~Clash
<1>1. Edits(Made)
  BY MadeIs DEF GatherInv
<1>2. Conflict(SortedByStart(Made)) <=> Pairs
  BY <1>1, NeighboursTell DEF Pairs
<1>3. Unfit => Clash
  BY DEF Unfit, Clash
<1> QED BY <1>2, <1>3, UsableIsFit, ClashIsTold, TouchIsClash
-----------------------------------------------------------------------------
\* What has been decided about the file.
Decided ==
    /\ pc = "refused" => Clash
    /\ pc \in {"apply", "done"} => ~Clash

LEMMA DecidedStep ==
    ASSUME GatherInv, Decided, [Next]_vars
    PROVE  Decided'
<1>1. fixes' = fixes => (Clash' <=> Clash)
  BY DEF Clash, Tags, Swaps, Spans
<1>2. fixes' = fixes
  BY DEF Next, Group, MakeEdits, Apply, Done, vars
<1>3. CASE MakeEdits
  <2>1. Seen = Len(fixes)
    <3>1. Len(fixes) \in Nat /\ pc = "group" /\ next = Len(fixes) + 1
      BY <1>3 DEF MakeEdits, GatherInv, TypesOK
    <3> QED BY <3>1 DEF Seen
  <2>2. (Usable /\ ~Conflict(SortedByStart(Made))) <=> ~Clash
    BY <2>1, RefusalIsClash
  <2>3. \/ Usable /\ ~Conflict(SortedByStart(Made)) /\ pc' = "apply"
        \/ ~(Usable /\ ~Conflict(SortedByStart(Made))) /\ pc' = "refused"
    BY <1>3 DEF MakeEdits
  <2> QED BY <1>1, <1>2, <2>2, <2>3 DEF Decided
<1>4. CASE Group \/ Apply \/ Done \/ UNCHANGED vars
  <2>1. pc' = pc \/ (pc = "apply" /\ pc' = "done")
    BY <1>4 DEF Group, Apply, Done, vars
  <2> QED BY <1>1, <1>2, <2>1 DEF Decided
<1> QED BY <1>3, <1>4 DEF Next

\* What is gathered of the repairs: one group for each anchor, each replacement once.
THEOREM Gathers == Spec => []GatherInv
<1>1. Init => GatherInv
  BY GatherInit
<1>2. GatherInv /\ [Next]_vars => GatherInv'
  BY GatherStep
<1> QED BY <1>1, <1>2, PTL DEF Spec

\* A file is written exactly when no two of its repairs clash and all are usable.
THEOREM ClashesAreRefused == Spec => []RefusesClashes
<1>1. Init => GatherInv /\ Decided
  BY GatherInit DEF Init, Decided
<1>2. GatherInv /\ Decided /\ [Next]_vars => GatherInv' /\ Decided'
  BY GatherStep, DecidedStep
<1>3. Decided => RefusesClashes
  BY DEF Decided, RefusesClashes
<1> QED BY <1>1, <1>2, <1>3, PTL DEF Spec

-----------------------------------------------------------------------------
\* The least of some numbers.
LEMMA NatLeast ==
    ASSUME NEW S \in SUBSET Nat, S # {}
    PROVE  \E x \in S : \A y \in S : x <= y
<1> DEFINE less == {ss \in Nat \X Nat : ss[1] < ss[2]}
<1>1. IsWellFoundedOn(less, Nat)
  <2>1. OpToRel(<, Nat) = less
     BY DEF OpToRel
  <2> QED BY <2>1, NatLessThanWellFounded
<1> HIDE DEF less
<1>2. PICK x \in S : \A y \in S : ~ (<<y, x>> \in less)
  BY <1>1, WFMin
<1>3. ASSUME NEW y \in S
      PROVE  x <= y
  <2>1. ~ (y < x)
    BY <1>2 DEF less
  <2> QED BY <2>1
<1> QED BY <1>3

\* One more element is looked at.
Next1(s, places, taken, i) == IF i \in places THEN Append(taken, s[i]) ELSE taken

LEMMA TakenIs ==
    ASSUME NEW s, NEW places, Len(s) \in Nat
    PROVE  /\ Taken(s, places)[0] = <<>>
           /\ \A i \in 1 .. Len(s) :
                Taken(s, places)[i] = Next1(s, places, Taken(s, places)[i - 1], i)
<1> DEFINE Is(f, m) ==
             f = [i \in 0 .. m |-> IF i = 0 THEN <<>> ELSE Next1(s, places, f[i - 1], i)]
           bad == {m \in Nat : ~ \E f : Is(f, m)}
<1>1. bad = {}
  <2> SUFFICES ASSUME bad # {} PROVE FALSE
    OBVIOUS
  <2>1. PICK m \in bad : \A l \in bad : m <= l
    BY NatLeast
  <2> HIDE DEF bad
  <2>2. CASE m = 0
    <3> DEFINE f == [i \in 0 .. 0 |-> <<>>]
    <3>1. Is(f, 0)
      OBVIOUS
    <3> QED BY <2>1, <2>2, <3>1 DEF bad
  <2>3. CASE m > 0
    <3>1. m \in Nat /\ m - 1 \in Nat
      BY <2>1, <2>3 DEF bad
    <3>2. PICK g : Is(g, m - 1)
      <4>1. m - 1 \notin bad
        BY <2>1, <3>1
      <4> QED BY <3>1, <4>1 DEF bad
    <3> DEFINE f == [i \in 0 .. m |-> IF i < m THEN g[i] ELSE Next1(s, places, g[m - 1], m)]
               Value(i) == IF i = 0 THEN <<>> ELSE Next1(s, places, f[i - 1], i)
    <3>3. ASSUME NEW i \in 0 .. m
          PROVE  f[i] = Value(i)
      <4>1. CASE i = 0
        <5>1. 0 \in 0 .. m - 1 /\ 0 \in 0 .. m /\ 0 < m
          BY <2>3, <3>1
        <5>2. g[0] = <<>>
          BY <3>2, <5>1
        <5>3. f[0] = g[0]
          BY <5>1
        <5> QED BY <4>1, <5>2, <5>3
      <4>2. CASE i > 0 /\ i < m
        <5>1. i \in 0 .. m - 1 /\ i - 1 \in 0 .. m - 1 /\ i - 1 < m /\ i - 1 \in 0 .. m
          BY <3>1, <4>2
        <5>2. f[i] = g[i] /\ f[i - 1] = g[i - 1]
          BY <4>2, <5>1
        <5>3. g[i] = Next1(s, places, g[i - 1], i)
          BY <3>2, <4>2, <5>1
        <5> QED BY <4>2, <5>2, <5>3
      <4>3. CASE i = m
        <5>1. m - 1 \in 0 .. m /\ m - 1 < m /\ m \in 0 .. m /\ ~ (m < m)
          BY <2>3, <3>1
        <5>2. f[m - 1] = g[m - 1] /\ f[m] = Next1(s, places, g[m - 1], m)
          BY <5>1
        <5> QED BY <2>3, <4>3, <5>2
      <4> QED BY <3>1, <4>1, <4>2, <4>3
    <3>4. f = [i \in 0 .. m |-> Value(i)]
      <4> HIDE DEF Value
      <4>1. \A i \in 0 .. m : f[i] = Value(i)
        BY <3>3
      <4> QED BY <4>1
    <3>5. Is(f, m)
      BY <3>4
    <3> QED BY <2>1, <3>1, <3>5 DEF bad
  <2> QED BY <2>1, <2>2, <2>3 DEF bad
<1>2. \E f : Is(f, Len(s))
  BY <1>1
<1>3. Taken(s, places) = CHOOSE f : Is(f, Len(s))
  BY DEF Taken, Next1
<1> DEFINE t == Taken(s, places)
<1> HIDE DEF t, bad
<1>4. Is(t, Len(s))
  BY <1>2, <1>3 DEF t
<1> QED BY <1>4 DEF t

LEMMA TakenType ==
    ASSUME NEW S, NEW s \in Seq(S), NEW places, NEW m \in 0 .. Len(s)
    PROVE  Taken(s, places)[m] \in Seq(S)
<1> DEFINE t == Taken(s, places)
           bad == {i \in 0 .. Len(s) : t[i] \notin Seq(S)}
<1>1. Len(s) \in Nat
  OBVIOUS
<1>2. t[0] = <<>> /\ \A i \in 1 .. Len(s) : t[i] = Next1(s, places, t[i - 1], i)
  BY <1>1, TakenIs
<1> HIDE DEF t
<1>3. bad = {}
  <2> SUFFICES ASSUME bad # {} PROVE FALSE
    OBVIOUS
  <2>1. bad \subseteq Nat
    BY <1>1
  <2>2. PICK i \in bad : \A j \in bad : i <= j
    BY <2>1, NatLeast
  <2>3. i \in 0 .. Len(s) /\ t[i] \notin Seq(S)
    OBVIOUS
  <2>4. i # 0
    <3>1. <<>> \in Seq(S)
      OBVIOUS
    <3> QED BY <1>2, <2>3, <3>1
  <2>5. i \in 1 .. Len(s) /\ i - 1 \in 0 .. Len(s) /\ ~ (i <= i - 1)
    BY <1>1, <2>3, <2>4
  <2>6. t[i - 1] \in Seq(S)
    BY <2>2, <2>5
  <2>7. s[i] \in S
    BY <2>5, ElementOfSeq
  <2>8. Append(t[i - 1], s[i]) \in Seq(S)
    BY <2>6, <2>7
  <2> QED BY <1>2, <2>3, <2>5, <2>6, <2>8 DEF Next1
<1> QED BY <1>3 DEF t

\* Nothing is taken where there is nothing to take.
LEMMA TakenNone ==
    ASSUME NEW s, NEW places, Len(s) \in Nat, NEW m \in 0 .. Len(s),
           \A i \in 1 .. m : i \notin places
    PROVE  Taken(s, places)[m] = <<>>
<1> DEFINE t == Taken(s, places)
           bad == {i \in 0 .. m : t[i] # <<>>}
<1>2. t[0] = <<>> /\ \A i \in 1 .. Len(s) : t[i] = Next1(s, places, t[i - 1], i)
  BY TakenIs
<1> HIDE DEF t
<1>3. bad = {}
  <2> SUFFICES ASSUME bad # {} PROVE FALSE
    OBVIOUS
  <2>1. bad \subseteq Nat
    OBVIOUS
  <2>2. PICK i \in bad : \A j \in bad : i <= j
    BY <2>1, NatLeast
  <2>3. i \in 0 .. m /\ t[i] # <<>>
    OBVIOUS
  <2>4. i # 0
    BY <1>2, <2>3
  <2>5. i \in 1 .. Len(s) /\ i \in 1 .. m /\ i - 1 \in 0 .. m /\ ~ (i <= i - 1)
    BY <2>3, <2>4
  <2>6. t[i - 1] = <<>>
    BY <2>2, <2>5
  <2>7. i \notin places
    BY <2>5
  <2> QED BY <1>2, <2>3, <2>5, <2>6, <2>7 DEF Next1
<1> QED BY <1>3 DEF t

-----------------------------------------------------------------------------
\* A group holds the tags for its anchor, in the order of the findings.
MembersHold ==
    \A g \in DOMAIN groups :
        groups[g].members = Taken(fixes, Asking(groups[g].anchor))[Seen]

\* What one more repair adds to the tags of an anchor.
LEMMA AskingMore ==
    ASSUME TypesOK, pc = "group", next <= Len(fixes), NEW a
    PROVE  /\ Seen = next - 1
           /\ fixes[next].type = "tag" /\ fixes[next].anchor = a =>
                Taken(fixes, Asking(a))[next] = Append(Taken(fixes, Asking(a))[next - 1], fixes[next])
           /\ ~ (fixes[next].type = "tag" /\ fixes[next].anchor = a) =>
                Taken(fixes, Asking(a))[next] = Taken(fixes, Asking(a))[next - 1]
<1>1. next \in 1 .. Len(fixes) /\ Len(fixes) \in Nat /\ DOMAIN fixes = 1 .. Len(fixes)
  BY DEF TypesOK
<1>2. Seen = next - 1
  BY DEF Seen
<1>3. next \in Asking(a) <=> fixes[next].type = "tag" /\ fixes[next].anchor = a
  BY <1>1 DEF Asking
<1>4. Taken(fixes, Asking(a))[next] = Next1(fixes, Asking(a), Taken(fixes, Asking(a))[next - 1], next)
  BY <1>1, TakenIs
<1> QED BY <1>2, <1>3, <1>4 DEF Next1

LEMMA MembersStep ==
    ASSUME GatherInv, MembersHold, [Next]_vars
    PROVE  MembersHold'
<1>1. fixes' = fixes
  BY DEF Next, Group, MakeEdits, Apply, Done, vars
<1>2. Len(fixes) \in Nat
  BY DEF GatherInv, TypesOK
<1>3. \A a : Asking(a)' = Asking(a)
  BY <1>1 DEF Asking
<1>4. CASE Group
  <2>1. /\ pc = "group" /\ next <= Len(fixes) /\ pc' = "group" /\ next' = next + 1
    BY <1>4 DEF Group
  <2>2. TypesOK /\ next \in 1 .. Len(fixes)
    BY <1>2, <2>1 DEF GatherInv, TypesOK
  <2>3. Seen = next - 1 /\ Seen' = next
    BY <2>1, <2>2 DEF Seen
  <2>4. SUFFICES ASSUME NEW g \in DOMAIN groups'
                 PROVE  groups'[g].members = Taken(fixes, Asking(groups'[g].anchor))[next]
    BY <1>1, <1>3, <2>3 DEF MembersHold
  <2> DEFINE fix == fixes[next]
  <2>5. CASE fix.type # "tag"
    <3>1. groups' = groups
      BY <1>4, <2>5 DEF Group
    <3>2. groups[g].members = Taken(fixes, Asking(groups[g].anchor))[next - 1]
      BY <2>3, <2>4, <3>1 DEF MembersHold
    <3> QED BY <2>1, <2>2, <2>5, <3>1, <3>2, AskingMore
  <2>6. CASE fix.type = "tag" /\ \E h \in DOMAIN groups : groups[h].anchor = fix.anchor
    <3>1. groups' = [h \in DOMAIN groups |->
                     IF groups[h].anchor = fix.anchor
                     THEN [groups[h] EXCEPT !.members = Append(@, fix)]
                     ELSE groups[h]]
      BY <1>4, <2>6 DEF Group, Grouped
    <3>2. g \in DOMAIN groups
      BY <2>4, <3>1
    <3>3. groups[g].members = Taken(fixes, Asking(groups[g].anchor))[next - 1]
      BY <2>3, <3>2 DEF MembersHold
    <3>4. groups[g] \in [anchor : FixAnchor, members : Seq(DocTagFix)]
      <4>1. groups \in Seq([anchor : FixAnchor, members : Seq(DocTagFix)])
        BY <2>2 DEF TypesOK
      <4>2. g \in 1 .. Len(groups)
        BY <3>2, <4>1
      <4> QED BY <4>1, <4>2, ElementOfSeq
    <3>5. CASE groups[g].anchor = fix.anchor
      <4>1. groups'[g] = [groups[g] EXCEPT !.members = Append(@, fix)]
        BY <3>1, <3>2, <3>5
      <4>2. groups'[g].anchor = groups[g].anchor /\ groups'[g].members = Append(groups[g].members, fix)
        BY <3>4, <4>1
      <4>3. Taken(fixes, Asking(fix.anchor))[next] =
              Append(Taken(fixes, Asking(fix.anchor))[next - 1], fix)
        BY <2>1, <2>2, <2>6, AskingMore
      <4> QED BY <3>3, <3>5, <4>2, <4>3
    <3>6. CASE groups[g].anchor # fix.anchor
      <4>1. groups'[g] = groups[g]
        BY <3>1, <3>2, <3>6
      <4>2. Taken(fixes, Asking(groups[g].anchor))[next] = Taken(fixes, Asking(groups[g].anchor))[next - 1]
        BY <2>1, <2>2, <3>6, AskingMore
      <4> QED BY <3>3, <4>1, <4>2
    <3> QED BY <3>5, <3>6
  <2>7. CASE fix.type = "tag" /\ ~ \E h \in DOMAIN groups : groups[h].anchor = fix.anchor
    <3>1. groups' = Append(groups, [anchor |-> fix.anchor, members |-> <<fix>>])
      BY <1>4, <2>7 DEF Group, Grouped
    <3>2. /\ Len(groups) \in Nat /\ DOMAIN groups = 1 .. Len(groups)
      BY <2>2 DEF TypesOK
    <3>3. \/ g = Len(groups) + 1 /\ groups'[g] = [anchor |-> fix.anchor, members |-> <<fix>>]
          \/ g \in DOMAIN groups /\ groups'[g] = groups[g]
      BY <2>4, <3>1, <3>2
    <3>4. CASE groups'[g] = [anchor |-> fix.anchor, members |-> <<fix>>]
      <4>1. Taken(fixes, Asking(fix.anchor))[next] =
              Append(Taken(fixes, Asking(fix.anchor))[next - 1], fix)
        BY <2>1, <2>2, <2>7, AskingMore
      <4>2. Taken(fixes, Asking(fix.anchor))[next - 1] = <<>>
        <5>1. next - 1 \in 0 .. Len(fixes)
          BY <1>2, <2>2
        <5>2. \A i \in 1 .. next - 1 : i \notin Asking(fix.anchor)
          BY <2>3, <2>7 DEF GatherInv, GroupsHold, Asking
        <5> QED BY <1>2, <5>1, <5>2, TakenNone
      <4>3. Append(<<>>, fix) = <<fix>>
        OBVIOUS
      <4>4. groups'[g].members = <<fix>> /\ groups'[g].anchor = fix.anchor
        BY <3>4
      <4> QED BY <4>1, <4>2, <4>3, <4>4
    <3>5. CASE g \in DOMAIN groups /\ groups'[g] = groups[g]
      <4>1. groups[g].members = Taken(fixes, Asking(groups[g].anchor))[next - 1]
        BY <2>3, <3>5 DEF MembersHold
      <4>2. Taken(fixes, Asking(groups[g].anchor))[next] = Taken(fixes, Asking(groups[g].anchor))[next - 1]
        BY <2>1, <2>2, <2>7, <3>5, AskingMore
      <4> QED BY <3>5, <4>1, <4>2
    <3> QED BY <3>3, <3>4, <3>5
  <2> QED BY <2>5, <2>6, <2>7
<1>5. CASE MakeEdits \/ Apply \/ Done \/ UNCHANGED vars
  <2>1. groups' = groups
    BY <1>5 DEF MakeEdits, Apply, Done, vars
  <2>2. /\ pc' = "group" => pc = "group" /\ next' = next
        /\ pc' # "group" /\ pc = "group" => next = Len(fixes) + 1
    BY <1>5 DEF MakeEdits, Apply, Done, vars
  <2>3. Seen' = Seen
    BY <1>1, <1>2, <2>2 DEF Seen
  <2> QED BY <1>1, <1>3, <2>1, <2>3 DEF MembersHold
<1> QED BY <1>4, <1>5 DEF Next

-----------------------------------------------------------------------------
\* sort_by_key rearranges.
LEMMA SortType ==
    ASSUME NEW S, NEW s \in Seq(S), NEW keys, Keys(keys), Len(keys) = Len(s)
    PROVE  SortByKey(s, keys) \in Seq(S) /\ Len(SortByKey(s, keys)) = Len(s)
<1> DEFINE n == Len(s)
<1>1. n \in Nat /\ DOMAIN s = 1 .. n /\ \A i \in 1 .. n : s[i] \in S
  OBVIOUS
<1> HIDE DEF n
<1>2. Len(keys) = n
  BY DEF n
<1>3. SortByKey(s, keys) = [k \in 1 .. n |-> s[From(keys, k)]]
  BY <1>1, <1>2 DEF SortByKey, From
<1>4. \A k \in 1 .. n : From(keys, k) \in 1 .. n
  BY <1>2, FromPlace
<1>5. SortByKey(s, keys) \in [1 .. n -> S]
  BY <1>1, <1>3, <1>4
<1> QED BY <1>1, <1>3, <1>5 DEF n

\* The tags of a group are tokens of a text.
LEMMA TagsType ==
    ASSUME NEW group, group.members \in Seq(DocTagFix)
    PROVE  TagsOf(group) \in Seq(Token)
<1> DEFINE members == group.members
           keys == [i \in DOMAIN members |-> KindOrder[members[i].kind]]
           n == Len(members)
           sorted == ByKind(members)
           tags == [i \in DOMAIN sorted |-> sorted[i].tag]
           places == {i \in DOMAIN tags : i = 1 \/ tags[i] # tags[i - 1]}
<1>1. /\ n \in Nat /\ DOMAIN members = 1 .. n /\ members \in Seq(DocTagFix)
      /\ \A i \in 1 .. n : members[i] \in DocTagFix
  OBVIOUS
<1>2. Keys(keys) /\ Len(keys) = n
  <2>1. \A i \in 1 .. n : KindOrder[members[i].kind] \in Nat
    BY <1>1 DEF DocTagFix, KindOrder
  <2> HIDE DEF n, members
  <2>2. keys \in [1 .. n -> Nat]
    BY <1>1, <2>1
  <2>3. Len(keys) = n
    BY <1>1
  <2> QED BY <1>1, <2>2, <2>3 DEF Keys
<1>3. sorted = SortByKey(members, keys)
  BY DEF ByKind
<1> HIDE DEF members, keys, n, sorted
<1>4. sorted \in Seq(DocTagFix) /\ Len(sorted) = n
  BY <1>1, <1>2, <1>3, SortType DEF n
<1>5. DOMAIN sorted = 1 .. n /\ \A i \in 1 .. n : sorted[i] \in DocTagFix
  BY <1>1, <1>4
<1>6. \A i \in 1 .. n : sorted[i].tag \in Token
  BY <1>5 DEF DocTagFix
<1>7. tags \in [1 .. n -> Token] /\ Len(tags) = n
  BY <1>1, <1>5, <1>6
<1> HIDE DEF tags
<1>8. tags \in Seq(Token)
  BY <1>1, <1>7
<1> HIDE DEF places
<1>9. Len(tags) \in 0 .. Len(tags)
  BY <1>1, <1>7
<1>10. Taken(tags, places)[Len(tags)] \in Seq(Token)
  BY <1>8, <1>9, TakenType
<1> QED BY <1>10 DEF TagsOf, Dedup, members, sorted, tags, places

LEMMA TagsForType ==
    ASSUME TypesOK, NEW a
    PROVE  TagsFor(a) \in Seq(Token)
<1> DEFINE places == Asking(a)
           t == Taken(fixes, places)
<1>1. Len(fixes) \in Nat /\ DOMAIN fixes = 1 .. Len(fixes) /\ \A i \in 1 .. Len(fixes) : fixes[i] \in Fixes
  BY DEF TypesOK
<1>2. \A i \in places : fixes[i] \in DocTagFix
  BY <1>1, FixKinds DEF Asking
<1>3. t[0] = <<>> /\ \A i \in 1 .. Len(fixes) : t[i] = Next1(fixes, places, t[i - 1], i)
  BY <1>1, TakenIs
<1> HIDE DEF t, places
<1> DEFINE bad == {i \in 0 .. Len(fixes) : t[i] \notin Seq(DocTagFix)}
<1>4. bad = {}
  <2> SUFFICES ASSUME bad # {} PROVE FALSE
    OBVIOUS
  <2>1. bad \subseteq Nat
    BY <1>1
  <2>2. PICK i \in bad : \A j \in bad : i <= j
    BY <2>1, NatLeast
  <2>3. i \in 0 .. Len(fixes) /\ t[i] \notin Seq(DocTagFix)
    OBVIOUS
  <2>4. i # 0
    <3>1. <<>> \in Seq(DocTagFix)
      OBVIOUS
    <3> QED BY <1>3, <2>3, <3>1
  <2>5. i \in 1 .. Len(fixes) /\ i - 1 \in 0 .. Len(fixes) /\ ~ (i <= i - 1)
    BY <1>1, <2>3, <2>4
  <2>6. t[i - 1] \in Seq(DocTagFix)
    BY <2>2, <2>5
  <2>7. i \in places => Append(t[i - 1], fixes[i]) \in Seq(DocTagFix)
    BY <1>2, <2>6
  <2> QED BY <1>3, <2>3, <2>5, <2>6, <2>7 DEF Next1
<1>5. t[Len(fixes)] \in Seq(DocTagFix)
  BY <1>1, <1>4
<1> QED BY <1>5, TagsType DEF TagsFor, t, places

-----------------------------------------------------------------------------
\* What is put in a place is a text.
LEMMA PutAtType ==
    ASSUME TypesOK, NEW p
    PROVE  PutAt(p) \in Seq(Token)
<1> DEFINE here == {r.text : r \in {s \in Swaps : s.start = p}}
                   \cup {TagsFor(t.anchor) : t \in {u \in Tags : u.anchor = <<"new", p, p>>}}
<1>1. \A x \in here : x \in Seq(Token)
  <2>1. ASSUME NEW r \in Swaps
        PROVE  r.text \in Seq(Token)
    <3>1. r \in Fixes /\ r.type = "replace"
      BY DEF Swaps, TypesOK
    <3>2. r \in ReplaceFix
      BY <3>1, FixKinds
    <3> QED BY <3>2 DEF ReplaceFix
  <2> QED BY <2>1, TagsForType
<1>2. <<>> \in Seq(Token)
  OBVIOUS
<1>3. PutAt(p) = IF here = {} THEN <<>> ELSE CHOOSE t \in here : TRUE
  BY DEF PutAt
<1> HIDE DEF here
<1> QED BY <1>1, <1>2, <1>3

LEMMA KeptType ==
    ASSUME TypesOK, NEW p \in 1 .. Len(Source)
    PROVE  Kept(p) \in Seq(Token)
<1> DEFINE docs == {t.anchor : t \in {u \in Tags : u.anchor[1] = "existing" /\ u.anchor[3] = p}}
<1>1. <<>> \in Seq(Token)
  OBVIOUS
<1>2. PutInDoc(p) \in Seq(Token)
  <2>1. PutInDoc(p) = IF docs = {} THEN <<>> ELSE TagsFor(CHOOSE a \in docs : TRUE)
    BY DEF PutInDoc
  <2> HIDE DEF docs
  <2> QED BY <1>1, <2>1, TagsForType
<1>3. Source[p] \in Token
  BY EditsAssumption, ElementOfSeq
<1>4. <<Source[p]>> \in Seq(Token)
  BY <1>3
<1>5. PutInDoc(p) \o <<Source[p]>> \in Seq(Token)
  BY <1>2, <1>4, ConcatProperties
<1> QED BY <1>1, <1>5 DEF Kept

\* The text wanted after position p, what is put there left out.
After(p) == IF p < Len(Source) THEN Kept(p + 1) \o WantedFrom[p + 1] ELSE <<>>

Here(p, rest) == PutAt(p) \o IF p < Len(Source) THEN Kept(p + 1) \o rest ELSE <<>>

LEMMA WantedIs ==
    \A p \in 0 .. Len(Source) : WantedFrom[p] = Here(p, WantedFrom[p + 1])
<1> DEFINE n == Len(Source)
           Is(f, l) == f = [p \in l .. n |-> Here(p, f[p + 1])]
           bad == {m \in 0 .. n : ~ \E f : Is(f, n - m)}
<1>1. n \in Nat
  BY EditsAssumption
<1>2. WantedFrom = CHOOSE f : Is(f, 0)
  BY DEF WantedFrom, Here
<1> HIDE DEF n
<1>3. bad = {}
  <2> SUFFICES ASSUME bad # {} PROVE FALSE
    OBVIOUS
  <2>0. bad \subseteq Nat
    BY <1>1
  <2>1. PICK m \in bad : \A i \in bad : m <= i
    BY <2>0, NatLeast
  <2>2. m \in 0 .. n /\ m \in Nat
    BY <1>1
  <2>3. CASE m = 0
    <3> DEFINE f == [p \in n .. n |-> Here(p, <<>>)]
    <3>1. \A p \in n .. n : Here(p, f[p + 1]) = Here(p, <<>>)
      <4>1. \A p \in n .. n : p = n
        BY <1>1
      <4>2. \A x, y : Here(n, x) = Here(n, y)
        <5>1. ~ (n < n)
          BY <1>1
        <5> QED BY <5>1 DEF Here, n
      <4> QED BY <4>1, <4>2
    <3>2. n - m = n
      BY <1>1, <2>3
    <3>3. f = [p \in n .. n |-> Here(p, f[p + 1])]
      BY <3>1
    <3> QED BY <2>1, <3>2, <3>3
  <2>4. CASE m > 0
    <3>1. m - 1 \in 0 .. n /\ m - 1 < m
      BY <1>1, <2>2, <2>4
    <3>2. PICK g : Is(g, n - (m - 1))
      <4>1. m - 1 \notin bad
        BY <2>1, <2>2, <3>1
      <4> QED BY <3>1, <4>1
    <3> DEFINE l == n - m
    <3>3. l \in Nat /\ l <= n /\ n - (m - 1) = l + 1 /\ l + 1 \in Nat /\ l < n
      BY <1>1, <2>2, <2>4
    <3> HIDE DEF l
    <3>4. g = [p \in l + 1 .. n |-> Here(p, g[p + 1])]
      BY <3>2, <3>3
    <3> DEFINE f == [p \in l .. n |-> IF p = l THEN Here(l, g[l + 1]) ELSE g[p]]
    <3>5. ASSUME NEW p \in l .. n
          PROVE  f[p] = Here(p, f[p + 1])
      <4>1. CASE p = l
        <5>1. f[l] = Here(l, g[l + 1])
          BY <4>1
        <5>2. l + 1 \in l .. n /\ l + 1 # l
          BY <1>1, <3>3
        <5>3. f[l + 1] = g[l + 1]
          BY <5>2
        <5> QED BY <4>1, <5>1, <5>3
      <4>2. CASE p # l
        <5>1. p \in l + 1 .. n
          BY <1>1, <3>3, <4>2
        <5>2. f[p] = g[p] /\ g[p] = Here(p, g[p + 1])
          BY <3>4, <4>2, <5>1
        <5>3. CASE p < n
          <6>1. p + 1 \in l .. n /\ p + 1 # l
            BY <1>1, <3>3, <5>1, <5>3
          <6>2. f[p + 1] = g[p + 1]
            BY <6>1
          <6> QED BY <5>2, <6>2
        <5>4. CASE ~ (p < n)
          <6>1. \A x, y : Here(p, x) = Here(p, y)
            BY <5>4 DEF Here, n
          <6> QED BY <5>2, <6>1
        <5> QED BY <5>3, <5>4
      <4> QED BY <4>1, <4>2
    <3>6. f = [p \in l .. n |-> Here(p, f[p + 1])]
      <4> DEFINE F(p) == f[p]
      <4>1. f = [p \in l .. n |-> f[p]]
        OBVIOUS
      <4> HIDE DEF f
      <4> QED BY <3>5, <4>1
    <3>7. Is(f, n - m)
      BY <3>6 DEF l
    <3> QED BY <2>1, <3>7
  <2> QED BY <2>2, <2>3, <2>4
<1>4. \E f : Is(f, 0)
  <2>1. n \in 0 .. n /\ n - n = 0
    BY <1>1
  <2>2. n \notin bad
    BY <1>3
  <2> QED BY <2>1, <2>2
<1> DEFINE w == WantedFrom
<1> HIDE DEF w
<1>5. Is(w, 0)
  BY <1>2, <1>4 DEF w
<1> QED BY <1>5 DEF w, n

LEMMA WantedType ==
    ASSUME TypesOK, NEW p \in 0 .. Len(Source)
    PROVE  /\ WantedFrom[p] \in Seq(Token) /\ After(p) \in Seq(Token)
           /\ WantedFrom[p] = PutAt(p) \o After(p)
<1> DEFINE n == Len(Source)
           bad == {m \in 0 .. n : WantedFrom[n - m] \notin Seq(Token)}
<1>1. n \in Nat
  BY EditsAssumption
<1>2. ASSUME NEW q \in 0 .. n, q < n => WantedFrom[q + 1] \in Seq(Token)
      PROVE  /\ WantedFrom[q] \in Seq(Token) /\ After(q) \in Seq(Token)
             /\ WantedFrom[q] = PutAt(q) \o After(q)
  <2>1. WantedFrom[q] = Here(q, WantedFrom[q + 1])
    BY WantedIs
  <2>2. WantedFrom[q] = PutAt(q) \o After(q)
    BY <2>1 DEF Here, After
  <2>3. After(q) \in Seq(Token)
    <3>1. CASE q < n
      <4>1. q + 1 \in 1 .. n
        BY <1>1, <3>1
      <4>2. Kept(q + 1) \in Seq(Token)
        BY <4>1, KeptType
      <4>3. Kept(q + 1) \o WantedFrom[q + 1] \in Seq(Token)
        BY <1>2, <3>1, <4>2, ConcatProperties
      <4> QED BY <3>1, <4>3 DEF After
    <3>2. CASE ~ (q < n)
      <4>1. <<>> \in Seq(Token)
        OBVIOUS
      <4> QED BY <3>2, <4>1 DEF After
    <3> QED BY <3>1, <3>2
  <2>4. PutAt(q) \o After(q) \in Seq(Token)
    BY <2>3, PutAtType, ConcatProperties
  <2> QED BY <2>2, <2>3, <2>4
<1>3. bad = {}
  <2> SUFFICES ASSUME bad # {} PROVE FALSE
    OBVIOUS
  <2>0. bad \subseteq Nat
    BY <1>1
  <2>1. PICK m \in bad : \A i \in bad : m <= i
    BY <2>0, NatLeast
  <2>2. m \in 0 .. n /\ n - m \in 0 .. n
    BY <1>1
  <2>3. (n - m) < n => WantedFrom[(n - m) + 1] \in Seq(Token)
    <3> SUFFICES ASSUME (n - m) < n PROVE WantedFrom[(n - m) + 1] \in Seq(Token)
      OBVIOUS
    <3>1. m - 1 \in 0 .. n /\ (n - m) + 1 = n - (m - 1) /\ ~ (m <= m - 1)
      BY <1>1, <2>2
    <3> QED BY <2>1, <3>1
  <2> QED BY <1>2, <2>1, <2>2, <2>3
<1>4. \A q \in 0 .. n : WantedFrom[q] \in Seq(Token)
  <2> SUFFICES ASSUME NEW q \in 0 .. n PROVE WantedFrom[q] \in Seq(Token)
    OBVIOUS
  <2>1. n - q \in 0 .. n /\ n - (n - q) = q
    BY <1>1
  <2> QED BY <1>3, <2>1
<1>5. p < n => p + 1 \in 0 .. n
  BY <1>1
<1> QED BY <1>2, <1>4, <1>5

-----------------------------------------------------------------------------
\* The edit that a replacement, and that a group of tags, asks for.
SwapAt(e, r) == e.start = r.start /\ e.end = r.end /\ e.text = r.text
TagAt(e, t) ==
    /\ e.start = t.anchor[2] /\ e.end = t.anchor[3]
    /\ e.text = IF t.anchor[1] = "new" THEN TagsFor(t.anchor)
                ELSE InsertTags(t.anchor[2], t.anchor[3], TagsFor(t.anchor))

\* The edits are in order, apart from each other, and are those asked for.
Apart(es) ==
    /\ Len(es) \in Nat
    /\ \A k \in 1 .. Len(es) :
         /\ es[k].start \in Nat /\ es[k].end \in Nat
         /\ es[k].start <= es[k].end /\ es[k].end <= Len(Source)
    /\ \A i, j \in 1 .. Len(es) :
         i < j => es[i].start < es[j].start /\ es[i].end <= es[j].start
Asked(es) ==
    /\ \A k \in 1 .. Len(es) :
         (\E r \in Swaps : SwapAt(es[k], r)) \/ (\E t \in Tags : TagAt(es[k], t))
    /\ \A r \in Swaps : \E k \in 1 .. Len(es) : SwapAt(es[k], r)
    /\ \A t \in Tags : \E k \in 1 .. Len(es) : TagAt(es[k], t)
Documented ==
    \A t \in Tags :
        /\ t.anchor \in FixAnchor
        /\ t.anchor[1] = "existing" =>
             t.anchor[2] < t.anchor[3] /\ t.anchor[3] <= Len(Source)

LEMMA TagsDocumented ==
    ASSUME GatherInv, Seen = Len(fixes), Usable
    PROVE  Documented
<1> SUFFICES ASSUME NEW t \in Tags
             PROVE  /\ t.anchor \in FixAnchor
                    /\ t.anchor[1] = "existing" =>
                         t.anchor[2] < t.anchor[3] /\ t.anchor[3] <= Len(Source)
  BY DEF Documented
<1>1. t.anchor \in FixAnchor
  BY Collected DEF DocTagFix
<1>2. ASSUME t.anchor[1] = "existing"
      PROVE  t.anchor[2] < t.anchor[3] /\ t.anchor[3] <= Len(Source)
  <2>1. <<t.anchor[2], t.anchor[3]>> \in Docblocks
    BY <1>2, UsableIsFit DEF Unfit
  <2> DEFINE d == <<t.anchor[2], t.anchor[3]>>
  <2>2. d[1] < d[2] /\ d[2] <= Len(Source)
    BY <2>1, EditsAssumption
  <2> QED BY <2>2
<1> QED BY <1>1, <1>2

\* Each edit that is made is asked for, and within the text.
LEMMA MadeAsked ==
    ASSUME GatherInv, MembersHold, Seen = Len(fixes), Usable
    PROVE  /\ Asked(Made)
           /\ \A k \in 1 .. Len(Made) : Made[k].start <= Made[k].end /\ Made[k].end <= Len(Source)
<1>1. TypesOK
  BY DEF GatherInv
<1> DEFINE R == Len(replaces)
           G == Len(groups)
<1>2. /\ R \in Nat /\ DOMAIN replaces = 1 .. R
      /\ G \in Nat /\ DOMAIN groups = 1 .. G
      /\ Len(Made) = R + G
  BY <1>1, MadeIs
<1>3. \A r \in 1 .. R :
        Made[r] = [start |-> replaces[r].start, end |-> replaces[r].end,
                   text |-> replaces[r].text]
  BY <1>1, MadeIs
<1>4. \A g \in 1 .. G : Made[R + g] = TagEdit(groups[g])
  BY <1>1, MadeIs
<1> HIDE DEF R, G
<1>5. ASSUME NEW r \in 1 .. R
      PROVE  /\ SwapAt(Made[r], replaces[r])
             /\ Made[r].start <= Made[r].end /\ Made[r].end <= Len(Source)
  <2>1. Made[r] = [start |-> replaces[r].start, end |-> replaces[r].end,
                   text |-> replaces[r].text]
    BY <1>3
  <2>2. SwapAt(Made[r], replaces[r])
    BY <2>1 DEF SwapAt
  <2>3. InBounds(replaces[r].start, replaces[r].end)
    BY <1>2 DEF Usable
  <2> QED BY <2>1, <2>2, <2>3 DEF InBounds
<1>6. ASSUME NEW g \in 1 .. G, NEW t \in Tags, t.anchor = groups[g].anchor
      PROVE  /\ TagAt(Made[R + g], t)
             /\ Made[R + g].start <= Made[R + g].end /\ Made[R + g].end <= Len(Source)
  <2>1. groups[g].members = Taken(fixes, Asking(t.anchor))[Len(fixes)]
    BY <1>2, <1>6 DEF MembersHold
  <2>2. TagsOf(groups[g]) = TagsFor(t.anchor)
    <3> DEFINE asked == [members |-> Taken(fixes, Asking(t.anchor))[Len(fixes)]]
    <3>1. asked.members = groups[g].members
      BY <2>1
    <3> HIDE DEF asked
    <3>2. TagsOf(groups[g]) = TagsOf(asked)
      BY <3>1 DEF TagsOf
    <3> QED BY <3>2 DEF TagsFor, asked
  <2>3. TagAt(Made[R + g], t)
    <3>1. Made[R + g] = TagEdit(groups[g])
      BY <1>4
    <3>2. /\ TagEdit(groups[g]).start = t.anchor[2] /\ TagEdit(groups[g]).end = t.anchor[3]
          /\ TagEdit(groups[g]).text =
               IF t.anchor[1] = "new" THEN TagsOf(groups[g])
               ELSE InsertTags(t.anchor[2], t.anchor[3], TagsOf(groups[g]))
      BY <1>6 DEF TagEdit
    <3> QED BY <2>2, <3>1, <3>2 DEF TagAt
  <2>4. /\ t.anchor \in FixAnchor
        /\ t.anchor[1] = "existing" => t.anchor[2] < t.anchor[3] /\ t.anchor[3] <= Len(Source)
    BY TagsDocumented DEF Documented
  <2>5. t.anchor[2] <= t.anchor[3] /\ t.anchor[3] <= Len(Source)
    BY <2>4 DEF FixAnchor
  <2> QED BY <2>3, <2>5 DEF TagAt
<1>7. ASSUME NEW k \in 1 .. Len(Made)
      PROVE  k \in 1 .. R \/ \E g \in 1 .. G : k = R + g
  <2>1. k \in 1 .. R \/ (k - R \in 1 .. G /\ k = R + (k - R))
    BY <1>2
  <2> QED BY <2>1
<1>8. ASSUME NEW g \in 1 .. G
      PROVE  \E t \in Tags : t.anchor = groups[g].anchor
  BY <1>2, Collected
<1>9. ASSUME NEW k \in 1 .. Len(Made)
      PROVE  /\ (\E r \in Swaps : SwapAt(Made[k], r)) \/ (\E t \in Tags : TagAt(Made[k], t))
             /\ Made[k].start <= Made[k].end /\ Made[k].end <= Len(Source)
  <2>1. CASE k \in 1 .. R
    <3>1. replaces[k] \in Swaps
      BY <1>2, <2>1, Collected
    <3> QED BY <1>5, <2>1, <3>1
  <2>2. CASE \E g \in 1 .. G : k = R + g
    <3>1. PICK g \in 1 .. G : k = R + g
      BY <2>2
    <3>2. PICK t \in Tags : t.anchor = groups[g].anchor
      BY <1>8
    <3> QED BY <1>6, <3>1, <3>2
  <2> QED BY <1>7, <2>1, <2>2
<1>10. ASSUME NEW r \in Swaps
       PROVE  \E k \in 1 .. Len(Made) : SwapAt(Made[k], r)
  <2>1. PICK k \in 1 .. R : replaces[k] = r
    BY <1>2, Collected
  <2>2. k \in 1 .. Len(Made)
    BY <1>2
  <2> QED BY <1>5, <2>1, <2>2
<1>11. ASSUME NEW t \in Tags
       PROVE  \E k \in 1 .. Len(Made) : TagAt(Made[k], t)
  <2>1. PICK g \in 1 .. G : groups[g].anchor = t.anchor
    BY <1>2, Collected
  <2>2. R + g \in 1 .. Len(Made)
    BY <1>2
  <2> QED BY <1>6, <2>1, <2>2
<1> QED BY <1>9, <1>10, <1>11 DEF Asked

\* So are the sorted ones, and without a conflict they are apart.
LEMMA SortedApart ==
    ASSUME GatherInv, MembersHold, Seen = Len(fixes), Usable, ~Conflict(SortedByStart(Made))
    PROVE  Apart(SortedByStart(Made)) /\ Asked(SortedByStart(Made))
<1> DEFINE es == Made
           n == Len(es)
           s == SortedByStart(Made)
<1>1. Edits(es) /\ n \in Nat
  BY MadeIs DEF GatherInv, Edits
<1>2. PICK from \in [1 .. n -> 1 .. n] :
             /\ Edits(s) /\ Len(s) = n
             /\ \A k \in 1 .. n : s[k] = es[from[k]]
             /\ \A a, b \in 1 .. n : a < b => from[a] # from[b] /\ s[a].start <= s[b].start
             /\ \A i \in 1 .. n : \E k \in 1 .. n : from[k] = i
  BY <1>1, Sorts
<1>3. /\ \A k \in 1 .. n :
           (\E r \in Swaps : SwapAt(es[k], r)) \/ (\E t \in Tags : TagAt(es[k], t))
      /\ \A r \in Swaps : \E k \in 1 .. n : SwapAt(es[k], r)
      /\ \A t \in Tags : \E k \in 1 .. n : TagAt(es[k], t)
  BY MadeAsked DEF Asked
<1>4. \A k \in 1 .. n : es[k].start <= es[k].end /\ es[k].end <= Len(Source)
  BY MadeAsked
<1>5. Len(s) = n /\ \A k \in 1 .. n : s[k] = es[from[k]] /\ from[k] \in 1 .. n
  BY <1>2
<1>6. \A k \in 1 .. n - 1 : s[k].start # s[k + 1].start /\ ~ (s[k].end > s[k + 1].start)
  BY <1>5 DEF Conflict
<1>7. \A k \in 1 .. n : s[k].start \in Nat /\ s[k].end \in Nat
  BY <1>2 DEF Edits
<1>8. \A a, b \in 1 .. n : a < b => s[a].start <= s[b].start
  BY <1>2
<1>9. \A i \in 1 .. n : \E k \in 1 .. n : from[k] = i
  BY <1>2
<1> HIDE DEF n, s, es
<1>10. ASSUME NEW i \in 1 .. n, NEW j \in 1 .. n, i < j
       PROVE  s[i].start < s[j].start /\ s[i].end <= s[j].start
  <2>1. i \in 1 .. n - 1 /\ i + 1 \in 1 .. n /\ i < i + 1 /\ (i + 1 < j \/ i + 1 = j)
    BY <1>1, <1>10
  <2>2. s[i].start <= s[i + 1].start /\ s[i + 1].start <= s[j].start
    BY <1>7, <1>8, <2>1
  <2>3. s[i].start # s[i + 1].start /\ ~ (s[i].end > s[i + 1].start)
    BY <1>6, <2>1
  <2>4. s[i].start \in Nat /\ s[i].end \in Nat /\ s[i + 1].start \in Nat /\ s[j].start \in Nat
    BY <1>7, <2>1
  <2> QED BY <2>2, <2>3, <2>4
<1>11. Apart(s)
  <2>1. \A k \in 1 .. n : s[k].start <= s[k].end /\ s[k].end <= Len(Source)
    BY <1>4, <1>5
  <2> QED BY <1>1, <1>5, <1>7, <1>10, <2>1 DEF Apart
<1>12. \A k \in 1 .. n :
         (\E r \in Swaps : SwapAt(s[k], r)) \/ (\E t \in Tags : TagAt(s[k], t))
  BY <1>3, <1>5
<1>13. ASSUME NEW r \in Swaps
       PROVE  \E k \in 1 .. n : SwapAt(s[k], r)
  <2>1. PICK i \in 1 .. n : SwapAt(es[i], r)
    BY <1>3
  <2>2. PICK k \in 1 .. n : from[k] = i
    BY <1>9
  <2> QED BY <1>5, <2>1, <2>2
<1>14. ASSUME NEW t \in Tags
       PROVE  \E k \in 1 .. n : TagAt(s[k], t)
  <2>1. PICK i \in 1 .. n : TagAt(es[i], t)
    BY <1>3
  <2>2. PICK k \in 1 .. n : from[k] = i
    BY <1>9
  <2> QED BY <1>5, <2>1, <2>2
<1> QED BY <1>5, <1>11, <1>12, <1>13, <1>14 DEF Asked, s

-----------------------------------------------------------------------------
\* What all the facts about a sheet of edits rest on.
Sheet(es) == Apart(es) /\ Asked(es) /\ Documented /\ ~Clash

\* No two edits start at one place.
LEMMA OneStart ==
    ASSUME NEW es, Apart(es), NEW i \in 1 .. Len(es), NEW j \in 1 .. Len(es),
           es[i].start = es[j].start
    PROVE  i = j
<1>1. i \in Nat /\ j \in Nat /\ es[i].start \in Nat /\ es[j].start \in Nat
  BY DEF Apart
<1>2. i < j => es[i].start < es[j].start
  BY DEF Apart
<1>3. j < i => es[j].start < es[i].start
  BY DEF Apart
<1> QED BY <1>1, <1>2, <1>3

\* What may be put at a place.
Putting(p) ==
    {r.text : r \in {s \in Swaps : s.start = p}}
    \cup {TagsFor(t.anchor) : t \in {u \in Tags : u.anchor = <<"new", p, p>>}}

\* It is the text of an edit that starts there.
LEMMA PuttingIs ==
    ASSUME NEW es, Asked(es), NEW p, NEW x \in Putting(p)
    PROVE  \E k \in 1 .. Len(es) :
             /\ es[k].start = p /\ es[k].text = x
             /\ \/ \E r \in Swaps : r.start = p /\ SwapAt(es[k], r)
                \/ \E t \in Tags : t.anchor = <<"new", p, p>> /\ TagAt(es[k], t)
<1>1. CASE \E r \in Swaps : r.start = p /\ x = r.text
  <2>1. PICK r \in Swaps : r.start = p /\ x = r.text
    BY <1>1
  <2>2. PICK k \in 1 .. Len(es) : SwapAt(es[k], r)
    BY DEF Asked
  <2> QED BY <2>1, <2>2 DEF SwapAt
<1>2. CASE \E t \in Tags : t.anchor = <<"new", p, p>> /\ x = TagsFor(t.anchor)
  <2>1. PICK t \in Tags : t.anchor = <<"new", p, p>> /\ x = TagsFor(t.anchor)
    BY <1>2
  <2>2. PICK k \in 1 .. Len(es) : TagAt(es[k], t)
    BY DEF Asked
  <2>3. t.anchor[1] = "new" /\ t.anchor[2] = p
    BY <2>1
  <2>4. es[k].start = p /\ es[k].text = x
    BY <2>1, <2>2, <2>3 DEF TagAt
  <2> QED BY <2>1, <2>2, <2>4
<1> QED BY <1>1, <1>2 DEF Putting

LEMMA PutAtIs ==
    ASSUME NEW p
    PROVE  /\ Putting(p) = {} => PutAt(p) = <<>>
           /\ Putting(p) # {} => PutAt(p) \in Putting(p)
<1>1. PutAt(p) = IF Putting(p) = {} THEN <<>> ELSE CHOOSE t \in Putting(p) : TRUE
  BY DEF PutAt, Putting
<1> QED BY <1>1

\* Where no edit starts, nothing is put.
LEMMA NothingPut ==
    ASSUME NEW es, Sheet(es), NEW p, \A k \in 1 .. Len(es) : es[k].start # p
    PROVE  PutAt(p) = <<>>
<1>1. Putting(p) = {}
  BY PuttingIs DEF Sheet
<1> QED BY <1>1, PutAtIs

\* Where a replacement or a new docblock starts, its text is put.
LEMMA TextPut ==
    ASSUME NEW es, Sheet(es), NEW k \in 1 .. Len(es), NEW p, es[k].start = p,
           Putting(p) # {}
    PROVE  PutAt(p) = es[k].text
<1>1. PutAt(p) \in Putting(p)
  BY PutAtIs
<1>2. PICK j \in 1 .. Len(es) : es[j].start = p /\ es[j].text = PutAt(p)
  BY <1>1, PuttingIs DEF Sheet
<1> QED BY <1>2, OneStart DEF Sheet

LEMMA SwapPut ==
    ASSUME NEW es, Sheet(es), NEW k \in 1 .. Len(es), NEW r \in Swaps, SwapAt(es[k], r)
    PROVE  PutAt(es[k].start) = es[k].text
<1>1. r.text \in Putting(es[k].start)
  BY DEF SwapAt, Putting
<1> QED BY <1>1, TextPut

LEMMA NewPut ==
    ASSUME NEW es, Sheet(es), NEW k \in 1 .. Len(es), NEW t \in Tags, TagAt(es[k], t),
           t.anchor[1] = "new"
    PROVE  PutAt(es[k].start) = es[k].text /\ es[k].start = es[k].end
<1>1. t.anchor \in FixAnchor
  BY DEF Sheet, Documented
<1>2. t.anchor[2] = t.anchor[3]
  BY <1>1 DEF FixAnchor
<1>3. t.anchor = <<"new", t.anchor[2], t.anchor[2]>>
  BY <1>1, <1>2 DEF FixAnchor
<1>4. es[k].start = t.anchor[2] /\ es[k].end = t.anchor[2]
  BY <1>2 DEF TagAt
<1>5. TagsFor(t.anchor) \in Putting(es[k].start)
  BY <1>3, <1>4 DEF Putting
<1> QED BY <1>4, <1>5, TextPut

\* Nothing is put in front of a docblock that is extended.
LEMMA DocPut ==
    ASSUME NEW es, Sheet(es), NEW k \in 1 .. Len(es), NEW t \in Tags, TagAt(es[k], t),
           t.anchor[1] = "existing"
    PROVE  PutAt(es[k].start) = <<>>
<1> DEFINE p == es[k].start
<1>1. t.anchor \in FixAnchor /\ t.anchor[2] < t.anchor[3]
  BY DEF Sheet, Documented
<1>2. p = t.anchor[2] /\ es[k].end = t.anchor[3]
  BY DEF TagAt
<1> HIDE DEF p
<1>3. ASSUME NEW x \in Putting(p)
      PROVE  FALSE
  <2>1. PICK j \in 1 .. Len(es) :
             /\ es[j].start = p /\ es[j].text = x
             /\ \/ \E r \in Swaps : r.start = p /\ SwapAt(es[j], r)
                \/ \E u \in Tags : u.anchor = <<"new", p, p>> /\ TagAt(es[j], u)
    <3>1. Asked(es)
      BY DEF Sheet
    <3> QED BY <1>3, <3>1, PuttingIs
  <2>2. j = k
    BY <2>1, OneStart DEF Sheet, p
  <2>3. CASE \E r \in Swaps : r.start = p /\ SwapAt(es[j], r)
    <3>1. PICK r \in Swaps : SwapAt(es[k], r)
      BY <2>2, <2>3
    <3>2. <<r.start, r.end>> = <<t.anchor[2], t.anchor[3]>>
      BY <3>1, <1>2 DEF SwapAt, p
    <3> QED BY <3>2 DEF Sheet, Clash
  <2>4. CASE \E u \in Tags : u.anchor = <<"new", p, p>> /\ TagAt(es[j], u)
    <3>1. PICK u \in Tags : u.anchor = <<"new", p, p>> /\ TagAt(es[k], u)
      BY <2>2, <2>4
    <3>2. es[k].end = p
      BY <3>1 DEF TagAt
    <3>3. t.anchor[2] = t.anchor[3] /\ t.anchor[2] \in Nat
      BY <1>1, <1>2, <3>2 DEF FixAnchor
    <3> QED BY <1>1, <3>3
  <2> QED BY <2>1, <2>3, <2>4
<1> QED BY <1>3, PutAtIs DEF p

\* What becomes of a token: replaced, ...
LEMMA SwapKeeps ==
    ASSUME NEW es, NEW k \in 1 .. Len(es), NEW r \in Swaps, SwapAt(es[k], r),
           NEW p, es[k].start < p, p <= es[k].end
    PROVE  Kept(p) = <<>>
BY DEF SwapAt, Kept

\* ... or kept, where no edit reaches, ...
LEMMA PlainKept ==
    ASSUME NEW es, Sheet(es), NEW p \in 1 .. Len(Source),
           \A k \in 1 .. Len(es) : ~ (es[k].start < p /\ p <= es[k].end)
    PROVE  Kept(p) = <<Source[p]>>
<1>1. ~ \E r \in Swaps : r.start < p /\ p <= r.end
  <2> SUFFICES ASSUME NEW r \in Swaps, r.start < p, p <= r.end PROVE FALSE
    OBVIOUS
  <2>1. PICK k \in 1 .. Len(es) : SwapAt(es[k], r)
    BY DEF Sheet, Asked
  <2> QED BY <2>1 DEF SwapAt
<1>2. ~ \E u \in Tags : u.anchor[1] = "existing" /\ u.anchor[3] = p
  <2> SUFFICES ASSUME NEW u \in Tags, u.anchor[1] = "existing", u.anchor[3] = p PROVE FALSE
    OBVIOUS
  <2>1. PICK k \in 1 .. Len(es) : TagAt(es[k], u)
    BY DEF Sheet, Asked
  <2>2. u.anchor[2] < u.anchor[3]
    BY DEF Sheet, Documented
  <2>3. es[k].start < p /\ p <= es[k].end
    BY <2>1, <2>2 DEF TagAt
  <2> QED BY <2>3
<1>3. PutInDoc(p) = <<>>
  BY <1>2 DEF PutInDoc
<1>4. <<>> \o <<Source[p]>> = <<Source[p]>>
  <2>1. Source[p] \in Token
    BY EditsAssumption, ElementOfSeq
  <2>2. <<Source[p]>> \in Seq(Token)
    BY <2>1
  <2> QED BY <2>2, ConcatEmptySeq
<1> QED BY <1>1, <1>3, <1>4 DEF Kept

\* ... and in a docblock, where its last token has the tags before it.
LEMMA DocKept ==
    ASSUME NEW es, Sheet(es), NEW k \in 1 .. Len(es), NEW t \in Tags, TagAt(es[k], t),
           t.anchor[1] = "existing",
           NEW p \in 1 .. Len(Source), es[k].start < p, p <= es[k].end
    PROVE  Kept(p) = IF p = es[k].end THEN TagsFor(t.anchor) \o <<Source[p]>> ELSE <<Source[p]>>
<1> DEFINE s == es[k].start
           e == es[k].end
<1>1. s \in Nat /\ e \in Nat /\ p \in Nat
  BY DEF Sheet, Apart
<1>2. s = t.anchor[2] /\ e = t.anchor[3]
  BY DEF TagAt
<1>3. ASSUME NEW j \in 1 .. Len(es), es[j].start < p, p <= es[j].end
      PROVE  j = k
  <2>1. j \in Nat /\ k \in Nat /\ es[j].start \in Nat /\ es[j].end \in Nat
    BY DEF Sheet, Apart
  <2>2. j < k => es[j].end <= s
    BY DEF Sheet, Apart
  <2>3. k < j => e <= es[j].start
    BY DEF Sheet, Apart
  <2> QED BY <1>1, <1>3, <2>1, <2>2, <2>3
<1> HIDE DEF s, e
<1>4. ~ \E r \in Swaps : r.start < p /\ p <= r.end
  <2> SUFFICES ASSUME NEW r \in Swaps, r.start < p, p <= r.end PROVE FALSE
    OBVIOUS
  <2>1. PICK j \in 1 .. Len(es) : SwapAt(es[j], r)
    BY DEF Sheet, Asked
  <2>2. j = k
    BY <1>3, <2>1 DEF SwapAt
  <2>3. <<r.start, r.end>> = <<t.anchor[2], t.anchor[3]>>
    BY <2>1, <2>2 DEF SwapAt, TagAt
  <2> QED BY <2>3 DEF Sheet, Clash
<1> DEFINE docs == {u.anchor : u \in {v \in Tags : v.anchor[1] = "existing" /\ v.anchor[3] = p}}
<1>5. ASSUME NEW u \in Tags, u.anchor[1] = "existing", u.anchor[3] = p
      PROVE  u.anchor = t.anchor /\ p = e
  <2>1. PICK j \in 1 .. Len(es) : TagAt(es[j], u)
    BY DEF Sheet, Asked
  <2>2. u.anchor[2] < u.anchor[3] /\ u.anchor \in FixAnchor /\ t.anchor \in FixAnchor
    BY <1>5 DEF Sheet, Documented
  <2>3. es[j].start < p /\ p <= es[j].end
    BY <1>5, <2>1, <2>2, <1>1 DEF TagAt
  <2>4. j = k
    BY <1>3, <2>3
  <2>5. u.anchor[2] = t.anchor[2] /\ u.anchor[3] = t.anchor[3] /\ e = u.anchor[3]
    BY <2>1, <2>4 DEF TagAt, e
  <2>6. t.anchor[1] = "existing"
    OBVIOUS
  <2>7. \A a, c \in FixAnchor : a[1] = c[1] /\ a[2] = c[2] /\ a[3] = c[3] => a = c
    BY DEF FixAnchor
  <2> QED BY <1>5, <2>2, <2>5, <2>6, <2>7
<1>6. CASE p = e
  <2>1. docs = {t.anchor}
    BY <1>2, <1>5, <1>6
  <2>2. PutInDoc(p) = TagsFor(t.anchor)
    BY <2>1 DEF PutInDoc
  <2> QED BY <1>4, <1>6, <2>2 DEF Kept, e
<1>7. CASE p # e
  <2>1. docs = {}
    BY <1>5, <1>7
  <2>2. PutInDoc(p) = <<>>
    BY <2>1 DEF PutInDoc
  <2>3. <<Source[p]>> \in Seq(Token)
    <3>1. Source[p] \in Token
      BY EditsAssumption, ElementOfSeq
    <3> QED BY <3>1
  <2>4. <<>> \o <<Source[p]>> = <<Source[p]>>
    BY <2>3, ConcatEmptySeq
  <2> QED BY <1>4, <1>7, <2>2, <2>4 DEF Kept, e
<1> QED BY <1>6, <1>7

-----------------------------------------------------------------------------
\* Texts are put together in any order.
LEMMA Assoc ==
    \A x, y, z \in Seq(Token) : (x \o y) \o z = x \o (y \o z)
BY ConcatAssociative

\* A text taken apart where it was put together.
LEMMA Split ==
    ASSUME NEW S, NEW x \in Seq(S), NEW y \in Seq(S)
    PROVE  /\ SubSeq(x \o y, 1, Len(x)) = x
           /\ SubSeq(x \o y, Len(x) + 1, Len(x \o y)) = y
<1> DEFINE z == x \o y
           m == Len(x)
           n == Len(y)
<1>1. /\ z \in Seq(S) /\ Len(z) = m + n
      /\ \A i \in 1 .. m + n : z[i] = IF i <= m THEN x[i] ELSE y[i - m]
  BY ConcatProperties
<1>2. m \in Nat /\ n \in Nat
  OBVIOUS
<1> HIDE DEF z
<1>3. \A i \in 1 .. m + n : z[i] \in S
  BY <1>1, ElementOfSeq
<1>4. SubSeq(z, 1, m) = x
  <2>1. \A i \in 1 .. m : z[i] \in S
    BY <1>2, <1>3
  <2>2. /\ SubSeq(z, 1, m) \in Seq(S) /\ Len(SubSeq(z, 1, m)) = m
        /\ \A i \in 1 .. m : SubSeq(z, 1, m)[i] = z[i]
    BY <1>2, <2>1, SubSeqProperties
  <2>3. \A i \in 1 .. m : z[i] = x[i]
    BY <1>1, <1>2
  <2> QED BY <2>2, <2>3, SeqEqual
<1>5. SubSeq(z, m + 1, m + n) = y
  <2>1. \A i \in m + 1 .. m + n : z[i] \in S
    BY <1>2, <1>3
  <2>2. /\ SubSeq(z, m + 1, m + n) \in Seq(S) /\ Len(SubSeq(z, m + 1, m + n)) = n
        /\ \A i \in 1 .. n : SubSeq(z, m + 1, m + n)[i] = z[m + i]
    BY <1>2, <2>1, SubSeqProperties
  <2>3. \A i \in 1 .. n : z[m + i] = y[i]
    <3> SUFFICES ASSUME NEW i \in 1 .. n PROVE z[m + i] = y[i]
      OBVIOUS
    <3>1. m + i \in 1 .. m + n /\ ~ (m + i <= m) /\ (m + i) - m = i
      BY <1>2
    <3> QED BY <1>1, <3>1
  <2> QED BY <2>2, <2>3, SeqEqual
<1> QED BY <1>1, <1>4, <1>5 DEF z

\* A part of the analyzed text.
LEMMA PartType ==
    ASSUME NEW a \in 1 .. Len(Source) + 1, NEW b \in a - 1 .. Len(Source)
    PROVE  SubSeq(Source, a, b) \in Seq(Token) /\ Len(SubSeq(Source, a, b)) = b - a + 1
<1>1. Source \in Seq(Token) /\ Len(Source) \in Nat
  BY EditsAssumption
<1>2. \A i \in a .. b : Source[i] \in Token
  <2> SUFFICES ASSUME NEW i \in a .. b PROVE Source[i] \in Token
    OBVIOUS
  <2>1. i \in 1 .. Len(Source)
    BY <1>1
  <2> QED BY <1>1, <2>1, ElementOfSeq
<1>3. a \in Int /\ b \in Int
  BY <1>1
<1>4. /\ SubSeq(Source, a, b) \in Seq(Token)
      /\ Len(SubSeq(Source, a, b)) = IF a <= b THEN b - a + 1 ELSE 0
  BY <1>2, <1>3, SubSeqProperties
<1>5. a <= b \/ b - a + 1 = 0
  BY <1>1
<1> QED BY <1>4, <1>5

\* What is left of the text after position e, when it is as analyzed up to b.
LEMMA RestOf ==
    ASSUME NEW b \in 0 .. Len(Source), NEW e \in 0 .. b, NEW w \in Seq(Token),
           NEW text, text = SubSeq(Source, 1, b) \o w
    PROVE  /\ SubSeq(text, 1, e) = SubSeq(Source, 1, e)
           /\ SubSeq(text, e + 1, Len(text)) = SubSeq(Source, e + 1, b) \o w
<1> DEFINE x == SubSeq(Source, 1, e)
           y == SubSeq(Source, e + 1, b)
<1>0. Source \in Seq(Token) /\ Len(Source) \in Nat
  BY EditsAssumption
<1>1. x \in Seq(Token) /\ Len(x) = e
  <2>1. 1 \in 1 .. Len(Source) + 1 /\ e \in 1 - 1 .. Len(Source) /\ e - 1 + 1 = e
    BY <1>0
  <2> QED BY <2>1, PartType
<1>2. y \in Seq(Token)
  <2>1. e + 1 \in 1 .. Len(Source) + 1 /\ b \in (e + 1) - 1 .. Len(Source)
    BY <1>0
  <2> QED BY <2>1, PartType
<1>3. SubSeq(Source, 1, b) = x \o y
  <2>1. 1 \in 1 .. Len(Source) + 1 /\ e \in 1 - 1 .. Len(Source) /\ b \in e .. Len(Source)
    BY <1>0
  <2> QED BY <1>0, <2>1, ConcatAdjacentSubSeq
<1> HIDE DEF x, y
<1> DEFINE z == y \o w
<1>4. text = x \o z
  <2>1. text = (x \o y) \o w
    BY <1>3
  <2>2. (x \o y) \o w = x \o (y \o w)
    BY <1>1, <1>2, Assoc
  <2> QED BY <2>1, <2>2
<1>5. z \in Seq(Token)
  BY <1>2, ConcatProperties
<1> HIDE DEF z
<1>6. SubSeq(x \o z, 1, Len(x)) = x /\ SubSeq(x \o z, Len(x) + 1, Len(x \o z)) = z
  BY <1>1, <1>5, Split
<1> QED BY <1>1, <1>4, <1>6 DEF x, y, z

-----------------------------------------------------------------------------
\* Where nothing is replaced and nothing put, the wanted text is the analyzed one.
LEMMA Stretch ==
    ASSUME TypesOK, NEW p \in 0 .. Len(Source), NEW q \in 0 .. Len(Source), p < q,
           \A i \in p + 1 .. q : Kept(i) = <<Source[i]>>,
           \A i \in p + 1 .. q - 1 : PutAt(i) = <<>>
    PROVE  After(p) = SubSeq(Source, p + 1, q) \o WantedFrom[q]
<1> DEFINE Goal(i) == After(i) = SubSeq(Source, i + 1, q) \o WantedFrom[q]
           bad == {m \in 1 .. q - p : ~ Goal(q - m)}
<1>0. Source \in Seq(Token) /\ Len(Source) \in Nat
  BY EditsAssumption
<1>1. p \in Nat /\ q \in Nat /\ q - p \in 1 .. q - p
  BY <1>0
<1>2. WantedFrom[q] \in Seq(Token)
  BY WantedType
<1> HIDE DEF Goal
<1>3. bad = {}
  <2> SUFFICES ASSUME bad # {} PROVE FALSE
    OBVIOUS
  <2>0. bad \subseteq Nat
    BY <1>1
  <2>1. PICK m \in bad : \A i \in bad : m <= i
    BY <2>0, NatLeast
  <2> DEFINE a == q - m
  <2>2. /\ m \in 1 .. q - p /\ a \in 0 .. Len(Source) /\ a < Len(Source) /\ a + 1 \in p + 1 .. q
        /\ a + 1 \in 1 .. Len(Source) /\ q \in a + 1 .. Len(Source)
    BY <1>0, <1>1
  <2>3. After(a) = Kept(a + 1) \o WantedFrom[a + 1]
    BY <2>2 DEF After
  <2>4. Kept(a + 1) = <<Source[a + 1]>>
    BY <2>2
  <2>5. <<Source[a + 1]>> \in Seq(Token)
    <3>1. Source[a + 1] \in Token
      BY <1>0, <2>2, ElementOfSeq
    <3> QED BY <3>1
  <2>6. SubSeq(Source, a + 1, q) = <<Source[a + 1]>> \o SubSeq(Source, (a + 1) + 1, q)
    BY <1>0, <2>2, SubSeqRecursiveFirst
  <2>7. SubSeq(Source, (a + 1) + 1, q) \in Seq(Token)
    <3>1. (a + 1) + 1 \in 1 .. Len(Source) + 1 /\ q \in ((a + 1) + 1) - 1 .. Len(Source)
      BY <1>0, <1>1, <2>2
    <3> QED BY <3>1, PartType
  <2>8. WantedFrom[a + 1] = SubSeq(Source, (a + 1) + 1, q) \o WantedFrom[q]
    <3>1. CASE m = 1
      <4>1. a + 1 = q /\ q < q + 1 /\ q + 1 \in Int /\ q \in Int
        BY <1>1, <3>1
      <4>2. SubSeq(Source, q + 1, q) = <<>>
        BY <4>1, SubSeqEmpty
      <4>3. <<>> \o WantedFrom[q] = WantedFrom[q]
        BY <1>2, ConcatEmptySeq
      <4> QED BY <4>1, <4>2, <4>3
    <3>2. CASE m # 1
      <4>1. m - 1 \in 1 .. q - p /\ ~ (m <= m - 1) /\ q - (m - 1) = a + 1 /\ a + 1 \in p + 1 .. q - 1
        BY <1>1, <2>2, <3>2
      <4>2. Goal(a + 1)
        BY <2>1, <4>1
      <4>3. PutAt(a + 1) = <<>>
        BY <4>1
      <4>4. WantedFrom[a + 1] = PutAt(a + 1) \o After(a + 1) /\ After(a + 1) \in Seq(Token)
        <5>1. a + 1 \in 0 .. Len(Source)
          BY <2>2
        <5> QED BY <5>1, WantedType
      <4>5. WantedFrom[a + 1] = After(a + 1)
        BY <4>3, <4>4, ConcatEmptySeq
      <4> QED BY <4>2, <4>5 DEF Goal
    <3> QED BY <3>1, <3>2
  <2>9. After(a) = SubSeq(Source, a + 1, q) \o WantedFrom[q]
    <3> DEFINE one == <<Source[a + 1]>>
               rest == SubSeq(Source, (a + 1) + 1, q)
               w == WantedFrom[q]
    <3>1. one \in Seq(Token) /\ rest \in Seq(Token) /\ w \in Seq(Token)
      BY <1>2, <2>5, <2>7
    <3>2. After(a) = one \o (rest \o w)
      BY <2>3, <2>4, <2>8
    <3>3. SubSeq(Source, a + 1, q) = one \o rest
      BY <2>6
    <3> HIDE DEF one, rest, w
    <3>4. (one \o rest) \o w = one \o (rest \o w)
      BY <3>1, Assoc
    <3> QED BY <3>2, <3>3, <3>4 DEF w
  <2> QED BY <2>1, <2>9 DEF Goal
<1>4. Goal(p)
  <2>1. q - (q - p) = p
    BY <1>1
  <2> QED BY <1>1, <1>3, <2>1
<1> QED BY <1>4 DEF Goal

\* Where all is replaced, nothing is wanted.
LEMMA Gap ==
    ASSUME TypesOK, NEW p \in 0 .. Len(Source), NEW q \in 0 .. Len(Source), p < q,
           \A i \in p + 1 .. q : Kept(i) = <<>>,
           \A i \in p + 1 .. q - 1 : PutAt(i) = <<>>
    PROVE  After(p) = WantedFrom[q]
<1> DEFINE Goal(i) == After(i) = WantedFrom[q]
           bad == {m \in 1 .. q - p : ~ Goal(q - m)}
<1>0. Len(Source) \in Nat
  BY EditsAssumption
<1>1. p \in Nat /\ q \in Nat /\ q - p \in 1 .. q - p
  BY <1>0
<1>2. WantedFrom[q] \in Seq(Token)
  BY WantedType
<1> HIDE DEF Goal
<1>3. bad = {}
  <2> SUFFICES ASSUME bad # {} PROVE FALSE
    OBVIOUS
  <2>0. bad \subseteq Nat
    BY <1>1
  <2>1. PICK m \in bad : \A i \in bad : m <= i
    BY <2>0, NatLeast
  <2> DEFINE a == q - m
  <2>2. /\ m \in 1 .. q - p /\ a \in 0 .. Len(Source) /\ a < Len(Source) /\ a + 1 \in p + 1 .. q
        /\ a + 1 \in 0 .. Len(Source)
    BY <1>0, <1>1
  <2>3. After(a) = Kept(a + 1) \o WantedFrom[a + 1]
    BY <2>2 DEF After
  <2>4. Kept(a + 1) = <<>>
    BY <2>2
  <2>5. WantedFrom[a + 1] \in Seq(Token) /\ After(a + 1) \in Seq(Token)
        /\ WantedFrom[a + 1] = PutAt(a + 1) \o After(a + 1)
    BY <2>2, WantedType
  <2>6. After(a) = WantedFrom[a + 1]
    BY <2>3, <2>4, <2>5, ConcatEmptySeq
  <2>7. WantedFrom[a + 1] = WantedFrom[q]
    <3>1. CASE m = 1
      <4>1. a + 1 = q
        BY <1>1, <3>1
      <4> QED BY <4>1
    <3>2. CASE m # 1
      <4>1. m - 1 \in 1 .. q - p /\ ~ (m <= m - 1) /\ q - (m - 1) = a + 1 /\ a + 1 \in p + 1 .. q - 1
        BY <1>1, <2>2, <3>2
      <4>2. Goal(a + 1)
        BY <2>1, <4>1
      <4>3. PutAt(a + 1) = <<>>
        BY <4>1
      <4>4. WantedFrom[a + 1] = After(a + 1)
        BY <2>5, <4>3, ConcatEmptySeq
      <4> QED BY <4>2, <4>4 DEF Goal
    <3> QED BY <3>1, <3>2
  <2> QED BY <2>1, <2>6, <2>7 DEF Goal
<1>4. Goal(p)
  <2>1. q - (q - p) = p
    BY <1>1
  <2> QED BY <1>1, <1>3, <2>1
<1> QED BY <1>4 DEF Goal

-----------------------------------------------------------------------------
\* Between its ends nothing starts but the edit itself.
LEMMA InsideFree ==
    ASSUME NEW es, Sheet(es), NEW k \in 1 .. Len(es), NEW i \in Nat,
           es[k].start < i, i < es[k].end
    PROVE  PutAt(i) = <<>>
<1>1. ASSUME NEW j \in 1 .. Len(es), es[j].start = i
      PROVE  FALSE
  <2>1. /\ j \in Nat /\ k \in Nat
        /\ es[j].start \in Nat /\ es[k].start \in Nat /\ es[k].end \in Nat
    BY DEF Sheet, Apart
  <2>2. j < k => es[j].start < es[k].start
    BY DEF Sheet, Apart
  <2>3. k < j => es[k].end <= es[j].start
    BY DEF Sheet, Apart
  <2> QED BY <1>1, <2>1, <2>2, <2>3
<1> QED BY <1>1, NothingPut

\* What an edit writes, and what is wanted after it, is what is wanted from it on.
Following(e) == IF e.start = e.end THEN After(e.end) ELSE WantedFrom[e.end]

LEMMA EditWrites ==
    ASSUME TypesOK, NEW es, Sheet(es), NEW k \in 1 .. Len(es)
    PROVE  /\ es[k].text \in Seq(Token) /\ Following(es[k]) \in Seq(Token)
           /\ WantedFrom[es[k].start] = es[k].text \o Following(es[k])
<1> DEFINE s == es[k].start
           e == es[k].end
           text == es[k].text
<1>0. Len(Source) \in Nat /\ Source \in Seq(Token)
  BY EditsAssumption
<1>1. s \in Nat /\ e \in Nat /\ s <= e /\ e <= Len(Source)
  BY DEF Sheet, Apart
<1>2. s \in 0 .. Len(Source) /\ e \in 0 .. Len(Source)
  BY <1>0, <1>1
<1>3. WantedFrom[s] = PutAt(s) \o After(s) /\ After(s) \in Seq(Token)
  BY <1>2, WantedType
<1>4. WantedFrom[e] \in Seq(Token) /\ After(e) \in Seq(Token)
  BY <1>2, WantedType
<1>5. \A i \in s + 1 .. e - 1 : PutAt(i) = <<>>
  <2> SUFFICES ASSUME NEW i \in s + 1 .. e - 1 PROVE PutAt(i) = <<>>
    OBVIOUS
  <2>1. i \in Nat /\ s < i /\ i < e
    BY <1>1
  <2> QED BY <2>1, InsideFree
<1>6. PutAt(s) \in Seq(Token)
  BY PutAtType
<1>7. Following(es[k]) = IF s = e THEN After(e) ELSE WantedFrom[e]
  BY DEF Following
<1>8. Following(es[k]) \in Seq(Token)
  BY <1>4, <1>7
<1>9. ASSUME NEW r \in Swaps, SwapAt(es[k], r)
      PROVE  text \in Seq(Token) /\ WantedFrom[s] = text \o Following(es[k])
  <2>1. PutAt(s) = text
    BY <1>9, SwapPut
  <2>2. CASE s = e
    BY <1>3, <1>6, <1>7, <2>1, <2>2
  <2>3. CASE s # e
    <3>1. s < e
      BY <1>1, <2>3
    <3>2. \A i \in s + 1 .. e : Kept(i) = <<>>
      <4> SUFFICES ASSUME NEW i \in s + 1 .. e PROVE Kept(i) = <<>>
        OBVIOUS
      <4>1. s < i /\ i <= e
        BY <1>1
      <4> QED BY <1>9, <4>1, SwapKeeps
    <3>3. After(s) = WantedFrom[e]
      <4> HIDE DEF s, e
      <4> QED BY <1>2, <1>5, <3>1, <3>2, Gap
    <3> QED BY <1>3, <1>6, <1>7, <2>1, <2>3, <3>3
  <2> QED BY <2>2, <2>3
<1>10. ASSUME NEW t \in Tags, TagAt(es[k], t), t.anchor[1] = "new"
       PROVE  text \in Seq(Token) /\ WantedFrom[s] = text \o Following(es[k])
  <2>1. PutAt(s) = text /\ s = e
    BY <1>10, NewPut
  <2> QED BY <1>3, <1>6, <1>7, <2>1
<1>11. ASSUME NEW t \in Tags, TagAt(es[k], t), t.anchor[1] = "existing"
       PROVE  text \in Seq(Token) /\ WantedFrom[s] = text \o Following(es[k])
  <2> DEFINE T == TagsFor(t.anchor)
             before == SubSeq(Source, s + 1, e - 1)
             close == <<Source[e]>>
  <2>1. s < e
    <3>1. t.anchor[2] < t.anchor[3]
      BY <1>11 DEF Sheet, Documented
    <3> QED BY <1>11, <3>1 DEF TagAt
  <2>2. text = before \o T \o close
    <3>1. t.anchor[1] # "new"
      BY <1>11
    <3>2. text = InsertTags(t.anchor[2], t.anchor[3], T) /\ s = t.anchor[2] /\ e = t.anchor[3]
      BY <1>11, <3>1 DEF TagAt
    <3>3. text = InsertTags(s, e, T)
      BY <3>2
    <3> QED BY <3>3 DEF InsertTags
  <2>3. T \in Seq(Token)
    BY TagsForType
  <2>4. before \in Seq(Token)
    <3>1. s + 1 \in 1 .. Len(Source) + 1 /\ e - 1 \in (s + 1) - 1 .. Len(Source)
      BY <1>0, <1>1, <2>1
    <3> QED BY <3>1, PartType
  <2>5. close \in Seq(Token) /\ e \in 1 .. Len(Source)
    <3>1. e \in 1 .. Len(Source)
      BY <1>0, <1>1, <2>1
    <3>2. Source[e] \in Token
      BY <1>0, <3>1, ElementOfSeq
    <3> QED BY <3>1, <3>2
  <2>6. PutAt(s) = <<>>
    BY <1>11, DocPut
  <2>7. WantedFrom[s] = After(s)
    BY <1>3, <2>6, ConcatEmptySeq
  <2>8. e - 1 \in 0 .. Len(Source) /\ (e - 1) + 1 = e /\ e - 1 < Len(Source)
    BY <1>0, <1>1, <2>1
  <2>9. After(e - 1) = (T \o close) \o WantedFrom[e]
    <3>1. After(e - 1) = Kept((e - 1) + 1) \o WantedFrom[(e - 1) + 1]
      BY <2>8 DEF After
    <3>2. Kept(e) = T \o close
      BY <1>1, <1>11, <2>1, <2>5, DocKept
    <3> QED BY <2>8, <3>1, <3>2
  <2>10. After(s) = before \o After(e - 1)
    <3>1. CASE s = e - 1
      <4>1. e - 1 < s + 1 /\ s + 1 \in Int /\ e - 1 \in Int
        BY <1>1, <3>1
      <4>2. before = <<>>
        BY <4>1, SubSeqEmpty
      <4> QED BY <1>3, <3>1, <4>2, ConcatEmptySeq
    <3>2. CASE s # e - 1
      <4>1. s < e - 1 /\ e - 1 \in Nat
        BY <1>1, <2>1, <3>2
      <4>2. \A i \in s + 1 .. e - 1 : Kept(i) = <<Source[i]>>
        <5> SUFFICES ASSUME NEW i \in s + 1 .. e - 1 PROVE Kept(i) = <<Source[i]>>
          OBVIOUS
        <5>1. i \in 1 .. Len(Source) /\ s < i /\ i <= e /\ i # e
          BY <1>0, <1>1
        <5> QED BY <1>11, <5>1, DocKept
      <4>3. \A i \in s + 1 .. (e - 1) - 1 : PutAt(i) = <<>>
        <5> SUFFICES ASSUME NEW i \in s + 1 .. (e - 1) - 1 PROVE PutAt(i) = <<>>
          OBVIOUS
        <5>1. i \in s + 1 .. e - 1
          BY <1>1
        <5> QED BY <1>5, <5>1
      <4>4. After(s) = before \o WantedFrom[e - 1]
        <5> DEFINE q == e - 1
        <5>1. q \in 0 .. Len(Source) /\ s < q
          BY <2>8, <4>1
        <5>2. (\A i \in s + 1 .. q : Kept(i) = <<Source[i]>>) /\ \A i \in s + 1 .. q - 1 : PutAt(i) = <<>>
          BY <4>2, <4>3
        <5> HIDE DEF q, s, e
        <5>3. After(s) = SubSeq(Source, s + 1, q) \o WantedFrom[q]
          BY <1>2, <5>1, <5>2, Stretch
        <5> QED BY <5>3 DEF q
      <4>5. PutAt(e - 1) = <<>>
        <5>1. e - 1 \in s + 1 .. e - 1
          BY <1>1, <4>1
        <5> QED BY <1>5, <5>1
      <4>6. WantedFrom[e - 1] = After(e - 1)
        <5>1. WantedFrom[e - 1] = PutAt(e - 1) \o After(e - 1) /\ After(e - 1) \in Seq(Token)
          BY <2>8, WantedType
        <5> QED BY <4>5, <5>1, ConcatEmptySeq
      <4> QED BY <4>4, <4>6
    <3> QED BY <3>1, <3>2
  <2>11. Following(es[k]) = WantedFrom[e]
    BY <1>1, <1>7, <2>1
  <2> DEFINE w == WantedFrom[e]
  <2> HIDE DEF T, before, close, w, s, e, text
  <2>12. w \in Seq(Token)
    BY <1>4 DEF w
  <2>13. T \o close \in Seq(Token)
    BY <2>3, <2>5, ConcatProperties
  <2>14. (before \o T) \o close = before \o (T \o close)
    BY <2>3, <2>4, <2>5, Assoc
  <2>15. (before \o (T \o close)) \o w = before \o ((T \o close) \o w)
    BY <2>4, <2>12, <2>13, Assoc
  <2>16. before \o (T \o close) \in Seq(Token)
    BY <2>4, <2>13, ConcatProperties
  <2> QED BY <2>2, <2>7, <2>9, <2>10, <2>11, <2>14, <2>15, <2>16 DEF w
<1>12. text \in Seq(Token) /\ WantedFrom[s] = text \o Following(es[k])
  <2>1. CASE \E r \in Swaps : SwapAt(es[k], r)
    BY <1>9, <2>1
  <2>2. CASE \E t \in Tags : TagAt(es[k], t)
    <3>1. PICK t \in Tags : TagAt(es[k], t)
      BY <2>2
    <3>2. t.anchor[1] \in {"new", "existing"}
      BY DEF Sheet, Documented, FixAnchor
    <3> QED BY <1>10, <1>11, <3>1, <3>2
  <2> QED BY <2>1, <2>2 DEF Sheet, Asked
<1> QED BY <1>8, <1>12

-----------------------------------------------------------------------------
\* How far the edits have come: the text is the analyzed one up to the edit
\* applied last, and as wanted from there on.
Reached(es, n) == IF n = Len(es) THEN Len(Source) ELSE es[n + 1].start
Written(es, n) == IF n = Len(es) THEN <<>> ELSE WantedFrom[es[n + 1].start]

LEMMA ReachedIs ==
    ASSUME TypesOK, NEW es, Apart(es), NEW n \in 0 .. Len(es)
    PROVE  Reached(es, n) \in 0 .. Len(Source) /\ Written(es, n) \in Seq(Token)
<1>0. Len(Source) \in Nat
  BY EditsAssumption
<1>1. CASE n = Len(es)
  <2>1. <<>> \in Seq(Token)
    OBVIOUS
  <2> QED BY <1>0, <1>1, <2>1 DEF Reached, Written
<1>2. CASE n # Len(es)
  <2>1. n + 1 \in 1 .. Len(es)
    BY <1>2 DEF Apart
  <2> DEFINE b == es[n + 1].start
  <2>2. b \in 0 .. Len(Source)
    <3>1. /\ es[n + 1].start \in Nat /\ es[n + 1].end \in Nat
          /\ es[n + 1].start <= es[n + 1].end /\ es[n + 1].end <= Len(Source)
      BY <2>1 DEF Apart
    <3> QED BY <1>0, <3>1
  <2> HIDE DEF b
  <2>3. WantedFrom[b] \in Seq(Token)
    BY <2>2, WantedType
  <2> QED BY <1>2, <2>2, <2>3 DEF Reached, Written, b
<1> QED BY <1>1, <1>2

\* Nothing starts at the end of the text once all that starts there is applied.
LEMMA EndWanted ==
    ASSUME TypesOK, NEW es, Sheet(es), \A j \in 1 .. Len(es) : es[j].start # Len(Source)
    PROVE  WantedFrom[Len(Source)] = <<>>
<1>1. Len(Source) \in Nat /\ Len(Source) \in 0 .. Len(Source)
  BY EditsAssumption
<1>2. PutAt(Len(Source)) = <<>>
  BY NothingPut
<1>3. After(Len(Source)) = <<>>
  BY <1>1 DEF After
<1>4. WantedFrom[Len(Source)] = PutAt(Len(Source)) \o After(Len(Source))
  BY <1>1, WantedType
<1>5. <<>> \o <<>> = <<>>
  <2>1. <<>> \in Seq(Token)
    OBVIOUS
  <2> QED BY <2>1, ConcatEmptySeq
<1> QED BY <1>2, <1>3, <1>4, <1>5

\* From a position that lies between edit n and the next one, where nothing
\* starts, the analyzed text and what is written follow.
LEMMA BetweenEdits ==
    ASSUME TypesOK, NEW es, Sheet(es), NEW n \in 0 .. Len(es), NEW e \in 0 .. Len(Source),
           e < Reached(es, n), n # 0 => es[n].start <= e /\ es[n].end <= e
    PROVE  After(e) = SubSeq(Source, e + 1, Reached(es, n)) \o Written(es, n)
<1> DEFINE b == Reached(es, n)
           w == Written(es, n)
<1>0. Len(Source) \in Nat /\ Len(es) \in Nat
  BY EditsAssumption DEF Sheet, Apart
<1>1. b \in 0 .. Len(Source) /\ w \in Seq(Token)
  BY ReachedIs DEF Sheet
<1>2. ASSUME NEW j \in 1 .. Len(es)
      PROVE  /\ es[j].start \in Nat /\ es[j].end \in Nat
             /\ (es[j].start <= e /\ es[j].end <= e) \/ (n # Len(es) /\ b <= es[j].start)
  <2>1. es[j].start \in Nat /\ es[j].end \in Nat
    BY DEF Sheet, Apart
  <2>2. CASE j <= n
    <3>1. n \in 1 .. Len(es) /\ n # 0
      BY <1>0, <2>2
    <3>2. es[n].start <= e /\ es[n].end <= e /\ es[n].start \in Nat /\ es[n].end \in Nat
      BY <3>1 DEF Sheet, Apart
    <3>3. j < n => es[j].start < es[n].start /\ es[j].end <= es[n].start
      BY <3>1 DEF Sheet, Apart
    <3>4. j < n \/ j = n
      BY <1>0, <2>2
    <3>5. e \in Nat
      BY <1>0
    <3>6. CASE j = n
      BY <2>1, <3>2, <3>6
    <3>7. CASE j < n
      <4>1. es[j].start < es[n].start /\ es[j].end <= es[n].start /\ es[n].start <= e
        BY <3>2, <3>3, <3>7
      <4> QED BY <2>1, <3>2, <3>5, <4>1
    <3> QED BY <3>4, <3>6, <3>7
  <2>3. CASE ~ (j <= n)
    <3>1. n + 1 \in 1 .. Len(es) /\ n # Len(es) /\ (n + 1 < j \/ n + 1 = j)
      BY <1>0, <2>3
    <3>2. b = es[n + 1].start /\ es[n + 1].start \in Nat
      BY <3>1 DEF Reached, Sheet, Apart
    <3>3. n + 1 < j => es[n + 1].start < es[j].start
      BY <3>1 DEF Sheet, Apart
    <3> QED BY <2>1, <3>1, <3>2, <3>3
  <2> QED BY <2>2, <2>3
<1> HIDE DEF b, w
<1>3. b \in Nat /\ e \in Nat /\ e < b
  BY <1>0, <1>1 DEF b
<1>4. \A i \in e + 1 .. b : Kept(i) = <<Source[i]>>
  <2> SUFFICES ASSUME NEW i \in e + 1 .. b PROVE Kept(i) = <<Source[i]>>
    OBVIOUS
  <2>1. i \in 1 .. Len(Source) /\ e < i /\ i <= b
    BY <1>0, <1>1, <1>3
  <2>2. ASSUME NEW j \in 1 .. Len(es)
        PROVE  ~ (es[j].start < i /\ i <= es[j].end)
    BY <1>2, <1>3, <2>1
  <2> QED BY <2>1, <2>2, PlainKept
<1>5. \A i \in e + 1 .. b - 1 : PutAt(i) = <<>>
  <2> SUFFICES ASSUME NEW i \in e + 1 .. b - 1 PROVE PutAt(i) = <<>>
    OBVIOUS
  <2>1. e < i /\ i < b /\ i \in Nat
    BY <1>3
  <2>2. ASSUME NEW j \in 1 .. Len(es)
        PROVE  es[j].start # i
    BY <1>2, <1>3, <2>1
  <2> QED BY <2>2, NothingPut
<1>6. After(e) = SubSeq(Source, e + 1, b) \o WantedFrom[b]
  BY <1>1, <1>3, <1>4, <1>5, Stretch
<1>7. WantedFrom[b] = w
  <2>1. CASE n = Len(es)
    <3>1. b = Len(Source) /\ w = <<>>
      BY <2>1 DEF b, w, Reached, Written
    <3>2. \A j \in 1 .. Len(es) : es[j].start # Len(Source)
      BY <1>2, <1>3, <2>1, <3>1
    <3> QED BY <3>1, <3>2, EndWanted
  <2>2. CASE n # Len(es)
    BY <2>2 DEF b, w, Reached, Written
  <2> QED BY <2>1, <2>2
<1> QED BY <1>6, <1>7 DEF b, w

\* The text after edit k, before that edit is applied.
LEMMA RestIsFollowing ==
    ASSUME TypesOK, NEW es, Sheet(es), NEW k \in 1 .. Len(es)
    PROVE  /\ es[k].end \in 0 .. Reached(es, k)
           /\ SubSeq(Source, es[k].end + 1, Reached(es, k)) \o Written(es, k) = Following(es[k])
<1> DEFINE s == es[k].start
           e == es[k].end
           b == Reached(es, k)
           w == Written(es, k)
<1>0. Len(Source) \in Nat /\ Len(es) \in Nat
  BY EditsAssumption DEF Sheet, Apart
<1>1. s \in Nat /\ e \in Nat /\ s <= e /\ e <= Len(Source)
  BY DEF Sheet, Apart
<1>2. b \in 0 .. Len(Source) /\ w \in Seq(Token)
  <2>1. k \in 0 .. Len(es)
    BY <1>0
  <2> QED BY <2>1, ReachedIs DEF Sheet
<1>3. e <= b
  <2>1. CASE k = Len(es)
    BY <1>1, <2>1 DEF Reached
  <2>2. CASE k # Len(es)
    <3>1. k + 1 \in 1 .. Len(es) /\ k < k + 1
      BY <1>0, <2>2
    <3>2. es[k].end <= es[k + 1].start
      BY <3>1 DEF Sheet, Apart
    <3> QED BY <2>2, <3>2 DEF Reached
  <2> QED BY <2>1, <2>2
<1> DEFINE f == Following(es[k])
           v == WantedFrom[e]
<1>4. (s = e => f = After(e)) /\ (s # e => f = v)
  BY DEF Following
<1>5. e \in 0 .. Len(Source)
  BY <1>0, <1>1
<1>6. v = PutAt(e) \o After(e) /\ After(e) \in Seq(Token)
  BY <1>5, WantedType
<1>7. ASSUME NEW j \in 1 .. Len(es), s < e, es[j].start = e
      PROVE  k # Len(es) /\ b = e
  <2>1. j \in Nat /\ k \in Nat /\ es[j].start \in Nat
    BY DEF Sheet, Apart
  <2>2. j < k => es[j].start < s
    BY DEF Sheet, Apart
  <2>3. k < j
    BY <1>1, <1>7, <2>1, <2>2
  <2>4. k + 1 \in 1 .. Len(es) /\ k # Len(es) /\ (k + 1 < j \/ k + 1 = j)
    BY <1>0, <2>3
  <2>5. b = es[k + 1].start /\ es[k + 1].start \in Nat
    BY <2>4 DEF Reached, Sheet, Apart
  <2>6. k + 1 < j => es[k + 1].start < es[j].start
    BY <2>4 DEF Sheet, Apart
  <2> QED BY <1>1, <1>3, <1>7, <2>1, <2>4, <2>5, <2>6
<1> HIDE DEF s, e, b, w, f, v
<1>8. ASSUME e < b
      PROVE  SubSeq(Source, e + 1, b) \o w = f
  <2>1. After(e) = SubSeq(Source, e + 1, b) \o w
    <3>1. k \in 0 .. Len(es) /\ s <= e /\ e <= e
      BY <1>0, <1>1
    <3>2. es[k].start <= e /\ es[k].end <= e
      BY <3>1 DEF s, e
    <3>3. e < Reached(es, k)
      BY <1>8 DEF b
    <3>4. After(e) = SubSeq(Source, e + 1, Reached(es, k)) \o Written(es, k)
      BY <1>5, <3>1, <3>2, <3>3, BetweenEdits
    <3> QED BY <3>4 DEF b, w
  <2>2. ASSUME s # e PROVE v = After(e)
    <3>1. s < e /\ b # e
      BY <1>1, <1>2, <1>8, <2>2
    <3>2. PutAt(e) = <<>>
      BY <1>7, <3>1, NothingPut
    <3> QED BY <1>6, <3>2, ConcatEmptySeq
  <2> QED BY <1>4, <2>1, <2>2
<1>9. ASSUME e = b
      PROVE  SubSeq(Source, e + 1, b) \o w = f
  <2>1. SubSeq(Source, e + 1, b) = <<>>
    <3>1. b < e + 1 /\ e + 1 \in Int /\ b \in Int
      BY <1>1, <1>9
    <3> QED BY <3>1, SubSeqEmpty
  <2>2. SubSeq(Source, e + 1, b) \o w = w
    BY <1>2, <2>1, ConcatEmptySeq
  <2>3. CASE k = Len(es)
    <3>1. e = Len(Source) /\ w = <<>>
      BY <1>9, <2>3 DEF Reached, Written, b, w
    <3>2. s = e => After(e) = <<>>
      BY <1>0, <3>1 DEF After
    <3>3. ASSUME s # e PROVE v = <<>>
      <4>1. s < e
        BY <1>1, <3>3
      <4>2. \A j \in 1 .. Len(es) : es[j].start # Len(Source)
        BY <1>7, <2>3, <3>1, <4>1
      <4>3. WantedFrom[Len(Source)] = <<>>
        BY <4>2, EndWanted
      <4> QED BY <3>1, <4>3 DEF v
    <3> QED BY <1>4, <2>2, <3>1, <3>2, <3>3
  <2>4. CASE k # Len(es)
    <3>1. k + 1 \in 1 .. Len(es) /\ k < k + 1
      BY <1>0, <2>4
    <3>2. b = es[k + 1].start /\ w = WantedFrom[es[k + 1].start]
      BY <2>4 DEF Reached, Written, b, w
    <3>3. s < es[k + 1].start
      BY <3>1 DEF Sheet, Apart, s
    <3>4. s # e
      BY <1>1, <1>9, <3>2, <3>3
    <3>5. w = v
      BY <1>9, <3>2 DEF v
    <3> QED BY <1>4, <2>2, <3>4, <3>5
  <2> QED BY <2>3, <2>4
<1>10. e \in 0 .. b /\ SubSeq(Source, e + 1, b) \o w = f
  <2>1. b \in Nat /\ (e < b \/ e = b)
    BY <1>0, <1>1, <1>2, <1>3
  <2>2. e \in 0 .. b
    BY <1>1, <1>3, <2>1
  <2> QED BY <1>8, <1>9, <2>1, <2>2
<1> QED BY <1>10 DEF e, b, w, f

\* One edit applied: the text is as wanted from where that edit starts.
LEMMA AppliedIs ==
    ASSUME TypesOK, NEW es, Sheet(es), NEW k \in 1 .. Len(es), NEW text,
           text = SubSeq(Source, 1, Reached(es, k)) \o Written(es, k)
    PROVE  Replaced(text, es[k]) = SubSeq(Source, 1, es[k].start) \o WantedFrom[es[k].start]
<1> DEFINE s == es[k].start
           e == es[k].end
           b == Reached(es, k)
           w == Written(es, k)
           put == es[k].text
           f == Following(es[k])
           head == SubSeq(Source, 1, s)
<1>1. s \in Nat /\ e \in Nat /\ s <= e /\ Len(Source) \in Nat /\ Len(es) \in Nat
  BY EditsAssumption DEF Sheet, Apart
<1>2. b \in 0 .. Len(Source) /\ w \in Seq(Token)
  <2>1. k \in 0 .. Len(es)
    BY <1>1
  <2> QED BY <2>1, ReachedIs DEF Sheet
<1>3. e \in 0 .. b /\ SubSeq(Source, e + 1, b) \o w = f
  BY RestIsFollowing
<1>4. put \in Seq(Token) /\ f \in Seq(Token) /\ WantedFrom[s] = put \o f
  BY EditWrites
<1>5. Replaced(text, es[k]) = (SubSeq(text, 1, s) \o put) \o SubSeq(text, e + 1, Len(text))
  BY DEF Replaced
<1>6. text = SubSeq(Source, 1, b) \o w
  OBVIOUS
<1> HIDE DEF s, e, b, w, put, f
<1>7. s \in 0 .. b
  <2>1. b \in Nat /\ e \in Nat /\ e <= b /\ s <= e /\ s \in Nat
    BY <1>1, <1>2, <1>3
  <2> QED BY <2>1
<1>8. SubSeq(text, 1, s) = head
  BY <1>2, <1>7, <1>6, RestOf
<1>9. SubSeq(text, e + 1, Len(text)) = f
  BY <1>2, <1>3, <1>6, RestOf
<1>10. head \in Seq(Token)
  <2>1. 1 \in 1 .. Len(Source) + 1 /\ s \in 1 - 1 .. Len(Source)
    BY <1>1, <1>2, <1>7
  <2> QED BY <2>1, PartType
<1> HIDE DEF head
<1>11. (head \o put) \o f = head \o (put \o f)
  BY <1>4, <1>10, Assoc
<1>12. Replaced(text, es[k]) = head \o WantedFrom[s]
  BY <1>4, <1>5, <1>8, <1>9, <1>11
<1> QED BY <1>12 DEF head, s

\* All edits applied: the text is as wanted.
LEMMA AllApplied ==
    ASSUME TypesOK, NEW es, Sheet(es)
    PROVE  SubSeq(Source, 1, Reached(es, 0)) \o Written(es, 0) = Wanted
<1> DEFINE b == Reached(es, 0)
           w == Written(es, 0)
<1>0. Len(Source) \in Nat /\ Len(es) \in Nat
  BY EditsAssumption DEF Sheet, Apart
<1>1. 0 \in 0 .. Len(es) /\ 0 \in 0 .. Len(Source)
  BY <1>0
<1>2. b \in 0 .. Len(Source) /\ w \in Seq(Token)
  BY <1>1, ReachedIs DEF Sheet
<1>3. WantedFrom[0] = PutAt(0) \o After(0) /\ After(0) \in Seq(Token)
  BY <1>1, WantedType
<1>4. CASE b = 0
  <2>1. SubSeq(Source, 1, 0) = <<>>
    <3>1. 0 < 1 /\ 1 \in Int /\ 0 \in Int
      OBVIOUS
    <3> QED BY <3>1, SubSeqEmpty
  <2>2. <<>> \o w = w
    BY <1>2, ConcatEmptySeq
  <2>3. w = WantedFrom[0]
    <3>1. CASE 0 = Len(es)
      <4>1. Len(Source) = 0 /\ w = <<>>
        BY <1>4, <3>1 DEF Reached, Written
      <4>2. \A j \in 1 .. Len(es) : es[j].start # Len(Source)
        BY <3>1
      <4>3. WantedFrom[Len(Source)] = <<>>
        BY <4>2, EndWanted
      <4> QED BY <4>1, <4>3
    <3>2. CASE 0 # Len(es)
      BY <1>4, <3>2 DEF Reached, Written
    <3> QED BY <3>1, <3>2
  <2>4. SubSeq(Source, 1, b) \o w = WantedFrom[0]
    BY <1>4, <2>1, <2>2, <2>3
  <2> QED BY <2>4 DEF Wanted
<1>5. CASE b # 0
  <2>1. 0 < b
    BY <1>0, <1>2, <1>5
  <2>2. After(0) = SubSeq(Source, 0 + 1, b) \o w
    BY <1>1, <2>1, BetweenEdits
  <2>3. ASSUME NEW j \in 1 .. Len(es) PROVE es[j].start # 0
    <3>1. 1 \in 1 .. Len(es) /\ (1 < j \/ 1 = j) /\ 0 # Len(es)
      BY <1>0
    <3>2. b = es[1].start /\ es[1].start \in Nat /\ es[j].start \in Nat
      BY <3>1 DEF Reached, Sheet, Apart
    <3>3. 1 < j => es[1].start < es[j].start
      BY <3>1 DEF Sheet, Apart
    <3> QED BY <2>1, <3>1, <3>2, <3>3
  <2>4. PutAt(0) = <<>>
    BY <2>3, NothingPut
  <2>5. WantedFrom[0] = After(0)
    BY <1>3, <2>4, ConcatEmptySeq
  <2>6. 0 + 1 = 1
    OBVIOUS
  <2> HIDE DEF b, w
  <2>7. SubSeq(Source, 1, b) \o w = WantedFrom[0]
    BY <2>2, <2>5, <2>6
  <2> QED BY <2>7 DEF Wanted, b, w
<1> QED BY <1>4, <1>5

-----------------------------------------------------------------------------
\* What is asked for and wanted is read off the repairs alone.
LEMMA SameFixes ==
    ASSUME fixes' = fixes
    PROVE  /\ Tags' = Tags /\ Swaps' = Swaps /\ Spans' = Spans
           /\ \A a : TagsFor(a)' = TagsFor(a)
           /\ Clash' = Clash /\ Documented' = Documented
<1>1. Tags' = Tags
  BY DEF Tags
<1>2. Swaps' = Swaps
  BY DEF Swaps
<1>3. Spans' = Spans
  BY <1>1, <1>2 DEF Spans
<1>4. \A a : Asking(a)' = Asking(a)
  BY DEF Asking
<1>5. \A a : TagsFor(a)' = TagsFor(a)
  BY <1>4 DEF TagsFor
<1>6. Clash' = Clash
  BY <1>1, <1>2, <1>3 DEF Clash
<1>7. Documented' = Documented
  BY <1>1 DEF Documented
<1> QED BY <1>1, <1>2, <1>3, <1>5, <1>6, <1>7

LEMMA SameWanted ==
    ASSUME fixes' = fixes
    PROVE  Wanted' = Wanted /\ WantedFrom' = WantedFrom
<1>1. \A p : PutAt(p)' = PutAt(p)
  <2> SUFFICES ASSUME NEW p PROVE PutAt(p)' = PutAt(p)
    OBVIOUS
  <2>1. Putting(p)' = Putting(p)
    BY SameFixes DEF Putting
  <2>2. PutAt(p) = IF Putting(p) = {} THEN <<>> ELSE CHOOSE t \in Putting(p) : TRUE
    BY DEF PutAt, Putting
  <2>3. PutAt(p)' = IF Putting(p)' = {} THEN <<>> ELSE CHOOSE t \in Putting(p)' : TRUE
    BY DEF PutAt, Putting
  <2> QED BY <2>1, <2>2, <2>3
<1>2. \A p : PutInDoc(p)' = PutInDoc(p)
  BY SameFixes DEF PutInDoc
<1>3. \A p : Kept(p)' = Kept(p)
  BY <1>2, SameFixes DEF Kept
<1>4. WantedFrom' = WantedFrom
  BY <1>1, <1>3 DEF WantedFrom
<1> QED BY <1>4 DEF Wanted

\* The text between two edits: the analyzed one up to the last edit applied,
\* and as wanted from there on.
TextSoFar ==
    /\ pc = "group" => out = Source
    /\ pc = "apply" =>
         /\ Sheet(edits)
         /\ next \in 0 .. Len(edits)
         /\ out = SubSeq(Source, 1, Reached(edits, next)) \o Written(edits, next)
    /\ WritesWanted

LEMMA SheetStays ==
    ASSUME fixes' = fixes, NEW es, edits' = es, Sheet(es)
    PROVE  Sheet(edits)'
<1>1. Asked(edits)'
  <2>1. Asked(es)
    BY DEF Sheet
  <2>2. \A e, t : TagAt(e, t)' <=> TagAt(e, t)
    BY SameFixes DEF TagAt
  <2> QED BY <2>1, <2>2, SameFixes DEF Asked, SwapAt
<1>2. Apart(edits)'
  BY DEF Sheet, Apart
<1> QED BY <1>1, <1>2, SameFixes DEF Sheet

LEMMA TextStep ==
    ASSUME GatherInv, MembersHold, TextSoFar, [Next]_vars
    PROVE  TextSoFar'
<1> USE DEF GatherInv
<1>1. CASE Group
  BY <1>1 DEF Group, TextSoFar, WritesWanted
<1>2. CASE MakeEdits
  <2>1. CASE pc' = "refused"
    BY <2>1 DEF TextSoFar, WritesWanted
  <2>2. CASE Usable /\ ~Conflict(SortedByStart(Made))
    <3> DEFINE es == SortedByStart(Made)
    <3>1. Seen = Len(fixes) /\ pc = "group"
      <4>1. Len(fixes) \in Nat
        BY DEF TypesOK
      <4> QED BY <1>2, <4>1 DEF MakeEdits, Seen
    <3>2. edits' = es /\ next' = Len(Made) /\ pc' = "apply" /\ out' = out /\ fixes' = fixes
      BY <1>2, <2>2 DEF MakeEdits
    <3>3. Apart(es) /\ Asked(es)
      BY <2>2, <3>1, SortedApart
    <3>4. Documented
      BY <2>2, <3>1, TagsDocumented
    <3>5. ~Clash
      BY <2>2, <3>1, RefusalIsClash
    <3>6. Sheet(es)
      BY <3>3, <3>4, <3>5 DEF Sheet
    <3>7. Sheet(edits)'
      BY <3>2, <3>6, SheetStays
    <3>8. Len(es) = Len(Made) /\ Len(es) \in Nat
      BY <3>1, MadeIs, Sorts
    <3>9. next' \in 0 .. Len(edits')
      BY <3>2, <3>8
    <3>10. out' = SubSeq(Source, 1, Reached(es, Len(es))) \o Written(es, Len(es))
      <4>1. Reached(es, Len(es)) = Len(Source) /\ Written(es, Len(es)) = <<>>
        BY DEF Reached, Written
      <4>2. Source \in Seq(Token) /\ SubSeq(Source, 1, Len(Source)) = Source
        BY EditsAssumption, SubSeqFull
      <4>3. Source \o <<>> = Source
        BY <4>2, ConcatEmptySeq
      <4>4. out' = Source
        BY <3>1, <3>2 DEF TextSoFar
      <4> QED BY <4>1, <4>2, <4>3, <4>4
    <3>11. out' = SubSeq(Source, 1, Reached(edits, next)') \o Written(edits, next)'
      BY <3>2, <3>8, <3>10 DEF Reached, Written
    <3> QED BY <3>2, <3>7, <3>9, <3>11 DEF TextSoFar, WritesWanted
  <2> QED BY <1>2, <2>1, <2>2 DEF MakeEdits
<1>3. CASE Apply
  <2>1. /\ pc = "apply" /\ pc' = "apply" /\ next > 0 /\ next' = next - 1
        /\ out' = Replaced(out, edits[next]) /\ UNCHANGED <<fixes, edits>>
    BY <1>3 DEF Apply, Turn
  <2>2. /\ Sheet(edits) /\ next \in 0 .. Len(edits)
        /\ out = SubSeq(Source, 1, Reached(edits, next)) \o Written(edits, next)
    BY <2>1 DEF TextSoFar
  <2>3. Len(edits) \in Nat
    BY <2>2 DEF Sheet, Apart
  <2>4. next \in 1 .. Len(edits) /\ next' \in 0 .. Len(edits) /\ next' # Len(edits)
        /\ next' + 1 = next
    BY <2>1, <2>2, <2>3
  <2>5. out' = SubSeq(Source, 1, edits[next].start) \o WantedFrom[edits[next].start]
    BY <2>1, <2>2, <2>4, AppliedIs
  <2>6. Sheet(edits)'
    BY <2>1, <2>2, SheetStays
  <2>7. Reached(edits, next)' = edits[next].start
    BY <2>1, <2>4 DEF Reached
  <2>8. Written(edits, next)' = WantedFrom[edits[next].start]
    <3>1. WantedFrom' = WantedFrom
      BY <2>1, SameWanted
    <3>2. Written(edits, next)' = WantedFrom'[edits'[next' + 1].start]
      BY <2>1, <2>4 DEF Written
    <3> QED BY <2>1, <2>4, <3>1, <3>2
  <2> QED BY <2>1, <2>4, <2>5, <2>6, <2>7, <2>8 DEF TextSoFar, WritesWanted
<1>4. CASE Done
  <2>1. pc = "apply" /\ next = 0 /\ pc' = "done" /\ UNCHANGED <<fixes, edits, out>>
    BY <1>4 DEF Done
  <2>2. Sheet(edits) /\ out = SubSeq(Source, 1, Reached(edits, 0)) \o Written(edits, 0)
    BY <2>1 DEF TextSoFar
  <2>3. out' = Wanted
    BY <2>1, <2>2, AllApplied
  <2>4. Wanted' = Wanted
    BY <2>1, SameWanted
  <2> QED BY <2>1, <2>3, <2>4 DEF TextSoFar, WritesWanted
<1>5. CASE UNCHANGED vars
  <2>1. UNCHANGED <<fixes, next, edits, out, pc>>
    BY <1>5 DEF vars
  <2>2. Wanted' = Wanted /\ WantedFrom' = WantedFrom
    BY <2>1, SameWanted
  <2>3. Sheet(edits) => Sheet(edits)'
    BY <2>1, SheetStays
  <2>4. Reached(edits, next)' = Reached(edits, next) /\ Written(edits, next)' = Written(edits, next)
    BY <2>1, <2>2 DEF Reached, Written
  <2> QED BY <2>1, <2>2, <2>3, <2>4 DEF TextSoFar, WritesWanted
<1> QED BY <1>1, <1>2, <1>3, <1>4, <1>5 DEF Next

\* The text that is written holds every repair in its place and is the analyzed
\* one elsewhere (apply_to_source applies the edits from the last to the first,
\* each at the place it was computed for).
THEOREM WritesWhatIsWanted == Spec => []WritesWanted
<1>1. Init => GatherInv /\ MembersHold /\ TextSoFar
  BY GatherInit DEF Init, MembersHold, TextSoFar, WritesWanted
<1>2. GatherInv /\ MembersHold /\ TextSoFar /\ [Next]_vars
      => (GatherInv /\ MembersHold /\ TextSoFar)'
  BY GatherStep, MembersStep, TextStep
<1>3. TextSoFar => WritesWanted
  BY DEF TextSoFar
<1> QED BY <1>1, <1>2, <1>3, PTL DEF Spec
=============================================================================
