------------------------------ MODULE FixEdits ------------------------------
(***************************************************************************)
(* apply_to_source (fix.rs): the repairs of one file become edits of its   *)
(* analyzed text, which are applied from the last to the first, or the     *)
(* file is left alone.                                                     *)
(*                                                                         *)
(* A text is a sequence of tokens; a span s..e covers the tokens s + 1 to  *)
(* e.  The framing of a docblock (slashes, stars, indentation, line ends)  *)
(* is left out: what counts is which tags it holds, and in which order.    *)
(***************************************************************************)
EXTENDS Naturals, FiniteSets, SequencesExt

CONSTANTS
    Token,          \* what a text is made of
    Source,         \* the analyzed text
    Fixes,          \* the repairs a report may carry for it
    Docblocks,      \* the spans <<s, e>> of its docblocks
    MaxFixes        \* bound: repairs of one report

\* Where a tag goes: <<"new", n, n>> or <<"existing", s, e>>.
FixAnchor ==
    {a \in {"new", "existing"} \X Nat \X Nat :
        a[1] = "new" => a[2] = a[3] /\ a[2] <= Len(Source)}

DocTagFix ==
    [type : {"tag"}, anchor : FixAnchor, kind : {"param", "return", "var"}, tag : Token]

ReplaceFix == [type : {"replace"}, start : Nat, end : Nat, text : Seq(Token)]

ASSUME EditsAssumption ==
    /\ Source \in Seq(Token)
    /\ Fixes \subseteq ReplaceFix \cup DocTagFix
    /\ \A d \in Docblocks : d[1] \in Nat /\ d[2] \in Nat /\ d[1] < d[2] /\ d[2] <= Len(Source)
    /\ MaxFixes \in Nat

VARIABLES
    fixes,      \* the repairs, in the order of the findings
    next,       \* the repair, or the edit, that is looked at
    groups,     \* the tags by anchor: <<[anchor, members]>>
    replaces,   \* the replacements
    edits,      \* <<[start, end, text]>>
    out,        \* the text as rewritten so far
    pc

vars == <<fixes, next, groups, replaces, edits, out, pc>>

Init ==
    /\ fixes \in UNION {[1..n -> Fixes] : n \in 1..MaxFixes}
    /\ next = 1
    /\ groups = <<>>
    /\ replaces = <<>>
    /\ edits = <<>>
    /\ out = Source
    /\ pc = "group"

-----------------------------------------------------------------------------
\* A tag joins the group of its anchor, or starts one.
Grouped(fix) ==
    IF \E g \in DOMAIN groups : groups[g].anchor = fix.anchor
    THEN [g \in DOMAIN groups |->
            IF groups[g].anchor = fix.anchor
            THEN [groups[g] EXCEPT !.members = Append(@, fix)]
            ELSE groups[g]]
    ELSE Append(groups, [anchor |-> fix.anchor, members |-> <<fix>>])

Group ==
    /\ pc = "group"
    /\ next <= Len(fixes)
    /\ LET fix == fixes[next]
       IN IF fix.type = "tag"
          THEN groups' = Grouped(fix) /\ UNCHANGED replaces
          ELSE /\ replaces' = IF Contains(replaces, fix) THEN replaces
                                                         ELSE Append(replaces, fix)
               /\ UNCHANGED groups
    /\ next' = next + 1
    /\ UNCHANGED <<fixes, edits, out, pc>>

\* A span that source.get accepts.
InBounds(s, e) == s <= e /\ e <= Len(Source)

\* sort_by_key is stable: what comes up to i are the lesser keys and, of the
\* equal ones, those before it.
UpTo(keys, i) ==
    {j \in DOMAIN keys : keys[j] < keys[i] \/ (keys[j] = keys[i] /\ j <= i)}

SortByKey(s, keys) ==
    [k \in DOMAIN s |-> s[CHOOSE i \in DOMAIN s : Cardinality(UpTo(keys, i)) = k]]

KindOrder == [param |-> 1, return |-> 2, var |-> 3]
ByKind(members) == SortByKey(members, [i \in DOMAIN members |-> KindOrder[members[i].kind]])

\* The elements at some places, of the first i of a sequence.
Taken(s, places) ==
    LET taken[i \in 0 .. Len(s)] ==
            IF i = 0 THEN <<>>
            ELSE IF i \in places THEN Append(taken[i - 1], s[i])
                                 ELSE taken[i - 1]
    IN taken

\* dedup drops what equals its predecessor.
Dedup(tags) ==
    Taken(tags, {i \in DOMAIN tags : i = 1 \/ tags[i] # tags[i - 1]})[Len(tags)]

TagsOf(group) ==
    LET sorted == ByKind(group.members)
    IN Dedup([i \in DOMAIN sorted |-> sorted[i].tag])

\* insert_tags_into_doc: before the last token of the docblock.
InsertTags(s, e, tags) == SubSeq(Source, s + 1, e - 1) \o tags \o <<Source[e]>>

TagEdit(group) ==
    LET a == group.anchor
    IN [start |-> a[2], end |-> a[3],
        text |-> IF a[1] = "new" THEN TagsOf(group)
                                 ELSE InsertTags(a[2], a[3], TagsOf(group))]

\* Every replaced span is within the text, every extended one a docblock.
Usable ==
    /\ \A i \in DOMAIN replaces : InBounds(replaces[i].start, replaces[i].end)
    /\ \A i \in DOMAIN groups :
         groups[i].anchor[1] = "existing" =>
            <<groups[i].anchor[2], groups[i].anchor[3]>> \in Docblocks

SortedByStart(es) == SortByKey(es, [i \in DOMAIN es |-> es[i].start])

\* Faulty: a shared start is no conflict.
ConflictIfOverlap(es) ==
    \E i \in 1 .. Len(es) - 1 : es[i].end > es[i + 1].start

\* Two edits start at one place, or one reaches into the next.
Conflict(es) ==
    \E i \in 1 .. Len(es) - 1 :
        es[i].start = es[i + 1].start \/ es[i].end > es[i + 1].start

\* The replacements as edits, then the groups.
Made ==
    [i \in DOMAIN replaces |->
        [start |-> replaces[i].start, end |-> replaces[i].end, text |-> replaces[i].text]]
    \o [i \in DOMAIN groups |-> TagEdit(groups[i])]

MakeEdits ==
    /\ pc = "group"
    /\ next = Len(fixes) + 1
    /\ LET made == Made
       IN IF Usable /\ ~Conflict(SortedByStart(made))
          THEN /\ edits' = SortedByStart(made)
               /\ next' = Len(made)
               /\ pc' = "apply"
          ELSE pc' = "refused" /\ UNCHANGED <<edits, next>>
    /\ UNCHANGED <<fixes, groups, replaces, out>>

Replaced(text, edit) ==
    SubSeq(text, 1, edit.start) \o edit.text \o SubSeq(text, edit.end + 1, Len(text))

\* Faulty: from the first edit to the last.
TurnForward == edits[Len(edits) + 1 - next]

\* The edits are applied from the last to the first.
Turn == edits[next]

\* replace_range.
Apply ==
    /\ pc = "apply"
    /\ next > 0
    /\ out' = Replaced(out, Turn)
    /\ next' = next - 1
    /\ UNCHANGED <<fixes, groups, replaces, edits, pc>>

Done ==
    /\ pc = "apply"
    /\ next = 0
    /\ pc' = "done"
    /\ UNCHANGED <<fixes, next, groups, replaces, edits, out>>

Next == Group \/ MakeEdits \/ Apply \/ Done
Spec == Init /\ [][Next]_vars
-----------------------------------------------------------------------------
\* What the repairs ask for, each on its own.
Tags  == {fixes[i] : i \in {j \in DOMAIN fixes : fixes[j].type = "tag"}}
Swaps == {fixes[i] : i \in {j \in DOMAIN fixes : fixes[j].type = "replace"}}
Spans == {<<t.anchor[2], t.anchor[3]>> : t \in Tags} \cup {<<r.start, r.end>> : r \in Swaps}

Asking(anchor) == {i \in DOMAIN fixes : fixes[i].type = "tag" /\ fixes[i].anchor = anchor}
TagsFor(anchor) == TagsOf([members |-> Taken(fixes, Asking(anchor))[Len(fixes)]])

\* What is to be put in front of token p + 1 (or at the end).
PutAt(p) ==
    LET here == {r.text : r \in {s \in Swaps : s.start = p}}
                \cup {TagsFor(t.anchor) : t \in {u \in Tags : u.anchor = <<"new", p, p>>}}
    IN IF here = {} THEN <<>> ELSE CHOOSE t \in here : TRUE

\* The tags that go in front of token p, the last one of a docblock.
PutInDoc(p) ==
    LET docs == {t.anchor : t \in {u \in Tags : u.anchor[1] = "existing" /\ u.anchor[3] = p}}
    IN IF docs = {} THEN <<>> ELSE TagsFor(CHOOSE a \in docs : TRUE)

Kept(p) ==
    IF \E r \in Swaps : r.start < p /\ p <= r.end
    THEN <<>> ELSE PutInDoc(p) \o <<Source[p]>>

\* The text read from left to right, with every repair in its place: what is
\* wanted from position p on.
WantedFrom[p \in 0 .. Len(Source)] ==
    PutAt(p) \o IF p < Len(Source) THEN Kept(p + 1) \o WantedFrom[p + 1] ELSE <<>>

Wanted == WantedFrom[0]

\* "Replace a byte range of the analyzed source verbatim", "Several fixes
\* sharing an anchor merge into a single docblock": the text that is written is
\* the analyzed one with every repair in its place and nothing else changed,
\* although every edit moves what follows it and was computed before the others.
WritesWanted == pc = "done" => out = Wanted

\* The adjacent pairs of the sorted edits tell of all pairs: a text is written
\* exactly when no two repairs touch the same place and all are usable.
Clash ==
    \/ \E a, b \in Spans : a # b /\ (a[1] = b[1] \/ (a[1] < b[1] /\ b[1] < a[2]))
    \/ \E r, s \in Swaps : r # s /\ <<r.start, r.end>> = <<s.start, s.end>>
    \/ \E r \in Swaps, t \in Tags : <<r.start, r.end>> = <<t.anchor[2], t.anchor[3]>>
    \/ \E t, u \in Tags : t.anchor # u.anchor /\ t.anchor[2] = u.anchor[2]
    \/ \E r \in Swaps : ~InBounds(r.start, r.end)
    \/ \E t \in Tags : t.anchor[1] = "existing" /\ <<t.anchor[2], t.anchor[3]>> \notin Docblocks
RefusesClashes == (pc = "refused" => Clash) /\ (pc = "done" => ~Clash)
=============================================================================
