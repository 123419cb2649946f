----------------------------- MODULE MCSuppress -----------------------------
(***************************************************************************)
(* Every source of one line whose marker is followed by up to five tokens, *)
(* and of two lines whose markers may apply to the same one; and three     *)
(* files, one of them at the root with a name that another one has in a    *)
(* directory, up to three findings and two entries of every kind.          *)
(***************************************************************************)
EXTENDS Suppress

CONSTANTS none, parseError

MCId == {"i", "j"}

Root == <<"m">>
Sub  == <<"s", "m">>
Sib  == <<"s", "n">>

K(path, message, id) == [path |-> path, message |-> message, id |-> id]
MCKeys == <<K(Root, "broken", parseError), K(Root, "x", "i"), K(Root, "y", none),
            K(Sub, "x", "i"),  K(Sub, "y", none),
            K(Sib, "x", "i"),  K(Sib, "y", none)>>

Marks(prefix, form, trailing, rest) ==
    [prefix |-> prefix, form |-> form, trailing |-> trailing, rest |-> rest]

Long  == UNION {[1..k -> {"i", ",", "(", ")", "other"}] : k \in 0..5}
Short == {<<>>, <<"i">>, <<"j">>, <<"i", ",">>, <<"i", ",", "j">>, <<"i", "(", "j", ")">>}

MCSources ==
    {<<Marks(p, "", TRUE, r)>> : p \in {"phpstan", "phpxray"}, r \in Long}
    \cup [1..2 -> {Marks(p, f, t, r) : p \in {"none", "phpstan", "phpxray"},
                      f \in {"", "-line", "-next-line"}, t \in BOOLEAN, r \in Short}]

\* A marker for line 2, and malformed ones.
Plain  == Marks("none", "", TRUE, <<>>)
Ignore == Marks("phpstan", "", FALSE, <<"i">>)
Bad    == Marks("phpstan", "", TRUE, <<"i", ",">>)
SomeSources == {<<Plain, Plain>>, <<Ignore, Bad>>}

Found == {k \in DOMAIN MCKeys : MCKeys[k].id # parseError}
Before(k, l) == k < l /\ MCKeys[k].path # MCKeys[l].path

\* The files are analyzed in the order of their paths, and lines grow.
Keyed == {f \in UNION {[1..m -> Found] : m \in 0..3} :
            \A p, q \in DOMAIN f : p < q => ~Before(f[q], f[p])}
MCFindings == {[p \in DOMAIN f |-> [key |-> f[p], line |-> p]] : f \in Keyed}

P(segments) == [glob |-> FALSE, segments |-> segments]
G(segments) == [glob |-> TRUE, segments |-> segments]
E(messages, names, paths, count) ==
    [messages |-> messages, raw |-> {}, ids |-> names, paths |-> paths, count |-> count,
     report |-> none]

MCEntry == {E({"x", "y"}, {}, {}, 1), E({}, {"i"}, {P(<<"s">>)}, none),
            E({"x"}, {}, {P(<<"m">>)}, 2), E({}, {}, {P(Sub), P(Sib)}, 1),
            E({}, {}, {G(<<"*", "m">>)}, none),
            [E({}, {}, {P(Sib)}, 0) EXCEPT !.raw = {"y"}, !.report = FALSE]}
MCEntries == UNION {[1..m -> MCEntry] : m \in 0..2}

I(entrylists, findinglists, sources) ==
    {[entries |-> e, findings |-> f, source |-> s] :
        e \in entrylists, f \in findinglists, s \in sources}

NoEntries == {<<>>}
MCInputs  == I(NoEntries, {<<>>}, MCSources) \cup I(NoEntries, MCFindings, {<<Bad, Bad>>})
                \cup I(MCEntries, MCFindings, SomeSources)

\* A finding that another file's analysis reports too early.
MCGaps == I(NoEntries, {<<[key |-> 4, line |-> 1], [key |-> 2, line |-> 1]>>},
            {<<Plain, Plain>>})

ASSUME InOrder \/ Inputs = MCGaps
=============================================================================
