-------------------------- MODULE ResultCacheScope --------------------------
(***************************************************************************)
(* What the cache needs to serve no foreign report.  MCResultCacheGaps     *)
(* shows that the code does not provide it.                                *)
(***************************************************************************)
EXTENDS ResultCache

\* Runs with the same digest and the same echo analyze the same thing: all that
\* matters is hashed, and digests that collide differ in level, count or root.
ASSUME KeysSeparate ==
    \A p, q \in Project, i, j \in Inputs, g, h \in Ignore, a, b \in BaselineText :
        /\ Hash[<<p, i, IgnoreKey[g], a>>] = Hash[<<q, j, IgnoreKey[h], b>>]
        /\ Level[i] = Level[j]
        /\ Count[p] = Count[q]
        => p = q /\ i = j /\ g = h
=============================================================================
