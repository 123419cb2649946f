---------------------------- MODULE MCResultCache ----------------------------
(***************************************************************************)
(* Three runs on one project, and a cache of one entry.  The project's     *)
(* states "p1" and "p2" differ in their number of files, and are given     *)
(* the same digests: only the echo tells their entries apart.  Baseline    *)
(* "b2" ignores more than "b1"; "bad" does not load.                       *)
(***************************************************************************)
EXTENDS ResultCacheScope

CONSTANTS r1, r2, r3, none, torn

MCIgnore == {"b1", "b2"}
MCInputsOf == [c \in ConfigText |-> "i"]
MCMerged == [c \in ConfigText |-> [b \in BaselineText |->
               IF b = "bad" THEN none ELSE b]]
MCIgnoreKey == [i \in Ignore |-> i]
MCHash == [f \in Fields |-> <<f[3], f[4]>>]
MCDigest == {<<f[3], f[4]>> : f \in Fields}
MCLevel == [i \in Inputs |-> 8]
MCCount == [p \in Project |-> IF p = "p1" THEN 1 ELSE 2]
RunSymmetry == Permutations(Run)
=============================================================================
