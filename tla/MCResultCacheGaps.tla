-------------------------- MODULE MCResultCacheGaps --------------------------
(***************************************************************************)
(* Two ignore lists that differ in a field that is not hashed (messages,   *)
(* rawMessage, rawMessages, identifiers or reportUnmatched), given by two  *)
(* configurations that name no baseline.                                   *)
(***************************************************************************)
EXTENDS ResultCache

CONSTANTS r1, r2, r3, none, torn

MCIgnore == {"m1", "m2"}
MCInputsOf == [c \in ConfigText |-> "i"]
MCHash == [f \in Fields |-> <<f[3], f[4]>>]
MCDigest == {<<f[3], f[4]>> : f \in Fields}
MCLevel == [i \in Inputs |-> 8]
MCCount == [p \in Project |-> IF p = "p1" THEN 1 ELSE 2]
RunSymmetry == Permutations(Run)
MCMergedOwn == [c \in ConfigText |-> [b \in BaselineText |->
                  IF c = "c1" THEN "m1" ELSE "m2"]]
MCIgnoreKeyPart == [i \in Ignore |-> "unhashed"]
=============================================================================
