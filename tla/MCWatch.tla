------------------------------- MODULE MCWatch -------------------------------
(***************************************************************************)
(* A project of two source files and a stub.  Configuration "c2" selects   *)
(* both files, "c1" excludes fB.  Both name the baseline, which has to be   *)
(* there; its text "b2" ignores other findings than "b1" does.             *)
(***************************************************************************)
EXTENDS WatchScope

CONSTANTS fA, fB, stub, config, baseline, dir, none

MCFile == {fA, fB}
MCStub == {stub}
MCText == {"", "t1", "t2", "c1", "c2", "b1", "b2"}
MCSetting == {"s1", "s2", "s1b", "s2b"}
MCTexts == [p \in Path |-> CASE p = fA -> {"t1", "t2"}
                             [] p = fB -> {"t1"}
                             [] p = stub -> {"t1"}
                             [] p = config -> {"c1", "c2"}
                             [] OTHER -> {"b1", "b2"}]
\* A missing baseline is an error.
MCLoads == [c \in Text \cup {none} |-> [b \in Text \cup {none} |->
               CASE c = "c1" /\ b = "b1" -> "s1"
                 [] c = "c1" /\ b = "b2" -> "s1b"
                 [] c = "c2" /\ b = "b1" -> "s2"
                 [] c = "c2" /\ b = "b2" -> "s2b"
                 [] OTHER -> none]]
MCHasBaseline == Setting
MCSelected == [s \in Setting |-> IF s \in {"s1", "s1b"} THEN {fA} ELSE {fA, fB}]
MCMatched == MCSelected
MCAux == [s \in Setting |-> {stub}]
MCWatched == Path
=============================================================================
