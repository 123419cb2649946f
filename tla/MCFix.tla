-------------------------------- MODULE MCFix --------------------------------
(***************************************************************************)
(* Two files: repairing the second gives the first one another repair, and *)
(* so on, so that the rounds may be exhausted; editors save at any time.   *)
(***************************************************************************)
EXTENDS Fix

CONSTANTS one, two, three, torn, mixed, none

MCBase   == {"a", "b", "latin"}
MCRepair == {one, two, three}
MCLossy  == {"latin"}
MCOffers == [b \in MCBase |->
    CASE b = "a" -> {one, three} [] b = "b" -> {one, two} [] OTHER -> {one}]
MCNeeds == [r \in MCRepair |->
    CASE r = one -> {} [] r = two -> {one} [] OTHER -> {two}]
\* Beside another file the first repair of b overlaps with the second.
MCClashes == [b \in MCBase |-> IF b = "b" THEN {{one, two}} ELSE {}]

=============================================================================
