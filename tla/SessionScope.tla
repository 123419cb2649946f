---------------------------- MODULE SessionScope ----------------------------
(***************************************************************************)
(* The projects for which the session's invalidation is claimed to be      *)
(* exact.  Each assumption names a channel from one file to another that   *)
(* does not end in a recorded lookup; MCSessionGaps shows that without it  *)
(* the session and the batch engine disagree.                              *)
(***************************************************************************)
EXTENDS Session

\* What finalizing the indexes reads to rewrite a reflection (the classes it
\* imports type aliases from, the names of configured aliases it mentions) is
\* also looked up by whoever uses that reflection.
ASSUME ResolvedIsReached ==
    \A s \in Surface, i \in Input :
        Imports[s] \cup (Mentions[s] \cap TypeAlias[i]) \subseteq Reaches[s]

\* A file that some settings analyze and others only scan declares no builtin.
ASSUME BuiltinsKeepTheirFlag ==
    \A p \in Path, d \in Discovery, e \in Discovery :
        Role[d][p] = "analyze" /\ Role[e][p] = "scan" =>
            \A c \in Versions[p] \cup {Empty}, i \in Input, k \in Symbol :
                Builtin[i][k] # None => k \notin IndexNames(c)
=============================================================================
